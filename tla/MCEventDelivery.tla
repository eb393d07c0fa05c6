---------------------------- MODULE MCEventDelivery ----------------------------
(***************************************************************************)
(* EventDelivery for TLC; every constant gets its value in the cfg.        *)
(***************************************************************************)
EXTENDS EventDelivery
=============================================================================
