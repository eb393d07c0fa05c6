----------------------------- MODULE MCRelayBroker -----------------------------
(* RelayBroker on a small fleet. *)
EXTENDS RelayBroker, TLC

\* Connections are interchangeable: none is named by the specification.
ConnSymmetry == Permutations(Conns)
=============================================================================
