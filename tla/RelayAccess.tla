------------------------------ MODULE RelayAccess ------------------------------
(* Who may connect to the relay: registration and login of a phone by passkey, *)
(* enrollment of a device with a one-time token, and the authentication of     *)
(* either.  What a connection may do afterwards is RelayBroker's subject.      *)
(*                                                                             *)
(* A device is named by the call that enrolled it, a phone by the call that    *)
(* minted its session.  Signatures, secrets and random ids are not modelled: a *)
(* verification succeeds or fails.  All of it is in memory and gone after a    *)
(* restart, but for the key of the enrollment CA.                              *)
EXTENDS HostState

CONSTANTS MaxAccessCalls, EnrollTokens, MaxRelayRestarts,
    DevMode         \* tokens are minted for anyone

AccessCalls == 1 .. MaxAccessCalls
Ceremonies == {"register", "login"}
Devices == {"devhost", "laptop-proxy"}

ASSUME RelayAccessAssumption ==
    MaxAccessCalls \in Nat /\ MaxRelayRestarts \in Nat /\ DevMode \in BOOLEAN /\ None \notin Nat

VARIABLES
    passkeys,       \* ceremonies that left a passkey
    inFlight,       \* ceremonies whose challenge is kept
    aged,           \* ceremonies begun longer ago than their time to live
    tokens, tokenClass,
    enrolled,       \* devices on record
    revoked,        \* devices barred
    phoneSessions,  \* phones with a session: live or expired
    online,         \* calls being served as authenticated connections
    accessAt, accessKind, presented,        \* of a call: step, kind, what it shows
    forgotten,      \* calls begun before the relay restarted
    relayRestarts

ceremonyVars == <<passkeys, inFlight, aged, phoneSessions>>
enrollVars == <<tokens, tokenClass, enrolled, revoked>>
accessCallVars == <<accessAt, accessKind, presented, forgotten>>
accessVars == <<ceremonyVars, enrollVars, accessCallVars, online, relayRestarts>>

AccessInit ==
    /\ passkeys = {} /\ inFlight = {} /\ aged = {}
    /\ tokens = [t \in EnrollTokens |-> "none"] /\ tokenClass = [t \in EnrollTokens |-> None]
    /\ enrolled = {} /\ revoked = {} /\ phoneSessions = <<>> /\ online = {}
    /\ accessAt = [c \in AccessCalls |-> "idle"]
    /\ accessKind = [c \in AccessCalls |-> None] /\ presented = [c \in AccessCalls |-> None]
    /\ forgotten = {} /\ relayRestarts = 0

Stands(c, label) == accessAt[c] = label /\ c \notin forgotten
StepTo(c, label) == accessAt' = [accessAt EXCEPT ![c] = label]
Begins(c, kindOf, shows) ==
    /\ Arrives(c, accessAt)
    /\ accessKind' = [accessKind EXCEPT ![c] = kindOf]
    /\ presented' = [presented EXCEPT ![c] = shows]
Unpruned == inFlight \ aged

-------------------------------------------------------------------------------
(* Ceremonies.  Each start and finish drops the challenges that are too old.   *)

\* One slot for the challenge, whosever it is.
StartInOneSlot(c) ==
    /\ \/ Begins(c, "register", None)
       \/ passkeys # {} /\ Begins(c, "login", None)
    /\ inFlight' = {c}
    /\ StepTo(c, "ceremony")
    /\ UNCHANGED <<passkeys, aged, phoneSessions, enrollVars, forgotten, online, relayRestarts>>

StartCeremony(c) ==
    /\ \/ Begins(c, "register", None)
       \/ passkeys # {} /\ Begins(c, "login", None)
    /\ inFlight' = Unpruned \cup {c}
    /\ StepTo(c, "ceremony")
    /\ UNCHANGED <<passkeys, aged, phoneSessions, enrollVars, forgotten, online, relayRestarts>>

\* A wrong bootstrap secret, or nothing to log in with.
StartRefused(c) ==
    /\ \/ Begins(c, "register", None)
       \/ passkeys = {} /\ Begins(c, "login", None)
    /\ StepTo(c, "refused")
    /\ UNCHANGED <<ceremonyVars, enrollVars, forgotten, online, relayRestarts>>

CeremonyAges(c) ==
    /\ Stands(c, "ceremony") /\ c \notin aged
    /\ aged' = aged \cup {c}
    /\ UNCHANGED <<passkeys, inFlight, phoneSessions, enrollVars, accessCallVars, online, relayRestarts>>

\* The challenge is spent whether or not the answer to it verifies.
FinishCeremony(c) ==
    /\ accessAt[c] = "ceremony"
    /\ inFlight' = Unpruned \ {c}
    /\ IF c \in Unpruned THEN \E label \in {"verified", "refused"} : StepTo(c, label)
       ELSE StepTo(c, "unknown")
    /\ UNCHANGED <<passkeys, aged, phoneSessions, enrollVars, accessKind, presented, forgotten, online, relayRestarts>>

\* A login leaves the passkeys as they are but for their signature counters.
StorePasskey(c) ==
    /\ Stands(c, "verified")
    /\ passkeys' = IF accessKind[c] = "register" THEN passkeys \cup {c} ELSE passkeys
    /\ StepTo(c, "stored")
    /\ UNCHANGED <<inFlight, aged, phoneSessions, enrollVars, accessKind, presented, forgotten, online, relayRestarts>>

\* Every registration and every login makes a phone of its own.
MintSession(c) ==
    /\ Stands(c, "stored")
    /\ phoneSessions' = Put(phoneSessions, c, "live")
    /\ StepTo(c, "done")
    /\ UNCHANGED <<passkeys, inFlight, aged, enrollVars, accessKind, presented, forgotten, online, relayRestarts>>

SessionExpires(p) ==
    /\ phoneSessions[p] = "live"
    /\ phoneSessions' = [phoneSessions EXCEPT ![p] = "expired"]
    /\ UNCHANGED <<passkeys, inFlight, aged, enrollVars, accessCallVars, online, relayRestarts>>

-------------------------------------------------------------------------------
(* Enrollment                                                                  *)

PhoneOnline == \E c \in online : accessKind[c] = "phone"

IssueToken(t, k) ==
    /\ PhoneOnline \/ (DevMode /\ k = "devhost")
    /\ tokens[t] = "none"
    /\ tokens' = [tokens EXCEPT ![t] = "fresh"] /\ tokenClass' = [tokenClass EXCEPT ![t] = k]
    /\ UNCHANGED <<ceremonyVars, enrolled, revoked, accessCallVars, online, relayRestarts>>

TokenExpires(t) ==
    /\ tokens[t] = "fresh"
    /\ tokens' = [tokens EXCEPT ![t] = "expired"]
    /\ UNCHANGED <<ceremonyVars, tokenClass, enrolled, revoked, accessCallVars, online, relayRestarts>>

Accepted(t, k) == tokens[t] = "fresh" /\ tokenClass[t] = k

\* The token is looked at now and marked once the device is on record.
CheckToken(c, t, k) ==
    /\ Begins(c, k, t)
    /\ StepTo(c, IF Accepted(t, k) THEN "accepted" ELSE "refused")
    /\ UNCHANGED <<ceremonyVars, enrollVars, forgotten, online, relayRestarts>>

ConsumeToken(c, t, k) ==
    /\ Begins(c, k, t)
    /\ StepTo(c, IF Accepted(t, k) THEN "accepted" ELSE "refused")
    /\ tokens' = IF Accepted(t, k) THEN [tokens EXCEPT ![t] = "consumed"] ELSE tokens
    /\ UNCHANGED <<ceremonyVars, tokenClass, enrolled, revoked, forgotten, online, relayRestarts>>

\* The token is gone even if one of the keys turns out to be malformed.
Enroll(c) ==
    /\ Stands(c, "accepted")
    /\ \/ enrolled' = enrolled \cup {c} /\ StepTo(c, "done")
       \/ UNCHANGED enrolled /\ StepTo(c, "refused")
    /\ UNCHANGED <<ceremonyVars, tokens, tokenClass, revoked, accessKind, presented, forgotten, online, relayRestarts>>

-------------------------------------------------------------------------------
(* Authentication                                                              *)

\* Whoever was enrolled once shows a certificate of it, also after a restart.
AuthenticateDevice(c, d) ==
    /\ accessKind[d] \in Devices /\ accessAt[d] = "done"
    /\ Begins(c, "device", d)
    /\ \/ d \in enrolled \ revoked /\ StepTo(c, "authenticated")
       \/ StepTo(c, "refused")
    /\ UNCHANGED <<ceremonyVars, enrollVars, forgotten, online, relayRestarts>>

\* The session is renewed, or found expired and dropped.
AuthenticatePhone(c, p) ==
    /\ accessKind[p] \in Ceremonies /\ accessAt[p] = "done"
    /\ Begins(c, "phone", p)
    /\ LET has(state) == p \in DOMAIN phoneSessions /\ phoneSessions[p] = state
       IN /\ StepTo(c, IF has("live") THEN "authenticated" ELSE "refused")
          /\ phoneSessions' = IF has("expired") THEN Drop(phoneSessions, {p}) ELSE phoneSessions
    /\ UNCHANGED <<passkeys, inFlight, aged, enrollVars, forgotten, online, relayRestarts>>

GoOnline(c) ==
    /\ Stands(c, "authenticated")
    /\ online' = online \cup {c}
    /\ StepTo(c, "serving")
    /\ UNCHANGED <<ceremonyVars, enrollVars, accessKind, presented, forgotten, relayRestarts>>

GoOffline(c) ==
    /\ c \in online
    /\ online' = online \ {c}
    /\ StepTo(c, "closed")
    /\ UNCHANGED <<ceremonyVars, enrollVars, accessKind, presented, forgotten, relayRestarts>>

Cut(id) == {c \in online : presented[c] = id}
CutOff(id) ==
    /\ online' = online \ Cut(id)
    /\ accessAt' = [c \in AccessCalls |-> IF c \in Cut(id) THEN "closed" ELSE accessAt[c]]

Revoke(id) ==
    /\ PhoneOnline /\ id \in enrolled \cup DOMAIN phoneSessions
    /\ revoked' = IF id \in enrolled THEN revoked \cup {id} ELSE revoked
    /\ phoneSessions' = Drop(phoneSessions, {id})
    /\ CutOff(id)
    /\ UNCHANGED <<passkeys, inFlight, aged, tokens, tokenClass, enrolled, accessKind, presented, forgotten, relayRestarts>>

\* A token the relay has forgotten is as good as a consumed one.
RestartRelay ==
    /\ relayRestarts < MaxRelayRestarts /\ relayRestarts' = relayRestarts + 1
    /\ passkeys' = {} /\ inFlight' = {} /\ aged' = {} /\ phoneSessions' = <<>>
    /\ tokens' = [t \in EnrollTokens |-> IF tokens[t] = "none" THEN "none" ELSE "consumed"]
    /\ enrolled' = {} /\ revoked' = {}
    /\ online' = {}
    /\ forgotten' = {c \in AccessCalls : accessAt[c] # "idle"}
    /\ accessAt' = [c \in AccessCalls |->
          IF accessAt[c] \in {"idle", "ceremony", "done"} THEN accessAt[c] ELSE "closed"]
    /\ UNCHANGED <<tokenClass, accessKind, presented>>

AccessCall(c) ==
    \/ StartCeremony(c) \/ StartRefused(c) \/ CeremonyAges(c) \/ FinishCeremony(c)
    \/ StorePasskey(c) \/ MintSession(c) \/ Enroll(c) \/ GoOnline(c) \/ GoOffline(c)
    \/ \E t \in EnrollTokens, k \in Devices : ConsumeToken(c, t, k)
    \/ \E d \in AccessCalls : AuthenticateDevice(c, d) \/ AuthenticatePhone(c, d)

AccessNext ==
    \/ \E c \in AccessCalls : AccessCall(c) \/ Revoke(c)
    \/ \E p \in DOMAIN phoneSessions : SessionExpires(p)
    \/ \E t \in EnrollTokens : TokenExpires(t) \/ \E k \in Devices : IssueToken(t, k)
    \/ RestartRelay

AccessSpec == AccessInit /\ [][AccessNext]_accessVars
-------------------------------------------------------------------------------
\* Every record of the relay belongs to a call that made it.
AccessTypeOK ==
    /\ passkeys \subseteq AccessCalls /\ inFlight \subseteq AccessCalls /\ aged \subseteq AccessCalls
    /\ tokens \in [EnrollTokens -> {"none", "fresh", "expired", "consumed"}]
    /\ enrolled \subseteq AccessCalls /\ revoked \subseteq enrolled
    /\ DOMAIN phoneSessions \subseteq AccessCalls
    /\ \A p \in DOMAIN phoneSessions : phoneSessions[p] \in {"live", "expired"}
    /\ online = {c \in AccessCalls : accessAt[c] = "serving"}
    /\ forgotten \subseteq AccessCalls /\ relayRestarts \in 0 .. MaxRelayRestarts

\* A token puts at most one device on record, however enrollments overlap.
OneDevicePerToken ==
    \A c, d \in enrolled : presented[c] = presented[d] => c = d

\* Ceremonies do not disturb each other: one that is finished in time is not
\* told that it was never begun, unless the relay restarted.
CeremoniesKept ==
    [][\A c \in AccessCalls :
          Stands(c, "ceremony") /\ accessAt'[c] = "unknown" => c \in aged]_accessVars
===============================================================================
