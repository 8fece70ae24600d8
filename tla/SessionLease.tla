---------------------------- MODULE SessionLease ----------------------------
(***************************************************************************)
(* What P11_AcquireSession and P11_ReleaseSession promise a caller         *)
(* (softhsm_ksp/src/pkcs11/p11_session.h, docs/07-securite-threading.md):  *)
(* a caller holds at most one session, a session is held by at most one    *)
(* caller, at most Capacity are out at a time, and after the pool has been *)
(* destroyed nobody holds one.                                             *)
(***************************************************************************)
EXTENDS Naturals, FiniteSets

CONSTANTS Clients, Sessions, NoSession, Capacity

VARIABLES
  lease,    \* the session each client holds, or NoSession
  closed    \* the pool has been destroyed

leaseVars == <<lease, closed>>

Holders == {c \in Clients : lease[c] # NoSession}

Init ==
  /\ lease = [c \in Clients |-> NoSession]
  /\ closed = FALSE

Grant(c) ==
  /\ ~closed
  /\ lease[c] = NoSession
  /\ Cardinality(Holders) < Capacity
  /\ \E s \in Sessions : /\ \A d \in Clients : lease[d] # s
                         /\ lease' = [lease EXCEPT ![c] = s]
  /\ UNCHANGED closed

Return(c) ==
  /\ ~closed
  /\ lease[c] # NoSession
  /\ lease' = [lease EXCEPT ![c] = NoSession]
  /\ UNCHANGED closed

Destroy ==
  /\ ~closed
  /\ closed' = TRUE
  /\ lease' = [c \in Clients |-> NoSession]

Next == (\E c \in Clients : Grant(c) \/ Return(c)) \/ Destroy

Spec == Init /\ [][Next]_leaseVars
=============================================================================
