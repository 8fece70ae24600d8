------------------------------ MODULE KspEnum ------------------------------
(***************************************************************************)
(* KSP_EnumKeys (softhsm_ksp/src/ksp/ksp_key.c): callers that go through   *)
(* the private keys of the token, one key for a call, over a snapshot of   *)
(* handles taken by the first call, while keys come and go.                *)
(*                                                                         *)
(* A call is cut where it goes to the library.  A key's label is the key.  *)
(* A failed P11_AcquireSession returns NTE_NO_MEMORY, as on its timeout.   *)
(* The token is external: a search finds the objects there are, in any     *)
(* order, and object handles are never used twice.                         *)
(***************************************************************************)
EXTENDS Naturals, FiniteSets, Functions

CONSTANTS
  Callers,       \* each with a ppEnumState of its own
  Objects,       \* the handles of private keys
  MaxFound,      \* the 256 handles a search returns at most
  BusySessions   \* may C_FindObjectsInit fail, as on a session with an
                 \* operation under way?

ASSUME EnumAssumption ==
  /\ IsFiniteSet(Objects) /\ MaxFound \in Nat \ {0} /\ BusySessions \in BOOLEAN

VARIABLES
  token,         \* private keys on the token
  used,          \* handles given so far
  active,        \* *ppEnumState is not NULL
  phObjects, dwIndex,   \* the enumeration, and what it was when it was freed
  pc, status,    \* where a call is, and what it returns
  since,         \* history: keys on the token since the enumeration began,
  named,         \* those it has named, and its calls that failed although
  failed         \* the key was there

tokenVars == <<token, used>>
enumVars == <<active, phObjects, dwIndex>>
historyVars == <<since, named, failed>>
vars == <<tokenVars, enumVars, pc, status, historyVars>>

Locs == {"idle", "search", "advance", "read"}
Empty == [i \in {} |-> 0]

Init ==
  /\ token \in SUBSET Objects /\ used = token
  /\ active = [c \in Callers |-> FALSE]
  /\ phObjects = [c \in Callers |-> Empty]
  /\ dwIndex = [c \in Callers |-> 0]
  /\ pc = [c \in Callers |-> "idle"]
  /\ status = [c \in Callers |-> "ERROR_SUCCESS"]
  /\ since = [c \in Callers |-> {}]
  /\ named = [c \in Callers |-> {}]
  /\ failed = [c \in Callers |-> 0]

dwCount(c) == Cardinality(DOMAIN phObjects[c])

At(c, l) == pc[c] = l
Goto(c, l) == pc' = [pc EXCEPT ![c] = l]
Return(c, x) == Goto(c, "idle") /\ status' = [status EXCEPT ![c] = x]

\* The call fails on the key it has come to, and that key is passed over.
Fail(c, x) == Return(c, x) /\ failed' = [failed EXCEPT ![c] = @ + 1]

-----------------------------------------------------------------------------

\* The first call, with NULL for a state: no memory or no session, or a search
FirstCall(c) ==
  /\ At(c, "idle") /\ ~active[c]
  /\ \/ Return(c, "NTE_NO_MEMORY") /\ UNCHANGED <<enumVars, historyVars>>
     \/ /\ Goto(c, "search")
        /\ phObjects' = [phObjects EXCEPT ![c] = Empty]
        /\ dwIndex' = [dwIndex EXCEPT ![c] = 0]
        /\ since' = [since EXCEPT ![c] = token]
        /\ named' = [named EXCEPT ![c] = {}]
        /\ failed' = [failed EXCEPT ![c] = 0]
        /\ UNCHANGED <<active, status>>
  /\ UNCHANGED tokenVars

\* Slip: the last handle found is left out
Found_OneLess(F) == Cardinality(F) = Cardinality(token) - 1

\* Slip: more handles are taken than the buffer holds
Found_NoLimit(F) == F = token

\* F is what C_FindObjects returns: all there are, or a buffer full of them.
Found(F) == Cardinality(F) = MaxFound \/ (F = token /\ Cardinality(F) < MaxFound)

\* An empty or failed search is the end of the enumeration; without memory for
\* the array there is none.
Search(c) ==
  /\ At(c, "search")
  /\ \/ \E F \in SUBSET token : \E f \in Bijection(1..Cardinality(F), F) :
          /\ Found(F)
          /\ IF F = {}
             THEN Return(c, "NTE_NO_MORE_ITEMS") /\ UNCHANGED <<active, phObjects>>
             ELSE \/ /\ active' = [active EXCEPT ![c] = TRUE]
                     /\ phObjects' = [phObjects EXCEPT ![c] = f]
                     /\ Goto(c, "advance")
                     /\ UNCHANGED status
                  \/ Return(c, "NTE_NO_MEMORY") /\ UNCHANGED <<active, phObjects>>
     \/ /\ BusySessions
        /\ Return(c, "NTE_NO_MORE_ITEMS")
        /\ UNCHANGED <<active, phObjects>>
  /\ UNCHANGED <<tokenVars, dwIndex, historyVars>>

\* A later call
NextCall(c) ==
  /\ At(c, "idle") /\ active[c]
  /\ Goto(c, "advance")
  /\ UNCHANGED <<tokenVars, enumVars, status, historyVars>>

\* The state is freed with the last call.
End(c) ==
  /\ At(c, "advance") /\ dwIndex[c] >= dwCount(c)
  /\ active' = [active EXCEPT ![c] = FALSE]
  /\ Return(c, "NTE_NO_MORE_ITEMS")
  /\ UNCHANGED <<tokenVars, phObjects, dwIndex, historyVars>>

\* Slip: the index advances with a session only
Advance_AfterAcquire(c) ==
  /\ At(c, "advance") /\ dwIndex[c] < dwCount(c)
  /\ \/ /\ dwIndex' = [dwIndex EXCEPT ![c] = @ + 1]
        /\ Goto(c, "read")
        /\ UNCHANGED <<status, failed>>
     \/ Return(c, "NTE_NO_MEMORY") /\ UNCHANGED <<dwIndex, failed>>
  /\ UNCHANGED <<tokenVars, active, phObjects, since, named>>

\* Slip: the index is advanced twice
Advance_Twice(c) ==
  /\ At(c, "advance") /\ dwIndex[c] < dwCount(c)
  /\ dwIndex' = [dwIndex EXCEPT ![c] = IF @ + 2 <= dwCount(c) THEN @ + 2 ELSE @ + 1]
  /\ \/ Goto(c, "read") /\ UNCHANGED <<status, failed>>
     \/ Fail(c, "NTE_NO_MEMORY")
  /\ UNCHANGED <<tokenVars, active, phObjects, since, named>>

\* The next handle is taken before there is a session to read its label with.
Advance(c) ==
  /\ At(c, "advance") /\ dwIndex[c] < dwCount(c)
  /\ dwIndex' = [dwIndex EXCEPT ![c] = @ + 1]
  /\ \/ Goto(c, "read") /\ UNCHANGED <<status, failed>>
     \/ Fail(c, "NTE_NO_MEMORY")
  /\ UNCHANGED <<tokenVars, active, phObjects, since, named>>

\* Slip: the index is put back when there is no memory, after the name was made
Read_Again(c) ==
  /\ At(c, "read")
  /\ LET o == phObjects[c][dwIndex[c]]
     IN  \/ /\ o \in token
            /\ named' = [named EXCEPT ![c] = @ \cup {o}]
            /\ \/ Return(c, "ERROR_SUCCESS") /\ UNCHANGED dwIndex
               \/ /\ Return(c, "NTE_NO_MEMORY")
                  /\ dwIndex' = [dwIndex EXCEPT ![c] = @ - 1]
            /\ UNCHANGED failed
         \/ /\ o \notin token
            /\ Return(c, "NTE_BAD_KEY")
            /\ UNCHANGED <<named, failed, dwIndex>>
  /\ UNCHANGED <<tokenVars, active, phObjects, since>>

\* C_GetAttributeValue, which finds a key that is there, and the name for the
\* caller, if there is memory for it
Read(c) ==
  /\ At(c, "read")
  /\ LET o == phObjects[c][dwIndex[c]]
     IN  \/ /\ o \in token
            /\ named' = [named EXCEPT ![c] = @ \cup {o}]
            /\ Return(c, "ERROR_SUCCESS")
            /\ UNCHANGED failed
         \/ /\ o \in token
            /\ Fail(c, "NTE_NO_MEMORY")
            /\ UNCHANGED named
         \/ /\ o \notin token
            /\ Return(c, "NTE_BAD_KEY")
            /\ UNCHANGED <<named, failed>>
  /\ UNCHANGED <<tokenVars, enumVars, since>>

\* KSP_FreeBuffer on the state, by a caller that has seen enough
Abandon(c) ==
  /\ At(c, "idle") /\ active[c]
  /\ active' = [active EXCEPT ![c] = FALSE]
  /\ status' = [status EXCEPT ![c] = "ERROR_SUCCESS"]
  /\ UNCHANGED <<tokenVars, phObjects, dwIndex, pc, historyVars>>

\* Keys are generated and destroyed meanwhile.
Generate(o) ==
  /\ o \notin used
  /\ token' = token \cup {o} /\ used' = used \cup {o}
  /\ UNCHANGED <<enumVars, pc, status, historyVars>>

Destroy(o) ==
  /\ o \in token
  /\ token' = token \ {o}
  /\ since' = [c \in Callers |-> since[c] \ {o}]
  /\ UNCHANGED <<used, enumVars, pc, status, named, failed>>

Step(c) == Search(c) \/ NextCall(c) \/ End(c) \/ Advance(c) \/ Read(c)

Next ==
  \/ \E c \in Callers : Step(c) \/ FirstCall(c) \/ Abandon(c)
  \/ \E o \in Objects : Generate(o) \/ Destroy(o)

Spec == Init /\ [][Next]_vars

\* Calls return, and a caller in an enumeration goes on calling, whatever the
\* last call returned, until it abandons it.
FairSpec == Spec /\ \A c \in Callers : WF_vars(Step(c))

-----------------------------------------------------------------------------
(* Properties                                                               *)

Arrays == UNION {[1..n -> Objects] : n \in 0..MaxFound}

TypeOK ==
  /\ token \subseteq Objects /\ used \subseteq Objects
  /\ active \in [Callers -> BOOLEAN]
  /\ phObjects \in [Callers -> Arrays]
  /\ dwIndex \in [Callers -> 0..MaxFound]
  /\ pc \in [Callers -> Locs]
  /\ status \in [Callers ->
       {"ERROR_SUCCESS", "NTE_NO_MEMORY", "NTE_BAD_KEY", "NTE_NO_MORE_ITEMS"}]
  /\ since \in [Callers -> SUBSET Objects]
  /\ named \in [Callers -> SUBSET Objects]
  /\ failed \in [Callers -> 0..MaxFound]

Snapshot(c) == Range(phObjects[c])
Ended(c) == At(c, "idle") /\ status[c] = "NTE_NO_MORE_ITEMS"

\* No key is named twice in one enumeration, failed calls and retries included.
NamedOnce ==
  \A c \in Callers : At(c, "read") => phObjects[c][dwIndex[c]] \notin named[c]

\* When KSP_EnumKeys says NTE_NO_MORE_ITEMS, the keys of the snapshot that are
\* still there have all been named, but for one at most for every call that
\* failed on a timeout or for want of memory: such a call passes a key over.
SkipsAreFailures ==
  \A c \in Callers : Ended(c) =>
    Cardinality((since[c] \cap Snapshot(c)) \ named[c]) <= failed[c]

\* "Returns all private key handles stored in the token": the snapshot of an
\* enumeration that has ended holds every key that was there throughout,
\* unless the token had more keys than the buffer.
SnapshotComplete ==
  \A c \in Callers :
    Ended(c) /\ dwCount(c) < MaxFound => since[c] \subseteq Snapshot(c)

\* An enumeration ends however many of its calls fail.
EnumEnds == \A c \in Callers : active[c] ~> ~active[c]

-----------------------------------------------------------------------------
(* The inductive invariant (KspEnumProof)                                   *)

\* The keys the enumeration has passed: those before the one being read
Reached(c) == IF pc[c] = "read" THEN dwIndex[c] - 1 ELSE dwIndex[c]
Passed(c) == {phObjects[c][i] : i \in 1..Reached(c)}

\* A passed key was named, or has gone since, or took a failure with it.
CallerInv(c) ==
  /\ IsInjective(phObjects[c])
  /\ dwIndex[c] <= dwCount(c) /\ (pc[c] = "read" => dwIndex[c] >= 1)
  /\ pc[c] = "search" => phObjects[c] = Empty /\ dwIndex[c] = 0
  /\ since[c] \subseteq token
  /\ named[c] \subseteq Passed(c)
  /\ failed[c] <= Reached(c)
  /\ Cardinality((since[c] \cap Passed(c)) \ named[c]) <= failed[c]
  /\ Ended(c) => dwIndex[c] = dwCount(c)

IInv == TypeOK /\ \A c \in Callers : CallerInv(c)

\* Nothing that was there throughout is missing from a snapshot.
SnapshotOf(c) ==
  /\ (active[c] \/ Ended(c)) /\ dwCount(c) < MaxFound => since[c] \subseteq Snapshot(c)
  /\ pc[c] = "search" => ~active[c]
  /\ pc[c] \in {"advance", "read"} => active[c]

SnapshotInv == \A c \in Callers : SnapshotOf(c)
-----------------------------------------------------------------------------
(* Why an enumeration ends                                                  *)

\* The steps an enumeration has left: three at most for a key, two for the end
StepsLeft(c) ==
  3 * (dwCount(c) - dwIndex[c]) +
    (CASE pc[c] = "read" -> 3 [] pc[c] = "idle" -> 2 [] OTHER -> 1)

\* Each step of a call brings the enumeration nearer to its end, whether the call
\* succeeds or fails and whatever becomes of the keys meanwhile, and nothing
\* else changes the snapshot or the place in it: an application that goes on
\* calling is told NTE_NO_MORE_ITEMS after dwCount + 1 calls.
EnumShrinks ==
  [][\A c \in Callers : active[c] /\ active'[c] =>
       /\ phObjects'[c] = phObjects[c]
       /\ Step(c) => StepsLeft(c)' < StepsLeft(c)
       /\ ~Step(c) => StepsLeft(c)' = StepsLeft(c)]_vars

\* A search is for a caller that has no enumeration, a place in one for a caller
\* that has.
CallsMatch ==
  \A c \in Callers : /\ pc[c] = "search" => ~active[c]
                     /\ pc[c] \in {"advance", "read"} => active[c]

=============================================================================
