--------------------------- MODULE KspCryptoProof ---------------------------
(***************************************************************************)
(* Proofs about the calls of the provider that use a session, for any      *)
(* number of callers, sessions and keys.  The argument: the lease makes a  *)
(* session private for the length of a call (Leased), so the operation a   *)
(* caller began on it is still its own at the call that delivers the data  *)
(* (Owned); an operation left on the session by an earlier call makes the  *)
(* Init fail, and the call ends before it asks for data.  Delivered says   *)
(* where data may be, which makes the two inductive.                       *)
(***************************************************************************)
EXTENDS KspCrypto, TLAPS

\* The initial state satisfies the inductive invariant.
LEMMA InitIInv == Init => IInv
<1> SUFFICES ASSUME Init PROVE IInv
  OBVIOUS
<1> USE DEF Init, Lease!Init
<1>1. TypeOK
  BY DEF TypeOK, Locs, Calls, Buffers
<1>2. NoSessionKept /\ Leased /\ Owned /\ Delivered
  BY DEF NoSessionKept, Leased, Owned, Delivered, Holding
<1>3. QED BY <1>1, <1>2 DEF IInv

\* The session of one caller at work is not that of another.
LEMMA SessionsApart ==
  ASSUME IInv, NEW t \in Threads, NEW u \in Threads, t # u,
         pc[t] \in Holding, pc[u] \in Holding
  PROVE  hSession[t] # hSession[u] /\ hSession[t] \in Sessions
BY CryptoAssumption DEF IInv, NoSessionKept, Leased, Holding

\* P11RvToSecStatus turns an error of the library into an error of the provider.
LEMMA StatusFacts ==
  \A r \in Errors \cup {"CKR_OPERATION_ACTIVE"} :
    P11RvToSecStatus(r) \in {"NTE_BAD_KEY", "NTE_FAIL"}
BY DEF P11RvToSecStatus, Errors

\* A caller entering an operation keeps the invariant.
LEMMA CallStep ==
  ASSUME IInv, NEW t \in Threads, Call(t)
  PROVE  IInv'
<1> USE DEF IInv, Call, At, Goto, Calls
<1>1. TypeOK'
  BY DEF TypeOK, Locs
<1>2. NoSessionKept' /\ Leased' /\ Owned'
  BY DEF TypeOK, NoSessionKept, Leased, Owned, Holding
<1>3. Delivered'
  BY DEF TypeOK, Delivered
<1>4. QED BY <1>1, <1>2, <1>3

\* P11_AcquireSession gives a session nobody has, and keeps the invariant.
LEMMA AcquireStep ==
  ASSUME IInv, NEW t \in Threads, Acquire(t)
  PROVE  IInv'
<1> USE CryptoAssumption DEF IInv, At, Goto, callVars
<1>1. PICK s \in Sessions : /\ \A u \in Threads : lease[u] # s
                            /\ lease' = [lease EXCEPT ![t] = s]
  BY DEF Acquire, Lease!Grant
<1>2. /\ pc[t] = "acquire" /\ hSession' = [hSession EXCEPT ![t] = s]
      /\ pc' = [pc EXCEPT ![t] = "init"] /\ lease[t] = NoSession
      /\ UNCHANGED <<closed, op, callVars, rv, from, status>>
  BY <1>1 DEF Acquire, Lease!Grant, TypeOK
<1>3. TypeOK'
  BY <1>1, <1>2 DEF TypeOK, Locs
<1>4. NoSessionKept' /\ Leased'
  BY <1>1, <1>2 DEF TypeOK, NoSessionKept, Leased, Holding
<1>5. Owned' /\ Delivered'
  BY <1>2 DEF TypeOK, Owned, Delivered
<1>6. QED BY <1>3, <1>4, <1>5

\* A call without a session returns an error and keeps the invariant.
LEMMA AcquireFailsStep ==
  ASSUME IInv, NEW t \in Threads, AcquireFails(t)
  PROVE  IInv'
<1> USE DEF IInv, AcquireFails, At, Goto, callVars
<1>1. PICK x \in {"NTE_NO_MEMORY", "NTE_FAIL"} : status' = [status EXCEPT ![t] = x]
  BY DEF P11RvToSecStatus
<1>2. TypeOK'
  BY <1>1 DEF TypeOK, Locs
<1>3. NoSessionKept' /\ Leased' /\ Owned'
  BY DEF TypeOK, NoSessionKept, Leased, Owned, Holding
<1>4. Delivered'
  BY <1>1 DEF TypeOK, Delivered
<1>5. QED BY <1>2, <1>3, <1>4

\* P11_ReleaseSession keeps the invariant.
LEMMA ReleaseStep ==
  ASSUME IInv, NEW t \in Threads, ReleaseSession(t)
  PROVE  IInv'
<1> USE DEF IInv, ReleaseSession, Lease!Return, At, Goto, callVars
<1>1. TypeOK'
  BY DEF TypeOK, Locs
<1>2. NoSessionKept' /\ Leased' /\ Owned'
  BY DEF TypeOK, NoSessionKept, Leased, Owned, Holding
<1>3. Delivered'
  BY DEF TypeOK, Delivered
<1>4. QED BY <1>1, <1>2, <1>3

\* Returning to the application keeps the invariant.
LEMMA ReturnStep ==
  ASSUME IInv, NEW t \in Threads, Return(t)
  PROVE  IInv'
<1> USE DEF IInv, Return, At, Goto
<1>1. TypeOK'
  BY DEF TypeOK, Locs, Calls, Buffers
<1>2. NoSessionKept' /\ Leased' /\ Owned'
  BY DEF TypeOK, NoSessionKept, Leased, Owned, Holding
<1>3. Delivered'
  BY DEF TypeOK, Delivered
<1>4. QED BY <1>1, <1>2, <1>3

\* A step at the library of a caller that goes on at l, with the operation of
\* its session now o and the status x, keeps everything but what it delivers.
LEMMA LibraryStep ==
  ASSUME IInv, NEW t \in Threads, NEW l, NEW o, NEW r, NEW x,
         pc[t] \in Holding, l \in Holding, o \in {Idle} \cup [kind : {"sign", "decrypt"}, key : Keys],
         Library(t, r, o), Goto(t, l), status' = [status EXCEPT ![t] = x],
         r \in Errors \cup {"CKR_OK", "CKR_BUFFER_TOO_SMALL", "CKR_OPERATION_ACTIVE"},
         x \in {"ERROR_SUCCESS", "NTE_BAD_KEY", "NTE_BUFFER_TOO_SMALL",
                "NTE_FAIL", "NTE_NO_MEMORY", "NTE_INVALID_PARAMETER", "NTE_BAD_KEYSET"},
         from' \in [Threads -> Keys \cup {NoKey}],
         l \in {"size", "sign"} => call[t] = "sign" /\ o = [kind |-> "sign", key |-> key[t]],
         l = "decrypt" => call[t] = "decrypt" /\ o = [kind |-> "decrypt", key |-> key[t]],
         UNCHANGED <<lease, closed, callVars, hSession>>
  PROVE  TypeOK' /\ NoSessionKept' /\ Leased' /\ Owned'
<1> USE DEF IInv, Library, Goto, callVars
<1>1. TypeOK'
  BY DEF TypeOK, Locs, Holding
<1>2. NoSessionKept' /\ Leased'
  BY DEF TypeOK, NoSessionKept, Leased, Holding
<1>3. Owned'
  <2>1. hSession[t] \in Sessions /\ op'[hSession[t]] = o /\ pc'[t] = l
    BY DEF TypeOK, Leased
  <2>2. \A u \in Threads : u # t /\ pc[u] \in Holding =>
          op'[hSession[u]] = op[hSession[u]] /\ pc'[u] = pc[u]
    BY SessionsApart DEF TypeOK
  <2>3. \A u \in Threads \ {t} : pc'[u] = pc[u]
    BY DEF TypeOK
  <2>4. QED BY <2>1, <2>2, <2>3 DEF Owned, Holding
<1>4. QED BY <1>1, <1>2, <1>3

\* What LeaveError does: the release comes next, the status is an error.
LEMMA ErrorIsStatus ==
  ASSUME NEW t \in Threads, NEW r \in Errors \cup {"CKR_OPERATION_ACTIVE"}, LeaveError(t, r)
  PROVE  \E x \in {"NTE_BAD_KEY", "NTE_FAIL"} :
           Goto(t, "release") /\ status' = [status EXCEPT ![t] = x]
BY StatusFacts DEF LeaveError, Leave

\* A caller at work delivers nothing.
LEMMA NothingDelivered ==
  ASSUME IInv, NEW t \in Threads, pc[t] \in Holding \ {"release"}, NEW l, NEW x,
         Goto(t, l), status' = [status EXCEPT ![t] = x],
         \/ l \notin {"release", "return"}
         \/ call[t] # "sign" \/ buf[t] = "null" \/ x # "ERROR_SUCCESS",
         UNCHANGED <<callVars, from>>
  PROVE  Delivered'
BY DEF IInv, TypeOK, Delivered, Holding, Goto, callVars

\* C_SignInit and C_DecryptInit keep the invariant.
LEMMA OperationInitStep ==
  ASSUME IInv, NEW t \in Threads, OperationInit(t)
  PROVE  IInv'
<1>1. /\ pc[t] = "init" /\ pc[t] \in Holding \ {"release"} /\ call[t] \in {"sign", "decrypt"}
      /\ key[t] \in Keys /\ hSession[t] \in Sessions
      /\ UNCHANGED <<lease, closed, callVars, hSession, from>>
  BY DEF OperationInit, At, Holding, IInv, TypeOK, Leased, Calls
<1>2. from' \in [Threads -> Keys \cup {NoKey}] /\ status[t] = status[t]
  BY <1>1 DEF IInv, TypeOK
<1>3. CASE /\ Library(t, "CKR_OK", [kind |-> call[t], key |-> key[t]])
           /\ Goto(t, IF call[t] = "sign" THEN "size" ELSE "decrypt")
           /\ UNCHANGED status
  <2> DEFINE l == IF call[t] = "sign" THEN "size" ELSE "decrypt"
             o == [kind |-> call[t], key |-> key[t]]
             x == status[t]
  <2>1. /\ status' = [status EXCEPT ![t] = x]
        /\ x \in {"ERROR_SUCCESS", "NTE_BAD_KEY", "NTE_BUFFER_TOO_SMALL",
                "NTE_FAIL", "NTE_NO_MEMORY", "NTE_INVALID_PARAMETER", "NTE_BAD_KEYSET"}
    BY <1>3 DEF IInv, TypeOK
  <2>2. /\ l \in Holding /\ l \notin {"release", "return"}
        /\ o \in {Idle} \cup [kind : {"sign", "decrypt"}, key : Keys]
        /\ l \in {"size", "sign"} => call[t] = "sign" /\ o = [kind |-> "sign", key |-> key[t]]
        /\ l = "decrypt" => call[t] = "decrypt" /\ o = [kind |-> "decrypt", key |-> key[t]]
    BY <1>1 DEF Holding
  <2>3. Goto(t, l) /\ Library(t, "CKR_OK", o)
    BY <1>3
  <2> HIDE DEF l, o, x
  <2>4. TypeOK' /\ NoSessionKept' /\ Leased' /\ Owned'
    BY <1>1, <1>2, <2>1, <2>2, <2>3, LibraryStep
  <2>5. Delivered'
    BY <1>1, <2>1, <2>2, <2>3, NothingDelivered
  <2>6. QED BY <2>4, <2>5 DEF IInv
<1>4. ASSUME NEW r \in Errors \cup {"CKR_OPERATION_ACTIVE"},
             Library(t, r, op[hSession[t]]), LeaveError(t, r)
      PROVE  IInv'
  <2>1. PICK x \in {"NTE_BAD_KEY", "NTE_FAIL"} :
          Goto(t, "release") /\ status' = [status EXCEPT ![t] = x]
    BY <1>4, ErrorIsStatus
  <2>2. op[hSession[t]] \in {Idle} \cup [kind : {"sign", "decrypt"}, key : Keys]
    BY <1>1 DEF IInv, TypeOK
  <2>3. "release" \in Holding
    BY DEF Holding
  <2>4. TypeOK' /\ NoSessionKept' /\ Leased' /\ Owned'
    BY <1>1, <1>2, <1>4, <2>1, <2>2, <2>3, LibraryStep
  <2>5. Delivered'
    BY <1>1, <2>1, NothingDelivered
  <2>6. QED BY <2>4, <2>5 DEF IInv
<1>5. QED BY <1>3, <1>4 DEF OperationInit

\* The first C_Sign keeps the invariant.
LEMMA SizeQueryStep ==
  ASSUME IInv, NEW t \in Threads, SizeQuery(t)
  PROVE  IInv'
<1> DEFINE o == op[hSession[t]]
<1>1. /\ pc[t] = "size" /\ pc[t] \in Holding \ {"release"} /\ call[t] = "sign"
      /\ key[t] \in Keys /\ hSession[t] \in Sessions /\ o = [kind |-> "sign", key |-> key[t]]
      /\ o \in {Idle} \cup [kind : {"sign", "decrypt"}, key : Keys]
      /\ UNCHANGED <<lease, closed, callVars, hSession, from>>
  BY DEF SizeQuery, At, Holding, IInv, TypeOK, Leased, Owned
<1>2. from' \in [Threads -> Keys \cup {NoKey}] /\ "release" \in Holding /\ "sign" \in Holding
  BY <1>1 DEF IInv, TypeOK, Holding
<1>3. ASSUME NEW x \in {"ERROR_SUCCESS", "NTE_NO_MEMORY"}, Library(t, "CKR_OK", o),
             Goto(t, "release"), status' = [status EXCEPT ![t] = x],
             buf[t] = "null" \/ x # "ERROR_SUCCESS"
      PROVE  IInv'
  <2> HIDE DEF o
  <2>1. TypeOK' /\ NoSessionKept' /\ Leased' /\ Owned'
    BY <1>1, <1>2, <1>3, LibraryStep
  <2>2. Delivered'
    BY <1>1, <1>3, NothingDelivered
  <2>3. QED BY <2>1, <2>2 DEF IInv
<1>4. CASE Library(t, "CKR_OK", o) /\ Goto(t, "sign") /\ UNCHANGED status
  <2> DEFINE x == status[t]
  <2>1. /\ status' = [status EXCEPT ![t] = x]
        /\ x \in {"ERROR_SUCCESS", "NTE_BAD_KEY", "NTE_BUFFER_TOO_SMALL",
                "NTE_FAIL", "NTE_NO_MEMORY", "NTE_INVALID_PARAMETER", "NTE_BAD_KEYSET"}
    BY <1>4 DEF IInv, TypeOK
  <2> HIDE DEF o, x
  <2>2. TypeOK' /\ NoSessionKept' /\ Leased' /\ Owned'
    BY <1>1, <1>2, <1>4, <2>1, LibraryStep
  <2>3. Delivered'
    BY <1>1, <1>4, <2>1, NothingDelivered
  <2>4. QED BY <2>2, <2>3 DEF IInv
<1>5. ASSUME NEW r \in Errors, Library(t, r, Idle), LeaveError(t, r)
      PROVE  IInv'
  <2>1. PICK x \in {"NTE_BAD_KEY", "NTE_FAIL"} :
          Goto(t, "release") /\ status' = [status EXCEPT ![t] = x]
    BY <1>5, ErrorIsStatus
  <2>2. Idle \in {Idle} \cup [kind : {"sign", "decrypt"}, key : Keys]
    OBVIOUS
  <2>3. TypeOK' /\ NoSessionKept' /\ Leased' /\ Owned'
    BY <1>1, <1>2, <1>5, <2>1, <2>2, LibraryStep
  <2>4. Delivered'
    BY <1>1, <2>1, NothingDelivered
  <2>5. QED BY <2>3, <2>4 DEF IInv
<1>6. QED BY <1>1, <1>3, <1>4, <1>5 DEF SizeQuery, Leave

\* A caller leaving with an error of the library has delivered nothing.
LEMMA ErrorStep ==
  ASSUME IInv, NEW t \in Threads, pc[t] \in Holding \ {"release"},
         NEW r \in Errors, Library(t, r, Idle), LeaveError(t, r),
         UNCHANGED <<lease, closed, callVars, hSession, from>>
  PROVE  IInv'
<1>1. PICK x \in {"NTE_BAD_KEY", "NTE_FAIL"} :
        Goto(t, "release") /\ status' = [status EXCEPT ![t] = x]
  BY ErrorIsStatus
<1>2. /\ Idle \in {Idle} \cup [kind : {"sign", "decrypt"}, key : Keys]
      /\ from' \in [Threads -> Keys \cup {NoKey}] /\ "release" \in Holding
  BY DEF IInv, TypeOK, Holding
<1>3. TypeOK' /\ NoSessionKept' /\ Leased' /\ Owned'
  BY <1>1, <1>2, LibraryStep
<1>4. Delivered'
  BY <1>1, NothingDelivered
<1>5. QED BY <1>3, <1>4 DEF IInv

\* A caller leaving with the data of its own operation.
LEMMA DataStep ==
  ASSUME IInv, NEW t \in Threads, pc[t] \in {"sign", "decrypt"}, Library(t, "CKR_OK", Idle),
         from' = [from EXCEPT ![t] = op[hSession[t]].key], Leave(t, "ERROR_SUCCESS"),
         UNCHANGED <<lease, closed, callVars, hSession>>
  PROVE  IInv'
<1>1. op[hSession[t]].key = key[t] /\ key[t] \in Keys
  <2>1. key[t] \in Keys
    BY DEF IInv, Leased
  <2>2. CASE pc[t] = "sign"
    <3>1. op[hSession[t]] = [kind |-> "sign", key |-> key[t]]
      BY <2>2 DEF IInv, Owned
    <3>2. QED BY <3>1, <2>1
  <2>3. CASE pc[t] = "decrypt"
    <3>1. op[hSession[t]] = [kind |-> "decrypt", key |-> key[t]]
      BY <2>3 DEF IInv, Owned
    <3>2. QED BY <3>1, <2>1
  <2>4. QED BY <2>2, <2>3
<1>2. from' = [from EXCEPT ![t] = key[t]]
  BY <1>1
<1>3. /\ Idle \in {Idle} \cup [kind : {"sign", "decrypt"}, key : Keys]
      /\ from' \in [Threads -> Keys \cup {NoKey}] /\ "release" \in Holding
      /\ pc[t] \in Holding
  BY <1>1, <1>2 DEF IInv, TypeOK, Holding
<1>4. Goto(t, "release") /\ status' = [status EXCEPT ![t] = "ERROR_SUCCESS"]
  BY DEF Leave
<1>5. TypeOK' /\ NoSessionKept' /\ Leased' /\ Owned'
  BY <1>3, <1>4, LibraryStep
<1>6. Delivered'
  BY <1>2, <1>4 DEF IInv, TypeOK, Delivered, Goto, callVars
<1>7. QED BY <1>5, <1>6 DEF IInv

\* A caller leaving without data: an error, a call that asked for none, or one
\* that is not KSP_SignHash.
LEMMA NoDataStep ==
  ASSUME IInv, NEW t \in Threads, pc[t] \in Holding \ {"release"},
         NEW r \in {"CKR_OK", "CKR_BUFFER_TOO_SMALL", "CKR_OPERATION_ACTIVE"},
         NEW o \in {Idle} \cup [kind : {"sign", "decrypt"}, key : Keys], Library(t, r, o),
         NEW x \in {"ERROR_SUCCESS", "NTE_BUFFER_TOO_SMALL", "NTE_NO_MEMORY",
                    "NTE_INVALID_PARAMETER", "NTE_BAD_KEYSET"},
         Leave(t, x), call[t] # "sign" \/ buf[t] = "null" \/ x # "ERROR_SUCCESS",
         UNCHANGED <<lease, closed, callVars, hSession, from>>
  PROVE  IInv'
<1>1. Goto(t, "release") /\ status' = [status EXCEPT ![t] = x]
  BY DEF Leave
<1>2. from' \in [Threads -> Keys \cup {NoKey}] /\ "release" \in Holding
  BY DEF IInv, TypeOK, Holding
<1>3. TypeOK' /\ NoSessionKept' /\ Leased' /\ Owned'
  BY <1>1, <1>2, LibraryStep
<1>4. Delivered'
  BY <1>1, NothingDelivered
<1>5. QED BY <1>3, <1>4 DEF IInv

\* The second C_Sign keeps the invariant.
LEMMA SignStep ==
  ASSUME IInv, NEW t \in Threads, Sign(t)
  PROVE  IInv'
<1>1. /\ pc[t] = "sign" /\ pc[t] \in Holding \ {"release"}
      /\ Idle \in {Idle} \cup [kind : {"sign", "decrypt"}, key : Keys]
      /\ UNCHANGED <<lease, closed, callVars, hSession>>
  BY DEF Sign, At, Holding
<1>2. CASE /\ Library(t, "CKR_OK", Idle)
           /\ from' = [from EXCEPT ![t] = op[hSession[t]].key] /\ Leave(t, "ERROR_SUCCESS")
  BY <1>1, <1>2, DataStep
<1>3. ASSUME NEW x \in {"NTE_BUFFER_TOO_SMALL", "NTE_INVALID_PARAMETER"},
             Library(t, "CKR_OK", Idle), Leave(t, x), UNCHANGED from
      PROVE  IInv'
  BY <1>1, <1>3, NoDataStep
<1>4. ASSUME NEW r \in Errors, Library(t, r, Idle), LeaveError(t, r), UNCHANGED from
      PROVE  IInv'
  BY <1>1, <1>4, ErrorStep
<1>5. QED BY <1>2, <1>3, <1>4 DEF Sign

\* C_Decrypt keeps the invariant.
LEMMA DecryptStep ==
  ASSUME IInv, NEW t \in Threads, Decrypt(t)
  PROVE  IInv'
<1>1. /\ pc[t] = "decrypt" /\ pc[t] \in Holding \ {"release"} /\ call[t] # "sign"
      /\ op[hSession[t]] \in {Idle} \cup [kind : {"sign", "decrypt"}, key : Keys]
      /\ UNCHANGED <<lease, closed, callVars, hSession>>
  BY DEF Decrypt, At, Holding, IInv, Owned, Leased, TypeOK
<1>2. CASE /\ Library(t, "CKR_OK", Idle)
           /\ from' = [from EXCEPT ![t] = op[hSession[t]].key] /\ Leave(t, "ERROR_SUCCESS")
  BY <1>1, <1>2, DataStep
<1>3. ASSUME NEW r \in {"CKR_OK", "CKR_BUFFER_TOO_SMALL"},
             Library(t, r, op[hSession[t]]), Leave(t, "ERROR_SUCCESS"), UNCHANGED from
      PROVE  IInv'
  BY <1>1, <1>3, NoDataStep
<1>4. ASSUME NEW r \in Errors, Library(t, r, Idle), LeaveError(t, r), UNCHANGED from
      PROVE  IInv'
  BY <1>1, <1>4, ErrorStep
<1>5. QED BY <1>2, <1>3, <1>4 DEF Decrypt

\* The search of KSP_OpenKey keeps the invariant.
LEMMA OpenKeyStep ==
  ASSUME IInv, NEW t \in Threads, OpenKey(t)
  PROVE  IInv'
<1>1. /\ pc[t] \in Holding \ {"release"} /\ call[t] # "sign"
      /\ op[hSession[t]] \in {Idle} \cup [kind : {"sign", "decrypt"}, key : Keys]
      /\ UNCHANGED <<lease, closed, callVars, hSession, from>>
  BY DEF OpenKey, At, Holding, IInv, Leased, TypeOK
<1>2. ASSUME NEW x \in {"ERROR_SUCCESS", "NTE_BAD_KEYSET", "NTE_NO_MEMORY"},
             NEW r \in {"CKR_OK", "CKR_OPERATION_ACTIVE"},
             Library(t, r, op[hSession[t]]), Leave(t, x)
      PROVE  IInv'
  BY <1>1, <1>2, NoDataStep
<1>3. QED BY <1>2 DEF OpenKey

\* Every step keeps the inductive invariant.
LEMMA NextIInv == IInv /\ [Next]_vars => IInv'
<1> SUFFICES ASSUME IInv, [Next]_vars PROVE IInv'
  OBVIOUS
<1>1. ASSUME NEW t \in Threads,
             Call(t) \/ Acquire(t) \/ AcquireFails(t) \/ Work(t) \/ Return(t)
      PROVE  IInv'
  BY <1>1, CallStep, AcquireStep, AcquireFailsStep, OperationInitStep, SizeQueryStep,
     SignStep, DecryptStep, OpenKeyStep, ReleaseStep, ReturnStep DEF Work
<1>2. CASE UNCHANGED vars
  BY <1>2 DEF vars, callVars, IInv, TypeOK, NoSessionKept, Leased, Owned, Delivered
<1>3. QED BY <1>1, <1>2 DEF Next

\* IInv holds throughout, for any number of callers, sessions and keys.
THEOREM Invariance == Spec => []IInv
BY InitIInv, NextIInv, PTL DEF Spec

\* Type correctness: each call returns one of the statuses the provider knows.
THEOREM TypeCorrect == Spec => []TypeOK
<1>1. IInv => TypeOK
  BY DEF IInv
<1>2. QED BY <1>1, Invariance, PTL

\* KSP_SignHash and KSP_Decrypt deliver data of the caller's own key only, and a
\* KSP_SignHash that succeeds with a buffer has delivered a signature.
THEOREM OwnKeyOnly == Spec => []DataFromOwnKey
<1>1. IInv => DataFromOwnKey
  BY DEF IInv, Delivered, DataFromOwnKey, TypeOK
<1>2. QED BY <1>1, Invariance, PTL

\* Every return path of KSP_SignHash, KSP_Decrypt and KSP_OpenKey has released
\* the session.
THEOREM NoLeak == Spec => []NoSessionKept
<1>1. IInv => NoSessionKept
  BY DEF IInv
<1>2. QED BY <1>1, Invariance, PTL

-----------------------------------------------------------------------------
(* What a size query leaves behind                                          *)

\* A step of one caller leaves the others where they are, with the operations
\* of their sessions as they were.
LEMMA OthersApart ==
  ASSUME IInv, NEW t \in Threads, NEW u \in Threads, u # t,
         Call(t) \/ Acquire(t) \/ AcquireFails(t) \/ Work(t) \/ Return(t)
  PROVE  /\ pc'[u] = pc[u] /\ call'[u] = call[u] /\ key'[u] = key[u] /\ buf'[u] = buf[u]
         /\ rv'[u] = rv[u] /\ from'[u] = from[u] /\ status'[u] = status[u]
         /\ hSession'[u] = hSession[u]
         /\ pc[u] \in Holding => op'[hSession[u]] = op[hSession[u]]
<1> USE DEF At, Goto, callVars, Leave, LeaveError, Library
<1>1. TypeOK /\ pc[t] \in Locs
  BY DEF IInv, TypeOK
<1>2. CASE Call(t)
  BY <1>1, <1>2 DEF Call, TypeOK
<1>3. CASE Acquire(t) \/ AcquireFails(t) \/ Return(t) \/ ReleaseSession(t)
  BY <1>1, <1>3 DEF Acquire, AcquireFails, Return, ReleaseSession, TypeOK
<1>4. CASE OperationInit(t) \/ SizeQuery(t) \/ Sign(t) \/ Decrypt(t) \/ OpenKey(t)
  <2>1. pc[t] \in Holding
    BY <1>4 DEF OperationInit, SizeQuery, Sign, Decrypt, OpenKey, Holding
  <2>2. pc[u] \in Holding => hSession[u] # hSession[t]
    BY <2>1, SessionsApart
  <2>3. /\ UNCHANGED <<call, key, buf, hSession>>
        /\ \E r, o : Library(t, r, o)
        /\ \E l : Goto(t, l)
        /\ (\E x : status' = [status EXCEPT ![t] = x]) \/ UNCHANGED status
        /\ (\E k : from' = [from EXCEPT ![t] = k]) \/ UNCHANGED from
    <3>1. CASE OperationInit(t)
      BY <3>1 DEF OperationInit
    <3>2. CASE SizeQuery(t)
      BY <3>2 DEF SizeQuery
    <3>3. CASE Sign(t)
      BY <3>3 DEF Sign
    <3>4. CASE Decrypt(t)
      BY <3>4 DEF Decrypt
    <3>5. CASE OpenKey(t)
      BY <3>5 DEF OpenKey
    <3>6. QED BY <1>4, <3>1, <3>2, <3>3, <3>4, <3>5
  <2>4. QED BY <1>1, <2>2, <2>3 DEF TypeOK
<1>5. QED BY <1>2, <1>3, <1>4 DEF Work

\* What the step of a caller establishes of itself.
LEMMA OwnLeft ==
  ASSUME LeftInv, NEW t \in Threads,
         Call(t) \/ Acquire(t) \/ AcquireFails(t) \/ Work(t) \/ Return(t)
  PROVE  /\ (pc[t] = "release" => LeftAt(t))'
         /\ (rv[t] = "CKR_OPERATION_ACTIVE" => FailsAt(t))'
         /\ AskedAt(t)'
<1> USE DEF At, Goto, callVars, Leave, LeaveError, Library, P11RvToSecStatus, Errors, Idle
<1>1. /\ TypeOK /\ AskedAt(t)
      /\ pc[t] \in Holding => hSession[t] \in Sessions /\ key[t] \in Keys
  BY DEF LeftInv, IInv, Leased, Asked, Holding
<1>2. /\ from[t] # NoKey => pc[t] \in {"release", "return"}
      /\ rv[t] = "CKR_OPERATION_ACTIVE" => FailsAt(t)
      /\ pc[t] \in {"size", "sign"} =>
           call[t] = "sign" /\ op[hSession[t]] = [kind |-> "sign", key |-> key[t]]
      /\ pc[t] = "decrypt" =>
           call[t] = "decrypt" /\ op[hSession[t]] = [kind |-> "decrypt", key |-> key[t]]
  BY DEF LeftInv, IInv, Delivered, Owned, StrandedFails
<1>3. CASE Call(t)
  BY <1>1, <1>2, <1>3 DEF Call, TypeOK, LeftAt, FailsAt, AskedAt
<1>4. CASE Acquire(t) \/ AcquireFails(t) \/ Return(t) \/ ReleaseSession(t)
  BY <1>1, <1>2, <1>4 DEF Acquire, AcquireFails, Return, ReleaseSession, TypeOK,
     LeftAt, FailsAt, AskedAt
<1>5. CASE OperationInit(t)
  BY <1>1, <1>2, <1>5 DEF OperationInit, TypeOK, LeftAt, FailsAt, AskedAt, Holding
<1>6. CASE SizeQuery(t)
  BY <1>1, <1>2, <1>6 DEF SizeQuery, TypeOK, LeftAt, FailsAt, AskedAt, Holding
<1>7. CASE Sign(t)
  BY <1>1, <1>2, <1>7 DEF Sign, TypeOK, LeftAt, FailsAt, AskedAt, Holding
<1>8. CASE Decrypt(t)
  BY <1>1, <1>2, <1>8 DEF Decrypt, TypeOK, LeftAt, FailsAt, AskedAt, Holding
<1>9. CASE OpenKey(t)
  BY <1>1, <1>2, <1>9 DEF OpenKey, TypeOK, LeftAt, FailsAt, AskedAt, Holding
<1>10. QED BY <1>3, <1>4, <1>5, <1>6, <1>7, <1>8, <1>9 DEF Work

\* Every step keeps what is known of the operations left behind.
LEMMA NextLeftInv == LeftInv /\ [Next]_vars => LeftInv'
<1> SUFFICES ASSUME LeftInv, [Next]_vars PROVE LeftInv'
  OBVIOUS
<1>1. IInv'
  BY NextIInv DEF LeftInv
<1>2. ASSUME NEW t \in Threads,
             Call(t) \/ Acquire(t) \/ AcquireFails(t) \/ Work(t) \/ Return(t)
      PROVE  LeftInv'
  <2>1. ASSUME NEW u \in Threads, u # t
        PROVE  /\ (pc[u] = "release" => LeftAt(u))'
               /\ (rv[u] = "CKR_OPERATION_ACTIVE" => FailsAt(u))'
               /\ AskedAt(u)'
    BY <1>2, <2>1, OthersApart DEF LeftInv, LeftActive, StrandedFails, Asked, LeftAt,
       FailsAt, AskedAt, Holding
  <2>2. QED
    BY <1>1, <1>2, <2>1, OwnLeft DEF LeftInv, LeftActive, StrandedFails, Asked
<1>3. CASE UNCHANGED vars
  BY <1>1, <1>3 DEF vars, callVars, LeftInv, LeftActive, StrandedFails, Asked, LeftAt,
     FailsAt, AskedAt
<1>4. QED BY <1>2, <1>3 DEF Next

\* LeftInv holds throughout.
LEMMA LeftHolds == Spec => []LeftInv
<1>1. Init => LeftInv
  BY InitIInv DEF Init, LeftInv, LeftActive, StrandedFails, Asked, AskedAt
<1>2. QED BY <1>1, NextLeftInv, PTL DEF Spec

\* Which calls leave an operation active on the session they give back: those
\* of LeftAt, and no others.
THEOREM WhatIsLeftActive == Spec => []LeftActive
<1>1. LeftInv => LeftActive
  BY DEF LeftInv
<1>2. QED BY <1>1, LeftHolds, PTL

\* A call on a session left active fails, whichever key it is for.
THEOREM ActiveSessionFails == Spec => []StrandedFails
<1>1. LeftInv => StrandedFails
  BY DEF LeftInv
<1>2. QED BY <1>1, LeftHolds, PTL

\* No step of any caller ends the operation left on a session.
LEMMA StepStrands ==
  ASSUME IInv, Next, NEW s \in Sessions, op[s] # Idle,
         \A t \in Threads : pc[t] \in {"size", "sign", "decrypt"} => hSession[t] # s
  PROVE  op'[s] = op[s]
<1>1. PICK t \in Threads : Call(t) \/ Acquire(t) \/ AcquireFails(t) \/ Work(t) \/ Return(t)
  BY DEF Next
<1>2. op \in [Sessions -> {Idle} \cup [kind : {"sign", "decrypt"}, key : Keys]]
  BY DEF IInv, TypeOK
<1>3. CASE UNCHANGED op
  BY <1>3
<1>4. CASE OperationInit(t) \/ OpenKey(t)
  BY <1>2, <1>4 DEF OperationInit, OpenKey, Library
<1>5. CASE SizeQuery(t) \/ Sign(t) \/ Decrypt(t)
  <2>1. hSession[t] # s
    BY <1>5 DEF SizeQuery, Sign, Decrypt, At
  <2>2. \E r, o : Library(t, r, o)
    BY <1>5 DEF SizeQuery, Sign, Decrypt
  <2>3. QED BY <1>2, <2>1, <2>2 DEF Library
<1>6. QED
  BY <1>1, <1>3, <1>4, <1>5 DEF Work, Call, Acquire, AcquireFails, Return, ReleaseSession

\* Once an operation is left active on a session, the session is lost: with
\* ActiveSessionFails, the reach of the size query of the documented double call.
THEOREM StrandedForGood == Spec => StrandedStays
<1> DEFINE Stays ==
      \A s \in Sessions :
       /\ op[s] # Idle
       /\ \A t \in Threads : pc[t] \in {"size", "sign", "decrypt"} => hSession[t] # s
       => op'[s] = op[s]
<1>1. IInv /\ [Next]_vars => [Stays]_vars
  BY StepStrands
<1>2. StrandedStays <=> [][Stays]_vars
  BY DEF StrandedStays
<1> HIDE DEF Stays
<1>3. QED BY <1>1, <1>2, Invariance, PTL DEF Spec

-----------------------------------------------------------------------------
(* What SessionsReturned rests on                                           *)

\* A caller's step outside "idle" is nearer the end of its call.
LEMMA OwnStepShortens ==
  ASSUME TypeOK, NEW t \in Threads, pc[t] # "idle",
         Call(t) \/ Acquire(t) \/ AcquireFails(t) \/ Work(t) \/ Return(t)
  PROVE  StepsLeft[pc'[t]] < StepsLeft[pc[t]]
<1> USE DEF TypeOK, At, Goto, Leave, LeaveError
<1>1. CASE Call(t) \/ Acquire(t) \/ AcquireFails(t) \/ Return(t) \/ ReleaseSession(t)
  BY <1>1 DEF Call, Acquire, AcquireFails, Return, ReleaseSession, StepsLeft
<1>2. CASE OperationInit(t) \/ OpenKey(t)
  BY <1>2 DEF OperationInit, OpenKey, StepsLeft
<1>3. CASE SizeQuery(t) \/ Sign(t) \/ Decrypt(t)
  BY <1>3 DEF SizeQuery, Sign, Decrypt, StepsLeft
<1>4. QED BY <1>1, <1>2, <1>3 DEF Work

\* KSP_SignHash, KSP_Decrypt and KSP_OpenKey come back in a bounded number of
\* steps of their own, whatever the library answers.
THEOREM CallsBounded == Spec => CallsShorten
<1> DEFINE Shorter ==
      \E t \in Threads :
       /\ pc[t] = "idle" \/ StepsLeft[pc'[t]] < StepsLeft[pc[t]]
       /\ \A u \in Threads \ {t} : pc'[u] = pc[u]
<1>1. IInv /\ Next => Shorter
  <2>1. SUFFICES ASSUME IInv, Next PROVE Shorter
    OBVIOUS
  <2>2. PICK t \in Threads : Call(t) \/ Acquire(t) \/ AcquireFails(t) \/ Work(t) \/ Return(t)
    BY <2>1 DEF Next
  <2>3. TypeOK
    BY <2>1 DEF IInv
  <2>4. QED BY <2>1, <2>2, <2>3, OthersApart, OwnStepShortens
<1>2. CallsShorten <=> [][Shorter]_vars
  BY DEF CallsShorten
<1> HIDE DEF Shorter
<1>3. IInv /\ [Next]_vars => [Shorter]_vars
  BY <1>1
<1>4. QED BY <1>2, <1>3, Invariance, PTL DEF Spec

\* The pool of a caller that gives a session back is open and knows the session.
THEOREM ReleaseTaken == Spec => []NeverRefused
<1>1. Init => ~closed
  BY DEF Init, Lease!Init
<1>2. ~closed /\ [Next]_vars => ~closed'
  BY DEF Next, vars, Call, Acquire, AcquireFails, Work, OperationInit, SizeQuery, Sign,
     Decrypt, OpenKey, ReleaseSession, Return, Lease!Grant, Lease!Return
<1>3. IInv /\ ~closed => NeverRefused
  BY DEF IInv, NoSessionKept, Leased, NeverRefused, Holding
<1>4. QED BY <1>1, <1>2, <1>3, Invariance, PTL DEF Spec
=============================================================================
