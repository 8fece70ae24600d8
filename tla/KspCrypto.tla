----------------------------- MODULE KspCrypto -----------------------------
(***************************************************************************)
(* KSP_SignHash, KSP_Decrypt and the lookups of KSP_OpenKey                *)
(* (softhsm_ksp/src/ksp/ksp_crypto.c, ksp_key.c, pkcs11/p11_utils.c):      *)
(* callers that lease a library session for the length of one call and     *)
(* run a PKCS#11 operation on it.                                          *)
(*                                                                         *)
(* The session pool is SessionLease, which P11SessionPool implements.  The *)
(* library is external: a session has at most one active operation, an     *)
(* Init fails on a session that has one, and an operation ends with the    *)
(* call that delivers its data or fails.  Asking for the size does not end *)
(* it: KSP_SignHash itself relies on that between its two C_Sign.          *)
(*                                                                         *)
(* Left out: the checks of arguments and of bFinalized, which return       *)
(* before anything has changed, mechanisms and padding, and what calls     *)
(* that use no operation do (KSP_ExportKey, KSP_ImportKey).                *)
(***************************************************************************)
EXTENDS Naturals, FiniteSets

CONSTANTS
  Threads,          \* callers
  Sessions,         \* open sessions of the pool
  Keys, EcKeys,     \* private keys in the token; those of an ECDSA algorithm
  AllocFails,       \* memory may run out (KSP_Alloc, KSP_AllocZero)
  NoSession, NoKey

ASSUME CryptoAssumption ==
  /\ NoSession \notin Sessions /\ NoKey \notin Keys /\ EcKeys \subseteq Keys
  /\ AllocFails \in BOOLEAN
  /\ IsFiniteSet(Sessions)

Calls == {"sign", "decrypt", "open"}
Buffers == {"null", "small", "fits"}   \* pbSignature or pbOutput, and its size
Locs == {"idle", "acquire", "init", "size", "sign", "decrypt", "release", "return"}
Errors == {"CKR_KEY_HANDLE_INVALID", "CKR_DEVICE_ERROR"}
Idle == [kind |-> "none", key |-> NoKey]

VARIABLES
  lease, closed,    \* the session pool
  op,               \* the active operation of each library session
  pc, call, key, buf, hSession,   \* callers: where they are, their arguments
  rv,               \* and result of the library
  from,             \* key the data at pbSignature or pbOutput was made with
  status            \* what the call returns

callVars == <<call, key, buf>>
vars == <<lease, closed, op, pc, callVars, hSession, rv, from, status>>

Lease == INSTANCE SessionLease WITH
  Clients <- Threads, Capacity <- Cardinality(Sessions)

\* Slip: an error without a row is returned as it is
P11RvToSecStatus_NoDefault(r) ==
  CASE r = "CKR_OK" -> "ERROR_SUCCESS"
    [] r = "CKR_KEY_HANDLE_INVALID" -> "NTE_BAD_KEY"
    [] r = "CKR_BUFFER_TOO_SMALL" -> "NTE_BUFFER_TOO_SMALL"
    [] OTHER -> r

P11RvToSecStatus(r) ==
  CASE r = "CKR_OK" -> "ERROR_SUCCESS"
    [] r = "CKR_KEY_HANDLE_INVALID" -> "NTE_BAD_KEY"
    [] r = "CKR_BUFFER_TOO_SMALL" -> "NTE_BUFFER_TOO_SMALL"
    [] OTHER -> "NTE_FAIL"

Init ==
  /\ Lease!Init
  /\ op = [s \in Sessions |-> Idle]
  /\ pc = [t \in Threads |-> "idle"]
  /\ call = [t \in Threads |-> "sign"]
  /\ key = [t \in Threads |-> NoKey]
  /\ buf = [t \in Threads |-> "null"]
  /\ hSession = [t \in Threads |-> NoSession]
  /\ rv = [t \in Threads |-> "CKR_OK"]
  /\ from = [t \in Threads |-> NoKey]
  /\ status = [t \in Threads |-> "ERROR_SUCCESS"]

At(t, l) == pc[t] = l
Goto(t, l) == pc' = [pc EXCEPT ![t] = l]

\* The library's verdict on t's session: it ends or begins operation o there.
Library(t, r, o) ==
  /\ rv' = [rv EXCEPT ![t] = r]
  /\ op' = [op EXCEPT ![hSession[t]] = o]

\* Leave the call with status x, through the release of the session.
Leave(t, x) ==
  /\ status' = [status EXCEPT ![t] = x]
  /\ Goto(t, "release")

\* Slip: the error path returns without releasing
LeaveError_NoRelease(t, r) ==
  /\ status' = [status EXCEPT ![t] = P11RvToSecStatus(r)]
  /\ Goto(t, "return")

\* Leaving because the library reported an error
LeaveError(t, r) == Leave(t, P11RvToSecStatus(r))

-----------------------------------------------------------------------------

\* KSP_SignHash, KSP_Decrypt or KSP_OpenKey up to P11_AcquireSession
Call(t) ==
  /\ At(t, "idle")
  /\ \E c \in Calls, k \in Keys, b \in Buffers :
       /\ c = "open" => b = "null"
       /\ call' = [call EXCEPT ![t] = c]
       /\ key' = [key EXCEPT ![t] = k]
       /\ buf' = [buf EXCEPT ![t] = b]
  /\ Goto(t, "acquire")
  /\ UNCHANGED <<lease, closed, op, hSession, rv, from, status>>

Acquire(t) ==
  /\ At(t, "acquire")
  /\ Lease!Grant(t)
  /\ hSession' = [hSession EXCEPT ![t] = lease'[t]]
  /\ Goto(t, "init")
  /\ UNCHANGED <<op, callVars, rv, from, status>>

\* P11_AcquireSession times out, or opening or logging in fails.
AcquireFails(t) ==
  /\ At(t, "acquire")
  /\ \E x \in {"NTE_NO_MEMORY", P11RvToSecStatus("CKR_DEVICE_ERROR")} :
       status' = [status EXCEPT ![t] = x]
  /\ Goto(t, "return")
  /\ UNCHANGED <<lease, closed, op, callVars, hSession, rv, from>>

\* Slip: only a failed C_DecryptInit releases
OperationInit_SignKeeps(t) ==
  /\ At(t, "init") /\ call[t] # "open"
  /\ \/ /\ op[hSession[t]] = Idle
        /\ Library(t, "CKR_OK", [kind |-> call[t], key |-> key[t]])
        /\ Goto(t, IF call[t] = "sign" THEN "size" ELSE "decrypt")
        /\ UNCHANGED status
     \/ \E r \in IF op[hSession[t]] = Idle THEN Errors ELSE {"CKR_OPERATION_ACTIVE"} :
          /\ Library(t, r, op[hSession[t]])
          /\ status' = [status EXCEPT ![t] = P11RvToSecStatus(r)]
          /\ Goto(t, IF call[t] = "sign" THEN "return" ELSE "release")
  /\ UNCHANGED <<lease, closed, callVars, hSession, from>>

\* Slip: the result of C_SignInit is not looked at
OperationInit_Unchecked(t) ==
  /\ At(t, "init") /\ call[t] # "open"
  /\ IF op[hSession[t]] = Idle
     THEN Library(t, "CKR_OK", [kind |-> call[t], key |-> key[t]])
     ELSE Library(t, "CKR_OPERATION_ACTIVE", op[hSession[t]])
  /\ Goto(t, IF call[t] = "sign" THEN "size" ELSE "decrypt")
  /\ UNCHANGED <<lease, closed, callVars, hSession, from, status>>

\* C_SignInit and C_DecryptInit with the private key of the handle
OperationInit(t) ==
  /\ At(t, "init") /\ call[t] # "open"
  /\ \/ /\ op[hSession[t]] = Idle
        /\ Library(t, "CKR_OK", [kind |-> call[t], key |-> key[t]])
        /\ Goto(t, IF call[t] = "sign" THEN "size" ELSE "decrypt")
        /\ UNCHANGED status
     \/ \E r \in IF op[hSession[t]] = Idle THEN Errors ELSE {"CKR_OPERATION_ACTIVE"} :
          /\ Library(t, r, op[hSession[t]])
          /\ LeaveError(t, r)
  /\ UNCHANGED <<lease, closed, callVars, hSession, from>>

\* KSP_SignHash's first C_Sign; without a buffer, or without memory for the
\* signature, the call ends here.
SizeQuery(t) ==
  /\ At(t, "size")
  /\ \/ /\ Library(t, "CKR_OK", op[hSession[t]])
        /\ \/ buf[t] = "null" /\ Leave(t, "ERROR_SUCCESS")
           \/ AllocFails /\ buf[t] # "null" /\ Leave(t, "NTE_NO_MEMORY")
           \/ buf[t] # "null" /\ Goto(t, "sign") /\ UNCHANGED status
     \/ \E r \in Errors : Library(t, r, Idle) /\ LeaveError(t, r)
  /\ UNCHANGED <<lease, closed, callVars, hSession, from>>

\* Slip: the caller's buffer is looked at first
Sign_ChecksFirst(t) ==
  /\ At(t, "sign")
  /\ \/ /\ buf[t] = "small"
        /\ Leave(t, "NTE_BUFFER_TOO_SMALL")
        /\ UNCHANGED <<op, rv, from>>
     \/ /\ buf[t] = "fits"
        /\ Library(t, "CKR_OK", Idle)
        /\ from' = [from EXCEPT ![t] = op[hSession[t]].key]
        /\ Leave(t, "ERROR_SUCCESS")
     \/ /\ buf[t] = "fits"
        /\ \E r \in Errors : Library(t, r, Idle) /\ LeaveError(t, r) /\ UNCHANGED from
  /\ UNCHANGED <<lease, closed, callVars, hSession>>

\* The second C_Sign.  The caller's buffer is looked at after it.  An ECDSA
\* signature that does not decode is NTE_INVALID_PARAMETER.
Sign(t) ==
  /\ At(t, "sign")
  /\ \/ /\ Library(t, "CKR_OK", Idle)
        /\ \/ /\ buf[t] = "fits"
              /\ from' = [from EXCEPT ![t] = op[hSession[t]].key]
              /\ Leave(t, "ERROR_SUCCESS")
           \/ /\ buf[t] = "small"
              /\ Leave(t, "NTE_BUFFER_TOO_SMALL")
              /\ UNCHANGED from
           \/ /\ key[t] \in EcKeys
              /\ Leave(t, "NTE_INVALID_PARAMETER")
              /\ UNCHANGED from
     \/ \E r \in Errors : Library(t, r, Idle) /\ LeaveError(t, r) /\ UNCHANGED from
  /\ UNCHANGED <<lease, closed, callVars, hSession>>

\* KSP_Decrypt's only C_Decrypt.  A buffer too small is reported like a size
\* query, as success.
Decrypt(t) ==
  /\ At(t, "decrypt")
  /\ \/ /\ buf[t] = "fits"
        /\ from' = [from EXCEPT ![t] = op[hSession[t]].key]
        /\ Library(t, "CKR_OK", Idle)
        /\ Leave(t, "ERROR_SUCCESS")
     \/ /\ buf[t] # "fits"
        /\ Library(t, IF buf[t] = "null" THEN "CKR_OK" ELSE "CKR_BUFFER_TOO_SMALL",
                   op[hSession[t]])
        /\ Leave(t, "ERROR_SUCCESS")
        /\ UNCHANGED from
     \/ \E r \in Errors : Library(t, r, Idle) /\ LeaveError(t, r) /\ UNCHANGED from
  /\ UNCHANGED <<lease, closed, callVars, hSession>>

\* KSP_OpenKey with P11_FindObjectByLabel.  Any failure of the search, that of
\* an Init on a busy session too, reads as a key that is not there.  A search
\* that began is always ended (C_FindObjectsFinal).
OpenKey(t) ==
  /\ At(t, "init") /\ call[t] = "open"
  /\ \/ /\ op[hSession[t]] = Idle
        /\ Library(t, "CKR_OK", Idle)
        /\ \E x \in {"ERROR_SUCCESS", "NTE_BAD_KEYSET", "NTE_NO_MEMORY"} :
             (x = "NTE_NO_MEMORY" => AllocFails) /\ Leave(t, x)
     \/ /\ op[hSession[t]] # Idle
        /\ Library(t, "CKR_OPERATION_ACTIVE", op[hSession[t]])
        /\ Leave(t, "NTE_BAD_KEYSET")
  /\ UNCHANGED <<lease, closed, callVars, hSession, from>>

ReleaseSession(t) ==
  /\ At(t, "release")
  /\ Lease!Return(t)
  /\ Goto(t, "return")
  /\ UNCHANGED <<op, callVars, hSession, rv, from, status>>

Return(t) ==
  /\ At(t, "return")
  /\ Goto(t, "idle")
  /\ call' = [call EXCEPT ![t] = "sign"]
  /\ key' = [key EXCEPT ![t] = NoKey]
  /\ buf' = [buf EXCEPT ![t] = "null"]
  /\ hSession' = [hSession EXCEPT ![t] = NoSession]
  /\ rv' = [rv EXCEPT ![t] = "CKR_OK"]
  /\ from' = [from EXCEPT ![t] = NoKey]
  /\ status' = [status EXCEPT ![t] = "ERROR_SUCCESS"]
  /\ UNCHANGED <<lease, closed, op>>

\* What t does once it has a session: no step waits for another caller.
Work(t) == OperationInit(t) \/ SizeQuery(t) \/ Sign(t) \/ Decrypt(t) \/ OpenKey(t)
           \/ ReleaseSession(t)

Next == \E t \in Threads :
          Call(t) \/ Acquire(t) \/ AcquireFails(t) \/ Work(t) \/ Return(t)

Spec == Init /\ [][Next]_vars

\* Library calls and P11_ReleaseSession come back.
FairSpec == Spec /\ \A t \in Threads : WF_vars(Work(t))

-----------------------------------------------------------------------------
(* Properties                                                               *)

TypeOK ==
  /\ lease \in [Threads -> Sessions \cup {NoSession}]
  /\ closed \in BOOLEAN
  /\ op \in [Sessions -> {Idle} \cup [kind : {"sign", "decrypt"}, key : Keys]]
  /\ pc \in [Threads -> Locs]
  /\ call \in [Threads -> Calls]
  /\ key \in [Threads -> Keys \cup {NoKey}]
  /\ buf \in [Threads -> Buffers]
  /\ hSession \in [Threads -> Sessions \cup {NoSession}]
  /\ rv \in [Threads -> Errors \cup
       {"CKR_OK", "CKR_BUFFER_TOO_SMALL", "CKR_OPERATION_ACTIVE"}]
  /\ from \in [Threads -> Keys \cup {NoKey}]
  /\ status \in [Threads -> {"ERROR_SUCCESS", "NTE_BAD_KEY", "NTE_BUFFER_TOO_SMALL",
       "NTE_FAIL", "NTE_NO_MEMORY", "NTE_INVALID_PARAMETER", "NTE_BAD_KEYSET"}]

\* A caller gets data made with the key of its own handle only, and a
\* KSP_SignHash with a buffer that succeeds has delivered a signature: the
\* session's operation is the caller's from C_SignInit to the second C_Sign,
\* whatever earlier calls with other keys left active on the session.
DataFromOwnKey ==
  \A t \in Threads :
    /\ from[t] \in {NoKey, key[t]}
    /\ pc[t] = "return" /\ call[t] = "sign" /\ buf[t] # "null"
         /\ status[t] = "ERROR_SUCCESS" => from[t] = key[t]

\* Every return path of KSP_SignHash, KSP_Decrypt and KSP_OpenKey gives the
\* session back, once.
NoSessionKept ==
  \A t \in Threads :
    lease[t] = IF pc[t] \in {"idle", "acquire", "return"} THEN NoSession ELSE hSession[t]

\* A leased session comes back to the pool, whatever the library answers.
SessionsReturned ==
  \A t \in Threads : lease[t] # NoSession ~> lease[t] = NoSession

\* "the first call with pbSignature=NULL returns the required size, the second
\* performs the actual signing": no KSP_SignHash with the buffer it asks for finds
\* its session taken by a signature with the same key, which an earlier size
\* query of KSP_SignHash has left there.
DoubleCallSigns ==
  \A t \in Threads :
    call[t] = "sign" /\ buf[t] = "fits" /\ rv[t] = "CKR_OPERATION_ACTIVE" =>
      op[hSession[t]] # [kind |-> "sign", key |-> key[t]]

-----------------------------------------------------------------------------
(* The inductive invariant behind DataFromOwnKey and NoSessionKept          *)

Holding == {"init", "size", "sign", "decrypt", "release"}

\* A caller at work has a session of its own.
Leased ==
  \A t \in Threads :
    /\ pc[t] \in Holding => hSession[t] \in Sessions
    /\ pc[t] # "idle" => key[t] \in Keys
    /\ \A u \in Threads : t # u /\ lease[t] # NoSession => lease[t] # lease[u]

\* The active operation of its session is the one it began, with its key.
Owned ==
  \A t \in Threads :
    /\ pc[t] \in {"size", "sign"} =>
         call[t] = "sign" /\ op[hSession[t]] = [kind |-> "sign", key |-> key[t]]
    /\ pc[t] = "decrypt" =>
         call[t] = "decrypt" /\ op[hSession[t]] = [kind |-> "decrypt", key |-> key[t]]

\* Data is delivered on the way out, and by the operation just ended.
Delivered ==
  \A t \in Threads :
    /\ from[t] # NoKey => pc[t] \in {"release", "return"} /\ from[t] = key[t]
    /\ pc[t] \in {"release", "return"} /\ call[t] = "sign" /\ buf[t] # "null"
         /\ status[t] = "ERROR_SUCCESS" => from[t] = key[t]

IInv == TypeOK /\ NoSessionKept /\ Leased /\ Owned /\ Delivered

-----------------------------------------------------------------------------
(* What a size query leaves behind                                          *)

\* On the way to P11_ReleaseSession an operation is still active on the session
\* exactly after a size query, a C_Decrypt into a short buffer, a KSP_SignHash
\* without memory for the signature, or a call that found it so; except for
\* the last it is the caller's own.
LeftAt(t) ==
  LET o == op[hSession[t]]
  IN  /\ o # Idle <=> \/ rv[t] \in {"CKR_OPERATION_ACTIVE", "CKR_BUFFER_TOO_SMALL"}
                      \/ rv[t] = "CKR_OK" /\ call[t] # "open" /\ buf[t] = "null"
                      \/ call[t] = "sign" /\ status[t] = "NTE_NO_MEMORY"
      /\ o # Idle /\ rv[t] # "CKR_OPERATION_ACTIVE" =>
           o = [kind |-> call[t], key |-> key[t]]

\* KSP_SignHash, KSP_Decrypt and KSP_OpenKey give no session back with an
\* operation active on it but after the answers LeftAt lists: every error of the
\* library and every call that delivers has ended it, also when the caller's
\* buffer is then too small for the signature.
LeftActive == \A t \in Threads : pc[t] = "release" => LeftAt(t)

\* An operation left active on a session is ended by nothing the provider does
\* later: while the pool lives, the session never works again.
StrandedStays ==
  [][\A s \in Sessions :
       /\ op[s] # Idle
       /\ \A t \in Threads : pc[t] \in {"size", "sign", "decrypt"} => hSession[t] # s
       => op'[s] = op[s]]_vars

\* A call on such a session fails with an error that says nothing of the cause:
\* NTE_FAIL, or for KSP_OpenKey that the key does not exist.
FailsAt(t) ==
  /\ pc[t] \in {"release", "return"} /\ from[t] = NoKey
  /\ status[t] = IF call[t] = "open" THEN "NTE_BAD_KEYSET" ELSE "NTE_FAIL"
StrandedFails == \A t \in Threads : rv[t] = "CKR_OPERATION_ACTIVE" => FailsAt(t)

\* The second C_Sign is reached with a buffer only, and a result of the library
\* belongs to a call that has called it.
AskedAt(t) ==
  /\ pc[t] = "sign" => buf[t] # "null"
  /\ pc[t] \notin {"release", "return"} => rv[t] = "CKR_OK"
Asked == \A t \in Threads : AskedAt(t)

LeftInv == IInv /\ Asked /\ LeftActive /\ StrandedFails

-----------------------------------------------------------------------------
(* What SessionsReturned rests on                                           *)

\* The steps of a caller to the end of its call, at most
StepsLeft == [idle |-> 0, return |-> 1, release |-> 2, decrypt |-> 3, sign |-> 3,
              size |-> 4, init |-> 5, acquire |-> 6]

\* Every step is one of one caller, which enters a call or is nearer the end of
\* it, and moves no other caller.
CallsShorten ==
  [][\E t \in Threads :
       /\ pc[t] = "idle" \/ StepsLeft[pc'[t]] < StepsLeft[pc[t]]
       /\ \A u \in Threads \ {t} : pc'[u] = pc[u]]_vars

\* A caller that gets to P11_ReleaseSession has a session to give back to a pool
\* that takes it: it is never refused.
NeverRefused == ~closed /\ \A t \in Threads : pc[t] = "release" => lease[t] \in Sessions
=============================================================================
