--------------------------- MODULE P11SessionPool ---------------------------
(***************************************************************************)
(* The PKCS#11 session pool of the key storage provider                    *)
(* (softhsm_ksp/src/pkcs11/p11_session.c): P11_SESSION_POOL_SIZE entries,  *)
(* a counting semaphore that admits one caller per entry, one critical     *)
(* section around the search for a free entry and one per entry around the *)
(* opening of its library session.                                         *)
(*                                                                         *)
(* Each CNG call runs on a thread of the host process.  A thread's         *)
(* position in the code is pc[t]; one action is one step between two       *)
(* accesses to shared state, so every interleaving the locks permit is a   *)
(* behaviour.  An entry being NOT in use is written outside csPool on the  *)
(* failure path, so the search is one step per entry.                      *)
(*                                                                         *)
(* External (the library and Windows, modelled from how the code uses      *)
(* them): session handles are never reused, C_OpenSession and C_Login may  *)
(* fail, the login state is shared by all sessions of the process and ends *)
(* with the last of them; ReleaseSemaphore never exceeds the maximum.      *)
(***************************************************************************)
EXTENDS Naturals, FiniteSets

CONSTANTS
  Threads,           \* the threads of the host process
  NoThread,          \* "nobody" as an owner; NULL as a semaphore
  PoolSize,          \* P11_SESSION_POOL_SIZE
  MaxSessions,       \* bound: library sessions opened over the whole run
  OverlappingOpens   \* may two threads be inside KSP_OpenProvider at once?

ASSUME PoolAssumption ==
  /\ IsFiniteSet(Threads)
  /\ NoThread \notin Threads
  /\ PoolSize \in Nat \ {0}
  /\ MaxSessions \in Nat
  /\ OverlappingOpens \in BOOLEAN

VARIABLES
  phase,         \* "running", "stopping" (no new calls) or "down" (unloaded)
  opened,        \* some KSP_OpenProvider has succeeded
  bPoolInit,     \* g_bPoolInit
  csPool,        \* owner of g_csPool
  hSemaphore,    \* g_hSemaphore: a semaphore is named by its creating thread
  sem,           \* count of the semaphore each thread created
  hSession, bInUse, bLoggedIn, cs,   \* g_aPool[i].hSession, .bInUse, ...
  libSessions,   \* the sessions open in the library
  userLoggedIn,  \* the library's login state
  nextHandle,    \* the next handle C_OpenSession returns
  pc,            \* where each thread is
  waitsOn,       \* the semaphore a thread handed to WaitForSingleObject
  iAcq,          \* i in P11_AcquireSession, then the entry it claimed
  iRel,          \* i in P11_ReleaseSession
  held           \* *phSession of the caller

initVars == <<opened, bPoolInit>>
entryVars == <<hSession, bInUse, bLoggedIn, cs>>
semVars == <<hSemaphore, sem>>
libVars == <<libSessions, userLoggedIn, nextHandle>>
localVars == <<waitsOn, iAcq, iRel, held>>
vars == <<phase, initVars, csPool, semVars, entryVars, libVars, pc, localVars>>

Slots == 1..PoolSize
InvalidHandle == 0      \* CK_INVALID_HANDLE
Handles == 1..MaxSessions

\* Locations inside P11_SessionPool_Initialize.
InitLocs == {"initCs", "initPool", "initSem", "initDone"}
\* Locations from the claim of an entry to the step that frees it.
OpenLocs == {"enterCs", "open", "login", "close", "clear", "failFree"}
HoldLocs == {"holding", "relEnter", "relScan"}
ClaimLocs == OpenLocs \cup {"leaveCs", "read"} \cup HoldLocs
\* Locations at which the thread owes the semaphore a release.
PermitLocs == ClaimLocs \cup
              {"enterPool", "scan", "claim", "failLeave", "failRelease"}
Locs == {"idle", "allocProvider", "wait"} \cup InitLocs \cup PermitLocs

-----------------------------------------------------------------------------

Init ==
  /\ phase = "running"
  /\ opened = FALSE
  /\ bPoolInit = FALSE
  /\ csPool = NoThread
  /\ hSemaphore = NoThread
  /\ sem = [t \in Threads |-> 0]
  /\ hSession = [i \in Slots |-> InvalidHandle]
  /\ bInUse = [i \in Slots |-> FALSE]
  /\ bLoggedIn = [i \in Slots |-> FALSE]
  /\ cs = [i \in Slots |-> NoThread]
  /\ libSessions = {}
  /\ userLoggedIn = FALSE
  /\ nextHandle = 1
  /\ pc = [t \in Threads |-> "idle"]
  /\ waitsOn = [t \in Threads |-> NoThread]
  /\ iAcq = [t \in Threads |-> 1]
  /\ iRel = [t \in Threads |-> 1]
  /\ held = [t \in Threads |-> InvalidHandle]

\* Thread t is at `from' in a live process and goes to `to'.
Move(t, from, to) ==
  /\ phase # "down"
  /\ pc[t] = from
  /\ pc' = [pc EXCEPT ![t] = to]
  /\ UNCHANGED phase

\* The call returns: its locals go out of scope.
Return(t, from) ==
  /\ Move(t, from, "idle")
  /\ waitsOn' = [waitsOn EXCEPT ![t] = NoThread]
  /\ iAcq' = [iAcq EXCEPT ![t] = 1]
  /\ iRel' = [iRel EXCEPT ![t] = 1]
  /\ held' = [held EXCEPT ![t] = InvalidHandle]

\* ReleaseSemaphore(g_hSemaphore, 1, NULL): refused at the maximum count.
ReleaseSemaphore ==
  /\ sem' = [sem EXCEPT ![hSemaphore] = IF @ < PoolSize THEN @ + 1 ELSE @]
  /\ UNCHANGED hSemaphore

EnterPool(t) == csPool = NoThread /\ csPool' = t
\* Leaving a critical section that was reset under its owner is undefined: it
\* may or may not free it for somebody else (only with OverlappingOpens).
LeavePool(t) ==
  csPool' \in IF csPool = t THEN {NoThread} ELSE {csPool, NoThread}

-----------------------------------------------------------------------------
(* KSP_OpenProvider once P11_Initialize has succeeded:                      *)
(* P11_SessionPool_Initialize, which holds no lock.                         *)

\* if (g_bPoolInit) return ERROR_SUCCESS
OpenAgain(t) ==
  /\ phase = "running"
  /\ bPoolInit
  /\ Move(t, "idle", "allocProvider")
  /\ UNCHANGED <<initVars, csPool, semVars, entryVars, libVars, localVars>>

OpenFirst(t) ==
  /\ phase = "running"
  /\ ~bPoolInit
  /\ OverlappingOpens \/ \A u \in Threads : pc[u] \notin InitLocs
  /\ Move(t, "idle", "initCs")
  /\ UNCHANGED <<initVars, csPool, semVars, entryVars, libVars, localVars>>

\* InitializeCriticalSection(&g_csPool)
InitCsPool(t) ==
  /\ Move(t, "initCs", "initPool")
  /\ csPool' = NoThread
  /\ UNCHANGED <<initVars, semVars, entryVars, libVars, localVars>>

\* memset of the pool and the entries' critical sections
InitPool(t) ==
  /\ Move(t, "initPool", "initSem")
  /\ hSession' = [i \in Slots |-> InvalidHandle]
  /\ bInUse' = [i \in Slots |-> FALSE]
  /\ bLoggedIn' = [i \in Slots |-> FALSE]
  /\ cs' = [i \in Slots |-> NoThread]
  /\ UNCHANGED <<initVars, csPool, semVars, libVars, localVars>>

\* Slip: one permit more than there are entries
InitSemaphore_OneTooMany(t) ==
  /\ Move(t, "initSem", "initDone")
  /\ hSemaphore' = t
  /\ sem' = [sem EXCEPT ![t] = PoolSize + 1]
  /\ UNCHANGED <<initVars, csPool, entryVars, libVars, localVars>>

\* CreateSemaphoreW with initial and maximum count PoolSize
InitSemaphore(t) ==
  /\ Move(t, "initSem", "initDone")
  /\ hSemaphore' = t
  /\ sem' = [sem EXCEPT ![t] = PoolSize]
  /\ UNCHANGED <<initVars, csPool, entryVars, libVars, localVars>>

\* CreateSemaphoreW returned NULL: NTE_NO_MEMORY to the caller
InitSemaphoreFails(t) ==
  /\ Return(t, "initSem")
  /\ hSemaphore' = NoThread
  /\ csPool' = NoThread
  /\ UNCHANGED <<initVars, sem, entryVars, libVars>>

InitDone(t) ==
  /\ Move(t, "initDone", "allocProvider")
  /\ bPoolInit' = TRUE
  /\ UNCHANGED <<opened, csPool, semVars, entryVars, libVars, localVars>>

\* KSP_AllocZero of the provider object, and the handle to the caller
AllocProvider(t) ==
  /\ Return(t, "allocProvider")
  /\ opened' = TRUE
  /\ UNCHANGED <<bPoolInit, csPool, semVars, entryVars, libVars>>

AllocProviderFails(t) ==
  /\ Return(t, "allocProvider")
  /\ UNCHANGED <<initVars, csPool, semVars, entryVars, libVars>>

-----------------------------------------------------------------------------
(* P11_AcquireSession                                                       *)

AcquireCall(t) ==
  /\ phase = "running"
  /\ opened
  /\ Move(t, "idle", "wait")
  /\ waitsOn' = [waitsOn EXCEPT ![t] = hSemaphore]
  /\ UNCHANGED <<initVars, csPool, semVars, entryVars, libVars,
                 iAcq, iRel, held>>

\* WaitForSingleObject returned WAIT_OBJECT_0
WaitOk(t) ==
  /\ waitsOn[t] \in Threads
  /\ sem[waitsOn[t]] > 0
  /\ Move(t, "wait", "enterPool")
  /\ sem' = [sem EXCEPT ![waitsOn[t]] = @ - 1]
  /\ UNCHANGED <<initVars, csPool, hSemaphore, entryVars, libVars, localVars>>

\* 5 s without a permit, or a NULL semaphore: NTE_NO_MEMORY
WaitTimeout(t) ==
  /\ waitsOn[t] \in Threads => sem[waitsOn[t]] = 0
  /\ Return(t, "wait")
  /\ UNCHANGED <<initVars, csPool, semVars, entryVars, libVars>>

\* Slip: the search runs without g_csPool
ScanEnter_NoLock(t) ==
  /\ Move(t, "enterPool", "scan")
  /\ UNCHANGED <<initVars, csPool, semVars, entryVars, libVars, localVars>>

ScanEnter(t) ==
  /\ Move(t, "enterPool", "scan")
  /\ EnterPool(t)
  /\ UNCHANGED <<initVars, semVars, entryVars, libVars, localVars>>

ScanNext(t) ==
  /\ bInUse[iAcq[t]]
  /\ iAcq[t] < PoolSize
  /\ Move(t, "scan", "scan")
  /\ iAcq' = [iAcq EXCEPT ![t] = @ + 1]
  /\ UNCHANGED <<initVars, csPool, semVars, entryVars, libVars,
                 waitsOn, iRel, held>>

\* The loop ends at the first free entry or, leaving g_csPool, at the end of
\* the pool ("Should not happen thanks to the semaphore").
ScanEnd(t) ==
  /\ ~bInUse[iAcq[t]] \/ iAcq[t] = PoolSize
  /\ Move(t, "scan", IF bInUse[iAcq[t]] THEN "failRelease" ELSE "claim")
  /\ IF bInUse[iAcq[t]] THEN LeavePool(t) ELSE UNCHANGED csPool
  /\ UNCHANGED <<initVars, semVars, entryVars, libVars, localVars>>

\* bInUse = TRUE and LeaveCriticalSection(&g_csPool)
Claim(t) ==
  /\ Move(t, "claim", "enterCs")
  /\ bInUse' = [bInUse EXCEPT ![iAcq[t]] = TRUE]
  /\ LeavePool(t)
  /\ UNCHANGED <<initVars, semVars, hSession, bLoggedIn, cs, libVars, localVars>>

\* Slip: a session is opened although the entry has one
EnterEntry_AlwaysOpens(t) ==
  /\ cs[iAcq[t]] = NoThread
  /\ Move(t, "enterCs", "open")
  /\ cs' = [cs EXCEPT ![iAcq[t]] = t]
  /\ UNCHANGED <<initVars, csPool, semVars, hSession, bInUse, bLoggedIn,
                 libVars, localVars>>

\* EnterCriticalSection(&g_aPool[i].cs) and the test for an open session
EnterEntry(t) ==
  /\ cs[iAcq[t]] = NoThread
  /\ Move(t, "enterCs",
          IF hSession[iAcq[t]] = InvalidHandle THEN "open" ELSE "leaveCs")
  /\ cs' = [cs EXCEPT ![iAcq[t]] = t]
  /\ UNCHANGED <<initVars, csPool, semVars, hSession, bInUse, bLoggedIn,
                 libVars, localVars>>

\* OpenAndLoginSession: C_OpenSession stores the handle in the entry
OpenSession(t) ==
  /\ nextHandle <= MaxSessions
  /\ Move(t, "open", "login")
  /\ hSession' = [hSession EXCEPT ![iAcq[t]] = nextHandle]
  /\ libSessions' = libSessions \cup {nextHandle}
  /\ nextHandle' = nextHandle + 1
  /\ UNCHANGED <<initVars, csPool, semVars, bInUse, bLoggedIn, cs,
                 userLoggedIn, localVars>>

OpenSessionFails(t) ==
  /\ Move(t, "open", "failFree")
  /\ UNCHANGED <<initVars, csPool, semVars, entryVars, libVars, localVars>>

\* CKR_OK or CKR_USER_ALREADY_LOGGED_IN
Login(t) ==
  /\ Move(t, "login", "leaveCs")
  /\ bLoggedIn' = [bLoggedIn EXCEPT ![iAcq[t]] = TRUE]
  /\ userLoggedIn' = TRUE
  /\ UNCHANGED <<initVars, csPool, semVars, hSession, bInUse, cs,
                 libSessions, nextHandle, localVars>>

LoginFails(t) ==
  /\ Move(t, "login", "close")
  /\ UNCHANGED <<initVars, csPool, semVars, entryVars, libVars, localVars>>

\* Slip: the failed login leaves its session open
CloseSession_Forgotten(t) ==
  /\ Move(t, "close", "clear")
  /\ UNCHANGED <<initVars, csPool, semVars, entryVars, libVars, localVars>>

\* C_CloseSession: closing the last session logs the user out
CloseSession(t) ==
  /\ Move(t, "close", "clear")
  /\ libSessions' = libSessions \ {hSession[iAcq[t]]}
  /\ userLoggedIn' = (userLoggedIn /\ libSessions' # {})
  /\ UNCHANGED <<initVars, csPool, semVars, entryVars, nextHandle, localVars>>

\* Slip: the entry keeps the handle of the closed session
ClearHandle_Forgotten(t) ==
  /\ Move(t, "clear", "failFree")
  /\ UNCHANGED <<initVars, csPool, semVars, entryVars, libVars, localVars>>

ClearHandle(t) ==
  /\ Move(t, "clear", "failFree")
  /\ hSession' = [hSession EXCEPT ![iAcq[t]] = InvalidHandle]
  /\ UNCHANGED <<initVars, csPool, semVars, bInUse, bLoggedIn, cs, libVars,
                 localVars>>

\* Slip: the failure path leaves the entry marked in use
FailFree_Forgotten(t) ==
  /\ Move(t, "failFree", "failLeave")
  /\ UNCHANGED <<initVars, csPool, semVars, entryVars, libVars, localVars>>

\* Failure path: bInUse = FALSE (without g_csPool), leave cs, release the permit
FailFree(t) ==
  /\ Move(t, "failFree", "failLeave")
  /\ bInUse' = [bInUse EXCEPT ![iAcq[t]] = FALSE]
  /\ UNCHANGED <<initVars, csPool, semVars, hSession, bLoggedIn, cs, libVars,
                 localVars>>

\* Slip: the failure path keeps the entry's critical section
FailLeave_Forgotten(t) ==
  /\ Move(t, "failLeave", "failRelease")
  /\ UNCHANGED <<initVars, csPool, semVars, entryVars, libVars, localVars>>

FailLeave(t) ==
  /\ Move(t, "failLeave", "failRelease")
  /\ cs' = [cs EXCEPT ![iAcq[t]] = IF @ = t THEN NoThread ELSE @]
  /\ UNCHANGED <<initVars, csPool, semVars, hSession, bInUse, bLoggedIn,
                 libVars, localVars>>

\* Slip: the failure path keeps the permit
FailRelease_Forgotten(t) ==
  /\ Return(t, "failRelease")
  /\ UNCHANGED <<initVars, csPool, semVars, entryVars, libVars>>

\* ReleaseSemaphore and return an error, of the failed open and of the search
FailRelease(t) ==
  /\ Return(t, "failRelease")
  /\ ReleaseSemaphore
  /\ UNCHANGED <<initVars, csPool, entryVars, libVars>>

\* LeaveCriticalSection(&g_aPool[i].cs)
LeaveEntry(t) ==
  /\ Move(t, "leaveCs", "read")
  /\ cs' = [cs EXCEPT ![iAcq[t]] = IF @ = t THEN NoThread ELSE @]
  /\ UNCHANGED <<initVars, csPool, semVars, hSession, bInUse, bLoggedIn,
                 libVars, localVars>>

\* *phSession = g_aPool[i].hSession, after the lock has been left
ReadHandle(t) ==
  /\ Move(t, "read", "holding")
  /\ held' = [held EXCEPT ![t] = hSession[iAcq[t]]]
  /\ UNCHANGED <<initVars, csPool, semVars, entryVars, libVars,
                 waitsOn, iAcq, iRel>>

-----------------------------------------------------------------------------
(* P11_ReleaseSession, which every caller reaches on every path             *)

ReleaseCall(t) ==
  /\ Move(t, "holding", "relEnter")
  /\ UNCHANGED <<initVars, csPool, semVars, entryVars, libVars, localVars>>

RelEnter(t) ==
  /\ Move(t, "relEnter", "relScan")
  /\ EnterPool(t)
  /\ UNCHANGED <<initVars, semVars, entryVars, libVars, localVars>>

\* Slip: any entry in use matches
RelMatches_AnyInUse(t) == bInUse[iRel[t]]

\* The condition of the search: this entry holds the caller's handle, in use
RelMatches(t) == hSession[iRel[t]] = held[t] /\ bInUse[iRel[t]]

RelNext(t) ==
  /\ ~RelMatches(t)
  /\ iRel[t] < PoolSize
  /\ Move(t, "relScan", "relScan")
  /\ iRel' = [iRel EXCEPT ![t] = @ + 1]
  /\ UNCHANGED <<initVars, csPool, semVars, entryVars, libVars,
                 waitsOn, iAcq, held>>

\* The loop ends at the first match, whose entry and permit are given back, or
\* at the end of the pool, silently.
RelEnd(t) ==
  /\ RelMatches(t) \/ iRel[t] = PoolSize
  /\ Return(t, "relScan")
  /\ IF RelMatches(t)
     THEN /\ bInUse' = [bInUse EXCEPT ![iRel[t]] = FALSE]
          /\ ReleaseSemaphore
     ELSE UNCHANGED <<bInUse, semVars>>
  /\ LeavePool(t)
  /\ UNCHANGED <<initVars, hSession, bLoggedIn, cs, libVars>>

-----------------------------------------------------------------------------
(* The application stops calling, and DllMain(DLL_PROCESS_DETACH)           *)

Stop ==
  /\ phase = "running"
  /\ phase' = "stopping"
  /\ UNCHANGED <<initVars, csPool, semVars, entryVars, libVars, pc, localVars>>

\* Slip: entries in use are not closed
Detach_OnlyFree ==
  /\ phase # "down"
  /\ phase' = "down"
  /\ libSessions' = libSessions \ {hSession[i] : i \in {j \in Slots : ~bInUse[j]}}
  /\ userLoggedIn' = (userLoggedIn /\ libSessions' # {})
  /\ UNCHANGED <<initVars, csPool, semVars, entryVars, nextHandle, pc, localVars>>

\* P11_SessionPool_Finalize, no lock held.  It runs alone: when the DLL is
\* unloaded no thread may be inside it, and when the process exits the other
\* threads have been terminated where they were.
Detach ==
  /\ phase # "down"
  /\ phase' = "down"
  /\ IF bPoolInit
     THEN /\ libSessions' = libSessions \ {hSession[i] : i \in Slots}
          /\ hSession' = [i \in Slots |-> InvalidHandle]
          /\ cs' = [i \in Slots |-> NoThread]
          /\ csPool' = NoThread
          /\ hSemaphore' = NoThread
          /\ bPoolInit' = FALSE
     ELSE UNCHANGED <<libSessions, hSession, cs, csPool, hSemaphore, bPoolInit>>
  /\ userLoggedIn' = (userLoggedIn /\ libSessions' # {})
  /\ UNCHANGED <<opened, sem, bInUse, bLoggedIn, nextHandle, pc, localVars>>

-----------------------------------------------------------------------------

InitStep(t) ==
  \/ InitCsPool(t) \/ InitPool(t) \/ InitSemaphore(t)
  \/ InitSemaphoreFails(t) \/ InitDone(t)
  \/ AllocProvider(t) \/ AllocProviderFails(t)

AcquireStep(t) ==
  \/ WaitOk(t) \/ WaitTimeout(t)
  \/ ScanEnter(t) \/ ScanNext(t) \/ ScanEnd(t) \/ Claim(t)
  \/ EnterEntry(t) \/ OpenSession(t) \/ OpenSessionFails(t)
  \/ Login(t) \/ LoginFails(t) \/ CloseSession(t) \/ ClearHandle(t)
  \/ FailFree(t) \/ FailLeave(t) \/ FailRelease(t)
  \/ LeaveEntry(t) \/ ReadHandle(t)

ReleaseStep(t) ==
  \/ ReleaseCall(t) \/ RelEnter(t) \/ RelNext(t) \/ RelEnd(t)

\* A step of a call already made, and a step that makes a call.
Step(t) == InitStep(t) \/ AcquireStep(t) \/ ReleaseStep(t)
Call(t) == OpenAgain(t) \/ OpenFirst(t) \/ AcquireCall(t)

Next ==
  \/ \E t \in Threads : Step(t) \/ Call(t)
  \/ Stop
  \/ Detach

\* A thread inside a call keeps running (no library call hangs); nothing
\* forces it to call, the application to stop or the process to exit.
Fairness == \A t \in Threads : WF_vars(Step(t))

Spec == Init /\ [][Next]_vars
FairSpec == Spec /\ Fairness

-----------------------------------------------------------------------------
(* Properties                                                               *)

TypeOK ==
  /\ phase \in {"running", "stopping", "down"}
  /\ opened \in BOOLEAN
  /\ bPoolInit \in BOOLEAN
  /\ csPool \in Threads \cup {NoThread}
  /\ hSemaphore \in Threads \cup {NoThread}
  /\ sem \in [Threads -> 0..PoolSize]
  /\ hSession \in [Slots -> Handles \cup {InvalidHandle}]
  /\ bInUse \in [Slots -> BOOLEAN]
  /\ bLoggedIn \in [Slots -> BOOLEAN]
  /\ cs \in [Slots -> Threads \cup {NoThread}]
  /\ libSessions \in SUBSET Handles
  /\ userLoggedIn \in BOOLEAN
  /\ nextHandle \in 1..(MaxSessions + 1)
  /\ pc \in [Threads -> Locs]
  /\ waitsOn \in [Threads -> Threads \cup {NoThread}]
  /\ iAcq \in [Threads -> Slots]
  /\ iRel \in [Threads -> Slots]
  /\ held \in [Threads -> Handles \cup {InvalidHandle}]

Holds(t) == phase # "down" /\ pc[t] \in HoldLocs
PermitHolders == {t \in Threads : pc[t] \in PermitLocs}
Claimers == {t \in Threads : pc[t] \in ClaimLocs}

\* Two calls in progress never work on the same library session, so
\* operations of two threads cannot mix (docs/07-securite-threading.md).  It
\* relates P11_AcquireSession's claim to every handle handed out before.
ExclusiveSessions ==
  \A t, u \in Threads :
    Holds(t) /\ Holds(u) /\ held[t] = held[u] => t = u

\* The handle a caller got is a session that is still open in the library, of
\* an entry whose login went through, in a process that is logged in: nobody
\* else's failure path closes it or logs the process out under the caller.
HeldSessionsUsable ==
  \A t \in Threads :
    Holds(t) => /\ held[t] \in libSessions
                /\ userLoggedIn
                /\ \E i \in Slots : /\ hSession[i] = held[t]
                                    /\ bInUse[i] /\ bLoggedIn[i]

\* The semaphore's count and the threads that owe it a release always add up
\* to the pool's size: no error path of acquire or release leaks a permit.
PermitsAccounted ==
  phase # "down" /\ bPoolInit =>
    sem[hSemaphore] + Cardinality(PermitHolders) = PoolSize

\* "Should not happen thanks to the semaphore": a thread that was admitted
\* has a free entry ahead of it throughout its search, although entries are
\* freed outside g_csPool while the search is under way.
SearchNeverFails ==
  \A t \in Threads : phase # "down" /\ pc[t] = "scan" =>
    \E i \in Slots : i >= iAcq[t] /\ ~bInUse[i]

\* P11_ReleaseSession has the entry of its handle ahead of it throughout its
\* search: it never ends without giving the entry and the permit back.
ReleaseNeverMisses ==
  \A t \in Threads : phase # "down" /\ pc[t] = "relScan" =>
    \E i \in Slots : i >= iRel[t] /\ hSession[i] = held[t] /\ bInUse[i]

\* Every session open in the library is reachable from exactly one pool entry,
\* hence at most PoolSize are open; what the pool does not know it could
\* never close.
SessionsAccounted ==
  phase # "down" =>
    \A h \in libSessions : \E i \in Slots :
      hSession[i] = h /\ \A j \in Slots : hSession[j] = h => j = i

\* Once the DLL is detached, wherever the other threads were stopped, no
\* session of the pool is left open in the library.
DetachClosesAll == phase = "down" => libSessions = {} /\ ~userLoggedIn

\* An entry in use by a call that got its handle keeps that session until the
\* call releases it: nothing but the detach takes it away.
HolderKeepsSession ==
  [][\A t \in Threads : Holds(t) /\ phase' # "down" =>
       \A i \in Slots : hSession[i] = held[t] =>
         hSession'[i] = hSession[i] /\ (bInUse'[i] \/ pc'[t] = "idle")]_vars

\* When the application stops calling, the calls in progress all return and
\* the pool comes back to rest: every permit and every entry given back.
AtRest ==
  /\ \A t \in Threads : pc[t] = "idle"
  /\ \A i \in Slots : ~bInUse[i] /\ cs[i] = NoThread
  /\ csPool = NoThread
  /\ bPoolInit => sem[hSemaphore] = PoolSize
PoolDrains == phase = "stopping" ~> (AtRest \/ phase = "down")

-----------------------------------------------------------------------------
(* The inductive invariant behind the properties above, by subject          *)

Live == phase # "down"

\* While the pool is not initialised it is blank and nobody uses it, and one
\* thread at a time initialises it.
Startup ==
  /\ \A t, u \in Threads : pc[t] \in InitLocs /\ pc[u] \in InitLocs => t = u
  /\ bPoolInit => /\ hSemaphore \in Threads
                  /\ \A t \in Threads : pc[t] \notin InitLocs
  /\ ~bPoolInit =>
       /\ ~opened /\ csPool = NoThread /\ libSessions = {} /\ ~userLoggedIn
       /\ \A t \in Threads : pc[t] \in InitLocs \cup {"idle"}
       /\ \A i \in Slots : /\ ~bInUse[i] /\ ~bLoggedIn[i]
                           /\ hSession[i] = InvalidHandle
  /\ \A t \in Threads : pc[t] = "initDone" =>
       hSemaphore \in Threads /\ sem[hSemaphore] = PoolSize

\* Where the threads' locals stand.
Locals ==
  \A t \in Threads :
    /\ pc[t] = "wait" => waitsOn[t] = hSemaphore
    /\ pc[t] \notin PermitLocs \/ pc[t] = "enterPool" => iAcq[t] = 1
    /\ pc[t] # "relScan" => iRel[t] = 1
    /\ pc[t] = "relScan" => iRel[t] <= iAcq[t]

\* g_csPool is owned by the one thread inside it.
PoolLock ==
  \A t \in Threads : csPool = t <=> pc[t] \in {"scan", "claim", "relScan"}

\* The entries in use are the entries claimed, by one thread each.
Claims ==
  /\ \A t \in Claimers : bInUse[iAcq[t]]
  /\ \A t, u \in Claimers : iAcq[t] = iAcq[u] => t = u
  /\ \A i \in Slots : bInUse[i] => \E t \in Claimers : iAcq[t] = i
  /\ \A t \in Threads : pc[t] = "claim" => ~bInUse[iAcq[t]]

EntryEmpty(i) == hSession[i] = InvalidHandle /\ ~bLoggedIn[i]
EntryReady(i) == hSession[i] \in libSessions /\ bLoggedIn[i]

\* What an entry holds, by where its claimer stands.
Entries ==
  /\ \A i \in Slots : ~bInUse[i] => EntryEmpty(i) \/ EntryReady(i)
  /\ \A t \in Claimers :
       /\ pc[t] = "enterCs" => EntryEmpty(iAcq[t]) \/ EntryReady(iAcq[t])
       /\ pc[t] \in {"open", "failFree"} => EntryEmpty(iAcq[t])
       /\ pc[t] \in {"login", "close"} =>
            hSession[iAcq[t]] \in libSessions /\ ~bLoggedIn[iAcq[t]]
       /\ pc[t] = "clear" => /\ hSession[iAcq[t]] \notin libSessions
                             /\ ~bLoggedIn[iAcq[t]]
       /\ pc[t] \notin OpenLocs => EntryReady(iAcq[t])
       /\ pc[t] \in HoldLocs => held[t] = hSession[iAcq[t]]

\* Handles are fresh, and each is in one entry.
Sessions ==
  /\ \A h \in libSessions : \E i \in Slots : hSession[i] = h
  /\ \A i \in Slots : hSession[i] < nextHandle
  /\ \A i, j \in Slots :
       hSession[i] = hSession[j] => i = j \/ hSession[i] = InvalidHandle
  /\ \A i \in Slots : EntryReady(i) => userLoggedIn

IInv ==
  /\ TypeOK
  /\ Live => /\ Startup /\ Locals /\ PoolLock /\ Claims
             /\ SearchNeverFails /\ PermitsAccounted /\ Entries /\ Sessions
  /\ DetachClosesAll

-----------------------------------------------------------------------------
(* What the pool's liveness rests on, for any number of threads and entries *)

\* Locations at which a thread owns its entry's critical section.
EntryLocs == {"open", "login", "close", "clear", "failFree", "failLeave", "leaveCs"}

\* The critical section of an entry is owned by the one thread inside it.  It
\* outlives the claim: the failure path frees the entry before it leaves.
EntryLock ==
  phase # "down" =>
    \A t \in Threads, i \in Slots :
      cs[i] = t <=> pc[t] \in EntryLocs /\ iAcq[t] = i

\* Thread t is stopped at a critical section, which u owns.
Stopped(t) ==
  \/ pc[t] \in {"enterPool", "relEnter"} /\ csPool # NoThread
  \/ pc[t] = "enterCs" /\ cs[iAcq[t]] # NoThread
StoppedBy(t, u) ==
  \/ pc[t] \in {"enterPool", "relEnter"} /\ csPool = u
  \/ pc[t] = "enterCs" /\ cs[iAcq[t]] = u

\* Threads never wait for one another in a circle, nor one for another that
\* waits: whoever owns a critical section somebody is stopped at is at a step
\* of acquire or release that takes no other lock and no permit, and not in
\* its caller's own code (the order of EnterCriticalSection calls in
\* P11_AcquireSession and P11_ReleaseSession).
OwnersRun ==
  \A t \in Threads : phase # "down" /\ Stopped(t) =>
    \E u \in Threads : /\ StoppedBy(t, u) /\ ~Stopped(u)
                       /\ pc[u] \in EntryLocs \cup {"scan", "claim", "relScan"}

\* The most steps a thread at p, with loop counters i of acquire and r of release,
\* has yet to take until its call, or the release after it, has returned.
StepsFrom(p, i, r) ==
  CASE p = "idle" -> 0
    [] p \in {"allocProvider", "failRelease"} -> 1
    [] p \in {"initDone", "failLeave"} -> 2
    [] p \in {"initSem", "failFree"} -> 3
    [] p \in {"initPool", "clear"} -> 4
    [] p \in {"initCs", "close"} -> 5
    [] p = "relScan" -> PoolSize - r + 1
    [] p = "relEnter" -> PoolSize + 1
    [] p = "holding" -> PoolSize + 2
    [] p = "read" -> PoolSize + 3
    [] p = "leaveCs" -> PoolSize + 4
    [] p = "login" -> PoolSize + 5
    [] p = "open" -> PoolSize + 6
    [] p = "enterCs" -> PoolSize + 7
    [] p = "claim" -> PoolSize + 8
    [] p = "scan" -> 2 * PoolSize - i + 9
    [] p = "enterPool" -> 2 * PoolSize + 9
    [] p = "wait" -> 2 * PoolSize + 10
StepsLeft(t) == StepsFrom(pc[t], iAcq[t], iRel[t])

\* Every step of a call brings the call nearer to its end, and no step of
\* another thread moves the end away: there is no spinning and no retry in
\* acquire or release, so each ends after at most 2 * PoolSize + 10 steps.
CallsGetShorter ==
  [][\A t \in Threads :
       /\ Step(t) => StepsLeft(t)' < StepsLeft(t)
       /\ pc[t] # "idle" => StepsLeft(t)' <= StepsLeft(t)]_vars

-----------------------------------------------------------------------------
(* What the pool promises its callers: exclusive leases (SessionLease).     *)

lease == [t \in Threads |-> IF Holds(t) THEN held[t] ELSE InvalidHandle]

Lease == INSTANCE SessionLease WITH
  Clients <- Threads, Sessions <- Handles,
  NoSession <- InvalidHandle, Capacity <- PoolSize,
  lease <- lease, closed <- (phase = "down")

\* Every step of the pool is a step of SessionLease or a stutter: a session
\* handed out is not out already, at most PoolSize are out at a time, and a
\* caller loses its session only by releasing it or to the detach.
LeaseSpec == Lease!Spec
=============================================================================
