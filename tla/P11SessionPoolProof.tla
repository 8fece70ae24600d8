------------------------ MODULE P11SessionPoolProof ------------------------
(***************************************************************************)
(* Proofs about the session pool, for every set of threads and every pool  *)
(* size.  The argument is the inductive invariant IInv of P11SessionPool:  *)
(* the permits of the semaphore and the claims on entries are two          *)
(* accounts of the same threads, the pigeonhole principle ties them        *)
(* (AdmittedFindsFree), and the entries' states ride on the claims.  It is *)
(* inductive only if no two threads run the first KSP_OpenProvider at      *)
(* once, the assumption ~OverlappingOpens; the run pool_race shows what    *)
(* happens without it.                                                     *)
(***************************************************************************)
EXTENDS P11SessionPool, FiniteSetTheorems, TLAPS

\* The locations, one by one.
LEMMA LocsEnum == Locs =
  {"idle", "allocProvider", "wait", "initCs", "initPool", "initSem",
   "initDone", "enterPool", "scan", "claim", "enterCs", "open", "login", "close",
   "clear", "failFree", "failLeave", "failRelease", "leaveCs", "read", "holding",
   "relEnter", "relScan"}
BY DEF Locs, InitLocs, PermitLocs, ClaimLocs, OpenLocs, HoldLocs

\* The initial state is type-correct.
LEMMA InitTypeOK == Init => TypeOK
<1> USE PoolAssumption DEF Init, TypeOK, Slots, Handles, InvalidHandle
<1>1. Init => sem \in [Threads -> 0..PoolSize]
  OBVIOUS
<1>2. Init => pc \in [Threads -> Locs]
  BY LocsEnum
<1>3. Init => hSession \in [Slots -> Handles \cup {InvalidHandle}] /\ held \in [Threads -> Handles \cup {InvalidHandle}]
  OBVIOUS
<1>4. Init => cs \in [Slots -> Threads \cup {NoThread}] /\ waitsOn \in [Threads -> Threads \cup {NoThread}]
  OBVIOUS
<1>5. Init => iAcq \in [Threads -> Slots] /\ iRel \in [Threads -> Slots] /\ nextHandle \in 1..(MaxSessions+1)
  OBVIOUS
<1>q. QED BY <1>1, <1>2, <1>3, <1>4, <1>5

\* ReleaseSemaphore keeps the counts in range, whichever semaphore it names.
LEMMA ReleaseSemType ==
  ASSUME sem \in [Threads -> 0..PoolSize], ReleaseSemaphore
  PROVE  sem' \in [Threads -> 0..PoolSize]
<1> DEFINE v == IF sem[hSemaphore] < PoolSize THEN sem[hSemaphore] + 1
                                              ELSE sem[hSemaphore]
<1>1. sem' = [sem EXCEPT ![hSemaphore] = v]
  BY DEF ReleaseSemaphore
<1>2. hSemaphore \in Threads => v \in 0..PoolSize
  BY PoolAssumption
<1> HIDE DEF v
<1>3. QED
  BY <1>1, <1>2

\* Every step keeps the types, whether or not opens overlap.
LEMMA TypeStep == TypeOK /\ [Next]_vars => TypeOK'
<1> SUFFICES ASSUME TypeOK, [Next]_vars PROVE TypeOK'
  OBVIOUS
<1> USE PoolAssumption, LocsEnum
<1> USE DEF TypeOK, Slots, Handles, InvalidHandle, initVars, entryVars,
    semVars, libVars, localVars, Move, Return
<1>1. ASSUME NEW t \in Threads, InitCsPool(t) PROVE TypeOK'
  BY <1>1 DEF InitCsPool
<1>2. ASSUME NEW t \in Threads, InitPool(t) PROVE TypeOK'
  BY <1>2 DEF InitPool
<1>3. ASSUME NEW t \in Threads, InitSemaphore(t) PROVE TypeOK'
  BY <1>3 DEF InitSemaphore
<1>4. ASSUME NEW t \in Threads, InitSemaphoreFails(t) PROVE TypeOK'
  BY <1>4 DEF InitSemaphoreFails
<1>5. ASSUME NEW t \in Threads, InitDone(t) PROVE TypeOK'
  BY <1>5 DEF InitDone
<1>6. ASSUME NEW t \in Threads, AllocProvider(t) PROVE TypeOK'
  BY <1>6 DEF AllocProvider
<1>7. ASSUME NEW t \in Threads, AllocProviderFails(t) PROVE TypeOK'
  BY SMTT(30), <1>7 DEF AllocProviderFails
<1>8. ASSUME NEW t \in Threads, WaitOk(t) PROVE TypeOK'
  <2>1. sem' \in [Threads -> 0..PoolSize]
    <3> DEFINE s == waitsOn[t]
    <3>1. s \in Threads /\ sem[s] - 1 \in 0..PoolSize
      BY <1>8 DEF WaitOk
    <3>2. sem' = [sem EXCEPT ![s] = sem[s] - 1]
      BY <1>8 DEF WaitOk
    <3> HIDE DEF s
    <3>3. QED BY <3>1, <3>2
  <2>2. pc' \in [Threads -> Locs]
    BY <1>8 DEF WaitOk
  <2>3. UNCHANGED <<phase, initVars, csPool, hSemaphore, entryVars, libVars, localVars>>
    BY <1>8 DEF WaitOk
  <2>4. QED BY <2>1, <2>2, <2>3
<1>9. ASSUME NEW t \in Threads, WaitTimeout(t) PROVE TypeOK'
  BY <1>9 DEF WaitTimeout
<1>10. ASSUME NEW t \in Threads, ScanEnter(t) PROVE TypeOK'
  BY <1>10 DEF ScanEnter, EnterPool
<1>11. ASSUME NEW t \in Threads, ScanNext(t) PROVE TypeOK'
  BY SMTT(30), <1>11 DEF ScanNext
<1>12. ASSUME NEW t \in Threads, ScanEnd(t) PROVE TypeOK'
  BY <1>12 DEF ScanEnd, LeavePool
<1>13. ASSUME NEW t \in Threads, Claim(t) PROVE TypeOK'
  BY <1>13 DEF Claim, LeavePool
<1>14. ASSUME NEW t \in Threads, EnterEntry(t) PROVE TypeOK'
  BY <1>14 DEF EnterEntry
<1>15. ASSUME NEW t \in Threads, OpenSession(t) PROVE TypeOK'
  BY <1>15 DEF OpenSession
<1>16. ASSUME NEW t \in Threads, OpenSessionFails(t) PROVE TypeOK'
  BY <1>16 DEF OpenSessionFails
<1>17. ASSUME NEW t \in Threads, Login(t) PROVE TypeOK'
  BY <1>17 DEF Login
<1>18. ASSUME NEW t \in Threads, LoginFails(t) PROVE TypeOK'
  BY <1>18 DEF LoginFails
<1>19. ASSUME NEW t \in Threads, CloseSession(t) PROVE TypeOK'
  BY <1>19 DEF CloseSession
<1>20. ASSUME NEW t \in Threads, ClearHandle(t) PROVE TypeOK'
  BY <1>20 DEF ClearHandle
<1>21. ASSUME NEW t \in Threads, FailFree(t) PROVE TypeOK'
  BY <1>21 DEF FailFree
<1>22. ASSUME NEW t \in Threads, FailLeave(t) PROVE TypeOK'
  BY <1>22 DEF FailLeave
<1>23. ASSUME NEW t \in Threads, FailRelease(t) PROVE TypeOK'
  BY SMTT(30), <1>23, ReleaseSemType DEF FailRelease, ReleaseSemaphore
<1>24. ASSUME NEW t \in Threads, LeaveEntry(t) PROVE TypeOK'
  BY <1>24 DEF LeaveEntry
<1>25. ASSUME NEW t \in Threads, ReadHandle(t) PROVE TypeOK'
  BY <1>25 DEF ReadHandle
<1>26. ASSUME NEW t \in Threads, ReleaseCall(t) PROVE TypeOK'
  BY <1>26 DEF ReleaseCall
<1>27. ASSUME NEW t \in Threads, RelEnter(t) PROVE TypeOK'
  BY <1>27 DEF RelEnter, EnterPool
<1>28. ASSUME NEW t \in Threads, RelNext(t) PROVE TypeOK'
  BY SMTT(30), <1>28 DEF RelNext, RelMatches
<1>29. ASSUME NEW t \in Threads, RelEnd(t) PROVE TypeOK'
  <2>1. bInUse' \in [Slots -> BOOLEAN]
    BY <1>29 DEF RelEnd
  <2>2. sem' \in [Threads -> 0..PoolSize]
    <3>1. CASE RelMatches(t)
      BY <1>29, <3>1, ReleaseSemType DEF RelEnd, ReleaseSemaphore
    <3>2. CASE ~RelMatches(t)
      BY <1>29, <3>2 DEF RelEnd
    <3>3. QED BY <3>1, <3>2
  <2>4. UNCHANGED hSemaphore
    BY <1>29 DEF RelEnd, ReleaseSemaphore
  <2>5. /\ iAcq' \in [Threads -> Slots] /\ iRel' \in [Threads -> Slots]
        /\ pc' \in [Threads -> Locs]
        /\ held' \in [Threads -> Handles \cup {InvalidHandle}]
        /\ waitsOn' \in [Threads -> Threads \cup {NoThread}]
        /\ UNCHANGED phase
    BY <1>29 DEF RelEnd
  <2>3. csPool' \in Threads \cup {NoThread}
    BY <1>29 DEF RelEnd, LeavePool
  <2>q. QED
    BY <1>29, <2>1, <2>2, <2>3, <2>4, <2>5 DEF RelEnd
<1>30. ASSUME NEW t \in Threads, OpenAgain(t) PROVE TypeOK'
  BY <1>30 DEF OpenAgain
<1>31. ASSUME NEW t \in Threads, OpenFirst(t) PROVE TypeOK'
  BY <1>31 DEF OpenFirst
<1>32. ASSUME NEW t \in Threads, AcquireCall(t) PROVE TypeOK'
  BY <1>32 DEF AcquireCall
<1>33. CASE Stop
  BY <1>33 DEF Stop
<1>34. CASE Detach
  BY <1>34 DEF Detach
<1>35. CASE UNCHANGED vars
  BY <1>35 DEF vars
<1>. QED
  BY <1>1, <1>2, <1>3, <1>4, <1>5, <1>6, <1>7, <1>8, <1>9, <1>10, <1>11,
     <1>12, <1>13, <1>14, <1>15, <1>16, <1>17, <1>18, <1>19, <1>20, <1>21,
     <1>22, <1>23, <1>24, <1>25, <1>26, <1>27, <1>28, <1>29, <1>30, <1>31,
     <1>32, <1>33, <1>34, <1>35 DEF Next, Step, Call, InitStep, AcquireStep,
     ReleaseStep

\* Opening a provider and calling P11_AcquireSession touch no entry, no library
\* session and no local of a thread that owes a permit.
LEMMA OutsideFrame ==
  ASSUME TypeOK, Startup, Locals, NEW t \in Threads, InitStep(t) \/ Call(t)
  PROVE  /\ UNCHANGED <<hSession, bInUse, bLoggedIn, libSessions, userLoggedIn, nextHandle,
                        iAcq, iRel>>
         /\ \A u \in Threads : \/ pc'[u] = pc[u] /\ held'[u] = held[u]
                               \/ pc[u] \notin PermitLocs /\ pc'[u] \notin PermitLocs
<1> USE DEF TypeOK, Slots, Move, Return, initVars, entryVars, semVars,
    libVars, localVars, InitStep, InitCsPool, InitPool, InitSemaphore,
    InitSemaphoreFails, InitDone, AllocProvider, AllocProviderFails, Call,
    OpenAgain, OpenFirst, AcquireCall
<1>1. UNCHANGED <<hSession, bInUse, bLoggedIn>>
  <2>1. CASE InitPool(t)
    BY <2>1 DEF Startup, InitLocs
  <2>2. CASE ~InitPool(t)
    BY <2>2
  <2>3. QED BY <2>1, <2>2
<1>2. UNCHANGED <<libSessions, userLoggedIn, nextHandle>>
  OBVIOUS
<1>3. UNCHANGED <<iAcq, iRel>>
  <2>1. pc[t] \notin PermitLocs /\ pc[t] # "relScan"
    BY DEF PermitLocs, ClaimLocs, OpenLocs, HoldLocs
  <2>2. iAcq[t] = 1 /\ iRel[t] = 1
    BY <2>1 DEF Locals
  <2>3. CASE Return(t, "initSem") \/ Return(t, "allocProvider")
    BY <2>2, <2>3
  <2>4. CASE ~(Return(t, "initSem") \/ Return(t, "allocProvider"))
    BY <2>4
  <2>5. QED BY <2>3, <2>4
<1>4. \A u \in Threads : \/ pc'[u] = pc[u] /\ held'[u] = held[u]
                         \/ pc[u] \notin PermitLocs /\ pc'[u] \notin PermitLocs
  BY DEF PermitLocs, ClaimLocs, OpenLocs, HoldLocs
<1>5. QED BY <1>1, <1>2, <1>3, <1>4

\* A step inside acquire or release finds the pool initialised and leaves the
\* startup state alone.
LEMMA InsideFrame ==
  ASSUME TypeOK, Startup, NEW t \in Threads, AcquireStep(t) \/ ReleaseStep(t)
  PROVE  /\ bPoolInit
         /\ phase # "down"
         /\ UNCHANGED <<phase, opened, bPoolInit, hSemaphore, nextHandle>> \/ OpenSession(t)
         /\ pc' = [pc EXCEPT ![t] = pc'[t]]
         /\ pc'[t] \in PermitLocs \cup {"idle"}
<1> USE DEF TypeOK, Slots, Move, Return, initVars, entryVars, semVars,
    libVars, localVars, AcquireStep, WaitOk, WaitTimeout, ScanEnter, ScanNext,
    ScanEnd, EnterEntry, OpenSession, OpenSessionFails, Login, LoginFails,
    CloseSession, ClearHandle, FailLeave, FailFree, FailRelease, LeaveEntry,
    ReadHandle, ReleaseCall, RelEnter, RelNext, RelEnd, ReleaseStep, Claim,
    ReleaseSemaphore
<1>1. bPoolInit
  BY DEF Startup, InitLocs
<1>2. UNCHANGED <<phase, opened, bPoolInit, hSemaphore, nextHandle>> \/ OpenSession(t)
  OBVIOUS
<1>3. pc' = [pc EXCEPT ![t] = pc'[t]]
  OBVIOUS
<1>4. pc'[t] \in PermitLocs \cup {"idle"}
  BY DEF PermitLocs, ClaimLocs, OpenLocs, HoldLocs
<1>5. phase # "down" OBVIOUS
<1>6. QED BY <1>1, <1>2, <1>3, <1>4, <1>5

\* Every step keeps Startup: here only is it used that opens do not overlap.
LEMMA StartupStep ==
  ASSUME TypeOK, Startup, Locals, ~OverlappingOpens, [Next]_vars, Live'
  PROVE  Startup'
<1> USE PoolAssumption
<1> USE DEF TypeOK, Slots, Live, Move, Return, initVars, entryVars, semVars,
    libVars, localVars
<1>1. ASSUME NEW t \in Threads, AcquireStep(t) \/ ReleaseStep(t) PROVE Startup'
  <2>1. /\ bPoolInit' /\ hSemaphore' \in Threads
        /\ \A u \in Threads : pc'[u] \notin InitLocs
    BY <1>1, InsideFrame DEF Startup, OpenSession, InitLocs, PermitLocs,
       ClaimLocs, OpenLocs, HoldLocs
  <2>2. QED BY <2>1 DEF Startup, InitLocs
<1>2. ASSUME NEW t \in Threads, InitCsPool(t) PROVE Startup'
  BY <1>2 DEF Startup, InitLocs, InitCsPool
<1>3. ASSUME NEW t \in Threads, InitPool(t) PROVE Startup'
  BY <1>3 DEF Startup, InitLocs, InitPool
<1>4. ASSUME NEW t \in Threads, InitSemaphore(t) PROVE Startup'
  BY <1>4 DEF Startup, InitLocs, InitSemaphore
<1>5. ASSUME NEW t \in Threads, InitSemaphoreFails(t) PROVE Startup'
  BY <1>5 DEF Startup, InitLocs, InitSemaphoreFails
<1>6. ASSUME NEW t \in Threads, InitDone(t) PROVE Startup'
  BY <1>6 DEF Startup, InitLocs, InitDone
<1>7. ASSUME NEW t \in Threads, AllocProvider(t) PROVE Startup'
  BY <1>7 DEF Startup, InitLocs, AllocProvider
<1>13. ASSUME NEW t \in Threads, AllocProviderFails(t) PROVE Startup'
  BY <1>13 DEF Startup, InitLocs, AllocProviderFails
<1>8. ASSUME NEW t \in Threads, OpenAgain(t) PROVE Startup'
  BY <1>8 DEF Startup, InitLocs, OpenAgain
<1>9. ASSUME NEW t \in Threads, OpenFirst(t) PROVE Startup'
  BY <1>9 DEF Startup, InitLocs, OpenFirst
<1>10. ASSUME NEW t \in Threads, AcquireCall(t) PROVE Startup'
  BY <1>10 DEF Startup, InitLocs, AcquireCall
<1>11. CASE Stop \/ Detach \/ UNCHANGED vars
  BY <1>11 DEF Startup, Stop, Detach, vars
<1>12. QED
  BY <1>1, <1>2, <1>3, <1>4, <1>5, <1>6, <1>7, <1>8, <1>9, <1>10, <1>11, <1>13
     DEF Next, Step, InitStep, Call

\* Every step keeps PoolLock: g_csPool excludes.
LEMMA PoolLockStep ==
  ASSUME TypeOK, Startup, Locals, PoolLock, ~OverlappingOpens, [Next]_vars, Live'
  PROVE  PoolLock'
<1> USE PoolAssumption
<1> USE DEF TypeOK, Slots, Live, Move, Return, initVars, entryVars, semVars,
    libVars, localVars
<1>1. ASSUME NEW t \in Threads, InitStep(t) \/ Call(t) PROVE PoolLock'
  <2>1. CASE InitCsPool(t)
    BY <2>1 DEF PoolLock, Startup, InitLocs, InitCsPool
  <2>2. CASE InitPool(t)
    BY <2>2 DEF PoolLock, Startup, InitLocs, InitPool
  <2>3. CASE InitSemaphore(t) \/ InitSemaphoreFails(t)
    BY <2>3 DEF PoolLock, Startup, InitLocs, InitSemaphore, InitSemaphoreFails
  <2>4. CASE InitDone(t)
    BY <2>4 DEF PoolLock, InitDone
  <2>5. CASE AllocProvider(t) \/ AllocProviderFails(t)
    <3>1. csPool' = csPool /\ pc' = [pc EXCEPT ![t] = "idle"] /\ pc[t] = "allocProvider"
      BY <2>5 DEF AllocProvider, AllocProviderFails
    <3>2. QED BY <3>1 DEF PoolLock
  <2>6. CASE Call(t)
    BY <2>6 DEF PoolLock, Startup, InitLocs, Call, OpenAgain, OpenFirst, AcquireCall
  <2>7. QED BY <1>1, <2>1, <2>2, <2>3, <2>4, <2>5, <2>6 DEF InitStep
<1>2. ASSUME NEW t \in Threads, AcquireStep(t) PROVE PoolLock'
  BY <1>2 DEF PoolLock, AcquireStep, WaitOk, WaitTimeout, ScanEnter, ScanNext,
     ScanEnd, EnterEntry, OpenSession, OpenSessionFails, Login, LoginFails,
     CloseSession, ClearHandle, FailLeave, FailFree, FailRelease, LeaveEntry,
     ReadHandle, EnterPool, LeavePool, Claim
<1>3. ASSUME NEW t \in Threads, ReleaseStep(t) PROVE PoolLock'
  <2>1. CASE RelEnd(t)
    BY <2>1 DEF PoolLock, RelEnd, LeavePool
  <2>2. CASE ~RelEnd(t)
    BY <1>3, <2>2 DEF PoolLock, ReleaseStep, ReleaseCall, RelEnter, RelNext,
       EnterPool
  <2>3. QED BY <2>1, <2>2
<1>4. CASE Stop \/ Detach \/ UNCHANGED vars
  BY <1>4 DEF PoolLock, Stop, Detach, vars
<1>5. QED BY <1>1, <1>2, <1>3, <1>4 DEF Next, Step

\* P11_ReleaseSession's condition holds of the caller's own entry only.
LEMMA ReleaseFinds ==
  ASSUME TypeOK, Claims, Entries, Sessions, NEW t \in Threads, pc[t] = "relScan"
  PROVE  RelMatches(t) <=> iRel[t] = iAcq[t]
<1>1. /\ t \in Claimers /\ bInUse[iAcq[t]]
      /\ hSession[iAcq[t]] = held[t] /\ held[t] # InvalidHandle
  BY DEF TypeOK, Claims, Entries, EntryReady, Claimers, ClaimLocs, OpenLocs,
     HoldLocs, Handles, InvalidHandle
<1>2. QED BY <1>1 DEF RelMatches, Sessions, TypeOK

\* Every step keeps Locals.
LEMMA LocalsStep ==
  ASSUME TypeOK, Startup, Locals, Claims, Entries, Sessions, [Next]_vars, Live'
  PROVE  Locals'
<1> USE PoolAssumption
<1> USE DEF TypeOK, Slots, Live, Move, Return, initVars, entryVars, semVars,
    libVars, localVars
<1>1. ASSUME NEW t \in Threads, InitStep(t) PROVE Locals'
  BY SMTT(30), <1>1 DEF Locals, Startup, PermitLocs, ClaimLocs, OpenLocs, HoldLocs,
     InitLocs, InitStep, InitCsPool, InitPool, InitSemaphore,
     InitSemaphoreFails, InitDone, AllocProvider, AllocProviderFails
<1>2. ASSUME NEW t \in Threads, Call(t) PROVE Locals'
  BY <1>2 DEF Locals, PermitLocs, ClaimLocs, OpenLocs, HoldLocs, Call,
     OpenAgain, OpenFirst, AcquireCall
<1>3. ASSUME NEW t \in Threads, AcquireStep(t) PROVE Locals'
  <2>1. CASE FailRelease(t)
    BY <2>1 DEF Locals, FailRelease, ReleaseSemaphore, PermitLocs, ClaimLocs,
       OpenLocs, HoldLocs
  <2>2. CASE ~FailRelease(t)
    BY SMTT(30), <1>3, <2>2 DEF AcquireStep, Locals, PermitLocs, ClaimLocs, OpenLocs,
       HoldLocs, WaitOk, WaitTimeout, ScanEnter, ScanNext, ScanEnd,
       EnterEntry, OpenSession, OpenSessionFails, Login, LoginFails,
       CloseSession, ClearHandle, FailLeave, FailFree, LeaveEntry, ReadHandle,
       Claim
  <2>3. QED BY <2>1, <2>2
<1>4. ASSUME NEW t \in Threads, ReleaseCall(t) PROVE Locals'
  BY <1>4 DEF ReleaseCall, Locals, PermitLocs, ClaimLocs, OpenLocs, HoldLocs
<1>9. ASSUME NEW t \in Threads, RelEnter(t) PROVE Locals'
  BY <1>9 DEF RelEnter, Locals, PermitLocs, ClaimLocs, OpenLocs, HoldLocs
<1>5. ASSUME NEW t \in Threads, RelNext(t) PROVE Locals'
  <2>1. iRel[t] < iAcq[t]
    BY <1>5, ReleaseFinds DEF RelNext, Locals
  <2>2. QED BY <1>5, <2>1 DEF RelNext, Locals, PermitLocs, ClaimLocs,
      OpenLocs, HoldLocs
<1>6. ASSUME NEW t \in Threads, RelEnd(t) PROVE Locals'
  <2>1. hSemaphore' = hSemaphore
    BY <1>6 DEF RelEnd, ReleaseSemaphore
  <2>2. QED
    BY <1>6, <2>1 DEF RelEnd, Locals, PermitLocs, ClaimLocs, OpenLocs, HoldLocs
<1>7. CASE Stop \/ Detach \/ UNCHANGED vars
  BY <1>7 DEF Locals, Stop, Detach, vars
<1>8. QED BY <1>1, <1>2, <1>3, <1>4, <1>5, <1>6, <1>7, <1>9 DEF Next, Step,
    ReleaseStep

\* What keeps Claims when nobody claims or frees an entry.
LEMMA ClaimsFrame ==
  ASSUME Claims, Claimers' = Claimers, UNCHANGED bInUse,
         \A u \in Claimers : iAcq'[u] = iAcq[u],
         \A u \in Threads : pc'[u] = "claim" => ~bInUse[iAcq'[u]]
  PROVE  Claims'
BY DEF Claims

\* The search of P11_ReleaseSession ends at the entry its caller claimed.
LEMMA RelEndFinds ==
  ASSUME TypeOK, Locals, Claims, Entries, Sessions, NEW t \in Threads, RelEnd(t)
  PROVE  RelMatches(t) /\ iRel[t] = iAcq[t]
<1>1. pc[t] = "relScan" /\ (RelMatches(t) \/ iRel[t] = PoolSize)
  BY DEF RelEnd, Return, Move
<1>2. iRel[t] <= iAcq[t] /\ iAcq[t] \in 1..PoolSize /\ iRel[t] \in 1..PoolSize
  BY <1>1 DEF Locals, TypeOK, Slots
<1>3. QED BY <1>1, <1>2, ReleaseFinds, PoolAssumption

\* Every step keeps Claims.
LEMMA ClaimsStep ==
  ASSUME TypeOK, Startup, Locals, PoolLock, Claims, Entries, Sessions, [Next]_vars, Live'
  PROVE  Claims'
<1> USE PoolAssumption
<1> USE DEF TypeOK, Slots, Live, Move, Return, initVars, entryVars, semVars,
    libVars, localVars
<1>1. ASSUME NEW t \in Threads, InitStep(t) \/ Call(t) PROVE Claims'
  <2>1. /\ Claimers' = Claimers
        /\ \A u \in Threads : pc'[u] = "claim" => pc[u] = "claim"
    BY <1>1, OutsideFrame DEF Claimers, PermitLocs
  <2>2. QED BY <1>1, <2>1, OutsideFrame, ClaimsFrame DEF Claims
<1>2. ASSUME NEW t \in Threads,
             \/ WaitOk(t) \/ WaitTimeout(t) \/ ScanEnter(t) \/ ScanNext(t) \/ ScanEnd(t)
             \/ EnterEntry(t) \/ OpenSession(t) \/ OpenSessionFails(t) \/ Login(t)
             \/ LoginFails(t) \/ CloseSession(t) \/ ClearHandle(t) \/ FailLeave(t)
             \/ FailRelease(t) \/ LeaveEntry(t) \/ ReadHandle(t)
             \/ ReleaseCall(t) \/ RelEnter(t) \/ RelNext(t)
      PROVE  Claims'
  <2> USE <1>2 DEF WaitOk, WaitTimeout, ScanEnter, ScanNext, ScanEnd,
      EnterEntry, OpenSession, OpenSessionFails, Login, LoginFails,
      CloseSession, ClearHandle, FailLeave, FailRelease, LeaveEntry,
      ReadHandle, ReleaseCall, RelEnter, RelNext
  <2>1. Claimers' = Claimers
    BY DEF Claimers, ClaimLocs, OpenLocs, HoldLocs
  <2>2. \A u \in Threads : pc'[u] = "claim" => ~bInUse[iAcq'[u]]
    <3>1. CASE ScanEnd(t)
      BY <3>1 DEF Claims
    <3>2. CASE ~ScanEnd(t)
      <4>1. \A u \in Threads : pc'[u] = "claim" => pc[u] = "claim" /\ iAcq'[u] = iAcq[u]
        BY <3>2
      <4>2. QED BY <4>1 DEF Claims
    <3>3. QED BY <3>1, <3>2
  <2>3. \A u \in Claimers : iAcq'[u] = iAcq[u]
    BY DEF Claimers, ClaimLocs, OpenLocs, HoldLocs
  <2>4. UNCHANGED bInUse
    OBVIOUS
  <2>5. QED BY ONLY Claims, <2>1, <2>2, <2>3, <2>4, ClaimsFrame
<1>3. ASSUME NEW t \in Threads, Claim(t) PROVE Claims'
  BY <1>3 DEF Claim, Claims, Claimers, PoolLock, ClaimLocs, OpenLocs, HoldLocs
<1>4. ASSUME NEW t \in Threads, FailFree(t) PROVE Claims'
  BY <1>4 DEF FailFree, Claims, Claimers, ClaimLocs, OpenLocs, HoldLocs
<1>5. ASSUME NEW t \in Threads, RelEnd(t) PROVE Claims'
  <2>1. /\ bInUse' = [bInUse EXCEPT ![iAcq[t]] = FALSE]
        /\ \A u \in Threads \ {t} : iAcq'[u] = iAcq[u] /\ pc'[u] = pc[u]
    BY <1>5, RelEndFinds DEF RelEnd
  <2>2. t \in Claimers /\ Claimers' = Claimers \ {t}
    BY <1>5 DEF RelEnd, Claimers, ClaimLocs, OpenLocs, HoldLocs
  <2>3. pc'[t] # "claim"
    BY <1>5 DEF RelEnd
  <2>4. \A u \in Claimers' : bInUse'[iAcq'[u]]
    BY <2>1, <2>2 DEF Claims, Claimers
  <2>5. \A u, v \in Claimers' : iAcq'[u] = iAcq'[v] => u = v
    BY <2>1, <2>2 DEF Claims, Claimers
  <2>6. ASSUME NEW i \in Slots, bInUse'[i]
        PROVE \E u \in Claimers' : iAcq'[u] = i
    <3>1. PICK u \in Claimers : iAcq[u] = i
      BY <2>1, <2>6 DEF Claims
    <3>2. u \in Claimers'
      BY <2>1, <2>2, <2>6, <3>1
    <3>3. QED BY <2>1, <2>2, <3>1, <3>2 DEF Claimers
  <2>7. \A u \in Threads : pc'[u] = "claim" => ~bInUse'[iAcq'[u]]
    BY <2>1, <2>3 DEF Claims
  <2>8. QED BY <2>4, <2>5, <2>6, <2>7 DEF Claims
<1>6. CASE Stop \/ Detach \/ UNCHANGED vars
  BY <1>6 DEF Claims, Claimers, Stop, Detach, vars
<1>7. QED
  BY <1>1, <1>2, <1>3, <1>4, <1>5, <1>6 DEF Next, Step, AcquireStep,
     ReleaseStep

\* The pool has PoolSize entries.
LEMMA SlotsCardinality == IsFiniteSet(Slots) /\ Cardinality(Slots) = PoolSize
BY FS_Interval, PoolAssumption DEF Slots

\* The threads that owe a permit are finitely many.
LEMMA PermitHoldersFinite ==
  IsFiniteSet(PermitHolders) /\ Cardinality(PermitHolders) \in Nat
<1>1. IsFiniteSet(PermitHolders)
  BY PoolAssumption, FS_Subset DEF PermitHolders
<1>2. QED BY <1>1, FS_CardinalityType

\* The pigeonhole: a thread admitted by the semaphore that has not claimed yet
\* leaves too few permits for every entry to be claimed by another thread.
LEMMA AdmittedFindsFree ==
  ASSUME TypeOK, Claims, PermitsAccounted, bPoolInit, Live, hSemaphore \in Threads,
         NEW t \in Threads, pc[t] = "enterPool"
  PROVE  \E i \in Slots : ~bInUse[i]
<1> SUFFICES ASSUME \A i \in Slots : bInUse[i]
             PROVE  FALSE
  OBVIOUS
<1> DEFINE f == [u \in Claimers |-> iAcq[u]]
<1>1. IsFiniteSet(Claimers)
  BY PoolAssumption, FS_Subset DEF Claimers
<1>2. f \in Surjection(Claimers, Slots)
  BY DEF Claims, Surjection, TypeOK, Claimers
<1>3. PoolSize <= Cardinality(Claimers)
  BY <1>1, <1>2, FS_Surjection, SlotsCardinality
<1>4. t \in PermitHolders /\ Claimers \in SUBSET (PermitHolders \ {t})
  BY DEF PermitHolders, Claimers, PermitLocs, ClaimLocs, OpenLocs, HoldLocs
<1>5. Cardinality(Claimers) <= Cardinality(PermitHolders) - 1
  <2>1. /\ IsFiniteSet(PermitHolders \ {t})
        /\ Cardinality(PermitHolders \ {t}) = Cardinality(PermitHolders) - 1
    BY <1>4, PermitHoldersFinite, FS_RemoveElement
  <2>2. Cardinality(Claimers) <= Cardinality(PermitHolders \ {t})
    BY <1>4, <2>1, FS_Subset
  <2>3. QED BY <2>1, <2>2
<1>6. sem[hSemaphore] \in Nat /\ sem[hSemaphore] + Cardinality(PermitHolders) = PoolSize
  BY PoolAssumption DEF TypeOK, PermitsAccounted, Live
<1>7. Cardinality(Claimers) \in Nat
  BY <1>1, FS_CardinalityType
<1>8. QED BY <1>3, <1>5, <1>6, <1>7, PermitHoldersFinite, PoolAssumption

\* Every step keeps SearchNeverFails.
LEMMA SearchStep ==
  ASSUME TypeOK, Startup, Locals, PoolLock, Claims, SearchNeverFails, PermitsAccounted,
         Entries, Sessions, Live, [Next]_vars, Live'
  PROVE  SearchNeverFails'
<1> USE PoolAssumption
<1> USE DEF TypeOK, Slots, Live, Move, Return, initVars, entryVars, semVars,
    libVars, localVars
<1>1. ASSUME NEW t \in Threads, InitStep(t) \/ Call(t) PROVE SearchNeverFails'
  BY <1>1, OutsideFrame DEF SearchNeverFails, PermitLocs
<1>2. ASSUME NEW t \in Threads, ScanEnter(t) PROVE SearchNeverFails'
  <2>1. bPoolInit /\ hSemaphore \in Threads
    BY <1>2 DEF Startup, ScanEnter, InitLocs
  <2>2. iAcq[t] = 1
    BY <1>2 DEF Locals, ScanEnter
  <2>3. \E i \in Slots : i >= 1 /\ ~bInUse[i]
    BY <1>2, <2>1, AdmittedFindsFree DEF ScanEnter
  <2>4. QED BY <1>2, <2>2, <2>3 DEF ScanEnter, SearchNeverFails
<1>3. ASSUME NEW t \in Threads, ScanNext(t) PROVE SearchNeverFails'
  BY <1>3 DEF ScanNext, SearchNeverFails
<1>4. ASSUME NEW t \in Threads, Claim(t) PROVE SearchNeverFails'
  <2>1. \A u \in Threads : pc'[u] # "scan"
    BY <1>4 DEF Claim, PoolLock
  <2>2. QED BY <2>1 DEF SearchNeverFails
<1>5. ASSUME NEW t \in Threads, RelEnd(t) PROVE SearchNeverFails'
  BY <1>5 DEF RelEnd, SearchNeverFails
<1>6. ASSUME NEW t \in Threads,
             \/ WaitOk(t) \/ WaitTimeout(t) \/ ScanEnd(t) \/ EnterEntry(t)
             \/ OpenSession(t) \/ OpenSessionFails(t) \/ Login(t) \/ LoginFails(t)
             \/ CloseSession(t) \/ ClearHandle(t) \/ FailFree(t) \/ FailLeave(t)
             \/ FailRelease(t) \/ LeaveEntry(t) \/ ReadHandle(t)
             \/ ReleaseCall(t) \/ RelEnter(t) \/ RelNext(t)
      PROVE  SearchNeverFails'
  <2> USE <1>6 DEF WaitOk, WaitTimeout, ScanEnd, EnterEntry, OpenSession,
      OpenSessionFails, Login, LoginFails, CloseSession, ClearHandle,
      FailFree, FailLeave, FailRelease, LeaveEntry, ReadHandle, ReleaseCall,
      RelEnter, RelNext
  <2>1. \A u \in Threads : pc'[u] = "scan" => pc[u] = "scan" /\ iAcq'[u] = iAcq[u]
    OBVIOUS
  <2>2. \A i \in Slots : bInUse'[i] => bInUse[i]
    OBVIOUS
  <2>3. QED BY ONLY <2>1, <2>2, Live, SearchNeverFails DEF SearchNeverFails,
      Live
<1>7. CASE Stop \/ Detach \/ UNCHANGED vars
  BY <1>7 DEF SearchNeverFails, Stop, Detach, vars
<1>8. QED
  BY <1>1, <1>2, <1>3, <1>4, <1>5, <1>6, <1>7 DEF Next, Step, AcquireStep,
     ReleaseStep

\* What keeps PermitsAccounted when no permit moves.
LEMMA PermitsFrame ==
  ASSUME PermitsAccounted, Live, UNCHANGED <<bPoolInit, hSemaphore>>,
         bPoolInit => sem'[hSemaphore] = sem[hSemaphore],
         PermitHolders' = PermitHolders
  PROVE  PermitsAccounted'
BY DEF PermitsAccounted, Live

\* A thread that owes a permit and calls ReleaseSemaphore: the count is below
\* its maximum, so the permit is not lost.
LEMMA PermitGivenBack ==
  ASSUME TypeOK, Startup, PermitsAccounted, Live, NEW t \in Threads, bPoolInit,
         t \in PermitHolders, PermitHolders' = PermitHolders \ {t},
         ReleaseSemaphore, UNCHANGED bPoolInit
  PROVE  PermitsAccounted'
<1>1. hSemaphore \in Threads /\ sem[hSemaphore] \in Nat
  BY PoolAssumption DEF TypeOK, Startup
<1>2. sem[hSemaphore] + Cardinality(PermitHolders) = PoolSize
  BY DEF PermitsAccounted, Live
<1>3. Cardinality(PermitHolders') = Cardinality(PermitHolders) - 1
  BY PermitHoldersFinite, FS_RemoveElement
<1>4. Cardinality(PermitHolders) # 0
  BY PermitHoldersFinite, FS_EmptySet
<1>5. sem[hSemaphore] < PoolSize
  BY <1>1, <1>2, <1>4, PermitHoldersFinite, PoolAssumption
<1>6. sem'[hSemaphore'] = sem[hSemaphore] + 1
  BY <1>1, <1>5 DEF ReleaseSemaphore, TypeOK
<1>7. QED
  BY <1>1, <1>2, <1>3, <1>6, PermitHoldersFinite, PoolAssumption DEF
     PermitsAccounted

\* Every step keeps PermitsAccounted.
LEMMA PermitsStep ==
  ASSUME TypeOK, Startup, Locals, PoolLock, Claims, PermitsAccounted, SearchNeverFails,
         Entries, Sessions, Live, ~OverlappingOpens, [Next]_vars, Live'
  PROVE  PermitsAccounted'
<1> USE PoolAssumption
<1> USE DEF TypeOK, Slots, Live, Move, Return, initVars, entryVars, semVars,
    libVars, localVars
<1>1. ASSUME NEW t \in Threads, InitStep(t) \/ Call(t), ~InitDone(t)
      PROVE PermitsAccounted'
  <2>1. PermitHolders' = PermitHolders
    BY <1>1, OutsideFrame DEF PermitHolders
  <2>2. CASE bPoolInit
    <3>1. UNCHANGED <<bPoolInit, hSemaphore, sem>>
      BY <1>1, <2>2 DEF Startup, InitLocs, InitStep, InitCsPool, InitPool,
         InitSemaphore, InitSemaphoreFails, AllocProvider, AllocProviderFails,
         Call, OpenAgain, OpenFirst, AcquireCall
    <3>2. QED BY <2>1, <3>1, PermitsFrame
  <2>3. CASE ~bPoolInit
    <3>1. ~bPoolInit'
      BY <1>1, <2>3 DEF InitStep, InitCsPool, InitPool, InitSemaphore,
         InitSemaphoreFails, AllocProvider, AllocProviderFails, Call,
         OpenAgain, OpenFirst, AcquireCall
    <3>2. QED BY <3>1 DEF PermitsAccounted
  <2>4. QED BY <2>2, <2>3
<1>2. ASSUME NEW t \in Threads, InitDone(t) PROVE PermitsAccounted'
  <2>1. PermitHolders' = {}
    BY <1>2 DEF InitDone, PermitHolders, Startup, InitLocs, PermitLocs,
       ClaimLocs, OpenLocs, HoldLocs
  <2>2. sem'[hSemaphore'] = PoolSize
    BY <1>2 DEF InitDone, Startup
  <2>3. QED BY <2>1, <2>2, FS_EmptySet DEF PermitsAccounted
<1>3. ASSUME NEW t \in Threads, WaitOk(t) PROVE PermitsAccounted'
  <2>1. bPoolInit /\ hSemaphore \in Threads /\ waitsOn[t] = hSemaphore
    BY <1>3 DEF Startup, InitLocs, WaitOk, Locals
  <2>2. PermitHolders' = PermitHolders \cup {t} /\ t \notin PermitHolders
    BY <1>3 DEF WaitOk, PermitHolders, PermitLocs, ClaimLocs, OpenLocs,
       HoldLocs
  <2>3. Cardinality(PermitHolders') = Cardinality(PermitHolders) + 1
    BY <2>2, PermitHoldersFinite, FS_AddElement
  <2>4. sem'[hSemaphore'] = sem[hSemaphore] - 1 /\ sem[hSemaphore] \in Nat
    BY <1>3, <2>1 DEF WaitOk
  <2>5. QED BY <2>1, <2>3, <2>4, PermitHoldersFinite DEF PermitsAccounted
<1>4. ASSUME NEW t \in Threads, FailRelease(t) PROVE PermitsAccounted'
  <2>1. t \in PermitHolders /\ PermitHolders' = PermitHolders \ {t}
    BY <1>4 DEF FailRelease, PermitHolders, PermitLocs, ClaimLocs, OpenLocs,
       HoldLocs
  <2>2. bPoolInit /\ UNCHANGED bPoolInit /\ ReleaseSemaphore
    BY <1>4 DEF FailRelease, Startup, InitLocs
  <2>3. QED BY <2>1, <2>2, PermitGivenBack
<1>5. ASSUME NEW t \in Threads, RelEnd(t) PROVE PermitsAccounted'
  <2>1. t \in PermitHolders /\ PermitHolders' = PermitHolders \ {t}
    BY <1>5 DEF RelEnd, PermitHolders, PermitLocs, ClaimLocs, OpenLocs,
       HoldLocs
  <2>2. bPoolInit /\ UNCHANGED bPoolInit
    BY <1>5 DEF RelEnd, Startup, InitLocs
  <2>3. ReleaseSemaphore
    BY <1>5, RelEndFinds DEF RelEnd
  <2>4. QED BY <2>1, <2>2, <2>3, PermitGivenBack
<1>6. ASSUME NEW t \in Threads,
             \/ WaitTimeout(t) \/ ScanEnter(t) \/ ScanNext(t) \/ ScanEnd(t)
             \/ Claim(t) \/ EnterEntry(t) \/ OpenSession(t) \/ OpenSessionFails(t)
             \/ Login(t) \/ LoginFails(t) \/ CloseSession(t) \/ ClearHandle(t)
             \/ FailFree(t) \/ FailLeave(t) \/ LeaveEntry(t) \/ ReadHandle(t)
             \/ ReleaseCall(t) \/ RelEnter(t) \/ RelNext(t)
      PROVE  PermitsAccounted'
  <2> USE <1>6 DEF WaitTimeout, ScanEnter, ScanNext, ScanEnd, Claim,
      EnterEntry, OpenSession, OpenSessionFails, Login, LoginFails,
      CloseSession, ClearHandle, FailFree, FailLeave, LeaveEntry, ReadHandle,
      ReleaseCall, RelEnter, RelNext
  <2>1. PermitHolders' = PermitHolders
    BY DEF PermitHolders, PermitLocs, ClaimLocs, OpenLocs, HoldLocs
  <2>2. UNCHANGED <<bPoolInit, hSemaphore, sem>>
    OBVIOUS
  <2>3. QED BY ONLY <2>1, <2>2, Live, PermitsAccounted, PermitsFrame
<1>7. CASE Stop \/ Detach \/ UNCHANGED vars
  BY <1>7 DEF PermitsAccounted, PermitHolders, Stop, Detach, vars
<1>8. QED
  BY <1>1, <1>2, <1>3, <1>4, <1>5, <1>6, <1>7 DEF Next, Step, AcquireStep,
     ReleaseStep

\* Every step keeps Entries.
LEMMA EntriesStep ==
  ASSUME TypeOK, Startup, Locals, PoolLock, Claims, Entries, Sessions, Live, [Next]_vars, Live'
  PROVE  Entries'
<1> USE PoolAssumption
<1> USE DEF TypeOK, Slots, Handles, InvalidHandle, Live, Move, Return,
    initVars, entryVars, semVars, libVars, localVars, EntryEmpty, EntryReady
<1>1. ASSUME NEW t \in Threads, InitStep(t) \/ Call(t) PROVE Entries'
  <2>1. UNCHANGED <<hSession, bInUse, bLoggedIn, libSessions, iAcq>>
    BY <1>1, OutsideFrame
  <2>2. \A u \in Claimers' : u \in Claimers /\ held'[u] = held[u] /\ pc'[u] = pc[u]
    BY <1>1, OutsideFrame DEF Claimers, PermitLocs
  <2>3. QED BY ONLY Entries, <2>1, <2>2 DEF Entries, EntryEmpty, EntryReady
<1>2. ASSUME NEW t \in Threads,
             \/ WaitOk(t) \/ WaitTimeout(t) \/ ScanEnter(t) \/ ScanNext(t) \/ ScanEnd(t)
             \/ OpenSessionFails(t) \/ LoginFails(t)
             \/ FailLeave(t) \/ FailRelease(t) \/ LeaveEntry(t)
             \/ ReleaseCall(t) \/ RelEnter(t) \/ RelNext(t)
      PROVE  Entries'
  <2> USE <1>2 DEF WaitOk, WaitTimeout, ScanEnter, ScanNext, ScanEnd,
      OpenSessionFails, LoginFails, FailLeave, FailRelease, LeaveEntry,
      ReleaseCall, RelEnter, RelNext
  <2>1. UNCHANGED <<hSession, bInUse, bLoggedIn, libSessions>>
    OBVIOUS
  <2>2. \A u \in Claimers' : /\ u \in Claimers /\ iAcq'[u] = iAcq[u] /\ held'[u] = held[u]
                             /\ \/ pc'[u] = pc[u]
                                \/ pc[u] = "open" /\ pc'[u] = "failFree"
                                \/ pc[u] = "login" /\ pc'[u] = "close"
                                \/ pc[u] = "leaveCs" /\ pc'[u] = "read"
                                \/ pc[u] \in HoldLocs /\ pc'[u] \in HoldLocs
    BY DEF Claimers, ClaimLocs, OpenLocs, HoldLocs
  <2>3. QED BY ONLY Entries, <2>1, <2>2 DEF Entries, OpenLocs, HoldLocs,
      EntryEmpty, EntryReady
<1>3. ASSUME NEW t \in Threads, EnterEntry(t) PROVE Entries'
  BY <1>3 DEF EnterEntry, Entries, Sessions, Claimers, ClaimLocs, OpenLocs,
     HoldLocs
<1>4. ASSUME NEW t \in Threads, Claim(t) PROVE Entries'
  BY <1>4 DEF Claim, Entries, Claims, Claimers, ClaimLocs, OpenLocs, HoldLocs
<1>5. ASSUME NEW t \in Threads, OpenSession(t) PROVE Entries'
  BY <1>5 DEF OpenSession, Entries, Sessions, Claims, Claimers, ClaimLocs,
     OpenLocs, HoldLocs
<1>6. ASSUME NEW t \in Threads, Login(t) PROVE Entries'
  BY <1>6 DEF Login, Entries, Claims, Claimers, ClaimLocs, OpenLocs, HoldLocs
<1>7. ASSUME NEW t \in Threads, CloseSession(t) PROVE Entries'
  BY SMTT(30), <1>7 DEF CloseSession, Entries, Sessions, Claims, Claimers, ClaimLocs,
     OpenLocs, HoldLocs
<1>8. ASSUME NEW t \in Threads, ClearHandle(t) PROVE Entries'
  BY <1>8 DEF ClearHandle, Entries, Claims, Claimers, ClaimLocs, OpenLocs,
     HoldLocs
<1>9. ASSUME NEW t \in Threads, FailFree(t) PROVE Entries'
  BY <1>9 DEF FailFree, Entries, Claims, Claimers, ClaimLocs, OpenLocs,
     HoldLocs
<1>10. ASSUME NEW t \in Threads, ReadHandle(t) PROVE Entries'
  BY <1>10 DEF ReadHandle, Entries, Claimers, ClaimLocs, OpenLocs, HoldLocs
<1>11. ASSUME NEW t \in Threads, RelEnd(t) PROVE Entries'
  <2>1. bInUse' = [bInUse EXCEPT ![iAcq[t]] = FALSE]
    BY <1>11, RelEndFinds DEF RelEnd
  <2>2. t \in Claimers /\ pc[t] = "relScan" /\ Claimers' = Claimers \ {t}
    BY <1>11 DEF RelEnd, Claimers, ClaimLocs, OpenLocs, HoldLocs
  <2>3. /\ UNCHANGED <<hSession, bLoggedIn, libSessions>>
        /\ \A u \in Threads \ {t} : pc'[u] = pc[u] /\ iAcq'[u] = iAcq[u] /\ held'[u] = held[u]
    BY <1>11 DEF RelEnd
  <2>4. EntryReady(iAcq[t])
    BY <2>2 DEF Entries, OpenLocs
  <2>5. QED BY SMTT(30), <2>1, <2>2, <2>3, <2>4 DEF Entries, Claimers
<1>12. CASE Stop \/ Detach \/ UNCHANGED vars
  BY <1>12 DEF Entries, Claimers, Stop, Detach, vars
<1>13. QED
  BY <1>1, <1>2, <1>3, <1>4, <1>5, <1>6, <1>7, <1>8, <1>9, <1>10, <1>11, <1>12
     DEF Next, Step, AcquireStep, ReleaseStep

\* Every step keeps Sessions.
LEMMA SessionsStep ==
  ASSUME TypeOK, Startup, Locals, PoolLock, Claims, Entries, Sessions, Live, [Next]_vars, Live'
  PROVE  Sessions'
<1> USE PoolAssumption
<1> USE DEF TypeOK, Slots, Handles, InvalidHandle, Live, Move, Return,
    initVars, entryVars, semVars, libVars, localVars, EntryEmpty, EntryReady
<1>1. ASSUME NEW t \in Threads, InitStep(t) \/ Call(t) PROVE Sessions'
  BY <1>1, OutsideFrame DEF Sessions
<1>2. ASSUME NEW t \in Threads,
             \/ WaitOk(t) \/ WaitTimeout(t) \/ ScanEnter(t) \/ ScanNext(t) \/ ScanEnd(t)
             \/ Claim(t) \/ EnterEntry(t) \/ OpenSessionFails(t) \/ LoginFails(t)
             \/ FailFree(t) \/ FailLeave(t) \/ FailRelease(t) \/ LeaveEntry(t) \/ ReadHandle(t)
             \/ ReleaseCall(t) \/ RelEnter(t) \/ RelNext(t) \/ RelEnd(t)
      PROVE  Sessions'
  <2>1. UNCHANGED <<hSession, bLoggedIn, libSessions, userLoggedIn, nextHandle>>
    BY <1>2 DEF WaitOk, WaitTimeout, ScanEnter, ScanNext, ScanEnd, Claim,
       EnterEntry, OpenSessionFails, LoginFails, FailFree, FailLeave,
       FailRelease, LeaveEntry, ReadHandle, ReleaseCall, RelEnter, RelNext,
       RelEnd
  <2>2. QED BY <2>1 DEF Sessions
<1>5. ASSUME NEW t \in Threads, OpenSession(t) PROVE Sessions'
  <2>1. t \in Claimers /\ EntryEmpty(iAcq[t])
    BY <1>5 DEF OpenSession, Entries, Claimers, ClaimLocs, OpenLocs
  <2>2. QED BY <1>5, <2>1 DEF OpenSession, Sessions
<1>6. ASSUME NEW t \in Threads, Login(t) PROVE Sessions'
  BY <1>6 DEF Login, Sessions
<1>7. ASSUME NEW t \in Threads, CloseSession(t) PROVE Sessions'
  BY <1>7 DEF CloseSession, Sessions
<1>8. ASSUME NEW t \in Threads, ClearHandle(t) PROVE Sessions'
  <2>1. t \in Claimers /\ hSession[iAcq[t]] \notin libSessions
    BY <1>8 DEF ClearHandle, Entries, Claimers, ClaimLocs, OpenLocs
  <2>2. QED BY <1>8, <2>1 DEF ClearHandle, Sessions
<1>12. CASE Stop \/ Detach \/ UNCHANGED vars
  BY <1>12 DEF Sessions, Stop, Detach, vars
<1>13. QED
  BY <1>1, <1>2, <1>5, <1>6, <1>7, <1>8, <1>12 DEF Next, Step, AcquireStep,
     ReleaseStep

\* Nothing happens once the process is down.
LEMMA DownStays ==
  ASSUME [Next]_vars, phase = "down"
  PROVE  UNCHANGED vars
BY DEF Next, Step, Call, InitStep, AcquireStep, ReleaseStep, Move, Return,
   vars, Stop, Detach, WaitOk, WaitTimeout, ScanEnter, ScanNext, ScanEnd,
   Claim, EnterEntry, OpenSessionFails, LoginFails, FailFree, FailLeave,
   FailRelease, LeaveEntry, ReadHandle, ReleaseCall, RelEnter, RelNext,
   RelEnd, OpenSession, Login, CloseSession, ClearHandle, InitCsPool,
   InitPool, InitSemaphore, InitSemaphoreFails, InitDone, AllocProvider,
   AllocProviderFails, OpenAgain, OpenFirst, AcquireCall

\* Only the detach ends the process.
LEMMA OnlyDetachEnds ==
  ASSUME [Next]_vars, Live, phase' = "down"
  PROVE  Detach
BY DEF Live, Next, Step, Call, InitStep, AcquireStep, ReleaseStep, Move,
   Return, vars, Stop, Detach, WaitOk, WaitTimeout, ScanEnter, ScanNext,
   ScanEnd, Claim, EnterEntry, OpenSessionFails, LoginFails, FailFree,
   FailLeave, FailRelease, LeaveEntry, ReadHandle, ReleaseCall, RelEnter,
   RelNext, RelEnd, OpenSession, Login, CloseSession, ClearHandle, InitCsPool,
   InitPool, InitSemaphore, InitSemaphoreFails, InitDone, AllocProvider,
   AllocProviderFails, OpenAgain, OpenFirst, AcquireCall

\* The detach closes every session, wherever it happens.
LEMMA DetachStep ==
  ASSUME IInv, [Next]_vars, phase' = "down"
  PROVE  DetachClosesAll'
<1>1. CASE phase = "down"
  BY <1>1, DownStays DEF vars, libVars, IInv, DetachClosesAll
<1>2. CASE Live
  <2>1. Detach
    BY <1>2, OnlyDetachEnds
  <2>2. libSessions' = {}
    BY <1>2, <2>1 DEF IInv, Detach, Sessions, Startup
  <2>3. QED BY <1>2, <2>1, <2>2 DEF IInv, Detach, DetachClosesAll, TypeOK
<1>3. QED BY <1>1, <1>2 DEF Live

\* The initial state satisfies the inductive invariant.
LEMMA InitIInv == Init => IInv
<1> SUFFICES ASSUME Init PROVE IInv
  OBVIOUS
<1>1. TypeOK
  BY InitTypeOK
<1> USE PoolAssumption DEF Init, Slots, InvalidHandle
<1>2. Startup /\ Locals /\ PoolLock
  BY DEF Startup, Locals, PoolLock, InitLocs, PermitLocs, ClaimLocs, OpenLocs,
     HoldLocs
<1>3. Claims /\ SearchNeverFails /\ Entries
  BY DEF Claims, SearchNeverFails, Entries, Claimers, EntryEmpty, ClaimLocs,
     OpenLocs, HoldLocs
<1>4. PermitsAccounted /\ DetachClosesAll
  BY DEF PermitsAccounted, DetachClosesAll
<1>5. Sessions
  BY DEF Sessions, EntryReady
<1>6. QED BY <1>1, <1>2, <1>3, <1>4, <1>5 DEF IInv

\* Every step keeps the inductive invariant.
LEMMA NextIInv ==
  ASSUME ~OverlappingOpens, IInv, [Next]_vars
  PROVE  IInv'
<1>1. TypeOK'
  BY TypeStep DEF IInv
<1>2. ASSUME Live' PROVE Live
  BY <1>2, DownStays DEF Live, vars
<1>3. ASSUME Live'
      PROVE  /\ Startup' /\ Locals' /\ PoolLock' /\ Claims'
             /\ SearchNeverFails' /\ PermitsAccounted' /\ Entries' /\ Sessions'
  BY <1>2, <1>3, StartupStep, LocalsStep, PoolLockStep, ClaimsStep,
     SearchStep, PermitsStep, EntriesStep, SessionsStep DEF IInv
<1>4. DetachClosesAll'
  BY DetachStep DEF DetachClosesAll
<1>5. QED BY <1>1, <1>3, <1>4 DEF IInv

\* IInv holds throughout, for any number of threads and any pool size, as long
\* as no two threads are inside the first KSP_OpenProvider at once.
THEOREM Invariance == ASSUME ~OverlappingOpens PROVE Spec => []IInv
<1>1. Init => IInv
  BY InitIInv
<1>2. IInv /\ [Next]_vars => IInv'
  BY NextIInv
<1>3. QED BY <1>1, <1>2, PTL DEF Spec

\* Type correctness of the pool, even when opens overlap.
THEOREM TypeCorrect == Spec => []TypeOK
<1>1. Init => TypeOK
  BY InitTypeOK
<1>2. TypeOK /\ [Next]_vars => TypeOK'
  BY TypeStep
<1>3. QED BY <1>1, <1>2, PTL DEF Spec

\* Permits add up: no path of P11_AcquireSession or P11_ReleaseSession loses or
\* duplicates a permit of g_hSemaphore.
THEOREM PermitAccounting == ASSUME ~OverlappingOpens
  PROVE Spec => []PermitsAccounted
<1>1. IInv => PermitsAccounted
  BY DEF IInv, PermitsAccounted, Live
<1>2. QED BY <1>1, Invariance, PTL

\* The search of P11_AcquireSession never reaches the end of the pool: "Should
\* not happen thanks to the semaphore" is true.
THEOREM SearchSucceeds == ASSUME ~OverlappingOpens
  PROVE Spec => []SearchNeverFails
<1>1. IInv => SearchNeverFails
  BY DEF IInv, SearchNeverFails, Live
<1>2. QED BY <1>1, Invariance, PTL

\* DLL_PROCESS_DETACH leaves no session of the pool open, wherever the other
\* threads were stopped.
THEOREM DetachCloses == ASSUME ~OverlappingOpens
  PROVE Spec => []DetachClosesAll
<1>1. IInv => DetachClosesAll
  BY DEF IInv
<1>2. QED BY <1>1, Invariance, PTL

\* What a caller between acquire and release can rely on.
LEMMA HolderEntry ==
  ASSUME IInv, NEW t \in Threads, Holds(t)
  PROVE  /\ t \in Claimers /\ iAcq[t] \in Slots
         /\ held[t] = hSession[iAcq[t]] /\ held[t] \in libSessions /\ held[t] # InvalidHandle
         /\ bInUse[iAcq[t]] /\ bLoggedIn[iAcq[t]] /\ userLoggedIn
<1>1. pc[t] \in HoldLocs /\ t \in Claimers /\ Live /\ iAcq[t] \in Slots /\ libSessions \subseteq Handles
  BY DEF Holds, Claimers, ClaimLocs, Live, IInv, TypeOK
<1>2. EntryReady(iAcq[t]) /\ held[t] = hSession[iAcq[t]] /\ bInUse[iAcq[t]]
  BY <1>1 DEF IInv, Entries, Claims, OpenLocs, HoldLocs
<1>3. QED BY <1>1, <1>2 DEF IInv, EntryReady, Sessions, Handles, InvalidHandle

\* Two callers between P11_AcquireSession and P11_ReleaseSession never have the
\* same library session.
THEOREM Exclusive == ASSUME ~OverlappingOpens PROVE Spec => []ExclusiveSessions
<1>1. ASSUME IInv PROVE ExclusiveSessions
  <2> SUFFICES ASSUME NEW t \in Threads, NEW u \in Threads,
                      Holds(t), Holds(u), held[t] = held[u]
               PROVE  t = u
    BY DEF ExclusiveSessions
  <2>1. iAcq[t] = iAcq[u]
    BY <1>1, HolderEntry DEF IInv, Live, Holds, Sessions
  <2>2. QED BY <1>1, <2>1, HolderEntry DEF IInv, Live, Holds, Claims
<1>2. QED BY <1>1, Invariance, PTL

\* The session a caller holds is open, logged in, and in use in its entry.
THEOREM Usable == ASSUME ~OverlappingOpens PROVE Spec => []HeldSessionsUsable
<1>1. ASSUME IInv PROVE HeldSessionsUsable
  <2>1. ASSUME NEW t \in Threads, Holds(t)
        PROVE  /\ held[t] \in libSessions /\ userLoggedIn
               /\ \E i \in Slots : hSession[i] = held[t] /\ bInUse[i] /\ bLoggedIn[i]
    BY <1>1, <2>1, HolderEntry
  <2>2. QED BY <2>1 DEF HeldSessionsUsable
<1>2. QED BY <1>1, Invariance, PTL

\* P11_ReleaseSession never reaches the end of the pool without a match.
THEOREM ReleaseFindsEntry == ASSUME ~OverlappingOpens
  PROVE Spec => []ReleaseNeverMisses
<1>1. ASSUME IInv PROVE ReleaseNeverMisses
  <2>1. ASSUME NEW t \in Threads, phase # "down", pc[t] = "relScan"
        PROVE  \E i \in Slots : i >= iRel[t] /\ hSession[i] = held[t] /\ bInUse[i]
    <3>1. Holds(t)
      BY <2>1 DEF Holds, HoldLocs
    <3>2. iAcq[t] >= iRel[t]
      BY <1>1, <2>1 DEF IInv, Live, Locals, TypeOK, Slots
    <3>3. QED BY <1>1, <3>1, <3>2, HolderEntry
  <2>2. QED BY <2>1 DEF ReleaseNeverMisses
<1>2. QED BY <1>1, Invariance, PTL

\* Every open library session is in exactly one entry of the pool.
THEOREM Accounted == ASSUME ~OverlappingOpens PROVE Spec => []SessionsAccounted
<1>1. ASSUME IInv PROVE SessionsAccounted
  <2>1. ASSUME phase # "down", NEW h \in libSessions
        PROVE  \E i \in Slots : hSession[i] = h /\ \A j \in Slots : hSession[j] = h => j = i
    <3>1. Sessions /\ h # InvalidHandle
      BY <1>1, <2>1 DEF IInv, Live, TypeOK, Handles, InvalidHandle
    <3>2. PICK i \in Slots : hSession[i] = h
      BY <3>1, <2>1 DEF Sessions
    <3>3. \A j \in Slots : hSession[j] = h => j = i
      BY <3>1, <3>2 DEF Sessions
    <3>4. QED BY <3>2, <3>3
  <2>2. QED BY <2>1 DEF SessionsAccounted
<1>2. QED BY <1>1, Invariance, PTL
\* One step leaves a holder's entry alone, but for the holder's own release.
LEMMA KeepsStep ==
  ASSUME IInv, [Next]_vars, phase' # "down", NEW t \in Threads, Holds(t),
         NEW i \in Slots, hSession[i] = held[t]
  PROVE  hSession'[i] = hSession[i] /\ (bInUse'[i] \/ pc'[t] = "idle")
<1> USE DEF IInv, TypeOK, Slots, Live, Move, Return, initVars, entryVars,
    semVars, libVars, localVars
<1>1. Live /\ i = iAcq[t] /\ t \in Claimers /\ bInUse[i] /\ pc[t] \in HoldLocs
  BY HolderEntry DEF Holds, Sessions
<1>2. \A u \in Claimers : u # t => iAcq[u] # i
  BY <1>1 DEF Claims
<1>3. ASSUME NEW u \in Threads, InitStep(u) \/ Call(u)
      PROVE  hSession'[i] = hSession[i] /\ bInUse'[i]
  BY <1>1, <1>3, OutsideFrame
<1>4. ASSUME NEW u \in Threads,
             \/ WaitOk(u) \/ WaitTimeout(u) \/ ScanEnter(u) \/ ScanNext(u) \/ ScanEnd(u)
             \/ EnterEntry(u) \/ OpenSessionFails(u) \/ Login(u) \/ LoginFails(u)
             \/ CloseSession(u) \/ FailLeave(u) \/ FailRelease(u) \/ LeaveEntry(u)
             \/ ReadHandle(u) \/ ReleaseCall(u) \/ RelEnter(u) \/ RelNext(u)
      PROVE  hSession'[i] = hSession[i] /\ bInUse'[i]
  BY <1>1, <1>4 DEF WaitOk, WaitTimeout, ScanEnter, ScanNext, ScanEnd,
     EnterEntry, OpenSessionFails, Login, LoginFails, CloseSession, FailLeave,
     FailRelease, LeaveEntry, ReadHandle, ReleaseCall, RelEnter, RelNext
<1>5. ASSUME NEW u \in Threads, Claim(u)
      PROVE hSession'[i] = hSession[i] /\ bInUse'[i]
  BY <1>1, <1>5 DEF Claim
<1>6. ASSUME NEW u \in Threads, OpenSession(u) \/ ClearHandle(u) \/ FailFree(u)
      PROVE  hSession'[i] = hSession[i] /\ bInUse'[i]
  <2>1. u \in Claimers /\ u # t
    BY <1>1, <1>6 DEF OpenSession, ClearHandle, FailFree, Claimers, ClaimLocs,
       OpenLocs, HoldLocs
  <2>2. QED BY <1>1, <1>2, <1>6, <2>1 DEF OpenSession, ClearHandle, FailFree
<1>7. ASSUME NEW u \in Threads, RelEnd(u)
      PROVE  hSession'[i] = hSession[i] /\ (bInUse'[i] \/ pc'[t] = "idle")
  <2>1. iRel[u] = iAcq[u] /\ hSession' = hSession
    BY <1>1, <1>7, RelEndFinds DEF RelEnd
  <2>2. CASE u = t
    BY <1>7, <2>1, <2>2 DEF RelEnd
  <2>3. CASE u # t
    <3>1. iAcq[u] # i
      BY <1>2, <1>7, <2>3 DEF RelEnd, Claimers, ClaimLocs, HoldLocs
    <3>2. QED BY <1>1, <1>7, <2>1, <3>1 DEF RelEnd
  <2>4. QED BY <2>2, <2>3
<1>8. CASE Stop \/ Detach \/ UNCHANGED vars
  BY <1>1, <1>8 DEF Stop, Detach, vars
<1>9. QED
  BY <1>3, <1>4, <1>5, <1>6, <1>7, <1>8 DEF Next, Step, AcquireStep,
     ReleaseStep

\* Nobody changes the entry of a caller that holds its session until the caller
\* releases it (action property).
THEOREM Keeps == ASSUME ~OverlappingOpens PROVE Spec => HolderKeepsSession
<1> DEFINE Kept == \A t \in Threads : Holds(t) /\ phase' # "down" =>
                     \A i \in Slots : hSession[i] = held[t] =>
                       hSession'[i] = hSession[i] /\ (bInUse'[i] \/ pc'[t] = "idle")
<1>1. IInv /\ [Next]_vars => [Kept]_vars
  BY KeepsStep
<1>2. HolderKeepsSession <=> [][Kept]_vars
  BY DEF HolderKeepsSession
<1> HIDE DEF Kept
<1>3. QED BY <1>1, <1>2, Invariance, PTL DEF Spec

\* At most PoolSize threads have claimed an entry.
LEMMA ClaimersBounded ==
  ASSUME TypeOK, Claims
  PROVE  IsFiniteSet(Claimers) /\ Cardinality(Claimers) \in Nat /\ Cardinality(Claimers) <= PoolSize
<1> DEFINE f == [u \in Claimers |-> iAcq[u]]
<1>1. IsFiniteSet(Claimers)
  BY PoolAssumption, FS_Subset DEF Claimers
<1>2. f \in Injection(Claimers, Slots)
  <2>1. f \in [Claimers -> Slots]
    BY DEF TypeOK, Claimers
  <2>2. \A u, v \in Claimers : f[u] = f[v] => u = v
    BY DEF Claims
  <2> HIDE DEF f
  <2>3. QED BY <2>1, <2>2 DEF Injection, IsInjective
<1>3. Cardinality(Claimers) <= PoolSize
  BY <1>2, FS_Injection, SlotsCardinality
<1>4. QED BY <1>1, <1>3, FS_CardinalityType

\* The instance's Cardinality is the module's.
LEMMA SameCardinality == ASSUME NEW S
  PROVE Lease!Cardinality(S) = Cardinality(S)
BY DEF Lease!Cardinality, Cardinality

\* Reading the handle grants the lease.
LEMMA GrantStep ==
  ASSUME IInv, Live, NEW t \in Threads, ReadHandle(t)
  PROVE  Lease!Grant(t)
<1> USE DEF IInv, TypeOK, Live, Move
<1>1. t \in Claimers /\ pc[t] = "read" /\ ~Holds(t)
  BY DEF ReadHandle, Holds, Claimers, ClaimLocs, HoldLocs
<1>2. hSession[iAcq[t]] \in Handles
  BY <1>1 DEF Entries, EntryReady, OpenLocs
<1>3. lease' = [lease EXCEPT ![t] = hSession[iAcq[t]]]
  <2>1. Holds(t)' /\ held'[t] = hSession[iAcq[t]]
    BY DEF ReadHandle, Holds, HoldLocs
  <2>2. \A u \in Threads : u # t => (Holds(u)' <=> Holds(u)) /\ held'[u] = held[u]
    BY DEF ReadHandle, Holds
  <2>3. QED BY <2>1, <2>2 DEF lease
<1>4. \A u \in Threads : lease[u] # hSession[iAcq[t]]
  <2>1. ASSUME NEW u \in Threads, Holds(u) PROVE held[u] # hSession[iAcq[t]]
    BY <1>1, <2>1, HolderEntry DEF Claims, Sessions
  <2>2. QED BY <1>2, <2>1 DEF lease, Handles, InvalidHandle
<1>5. Lease!Cardinality(Lease!Holders) < PoolSize
  <2> DEFINE H == Lease!Holders
  <2>1. H \in SUBSET (Claimers \ {t})
    BY <1>1, HolderEntry DEF lease, Lease!Holders
  <2> HIDE DEF H
  <2>2. IsFiniteSet(Claimers \ {t}) /\ Cardinality(Claimers \ {t}) = Cardinality(Claimers) - 1
    BY <1>1, ClaimersBounded, FS_RemoveElement
  <2>3. Cardinality(H) <= Cardinality(Claimers) - 1 /\ IsFiniteSet(H)
    BY <2>1, <2>2, FS_Subset
  <2>4. Cardinality(H) < PoolSize
    BY <2>3, ClaimersBounded, FS_CardinalityType, PoolAssumption
  <2>5. QED BY <2>4, SameCardinality DEF H
<1>6. lease[t] = InvalidHandle
  BY <1>1 DEF lease
<1>8. Live /\ UNCHANGED phase
  BY DEF ReadHandle
<1>9. UNCHANGED (phase = "down")
  BY <1>8
<1>10. \E s \in Handles : /\ \A d \in Threads : lease[d] # s
                           /\ lease' = [lease EXCEPT ![t] = s]
  BY <1>2, <1>3, <1>4
<1>7. QED
  <2>1. ~(phase = "down") OBVIOUS
  <2>2. QED BY ONLY <2>1, <1>5, <1>6, <1>9, <1>10 DEF Lease!Grant

\* The end of P11_ReleaseSession gives the lease back.
LEMMA ReturnStep ==
  ASSUME IInv, Live, NEW t \in Threads, RelEnd(t)
  PROVE  Lease!Return(t)
<1> USE DEF IInv, TypeOK, Live, Move, Return
<1>1. Holds(t) /\ lease[t] # InvalidHandle
  BY HolderEntry DEF RelEnd, Holds, HoldLocs, lease
<1>2. ~Holds(t)' /\ UNCHANGED phase
  BY DEF RelEnd, Holds, HoldLocs
<1>3. \A u \in Threads : u # t => (Holds(u)' <=> Holds(u)) /\ held'[u] = held[u]
  BY DEF RelEnd, Holds
<1>4. lease' = [lease EXCEPT ![t] = InvalidHandle]
  BY <1>2, <1>3 DEF lease
<1>5. QED BY <1>1, <1>2, <1>4 DEF Lease!Return

\* The remaining steps leave the leases alone.
LEMMA OtherStep ==
  ASSUME IInv, Live, Live', [Next]_vars,
         \A t \in Threads : ~ReadHandle(t) /\ ~RelEnd(t)
  PROVE  UNCHANGED Lease!leaseVars
<1> USE DEF IInv, TypeOK, Live, Move, Return, initVars, entryVars, semVars,
    libVars, localVars
<1>1. \A u \in Threads : /\ pc'[u] \in HoldLocs <=> pc[u] \in HoldLocs
                         /\ pc[u] \in HoldLocs => held'[u] = held[u]
  <2>1. ASSUME NEW t \in Threads, InitStep(t) \/ Call(t)
        PROVE  \A u \in Threads : /\ pc'[u] \in HoldLocs <=> pc[u] \in HoldLocs
                                  /\ pc[u] \in HoldLocs => held'[u] = held[u]
    BY <2>1, OutsideFrame DEF PermitLocs, ClaimLocs
  <2>2. ASSUME NEW t \in Threads, AcquireStep(t) \/ ReleaseStep(t)
        PROVE  \A u \in Threads : /\ pc'[u] \in HoldLocs <=> pc[u] \in HoldLocs
                                  /\ pc[u] \in HoldLocs => held'[u] = held[u]
    BY <2>2 DEF HoldLocs, AcquireStep, WaitOk, WaitTimeout, ScanEnter,
       ScanNext, ScanEnd, Claim, EnterEntry, OpenSession, OpenSessionFails,
       Login, LoginFails, CloseSession, ClearHandle, FailFree, FailLeave,
       FailRelease, LeaveEntry, ReleaseStep, ReleaseCall, RelEnter, RelNext
  <2>3. CASE Stop \/ Detach \/ UNCHANGED vars
    BY <2>3 DEF Stop, Detach, vars
  <2>4. QED BY <2>1, <2>2, <2>3 DEF Next, Step
<1>2. lease' = lease
  BY <1>1 DEF lease, Holds
<1>3. QED BY <1>2 DEF Lease!leaseVars

\* The pool implements SessionLease: exclusive leases, at most PoolSize at a
\* time, lost only by release or by the detach.
THEOREM ImplementsLease == ASSUME ~OverlappingOpens PROVE Spec => LeaseSpec
<1>1. Init => Lease!Init
  BY DEF Init, Lease!Init, lease, Holds, HoldLocs
<1>2. ASSUME IInv, [Next]_vars PROVE [Lease!Next]_(Lease!leaseVars)
  <2>1. CASE ~Live
    <3>1. UNCHANGED <<phase, pc, held>> /\ ~Live'
      BY <1>2, <2>1, DownStays DEF vars, localVars, Live
    <3>2. lease' = lease
      BY <2>1, <3>1 DEF lease, Holds, Live
    <3>3. QED BY <3>1, <3>2 DEF Lease!leaseVars
  <2>2. CASE Live /\ ~Live'
    <3>1. lease' = [c \in Threads |-> InvalidHandle]
      BY <2>2 DEF lease, Holds, Live
    <3>2. Lease!Destroy
      BY <2>2, <3>1 DEF Lease!Destroy, Live
    <3>3. QED BY <3>2 DEF Lease!Next
  <2>3. CASE Live /\ Live'
    BY <1>2, <2>3, GrantStep, ReturnStep, OtherStep DEF Lease!Next
  <2>4. QED BY <2>1, <2>2, <2>3
<1>3. QED BY <1>1, <1>2, Invariance, PTL DEF Spec, LeaseSpec, Lease!Spec

-----------------------------------------------------------------------------
(* Nobody waits for somebody who waits, and every call is short             *)

\* The steps that leave every entry's critical section and the place of every
\* thread inside one alone.
LEMMA EntryLockFrame ==
  ASSUME TypeOK, UNCHANGED cs, phase # "down", EntryLock,
         \A u \in Threads : pc[u] \in EntryLocs \/ pc'[u] \in EntryLocs =>
           pc[u] \in EntryLocs /\ pc'[u] \in EntryLocs /\ iAcq'[u] = iAcq[u]
  PROVE  EntryLock'
BY DEF EntryLock

\* Opening a provider, but for the clearing of the pool, is such a step.
LEMMA OutsideKeepsEntryLock ==
  ASSUME TypeOK, Startup, Locals, phase # "down", EntryLock,
         NEW t \in Threads, InitStep(t) \/ Call(t), ~InitPool(t)
  PROVE  EntryLock'
<1>1. UNCHANGED cs
  BY DEF InitStep, InitCsPool, InitSemaphore, InitSemaphoreFails, InitDone,
     AllocProvider, AllocProviderFails, Call, OpenAgain, OpenFirst, AcquireCall,
     entryVars
<1>2. /\ UNCHANGED iAcq
      /\ \A u \in Threads : \/ pc'[u] = pc[u]
                            \/ pc[u] \notin PermitLocs /\ pc'[u] \notin PermitLocs
  BY OutsideFrame
<1>3. EntryLocs \subseteq PermitLocs
  BY DEF EntryLocs, PermitLocs, ClaimLocs, OpenLocs
<1>4. QED BY <1>1, <1>2, <1>3, EntryLockFrame

\* Every step keeps EntryLock.
LEMMA EntryLockStep ==
  ASSUME IInv, EntryLock, [Next]_vars, Live, Live'
  PROVE  EntryLock'
<1> USE PoolAssumption DEF IInv, TypeOK, Slots, Live, Move, Return, initVars,
    entryVars, semVars, libVars, localVars
<1>1. ASSUME NEW t \in Threads, InitPool(t) PROVE EntryLock'
  <2>1. ~bPoolInit
    BY <1>1 DEF InitPool, Startup, InitLocs
  <2>2. \A u \in Threads : pc'[u] \notin EntryLocs
    BY <1>1, <2>1 DEF InitPool, Startup, InitLocs, EntryLocs
  <2>3. \A i \in Slots : cs'[i] = NoThread
    BY <1>1 DEF InitPool
  <2>4. QED BY <2>2, <2>3 DEF EntryLock
<1>2. ASSUME NEW t \in Threads, InitStep(t) \/ Call(t), ~InitPool(t) PROVE EntryLock'
  BY <1>2, OutsideKeepsEntryLock
<1>3. ASSUME NEW t \in Threads, EnterEntry(t) PROVE EntryLock'
  BY <1>3 DEF EnterEntry, EntryLock, EntryLocs
<1>4. ASSUME NEW t \in Threads, FailLeave(t) \/ LeaveEntry(t) PROVE EntryLock'
  <2>1. /\ pc[t] \in EntryLocs /\ cs[iAcq[t]] = t /\ UNCHANGED iAcq
        /\ \A i \in Slots : cs[i] = t => i = iAcq[t]
    BY <1>4 DEF FailLeave, LeaveEntry, EntryLock, EntryLocs
  <2>2. cs' = [cs EXCEPT ![iAcq[t]] = NoThread]
    BY <1>4, <2>1 DEF FailLeave, LeaveEntry
  <2>3. pc'[t] \notin EntryLocs /\ \A u \in Threads : u # t => pc'[u] = pc[u]
    BY <1>4 DEF FailLeave, LeaveEntry, EntryLocs
  <2>4. QED BY <2>1, <2>2, <2>3 DEF EntryLock
<1>5. ASSUME NEW t \in Threads, AcquireStep(t) \/ ReleaseStep(t),
             ~EnterEntry(t), ~FailLeave(t), ~LeaveEntry(t)
      PROVE  EntryLock'
  <2>1. UNCHANGED cs
    BY <1>5 DEF AcquireStep, WaitOk, WaitTimeout, ScanEnter, ScanNext, ScanEnd,
       Claim, OpenSession, OpenSessionFails, Login, LoginFails, CloseSession,
       ClearHandle, FailFree, FailRelease, ReadHandle, ReleaseStep, ReleaseCall,
       RelEnter, RelNext, RelEnd
  <2>2. \A u \in Threads : pc[u] \in EntryLocs \/ pc'[u] \in EntryLocs =>
           pc[u] \in EntryLocs /\ pc'[u] \in EntryLocs /\ iAcq'[u] = iAcq[u]
    BY <1>5 DEF EntryLocs, AcquireStep, WaitOk, WaitTimeout, ScanEnter, ScanNext,
       ScanEnd, Claim, OpenSession, OpenSessionFails, Login, LoginFails,
       CloseSession, ClearHandle, FailFree, FailRelease, ReadHandle, ReleaseStep,
       ReleaseCall, RelEnter, RelNext, RelEnd
  <2>3. QED BY <2>1, <2>2, EntryLockFrame
<1>6. CASE Stop \/ UNCHANGED vars
  BY <1>6, EntryLockFrame DEF Stop, vars
<1>7. CASE Detach
  BY <1>7 DEF Detach
<1>8. QED
  BY <1>1, <1>2, <1>3, <1>4, <1>5, <1>6, <1>7 DEF Next, Step

\* The critical section of an entry is owned by exactly the thread between the
\* EnterCriticalSection and the LeaveCriticalSection of P11_AcquireSession.
THEOREM EntryLockOwned == ASSUME ~OverlappingOpens PROVE Spec => []EntryLock
<1>1. Init => EntryLock
  BY PoolAssumption DEF Init, EntryLock, EntryLocs
<1>2. IInv /\ EntryLock /\ [Next]_vars => EntryLock'
  <2>1. ASSUME IInv, EntryLock, [Next]_vars PROVE EntryLock'
    <3>1. CASE Live'
      BY <2>1, <3>1, DownStays, EntryLockStep DEF Live, vars
    <3>2. CASE ~Live'
      BY <3>2 DEF EntryLock, Live
    <3>3. QED BY <3>1, <3>2
  <2>2. QED BY <2>1
<1>3. QED BY <1>1, <1>2, Invariance, PTL DEF Spec

\* Whoever owns a critical section that a thread is stopped at runs: the locks
\* of P11_AcquireSession and P11_ReleaseSession can never block each other.
THEOREM NoDeadlock == ASSUME ~OverlappingOpens PROVE Spec => []OwnersRun
<1>1. ASSUME IInv, EntryLock PROVE OwnersRun
  <2> SUFFICES ASSUME NEW t \in Threads, phase # "down", Stopped(t)
               PROVE  \E u \in Threads :
                        /\ StoppedBy(t, u) /\ ~Stopped(u)
                        /\ pc[u] \in EntryLocs \cup {"scan", "claim", "relScan"}
    BY DEF OwnersRun
  <2> USE DEF IInv, TypeOK, Live
  <2>1. CASE pc[t] \in {"enterPool", "relEnter"}
    <3>1. csPool \in Threads /\ StoppedBy(t, csPool)
      BY <1>1, <2>1 DEF Stopped, StoppedBy
    <3>2. pc[csPool] \in {"scan", "claim", "relScan"}
      BY <1>1, <3>1 DEF PoolLock
    <3>3. QED BY <3>1, <3>2 DEF Stopped
  <2>2. CASE pc[t] = "enterCs"
    <3> DEFINE u == cs[iAcq[t]]
    <3>1. iAcq[t] \in Slots /\ u \in Threads /\ StoppedBy(t, u)
      BY <1>1, <2>2 DEF Stopped, StoppedBy
    <3>2. pc[u] \in EntryLocs
      BY <1>1, <3>1 DEF EntryLock
    <3>3. ~Stopped(u)
      BY <3>2 DEF Stopped, EntryLocs
    <3>4. QED BY <3>1, <3>2, <3>3
  <2>3. QED BY <2>1, <2>2 DEF Stopped
<1>2. QED BY <1>1, Invariance, EntryLockOwned, PTL

\* The counters of the two loops start at the first entry, also where opens
\* overlap.
CountersStart ==
  \A t \in Threads :
    /\ pc[t] \notin PermitLocs \/ pc[t] = "enterPool" => iAcq[t] = 1
    /\ pc[t] # "relScan" => iRel[t] = 1

\* Every step keeps CountersStart.
LEMMA CountersStep == TypeOK /\ CountersStart /\ [Next]_vars => CountersStart'
<1> SUFFICES ASSUME TypeOK, CountersStart, [Next]_vars PROVE CountersStart'
  OBVIOUS
<1> USE PoolAssumption DEF TypeOK, Slots, Move, Return, initVars,
    entryVars, semVars, libVars, localVars, CountersStart, PermitLocs, ClaimLocs,
    OpenLocs, HoldLocs
<1>1. ASSUME NEW t \in Threads, InitStep(t) \/ Call(t) PROVE CountersStart'
  BY <1>1 DEF InitStep, InitCsPool, InitPool, InitSemaphore, InitSemaphoreFails,
     InitDone, AllocProvider, AllocProviderFails, Call, OpenAgain, OpenFirst,
     AcquireCall
<1>2. ASSUME NEW t \in Threads, AcquireStep(t) PROVE CountersStart'
  BY <1>2 DEF AcquireStep, WaitOk, WaitTimeout, ScanEnter, ScanNext, ScanEnd,
     Claim, EnterEntry, OpenSession, OpenSessionFails, Login, LoginFails,
     CloseSession, ClearHandle, FailFree, FailLeave, FailRelease, LeaveEntry,
     ReadHandle
<1>3. ASSUME NEW t \in Threads, ReleaseStep(t) PROVE CountersStart'
  BY <1>3 DEF ReleaseStep, ReleaseCall, RelEnter, RelNext, RelEnd
<1>4. CASE Stop \/ Detach \/ UNCHANGED vars
  BY <1>4 DEF Stop, Detach, vars
<1>5. QED BY <1>1, <1>2, <1>3, <1>4 DEF Next, Step

\* The count, location by location.
LEMMA StepsTable ==
  ASSUME NEW i \in Slots, NEW r \in Slots
  PROVE  /\ StepsFrom("idle", i, r) = 0
         /\ StepsFrom("allocProvider", i, r) = 1 /\ StepsFrom("failRelease", i, r) = 1
         /\ StepsFrom("initDone", i, r) = 2 /\ StepsFrom("failLeave", i, r) = 2
         /\ StepsFrom("initSem", i, r) = 3 /\ StepsFrom("failFree", i, r) = 3
         /\ StepsFrom("initPool", i, r) = 4 /\ StepsFrom("clear", i, r) = 4
         /\ StepsFrom("initCs", i, r) = 5 /\ StepsFrom("close", i, r) = 5
         /\ StepsFrom("relScan", i, r) = PoolSize - r + 1
         /\ StepsFrom("relEnter", i, r) = PoolSize + 1
         /\ StepsFrom("holding", i, r) = PoolSize + 2
         /\ StepsFrom("read", i, r) = PoolSize + 3
         /\ StepsFrom("leaveCs", i, r) = PoolSize + 4
         /\ StepsFrom("login", i, r) = PoolSize + 5
         /\ StepsFrom("open", i, r) = PoolSize + 6
         /\ StepsFrom("enterCs", i, r) = PoolSize + 7
         /\ StepsFrom("claim", i, r) = PoolSize + 8
         /\ StepsFrom("scan", i, r) = 2 * PoolSize - i + 9
         /\ StepsFrom("enterPool", i, r) = 2 * PoolSize + 9
         /\ StepsFrom("wait", i, r) = 2 * PoolSize + 10
BY DEF StepsFrom

\* It is a number, 0 at rest only.
LEMMA StepsAreNat ==
  ASSUME NEW p \in Locs, NEW i \in Slots, NEW r \in Slots
  PROVE  StepsFrom(p, i, r) \in 0..(2 * PoolSize + 10)
<1>1. i \in 1..PoolSize /\ r \in 1..PoolSize /\ PoolSize \in Nat \ {0}
  BY PoolAssumption DEF Slots
<1>2. QED BY <1>1, StepsTable, LocsEnum

\* The count falls along each arrow of the control flow.
LEMMA StepsFall ==
  ASSUME NEW i \in Slots, NEW j \in Slots, NEW r \in Slots, NEW s \in Slots
  PROVE  /\ StepsFrom("initPool", j, s) < StepsFrom("initCs", i, r)
         /\ StepsFrom("initSem", j, s) < StepsFrom("initPool", i, r)
         /\ StepsFrom("initDone", j, s) < StepsFrom("initSem", i, r)
         /\ StepsFrom("idle", j, s) < StepsFrom("initSem", i, r)
         /\ StepsFrom("allocProvider", j, s) < StepsFrom("initDone", i, r)
         /\ StepsFrom("idle", j, s) < StepsFrom("allocProvider", i, r)
         /\ StepsFrom("enterPool", j, s) < StepsFrom("wait", i, r)
         /\ StepsFrom("idle", j, s) < StepsFrom("wait", i, r)
         /\ StepsFrom("failRelease", j, s) < StepsFrom("scan", i, r)
         /\ StepsFrom("claim", j, s) < StepsFrom("scan", i, r)
         /\ StepsFrom("enterCs", j, s) < StepsFrom("claim", i, r)
         /\ StepsFrom("open", j, s) < StepsFrom("enterCs", i, r)
         /\ StepsFrom("leaveCs", j, s) < StepsFrom("enterCs", i, r)
         /\ StepsFrom("login", j, s) < StepsFrom("open", i, r)
         /\ StepsFrom("failFree", j, s) < StepsFrom("open", i, r)
         /\ StepsFrom("leaveCs", j, s) < StepsFrom("login", i, r)
         /\ StepsFrom("close", j, s) < StepsFrom("login", i, r)
         /\ StepsFrom("clear", j, s) < StepsFrom("close", i, r)
         /\ StepsFrom("failFree", j, s) < StepsFrom("clear", i, r)
         /\ StepsFrom("failLeave", j, s) < StepsFrom("failFree", i, r)
         /\ StepsFrom("failRelease", j, s) < StepsFrom("failLeave", i, r)
         /\ StepsFrom("idle", j, s) < StepsFrom("failRelease", i, r)
         /\ StepsFrom("read", j, s) < StepsFrom("leaveCs", i, r)
         /\ StepsFrom("holding", j, s) < StepsFrom("read", i, r)
         /\ StepsFrom("relEnter", j, s) < StepsFrom("holding", i, r)
         /\ StepsFrom("idle", j, s) < StepsFrom("relScan", i, r)
         /\ i = 1 => StepsFrom("scan", i, s) < StepsFrom("enterPool", i, r)
         /\ j = i + 1 => StepsFrom("scan", j, s) < StepsFrom("scan", i, r)
         /\ r = 1 => StepsFrom("relScan", j, r) < StepsFrom("relEnter", i, r)
         /\ s = r + 1 => StepsFrom("relScan", j, s) < StepsFrom("relScan", i, r)
<1>1. /\ i \in 1..PoolSize /\ j \in 1..PoolSize /\ r \in 1..PoolSize /\ s \in 1..PoolSize
      /\ PoolSize \in Nat \ {0}
  BY PoolAssumption DEF Slots
<1>2. QED BY <1>1 DEF StepsFrom

\* A step of a thread lowers its own count.
LEMMA OwnStepShortens ==
  ASSUME TypeOK, TypeOK', CountersStart, NEW t \in Threads, Step(t)
  PROVE  StepsLeft(t)' < StepsLeft(t)
<1>1. iAcq[t] \in Slots /\ iRel[t] \in Slots /\ iAcq'[t] \in Slots /\ iRel'[t] \in Slots
  BY DEF TypeOK
<1> USE DEF TypeOK, CountersStart, Move, Return, localVars, StepsLeft
<1>2. CASE InitCsPool(t)
  BY <1>1, <1>2, StepsFall DEF InitCsPool
<1>3. CASE InitPool(t)
  BY <1>1, <1>3, StepsFall DEF InitPool
<1>4. CASE InitSemaphore(t)
  BY <1>1, <1>4, StepsFall DEF InitSemaphore
<1>5. CASE InitSemaphoreFails(t)
  BY <1>1, <1>5, StepsFall DEF InitSemaphoreFails
<1>6. CASE InitDone(t)
  BY <1>1, <1>6, StepsFall DEF InitDone
<1>7. CASE AllocProvider(t)
  BY <1>1, <1>7, StepsFall DEF AllocProvider
<1>8. CASE AllocProviderFails(t)
  BY <1>1, <1>8, StepsFall DEF AllocProviderFails
<1>9. CASE WaitOk(t)
  BY <1>1, <1>9, StepsFall DEF WaitOk
<1>10. CASE WaitTimeout(t)
  BY <1>1, <1>10, StepsFall DEF WaitTimeout
<1>11. CASE ScanEnter(t)
  BY <1>1, <1>11, StepsFall DEF ScanEnter
<1>12. CASE ScanNext(t)
  BY <1>1, <1>12, StepsFall DEF ScanNext
<1>13. CASE ScanEnd(t)
  BY <1>1, <1>13, StepsFall DEF ScanEnd
<1>14. CASE Claim(t)
  BY <1>1, <1>14, StepsFall DEF Claim
<1>15. CASE EnterEntry(t)
  BY <1>1, <1>15, StepsFall DEF EnterEntry
<1>16. CASE OpenSession(t)
  BY <1>1, <1>16, StepsFall DEF OpenSession
<1>17. CASE OpenSessionFails(t)
  BY <1>1, <1>17, StepsFall DEF OpenSessionFails
<1>18. CASE Login(t)
  BY <1>1, <1>18, StepsFall DEF Login
<1>19. CASE LoginFails(t)
  BY <1>1, <1>19, StepsFall DEF LoginFails
<1>20. CASE CloseSession(t)
  BY <1>1, <1>20, StepsFall DEF CloseSession
<1>21. CASE ClearHandle(t)
  BY <1>1, <1>21, StepsFall DEF ClearHandle
<1>22. CASE FailFree(t)
  BY <1>1, <1>22, StepsFall DEF FailFree
<1>23. CASE FailLeave(t)
  BY <1>1, <1>23, StepsFall DEF FailLeave
<1>24. CASE FailRelease(t)
  BY <1>1, <1>24, StepsFall DEF FailRelease
<1>25. CASE LeaveEntry(t)
  BY <1>1, <1>25, StepsFall DEF LeaveEntry
<1>26. CASE ReadHandle(t)
  BY <1>1, <1>26, StepsFall DEF ReadHandle
<1>27. CASE ReleaseCall(t)
  BY <1>1, <1>27, StepsFall DEF ReleaseCall
<1>28. CASE RelEnter(t)
  BY <1>1, <1>28, StepsFall DEF RelEnter
<1>29. CASE RelNext(t)
  BY <1>1, <1>29, StepsFall DEF RelNext
<1>30. CASE RelEnd(t)
  BY <1>1, <1>30, StepsFall DEF RelEnd
<1>31. QED
  BY <1>2, <1>3, <1>4, <1>5, <1>6, <1>7, <1>8, <1>9, <1>10, <1>11, <1>12, <1>13,
     <1>14, <1>15, <1>16, <1>17, <1>18, <1>19, <1>20, <1>21, <1>22, <1>23, <1>24,
     <1>25, <1>26, <1>27, <1>28, <1>29, <1>30
     DEF Step, InitStep, AcquireStep, ReleaseStep

\* No step of anything else changes it.
LEMMA OtherStepKeeps ==
  ASSUME TypeOK, NEW t \in Threads, pc[t] # "idle", ~Step(t), [Next]_vars
  PROVE  StepsLeft(t)' = StepsLeft(t)
<1> USE DEF TypeOK, Slots, Move, Return, initVars, entryVars, semVars, libVars,
    localVars
<1>1. pc'[t] = pc[t] /\ iAcq'[t] = iAcq[t] /\ iRel'[t] = iRel[t]
  <2>1. ASSUME NEW u \in Threads, InitStep(u) \/ Call(u), u # t \/ Call(u)
        PROVE  pc'[t] = pc[t] /\ iAcq'[t] = iAcq[t] /\ iRel'[t] = iRel[t]
    BY <2>1 DEF InitStep, InitCsPool, InitPool, InitSemaphore, InitSemaphoreFails,
       InitDone, AllocProvider, AllocProviderFails, Call, OpenAgain, OpenFirst,
       AcquireCall
  <2>2. ASSUME NEW u \in Threads, u # t, AcquireStep(u)
        PROVE  pc'[t] = pc[t] /\ iAcq'[t] = iAcq[t] /\ iRel'[t] = iRel[t]
    BY <2>2 DEF AcquireStep, WaitOk, WaitTimeout, ScanEnter, ScanNext, ScanEnd,
       Claim, EnterEntry, OpenSession, OpenSessionFails, Login, LoginFails,
       CloseSession, ClearHandle, FailFree, FailLeave, FailRelease, LeaveEntry,
       ReadHandle
  <2>3. ASSUME NEW u \in Threads, u # t, ReleaseStep(u)
        PROVE  pc'[t] = pc[t] /\ iAcq'[t] = iAcq[t] /\ iRel'[t] = iRel[t]
    BY <2>3 DEF ReleaseStep, ReleaseCall, RelEnter, RelNext, RelEnd
  <2>4. CASE Stop \/ Detach \/ UNCHANGED vars
    BY <2>4 DEF Stop, Detach, vars
  <2>5. QED BY <2>1, <2>2, <2>3, <2>4 DEF Next, Step
<1>2. QED BY <1>1 DEF StepsLeft

\* Acquire, release and the opening of a provider end after a bounded number of
\* their own steps, whatever the other threads do and even if opens overlap:
\* with NoDeadlock, what PoolDrains rests on for every pool.
THEOREM CallsBounded == Spec => CallsGetShorter
<1> DEFINE Shorter == \A t \in Threads :
                        /\ Step(t) => StepsLeft(t)' < StepsLeft(t)
                        /\ pc[t] # "idle" => StepsLeft(t)' <= StepsLeft(t)
<1>1. ASSUME TypeOK, CountersStart, [Next]_vars PROVE Shorter
  <2> SUFFICES ASSUME NEW t \in Threads
               PROVE  /\ Step(t) => StepsLeft(t)' < StepsLeft(t)
                      /\ pc[t] # "idle" => StepsLeft(t)' <= StepsLeft(t)
    OBVIOUS
  <2>1. TypeOK'
    BY <1>1, TypeStep
  <2>2. StepsLeft(t) \in Nat /\ StepsLeft(t)' \in Nat
    BY <1>1, <2>1, StepsAreNat, PoolAssumption DEF TypeOK, StepsLeft
  <2>3. Step(t) => StepsLeft(t)' < StepsLeft(t)
    BY <1>1, <2>1, OwnStepShortens
  <2>4. QED BY <1>1, <2>2, <2>3, OtherStepKeeps
<1>2. Init => CountersStart
  BY DEF Init, CountersStart
<1>3. CallsGetShorter <=> [][Shorter]_vars
  BY DEF CallsGetShorter
<1> HIDE DEF Shorter
<1>4. QED BY <1>1, <1>2, <1>3, CountersStep, TypeCorrect, PTL DEF Spec

=============================================================================
