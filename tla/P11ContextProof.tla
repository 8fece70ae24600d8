-------------------------- MODULE P11ContextProof --------------------------
(***************************************************************************)
(* Proofs about the PKCS#11 context, for any number of threads and of      *)
(* provider handles.  The argument: InitOnceExecuteOnce lets one thread    *)
(* run the callback and nobody pass it before it has ended (OnceRuns);     *)
(* Stages follows what the callback makes and undoes, step by step, so     *)
(* that its end leaves all or nothing (Settled); PoolAfterContext leads    *)
(* from there to the providers.                                            *)
(***************************************************************************)
EXTENDS P11Context, TLAPS

\* The initial state satisfies the inductive invariant.
LEMMA InitIInv == Init => IInv
<1> SUFFICES ASSUME Init PROVE IInv
  OBVIOUS
<1> USE DEF Init
<1>1. TypeOK
  <2>1. /\ pc \in [Threads -> Locs]
        /\ answer \in [Threads -> Failures \cup {"ERROR_SUCCESS", NoAnswer}]
    BY DEF Locs
  <2>2. /\ hModule \in BOOLEAN /\ pFunctionList \in BOOLEAN /\ bInitialized \in BOOLEAN
        /\ bPoolInit \in BOOLEAN /\ sessions \in BOOLEAN /\ hostRef \in BOOLEAN
        /\ hostEnded \in BOOLEAN /\ lost \in BOOLEAN
    BY Zenon
  <2>3. QED BY <2>1, <2>2 DEF TypeOK, Failures
<1>2. NoLostCall /\ LibraryLetGo /\ Answers
  BY DEF NoLostCall, LibraryLetGo, Answers
<1>3. OnceRuns /\ Stages /\ PoolAfterContext
  BY DEF OnceRuns, Stages, PoolAfterContext, Outside
<1>4. QED BY <1>1, <1>2, <1>3 DEF IInv

\* A thread that enters KSP_OpenProvider keeps the invariant.
LEMMA OpenProviderStep == ASSUME IInv, NEW t \in Threads, OpenProvider(t) PROVE IInv'
<1> USE DEF IInv, OpenProvider, At, Goto, onceVars, ctxVars, poolVars, libVars
<1>1. TypeOK'
  BY DEF TypeOK, Locs, Callback, Failures, LibraryLetGo, OnceRuns, Stages
<1>2. NoLostCall' /\ LibraryLetGo'
  BY DEF TypeOK, NoLostCall, LibraryLetGo, Mapped, OnceRuns, Stages, Settled,
         PoolAfterContext, Callback
<1>3. Answers'
  BY DEF TypeOK, Answers, OnceRuns, Callback, Outside, NoAnswer
<1>4. OnceRuns'
  BY DEF TypeOK, OnceRuns, Callback, Outside
<1>5. Stages'
  BY DEF TypeOK, Stages, Settled, OnceRuns, Callback, Outside, LibraryLetGo
<1>6. PoolAfterContext'
  BY DEF TypeOK, PoolAfterContext, OnceRuns, Callback, Outside
<1>7. QED BY <1>1, <1>2, <1>3, <1>4, <1>5, <1>6

\* The first caller of InitOnceExecuteOnce is alone in the callback.
LEMMA OnceBeginStep == ASSUME IInv, NEW t \in Threads, OnceBegin(t) PROVE IInv'
<1> USE DEF IInv, OnceBegin, At, Goto, onceVars, ctxVars, poolVars, libVars
<1>1. TypeOK'
  BY DEF TypeOK, Locs, Callback, Failures, LibraryLetGo, OnceRuns, Stages
<1>2. NoLostCall' /\ LibraryLetGo'
  BY DEF TypeOK, NoLostCall, LibraryLetGo, Mapped, OnceRuns, Stages, Settled,
         PoolAfterContext, Callback
<1>3. Answers'
  BY DEF TypeOK, Answers, OnceRuns, Callback, Outside, NoAnswer
<1>4. OnceRuns'
  BY DEF TypeOK, OnceRuns, Callback, Outside
<1>5. Stages'
  BY DEF TypeOK, Stages, Settled, OnceRuns, Callback, Outside, LibraryLetGo
<1>6. PoolAfterContext'
  BY DEF TypeOK, PoolAfterContext, OnceRuns, Callback, Outside
<1>7. QED BY <1>1, <1>2, <1>3, <1>4, <1>5, <1>6

\* A caller that waited goes on to the status.
LEMMA OnceWaitStep == ASSUME IInv, NEW t \in Threads, OnceWait(t) PROVE IInv'
<1> USE DEF IInv, OnceWait, At, Goto, onceVars, ctxVars, poolVars, libVars
<1>1. TypeOK'
  BY DEF TypeOK, Locs, Callback, Failures, LibraryLetGo, OnceRuns, Stages
<1>2. NoLostCall' /\ LibraryLetGo'
  BY DEF TypeOK, NoLostCall, LibraryLetGo, Mapped, OnceRuns, Stages, Settled,
         PoolAfterContext, Callback
<1>3. Answers'
  BY DEF TypeOK, Answers, OnceRuns, Callback, Outside, NoAnswer
<1>4. OnceRuns'
  BY DEF TypeOK, OnceRuns, Callback, Outside
<1>5. Stages'
  BY DEF TypeOK, Stages, Settled, OnceRuns, Callback, Outside, LibraryLetGo
<1>6. PoolAfterContext'
  BY DEF TypeOK, PoolAfterContext, OnceRuns, Callback, Outside
<1>7. QED BY <1>1, <1>2, <1>3, <1>4, <1>5, <1>6

\* LoadLibraryW succeeds or leaves nothing.
LEMMA LoadStep == ASSUME IInv, NEW t \in Threads, Load(t) PROVE IInv'
<1> USE DEF IInv, Load, At, Goto, onceVars, ctxVars, poolVars, libVars, Fail, LoadLibrary
<1>1. TypeOK'
  <2>1. kspRefs' \in 0..1
    BY DEF TypeOK, LibraryLetGo, Stages
  <2>2. pc' \in [Threads -> Locs]
    BY DEF TypeOK, Locs, Callback
  <2>3. hModule' \in BOOLEAN
    BY DEF TypeOK
  <2>4. QED BY <2>1, <2>2, <2>3 DEF TypeOK, Failures
<1>2. NoLostCall' /\ LibraryLetGo'
  BY DEF TypeOK, NoLostCall, LibraryLetGo, Mapped, OnceRuns, Stages, Settled,
         PoolAfterContext, Callback
<1>3. Answers'
  BY DEF TypeOK, Answers, OnceRuns, Callback, Outside, NoAnswer
<1>4. OnceRuns'
  BY DEF TypeOK, OnceRuns, Callback, Outside
<1>5. Stages'
  BY DEF TypeOK, Stages, Settled, OnceRuns, Callback, Outside, LibraryLetGo
<1>6. PoolAfterContext'
  BY DEF TypeOK, PoolAfterContext, OnceRuns, Callback, Outside
<1>7. QED BY <1>1, <1>2, <1>3, <1>4, <1>5, <1>6

\* The function list is there or the library is freed.
LEMMA GetFunctionsStep == ASSUME IInv, NEW t \in Threads, GetFunctions(t) PROVE IInv'
<1> USE DEF IInv, GetFunctions, At, Goto, onceVars, ctxVars, poolVars, libVars,
            Fail, FreeLibrary, LeftBehind, CallLibrary
<1>1. TypeOK'
  <2>1. kspRefs' \in 0..1
    BY DEF TypeOK, LibraryLetGo, Stages
  <2>2. pc' \in [Threads -> Locs]
    BY DEF TypeOK, Locs, Callback
  <2>3. QED BY ZenonT(40), <2>1, <2>2 DEF TypeOK, Failures
<1>2. NoLostCall' /\ LibraryLetGo'
  BY DEF TypeOK, NoLostCall, LibraryLetGo, Mapped, OnceRuns, Stages, Settled,
         PoolAfterContext, Callback
<1>3. Answers'
  BY DEF TypeOK, Answers, OnceRuns, Callback, Outside, NoAnswer
<1>4. OnceRuns'
  BY DEF TypeOK, OnceRuns, Callback, Outside
<1>5. Stages'
  BY DEF TypeOK, Stages, Settled, OnceRuns, Callback, Outside, LibraryLetGo
<1>6. PoolAfterContext'
  BY DEF TypeOK, PoolAfterContext, OnceRuns, Callback, Outside
<1>7. QED BY <1>1, <1>2, <1>3, <1>4, <1>5, <1>6

\* The library is initialised or freed.
LEMMA InitializeStep == ASSUME IInv, NEW t \in Threads, Initialize(t) PROVE IInv'
<1> USE DEF IInv, Initialize, At, Goto, onceVars, ctxVars, poolVars, libVars,
            Fail, FreeLibrary, LeftBehind, CallLibrary
<1>1. TypeOK'
  <2>1. kspRefs' \in 0..1
    BY DEF TypeOK, LibraryLetGo, Stages
  <2>2. pc' \in [Threads -> Locs]
    BY DEF TypeOK, Locs, Callback
  <2>3. QED BY ZenonT(40), <2>1, <2>2 DEF TypeOK, Failures
<1>2. NoLostCall' /\ LibraryLetGo'
  BY DEF TypeOK, NoLostCall, LibraryLetGo, Mapped, OnceRuns, Stages, Settled,
         PoolAfterContext, Callback
<1>3. Answers'
  BY DEF TypeOK, Answers, OnceRuns, Callback, Outside, NoAnswer
<1>4. OnceRuns'
  BY DEF TypeOK, OnceRuns, Callback, Outside
<1>5. Stages'
  BY DEF TypeOK, Stages, Settled, OnceRuns, Callback, Outside, LibraryLetGo
<1>6. PoolAfterContext'
  BY DEF TypeOK, PoolAfterContext, OnceRuns, Callback, Outside
<1>7. QED BY <1>1, <1>2, <1>3, <1>4, <1>5, <1>6

\* A slot is there, or the library is finalised and freed.
LEMMA SelectSlotStep == ASSUME IInv, NEW t \in Threads, SelectSlot(t) PROVE IInv'
<1> USE DEF IInv, SelectSlot, At, Goto, onceVars, ctxVars, poolVars, libVars,
            Fail, FreeLibrary, LeftBehind, CallLibrary
<1>1. TypeOK'
  <2>1. kspRefs' \in 0..1
    BY DEF TypeOK, LibraryLetGo, Stages
  <2>2. pc' \in [Threads -> Locs]
    BY DEF TypeOK, Locs, Callback
  <2>3. QED BY <2>1, <2>2 DEF TypeOK, Failures
<1>2. NoLostCall' /\ LibraryLetGo'
  BY DEF TypeOK, NoLostCall, LibraryLetGo, Mapped, OnceRuns, Stages, Settled,
         PoolAfterContext, Callback
<1>3. Answers'
  BY DEF TypeOK, Answers, OnceRuns, Callback, Outside, NoAnswer
<1>4. OnceRuns'
  BY DEF TypeOK, OnceRuns, Callback, Outside
<1>5. Stages'
  BY DEF TypeOK, Stages, Settled, OnceRuns, Callback, Outside, LibraryLetGo
<1>6. PoolAfterContext'
  BY DEF TypeOK, PoolAfterContext, OnceRuns, Callback, Outside
<1>7. QED BY <1>1, <1>2, <1>3, <1>4, <1>5, <1>6

\* The callback ends with everything or nothing made.
LEMMA OnceEndStep == ASSUME IInv, NEW t \in Threads, OnceEnd(t) PROVE IInv'
<1> USE DEF IInv, OnceEnd, At, Goto, onceVars, ctxVars, poolVars, libVars
<1>1. TypeOK'
  BY DEF TypeOK, Locs, Callback, Failures, LibraryLetGo, OnceRuns, Stages
<1>2. NoLostCall' /\ LibraryLetGo'
  BY DEF TypeOK, NoLostCall, LibraryLetGo, Mapped, OnceRuns, Stages, Settled,
         PoolAfterContext, Callback
<1>3. Answers'
  BY DEF TypeOK, Answers, OnceRuns, Callback, Outside, NoAnswer
<1>4. OnceRuns'
  BY DEF TypeOK, OnceRuns, Callback, Outside
<1>5. Stages'
  BY DEF TypeOK, Stages, Settled, OnceRuns, Callback, Outside, LibraryLetGo
<1>6. PoolAfterContext'
  BY DEF TypeOK, PoolAfterContext, OnceRuns, Callback, Outside
<1>7. QED BY <1>1, <1>2, <1>3, <1>4, <1>5, <1>6

\* P11_Initialize tells g_initStatus, and only a success leads to the pool.
LEMMA StatusStep == ASSUME IInv, NEW t \in Threads, Status(t) PROVE IInv'
<1> USE DEF IInv, Status, At, Goto, onceVars, ctxVars, poolVars, libVars
<1>1. TypeOK'
  BY DEF TypeOK, Locs, Callback, Failures, LibraryLetGo, OnceRuns, Stages
<1>2. NoLostCall' /\ LibraryLetGo'
  BY DEF TypeOK, NoLostCall, LibraryLetGo, Mapped, OnceRuns, Stages, Settled,
         PoolAfterContext, Callback
<1>3. Answers'
  BY DEF TypeOK, Answers, OnceRuns, Callback, Outside, NoAnswer
<1>4. OnceRuns'
  BY DEF TypeOK, OnceRuns, Callback, Outside
<1>5. Stages'
  BY DEF TypeOK, Stages, Settled, OnceRuns, Callback, Outside, LibraryLetGo
<1>6. PoolAfterContext'
  BY DEF TypeOK, PoolAfterContext, OnceRuns, Callback, Outside
<1>7. QED BY <1>1, <1>2, <1>3, <1>4, <1>5, <1>6

\* The pool is initialised after the context.
LEMMA PoolInitializeStep == ASSUME IInv, NEW t \in Threads, PoolInitialize(t) PROVE IInv'
<1> USE DEF IInv, PoolInitialize, At, Goto, onceVars, ctxVars, poolVars, libVars
<1>1. TypeOK'
  <2>1. pc' \in [Threads -> Locs]
    BY DEF TypeOK, Locs
  <2>2. bPoolInit' \in BOOLEAN
    BY DEF TypeOK
  <2>3. QED BY <2>1, <2>2 DEF TypeOK
<1>2. NoLostCall' /\ LibraryLetGo'
  BY DEF TypeOK, NoLostCall, LibraryLetGo, Mapped, OnceRuns, Stages, Settled,
         PoolAfterContext, Callback
<1>3. Answers'
  BY DEF TypeOK, Answers, OnceRuns, Callback, Outside, NoAnswer
<1>4. OnceRuns'
  BY DEF TypeOK, OnceRuns, Callback, Outside
<1>5. Stages'
  BY DEF TypeOK, Stages, Settled, OnceRuns, Callback, Outside, LibraryLetGo
<1>6. PoolAfterContext'
  BY DEF TypeOK, PoolAfterContext, OnceRuns, Callback, Outside
<1>7. QED BY <1>1, <1>2, <1>3, <1>4, <1>5, <1>6

\* A provider handle is given out after the pool.
LEMMA AllocProviderStep == ASSUME IInv, NEW t \in Threads, AllocProvider(t) PROVE IInv'
<1> USE DEF IInv, AllocProvider, At, Goto, onceVars, ctxVars, poolVars, libVars
<1>1. TypeOK'
  BY DEF TypeOK, Locs, Callback, Failures, LibraryLetGo, OnceRuns, Stages
<1>2. NoLostCall' /\ LibraryLetGo'
  BY DEF TypeOK, NoLostCall, LibraryLetGo, Mapped, OnceRuns, Stages, Settled,
         PoolAfterContext, Callback
<1>3. Answers'
  BY DEF TypeOK, Answers, OnceRuns, Callback, Outside, NoAnswer
<1>4. OnceRuns'
  BY DEF TypeOK, OnceRuns, Callback, Outside
<1>5. Stages'
  BY DEF TypeOK, Stages, Settled, OnceRuns, Callback, Outside, LibraryLetGo
<1>6. PoolAfterContext'
  BY DEF TypeOK, PoolAfterContext, OnceRuns, Callback, Outside
<1>7. QED BY <1>1, <1>2, <1>3, <1>4, <1>5, <1>6

\* A freed provider leaves the context as it is.
LEMMA FreeProviderStep == ASSUME IInv, NEW t \in Threads, FreeProvider(t) PROVE IInv'
<1> USE DEF IInv, FreeProvider, At, Goto, onceVars, ctxVars, poolVars, libVars
<1>1. TypeOK'
  BY DEF TypeOK, Locs, Callback, Failures, LibraryLetGo, OnceRuns, Stages
<1>2. NoLostCall' /\ LibraryLetGo'
  BY DEF TypeOK, NoLostCall, LibraryLetGo, Mapped, OnceRuns, Stages, Settled,
         PoolAfterContext, Callback
<1>3. Answers'
  BY DEF TypeOK, Answers, OnceRuns, Callback, Outside, NoAnswer
<1>4. OnceRuns'
  BY DEF TypeOK, OnceRuns, Callback, Outside
<1>5. Stages'
  BY DEF TypeOK, Stages, Settled, OnceRuns, Callback, Outside, LibraryLetGo
<1>6. PoolAfterContext'
  BY DEF TypeOK, PoolAfterContext, OnceRuns, Callback, Outside
<1>7. QED BY <1>1, <1>2, <1>3, <1>4, <1>5, <1>6

\* A call of a provider finds the library.
LEMMA UseStep == ASSUME IInv, NEW t \in Threads, Use(t) PROVE IInv'
<1> USE DEF IInv, Use, At, Goto, onceVars, ctxVars, poolVars, libVars
<1>1. TypeOK'
  BY DEF TypeOK, Locs, Callback, Failures, LibraryLetGo, OnceRuns, Stages
<1>2. NoLostCall' /\ LibraryLetGo'
  BY DEF TypeOK, NoLostCall, LibraryLetGo, Mapped, OnceRuns, Stages, Settled,
         PoolAfterContext, Callback
<1>3. Answers'
  BY DEF TypeOK, Answers, OnceRuns, Callback, Outside, NoAnswer
<1>4. OnceRuns'
  BY DEF TypeOK, OnceRuns, Callback, Outside
<1>5. Stages'
  BY DEF TypeOK, Stages, Settled, OnceRuns, Callback, Outside, LibraryLetGo
<1>6. PoolAfterContext'
  BY DEF TypeOK, PoolAfterContext, OnceRuns, Callback, Outside
<1>7. QED BY <1>1, <1>2, <1>3, <1>4, <1>5, <1>6

\* A detach, by an unload or at the end of the process, finds the library it
\* calls and lets go of it.
LEMMA DetachFacts ==
  ASSUME IInv, NEW next \in {"detached", "exited"}, Detach(next)
  PROVE  /\ TypeOK' /\ NoLostCall' /\ Answers'
         /\ kspRefs' = 0 /\ ~hModule'
         /\ cryptoki' = "ksp" => cryptoki = "ksp" /\ ~bInitialized
<1> USE DEF IInv, Detach, Finalize, LeftBehind, onceVars
<1>1. kspRefs' = 0 /\ ~hModule'
  BY DEF LibraryLetGo
<1>2. cryptoki' \in {"off", cryptoki} /\ (cryptoki' = "ksp" => ~(bInitialized /\ pFunctionList))
  BY <1>1
<1>3. bInitialized => hModule /\ pFunctionList
  BY DEF TypeOK, OnceRuns, Stages, Settled, Callback
<1>4. bPoolInit => hModule
  BY DEF OnceRuns, Stages, Settled, PoolAfterContext
<1>5. NoLostCall'
  <2>1. hModule => Mapped
    BY DEF LibraryLetGo, Mapped
  <2>2. lost' = (lost \/ (((bPoolInit /\ sessions) \/ (bInitialized /\ pFunctionList)) /\ ~Mapped))
    OBVIOUS
  <2>3. QED BY <1>3, <1>4, <2>1, <2>2, Zenon DEF NoLostCall
<1>6. /\ hModule' \in BOOLEAN /\ bInitialized' \in BOOLEAN
      /\ bPoolInit' \in BOOLEAN /\ sessions' \in BOOLEAN
  OBVIOUS
<1>7. TypeOK'
  BY <1>1, <1>2, <1>5, <1>6 DEF TypeOK, NoLostCall
<1>8. Answers'
  BY DEF Answers
<1>9. QED BY <1>1, <1>2, <1>3, <1>5, <1>7, <1>8

\* An unload, with nobody inside, leaves nothing.
LEMMA UnloadStep == ASSUME IInv, Unload PROVE IInv'
<1> USE DEF Unload
<1>1. /\ loaded = "attached" /\ loaded' = "detached"
      /\ UNCHANGED <<initOnce, initStatus, providers, pc>> /\ sessions' = FALSE
  BY DEF Detach, onceVars
<1>2. cryptoki' # "ksp"
  <2>1. cryptoki # "ksp" \/ bInitialized
    BY <1>1 DEF IInv, TypeOK, OnceRuns, Stages, Settled, Callback
  <2>2. QED BY <2>1, DetachFacts
<1>3. Gone'
  BY <1>1, <1>2, DetachFacts DEF Gone
<1>4. LibraryLetGo'
  BY <1>2, DetachFacts DEF LibraryLetGo
<1>5. QED BY <1>1, <1>3, <1>4, DetachFacts DEF IInv

\* The end of the process stops the threads where they are.
LEMMA ExitStep == ASSUME IInv, Exit PROVE IInv'
<1> USE DEF Exit
<1>1. loaded = "attached" /\ loaded' = "exited" /\ UNCHANGED <<initOnce, initStatus>>
  BY DEF Detach, onceVars
<1>2. LibraryLetGo'
  BY <1>1, DetachFacts DEF IInv, LibraryLetGo
<1>3. QED BY <1>1, <1>2, DetachFacts DEF IInv

\* The DLL is loaded again.
LEMMA AttachStep == ASSUME IInv, Attach PROVE IInv'
<1> USE DEF IInv, Attach
<1>1. TypeOK'
  <2>1. answer' \in [Threads -> Failures \cup {"ERROR_SUCCESS", NoAnswer}]
    OBVIOUS
  <2>2. /\ hModule' \in BOOLEAN /\ pFunctionList' \in BOOLEAN /\ bInitialized' \in BOOLEAN
        /\ bPoolInit' \in BOOLEAN /\ hostEnded' \in BOOLEAN
    BY Zenon
  <2>3. QED BY <2>1, <2>2 DEF TypeOK, Failures
<1>2. NoLostCall' /\ LibraryLetGo' /\ Answers'
  BY DEF NoLostCall, LibraryLetGo, Answers, Gone
<1>3. OnceRuns' /\ Stages' /\ PoolAfterContext'
  BY DEF OnceRuns, Stages, PoolAfterContext, Gone, Outside
<1>4. QED BY <1>1, <1>2, <1>3

\* What the host does with the library never makes it the provider's, nor takes
\* it away while the provider holds it.
LEMMA HostStep == ASSUME IInv, Host PROVE IInv'
<1> USE DEF IInv, Host, onceVars, ctxVars, poolVars
<1>1. cryptoki' \in {cryptoki, "off", "host"} /\ kspRefs' = kspRefs
  BY DEF HostLoad, HostInitialize, HostFinalize, HostUnload
<1>2. /\ hostEnded => hostEnded'
      /\ cryptoki' = "off" /\ cryptoki # "off" => hostEnded' \/ ~hModule
  BY DEF HostLoad, HostInitialize, HostFinalize, HostUnload, TypeOK, LibraryLetGo
<1>3. TypeOK'
  <2>1. hostRef' \in BOOLEAN
    BY DEF HostLoad, HostInitialize, HostFinalize, HostUnload, TypeOK
  <2>2. hostEnded' \in BOOLEAN
    BY DEF HostLoad, HostInitialize, HostFinalize, HostUnload, TypeOK
  <2>3. QED BY <1>1, <2>1, <2>2 DEF TypeOK
<1>4. NoLostCall' /\ LibraryLetGo' /\ Answers'
  BY <1>1 DEF NoLostCall, LibraryLetGo, Answers
<1>5. Settled => Settled'
  BY <1>1, <1>2 DEF Settled
<1>6. OnceRuns => OnceRuns'
  BY DEF OnceRuns
<1>7. Stages => Stages'
  BY <1>1, <1>2, <1>5 DEF Stages
<1>8. (PoolAfterContext => PoolAfterContext') /\ (Gone => Gone')
  BY <1>1 DEF PoolAfterContext, Gone
<1>9. QED BY <1>3, <1>4, <1>6, <1>7, <1>8

\* Every step keeps the inductive invariant.
LEMMA NextIInv == IInv /\ [Next]_vars => IInv'
<1> SUFFICES ASSUME IInv, [Next]_vars PROVE IInv'
  OBVIOUS
<1>1. ASSUME NEW t \in Threads, Step(t) PROVE IInv'
  BY <1>1, OnceBeginStep, OnceWaitStep, LoadStep, GetFunctionsStep, InitializeStep,
     SelectSlotStep, OnceEndStep, StatusStep, PoolInitializeStep, AllocProviderStep
     DEF Step
<1>2. ASSUME NEW t \in Threads, OpenProvider(t) \/ FreeProvider(t) \/ Use(t) PROVE IInv'
  BY <1>2, OpenProviderStep, FreeProviderStep, UseStep
<1>3. CASE Unload \/ Exit \/ Attach \/ Host
  BY <1>3, UnloadStep, ExitStep, AttachStep, HostStep
<1>4. CASE UNCHANGED vars
  BY <1>4 DEF vars, onceVars, ctxVars, poolVars, libVars, IInv, TypeOK, NoLostCall,
     LibraryLetGo, Answers, OnceRuns, Stages, Settled, PoolAfterContext, Gone
<1>5. QED BY <1>1, <1>2, <1>3, <1>4 DEF Next

\* IInv holds throughout, for any number of threads and handles.
THEOREM Invariance == Spec => []IInv
BY InitIInv, NextIInv, PTL DEF Spec

\* Type correctness; the library module never has two references of the provider.
THEOREM TypeCorrect == Spec => []TypeOK
<1>1. IInv => TypeOK
  BY DEF IInv
<1>2. QED BY <1>1, Invariance, PTL

\* A valid provider handle is proof of an initialised context and pool.
THEOREM Ready == Spec => []ProvidersReady
<1>1. IInv => ProvidersReady
  BY DEF IInv, ProvidersReady, PoolAfterContext, Stages, Settled, LibraryLetGo
<1>2. QED BY <1>1, Invariance, PTL

\* P11_Initialize tells all threads the same.
THEOREM SameAnswer == Spec => []OneAnswer
<1>1. IInv => OneAnswer
  BY DEF IInv, OneAnswer, Answers
<1>2. QED BY <1>1, Invariance, PTL

\* No call of the provider goes into a library that has been freed.
THEOREM NothingLost == Spec => []NoLostCall
<1>1. IInv => NoLostCall
  BY DEF IInv
<1>2. QED BY <1>1, Invariance, PTL

\* The provider's one reference goes with hModule, and a library it initialised
\* is finalised.
THEOREM LetGo == Spec => []LibraryLetGo
<1>1. IInv => LibraryLetGo
  BY DEF IInv
<1>2. QED BY <1>1, Invariance, PTL
-----------------------------------------------------------------------------
(* What the calls rely on without a lock, and why an open returns           *)

\* One step leaves a context that is initialised alone.
LEMMA FrozenStep ==
  ASSUME IInv, [Next]_vars, loaded = "attached", loaded' = "attached",
         initOnce = "done"
  PROVE  /\ UNCHANGED <<onceVars, ctxVars>>
         /\ bPoolInit => bPoolInit'
<1> USE DEF onceVars, ctxVars, poolVars, At
<1>1. \A t \in Threads : pc[t] \notin Callback
  BY DEF IInv, OnceRuns
<1>2. ASSUME NEW t \in Threads, Step(t) PROVE UNCHANGED <<onceVars, ctxVars>> /\ (bPoolInit => bPoolInit')
  <2>1. OnceWait(t) \/ Status(t) \/ PoolInitialize(t) \/ AllocProvider(t)
    BY <1>1, <1>2 DEF Step, Callback, OnceBegin, Load, GetFunctions, Initialize,
       SelectSlot, OnceEnd
  <2>2. CASE PoolInitialize(t)
    BY <2>2 DEF PoolInitialize
  <2>3. CASE OnceWait(t) \/ Status(t) \/ AllocProvider(t)
    BY <2>3 DEF OnceWait, Status, AllocProvider
  <2>4. QED BY <2>1, <2>2, <2>3
<1>3. ASSUME NEW t \in Threads, OpenProvider(t) \/ FreeProvider(t) \/ Use(t)
      PROVE  UNCHANGED <<onceVars, ctxVars>> /\ (bPoolInit => bPoolInit')
  BY <1>3 DEF OpenProvider, FreeProvider, Use
<1>4. CASE Unload \/ Exit \/ Attach
  BY <1>4 DEF Unload, Exit, Attach, Detach
<1>5. CASE Host \/ UNCHANGED vars
  BY <1>5 DEF Host, vars
<1>6. QED BY <1>2, <1>3, <1>4, <1>5 DEF Next

\* From the end of InitOnceCallback to the detach nobody writes what the calls of
\* the provider read without a lock: g_ctx, g_initStatus and g_bPoolInit.
THEOREM NobodyWrites == Spec => ContextFrozen
<1> DEFINE Frozen == loaded = "attached" /\ loaded' = "attached" /\ initOnce = "done" =>
                       /\ UNCHANGED <<onceVars, ctxVars>>
                       /\ bPoolInit => bPoolInit'
<1>1. IInv /\ [Next]_vars => [Frozen]_vars
  BY FrozenStep
<1>2. ContextFrozen <=> [][Frozen]_vars
  BY DEF ContextFrozen
<1> HIDE DEF Frozen
<1>3. QED BY <1>1, <1>2, Invariance, PTL DEF Spec

\* Whoever waits for the first initialisation waits for a thread inside it.
THEOREM WaitersAreServed == Spec => []WaitersServed
<1>1. IInv => WaitersServed
  BY DEF IInv, OnceRuns, WaitersServed
<1>2. QED BY <1>1, Invariance, PTL

\* A KSP_OpenProvider ends after at most nine steps of its own.
THEOREM OpensBounded == Spec => OpenGetsShorter
<1> DEFINE Shorter == \A t \in Threads :
                        /\ Step(t) => StepsFrom(pc[t])' < StepsFrom(pc[t])
                        /\ pc[t] # "idle" /\ ~Step(t) => pc'[t] = pc[t]
<1>1. ASSUME TypeOK, NEW t \in Threads, Step(t) PROVE StepsFrom(pc[t])' < StepsFrom(pc[t])
  BY <1>1 DEF TypeOK, At, Goto, Fail, StepsFrom, Step, OnceBegin, OnceWait, Load,
     GetFunctions, Initialize, SelectSlot, OnceEnd, Status, PoolInitialize,
     AllocProvider
<1>2. ASSUME TypeOK, [Next]_vars, NEW t \in Threads, pc[t] # "idle", ~Step(t)
      PROVE  pc'[t] = pc[t]
  <2>1. ASSUME NEW u \in Threads, u # t, Step(u) PROVE pc'[t] = pc[t]
    BY <1>2, <2>1 DEF TypeOK, At, Goto, Fail, Step, OnceBegin, OnceWait, Load,
       GetFunctions, Initialize, SelectSlot, OnceEnd, Status, PoolInitialize,
       AllocProvider
  <2>2. ASSUME NEW u \in Threads, OpenProvider(u) \/ FreeProvider(u) \/ Use(u)
        PROVE  pc'[t] = pc[t]
    BY <1>2, <2>2 DEF TypeOK, At, Goto, OpenProvider, FreeProvider, Use
  <2>3. CASE Unload \/ Exit \/ Attach \/ Host \/ UNCHANGED vars
    BY <2>3 DEF Unload, Exit, Attach, Detach, Host, vars
  <2>4. QED BY <1>2, <2>1, <2>2, <2>3 DEF Next
<1>3. TypeOK /\ [Next]_vars => [Shorter]_vars
  BY <1>1, <1>2
<1>4. OpenGetsShorter <=> [][Shorter]_vars
  BY DEF OpenGetsShorter
<1> HIDE DEF Shorter
<1>5. QED BY <1>3, <1>4, TypeCorrect, PTL DEF Spec

=============================================================================
