----------------------------- MODULE P11Context -----------------------------
(***************************************************************************)
(* The one PKCS#11 context of the process and the providers opened on it   *)
(* (softhsm_ksp/src/pkcs11/p11_context.c, ksp/ksp_provider.c, ksp_main.c): *)
(* threads that open the provider, of which the first loads the library    *)
(* under InitOnceExecuteOnce and the others wait, and the detach that      *)
(* undoes it, by an unload or at the end of the process.                   *)
(*                                                                         *)
(* External: the host, which may use the same library of its own, and the  *)
(* library. A module is mapped while anybody holds a reference to it; an   *)
(* unmapped library forgets that it was initialised. The library file and  *)
(* the token may come and go: a call that needs them may fail at any time. *)
(* The session pool is reduced to whether it is initialised and has open   *)
(* sessions: P11SessionPool has the rest, the race of two initialisations  *)
(* included.                                                               *)
(***************************************************************************)
EXTENDS Naturals

CONSTANTS
  Threads,     \* of the host, with calls into the provider
  Handles      \* provider handles: KSP_PROVIDER structures on the heap

VARIABLES
  loaded,       \* softhsm_ksp.dll: "attached", "detached" or, for good, "exited"
  initOnce,     \* g_initOnce: "fresh", "running" or "done"
  initStatus,   \* g_initStatus
  hModule, pFunctionList, bInitialized,   \* g_ctx; the pointers: not NULL?
  bPoolInit, sessions,  \* the pool: initialised? with open sessions?
  providers,    \* provider handles that are valid
  pc,           \* where each thread is
  answer,       \* history: what P11_Initialize told each thread last
  kspRefs, hostRef,     \* references to the library module
  cryptoki,     \* the library: "off", or initialised by "ksp" or "host"
  hostEnded,    \* history: the host has called C_Finalize since the attach
  lost          \* history: a call went into an unmapped library

ctxVars == <<hModule, pFunctionList, bInitialized>>
onceVars == <<initOnce, initStatus>>
poolVars == <<bPoolInit, sessions>>
libVars == <<kspRefs, hostRef, cryptoki, hostEnded>>
vars == <<loaded, onceVars, ctxVars, poolVars, providers, pc, answer,
          libVars, lost>>

Callback == {"load", "functions", "initialize", "slot", "end"}
Locs == {"idle", "once", "status", "pool", "alloc"} \cup Callback
Failures == {"NTE_PROVIDER_DLL_FAIL", "NTE_FAIL", "NTE_NO_KEY"}
NoAnswer == ""

\* The DLL attached, with its statics as the loader sets them
Init ==
  /\ loaded = "attached"
  /\ initOnce = "fresh" /\ initStatus = "NTE_PROVIDER_DLL_FAIL"
  /\ hModule = FALSE /\ pFunctionList = FALSE /\ bInitialized = FALSE
  /\ bPoolInit = FALSE
  /\ sessions = FALSE /\ providers = {}
  /\ pc = [t \in Threads |-> "idle"]
  /\ answer = [t \in Threads |-> NoAnswer]
  /\ kspRefs = 0 /\ hostRef = FALSE /\ cryptoki = "off"
  /\ hostEnded = FALSE /\ lost = FALSE

Mapped == kspRefs > 0 \/ hostRef

At(t, l) == loaded = "attached" /\ pc[t] = l
Goto(t, l) == pc' = [pc EXCEPT ![t] = l]

\* A call through pFunctionList
CallLibrary == lost' = (lost \/ ~Mapped)

\* LoadLibraryW and FreeLibrary of the provider
LoadLibrary == kspRefs' = kspRefs + 1 /\ hModule' = TRUE /\ UNCHANGED hostRef
\* Slip: hModule is not reset
FreeLibrary_KeepsHandle == kspRefs' = kspRefs - 1 /\ UNCHANGED <<hModule, hostRef>>
FreeLibrary == kspRefs' = kspRefs - 1 /\ hModule' = FALSE /\ UNCHANGED hostRef

\* The library as the provider leaves it: an unmapped one forgets its state c.
LeftBehind(c) == IF kspRefs' > 0 \/ hostRef THEN c ELSE "off"

-----------------------------------------------------------------------------
(* KSP_OpenProvider                                                         *)

OpenProvider(t) ==
  /\ At(t, "idle") /\ Goto(t, "once")
  /\ UNCHANGED <<loaded, onceVars, ctxVars, poolVars, providers, answer,
                 libVars, lost>>

\* InitOnceExecuteOnce: the first caller runs InitOnceCallback ...
OnceBegin(t) ==
  /\ At(t, "once") /\ initOnce = "fresh"
  /\ initOnce' = "running"
  /\ hModule' = FALSE /\ pFunctionList' = FALSE /\ bInitialized' = FALSE
  /\ Goto(t, "load")
  /\ UNCHANGED <<loaded, initStatus, poolVars, providers, answer, libVars, lost>>

\* Slip: nobody waits for the callback
OnceWait_Not(t) ==
  /\ At(t, "once") /\ initOnce # "fresh" /\ Goto(t, "status")
  /\ UNCHANGED <<loaded, onceVars, ctxVars, poolVars, providers, answer,
                 libVars, lost>>

\* ... and the others wait until it has returned.
OnceWait(t) ==
  /\ At(t, "once") /\ initOnce = "done" /\ Goto(t, "status")
  /\ UNCHANGED <<loaded, onceVars, ctxVars, poolVars, providers, answer,
                 libVars, lost>>

Fail(t, x) == initStatus' = x /\ Goto(t, "end")

\* LoadSoftHSM2 up to LoadLibraryW
Load(t) ==
  /\ At(t, "load")
  /\ \/ LoadLibrary /\ Goto(t, "functions") /\ UNCHANGED initStatus
     \/ Fail(t, "NTE_PROVIDER_DLL_FAIL") /\ UNCHANGED <<hModule, kspRefs, hostRef>>
  /\ UNCHANGED <<loaded, initOnce, pFunctionList, bInitialized, poolVars, providers,
                 answer, cryptoki, hostEnded, lost>>

\* Its GetProcAddress and C_GetFunctionList
GetFunctions(t) ==
  /\ At(t, "functions")
  /\ CallLibrary
  /\ \/ /\ pFunctionList' = TRUE /\ Goto(t, "initialize")
        /\ UNCHANGED <<initStatus, hModule, kspRefs, hostRef, cryptoki>>
     \/ /\ FreeLibrary /\ cryptoki' = LeftBehind(cryptoki)
        /\ Fail(t, "NTE_PROVIDER_DLL_FAIL")
        /\ UNCHANGED pFunctionList
  /\ UNCHANGED <<loaded, initOnce, bInitialized, poolVars, providers, answer,
                 hostEnded>>

\* C_Initialize, for which CKR_CRYPTOKI_ALREADY_INITIALIZED is a success
Initialize(t) ==
  /\ At(t, "initialize")
  /\ CallLibrary
  /\ \/ /\ cryptoki' = IF cryptoki = "off" THEN "ksp" ELSE cryptoki
        /\ Goto(t, "slot")
        /\ UNCHANGED <<initStatus, hModule, kspRefs, hostRef>>
     \/ /\ cryptoki = "off"
        /\ FreeLibrary /\ cryptoki' = LeftBehind(cryptoki)
        /\ Fail(t, "NTE_FAIL")
  /\ UNCHANGED <<loaded, initOnce, pFunctionList, bInitialized, poolVars, providers,
                 answer, hostEnded>>

\* Slip: without a token the library stays initialised
SelectSlot_NoFinalize(t) ==
  /\ At(t, "slot")
  /\ CallLibrary
  /\ \/ /\ cryptoki # "off"
        /\ bInitialized' = TRUE /\ initStatus' = "ERROR_SUCCESS" /\ Goto(t, "end")
        /\ UNCHANGED <<hModule, kspRefs, hostRef, cryptoki>>
     \/ /\ FreeLibrary /\ cryptoki' = LeftBehind(cryptoki)
        /\ Fail(t, "NTE_NO_KEY")
        /\ UNCHANGED bInitialized
  /\ UNCHANGED <<loaded, initOnce, pFunctionList, poolVars, providers, answer,
                 hostEnded>>

\* SelectSlot and the end of the callback.  Without a slot the library is
\* finalised, whoever had initialised it, and freed.
SelectSlot(t) ==
  /\ At(t, "slot")
  /\ CallLibrary
  /\ \/ /\ cryptoki # "off"
        /\ bInitialized' = TRUE /\ initStatus' = "ERROR_SUCCESS" /\ Goto(t, "end")
        /\ UNCHANGED <<hModule, kspRefs, hostRef, cryptoki>>
     \/ /\ FreeLibrary /\ cryptoki' = LeftBehind("off")
        /\ Fail(t, "NTE_NO_KEY")
        /\ UNCHANGED bInitialized
  /\ UNCHANGED <<loaded, initOnce, pFunctionList, poolVars, providers, answer,
                 hostEnded>>

\* Slip: a callback that failed never completes the once
OnceEnd_Incomplete(t) ==
  /\ At(t, "end")
  /\ initOnce' = IF initStatus = "ERROR_SUCCESS" THEN "done" ELSE "running"
  /\ Goto(t, "status")
  /\ UNCHANGED <<loaded, initStatus, ctxVars, poolVars, providers, answer,
                 libVars, lost>>

\* The callback returns TRUE whatever happened: it is not run again.
OnceEnd(t) ==
  /\ At(t, "end")
  /\ initOnce' = "done" /\ Goto(t, "status")
  /\ UNCHANGED <<loaded, initStatus, ctxVars, poolVars, providers, answer,
                 libVars, lost>>

\* P11_Initialize returns g_initStatus.
Status(t) ==
  /\ At(t, "status")
  /\ answer' = [answer EXCEPT ![t] = initStatus]
  /\ Goto(t, IF initStatus = "ERROR_SUCCESS" THEN "pool" ELSE "idle")
  /\ UNCHANGED <<loaded, onceVars, ctxVars, poolVars, providers, libVars, lost>>

\* Slip: its failure is ignored
PoolInitialize_Ignored(t) ==
  /\ At(t, "pool")
  /\ bPoolInit' \in {bPoolInit, TRUE} /\ Goto(t, "alloc")
  /\ UNCHANGED <<loaded, onceVars, ctxVars, sessions, providers, answer,
                 libVars, lost>>

\* P11_SessionPool_Initialize, which may lack a semaphore the first time
PoolInitialize(t) ==
  /\ At(t, "pool")
  /\ \/ bPoolInit' = TRUE /\ Goto(t, "alloc")
     \/ ~bPoolInit /\ Goto(t, "idle") /\ UNCHANGED bPoolInit
  /\ UNCHANGED <<loaded, onceVars, ctxVars, sessions, providers, answer,
                 libVars, lost>>

AllocProvider(t) ==
  /\ At(t, "alloc") /\ Goto(t, "idle")
  /\ \/ \E h \in Handles \ providers : providers' = providers \cup {h}
     \/ UNCHANGED providers
  /\ UNCHANGED <<loaded, onceVars, ctxVars, poolVars, answer, libVars, lost>>

-----------------------------------------------------------------------------
(* Providers at work, and the DLL's entry point                             *)

FreeProvider(t) ==
  /\ At(t, "idle")
  /\ \E h \in providers : providers' = providers \ {h}
  /\ UNCHANGED <<loaded, onceVars, ctxVars, poolVars, pc, answer, libVars, lost>>

\* Any call with a valid provider handle goes through pCtx->pFunctionList; it
\* may open a session of the pool.
Use(t) ==
  /\ At(t, "idle") /\ providers # {}
  /\ lost' = (lost \/ ~Mapped \/ ~pFunctionList)
  /\ sessions' = (sessions \/ cryptoki # "off")
  /\ UNCHANGED <<loaded, onceVars, ctxVars, bPoolInit, providers, pc, answer,
                 libVars>>

\* Slip: P11_Finalize before P11_SessionPool_Finalize
Finalize_Swapped ==
  /\ kspRefs' = (IF hModule THEN kspRefs - 1 ELSE kspRefs)
  /\ cryptoki' = LeftBehind(IF bInitialized /\ pFunctionList THEN "off" ELSE cryptoki)
  /\ lost' = (lost \/ (bPoolInit /\ sessions /\ ~(kspRefs' > 0 \/ hostRef)))

\* P11_SessionPool_Finalize closes the pool's sessions, then P11_Finalize
\* finalises the library, whoever had initialised it, and frees it.
Finalize ==
  /\ LET calls == (bPoolInit /\ sessions) \/ (bInitialized /\ pFunctionList)
     IN  lost' = (lost \/ (calls /\ ~Mapped))
  /\ kspRefs' = (IF hModule THEN kspRefs - 1 ELSE kspRefs)
  /\ cryptoki' = LeftBehind(IF bInitialized /\ pFunctionList THEN "off" ELSE cryptoki)

\* DLL_PROCESS_DETACH.  The statics go with the DLL.
Detach(next) ==
  /\ loaded = "attached" /\ loaded' = next
  /\ Finalize
  /\ hModule' = FALSE /\ bInitialized' = FALSE /\ bPoolInit' = FALSE
  /\ sessions' = FALSE
  /\ UNCHANGED <<onceVars, pFunctionList, providers, pc, answer, hostRef,
                 hostEnded>>

\* The DLL is unloaded when no provider is left and no thread is inside ...
Unload == providers = {} /\ (\A t \in Threads : pc[t] = "idle") /\ Detach("detached")

\* ... while the end of the process stops the other threads where they are.
Exit == Detach("exited")

\* DLL_PROCESS_ATTACH, with fresh statics
Attach ==
  /\ loaded = "detached" /\ loaded' = "attached"
  /\ initOnce' = "fresh" /\ initStatus' = "NTE_PROVIDER_DLL_FAIL"
  /\ hModule' = FALSE /\ pFunctionList' = FALSE /\ bInitialized' = FALSE
  /\ bPoolInit' = FALSE
  /\ answer' = [t \in Threads |-> NoAnswer]
  /\ hostEnded' = FALSE
  /\ UNCHANGED <<sessions, providers, pc, kspRefs, hostRef, cryptoki, lost>>

-----------------------------------------------------------------------------
(* The host's own use of the library,                                       *)

HostLoad ==
  /\ ~hostRef /\ hostRef' = TRUE
  /\ UNCHANGED <<kspRefs, cryptoki, hostEnded>>
HostInitialize ==
  /\ hostRef /\ cryptoki = "off" /\ cryptoki' = "host"
  /\ UNCHANGED <<kspRefs, hostRef, hostEnded>>
HostFinalize ==
  /\ hostRef /\ cryptoki # "off" /\ cryptoki' = "off" /\ hostEnded' = TRUE
  /\ UNCHANGED <<kspRefs, hostRef>>
HostUnload ==
  /\ hostRef /\ hostRef' = FALSE
  /\ cryptoki' = IF kspRefs > 0 THEN cryptoki ELSE "off"
  /\ UNCHANGED <<kspRefs, hostEnded>>

Host ==
  /\ loaded # "exited"
  /\ HostLoad \/ HostInitialize \/ HostFinalize \/ HostUnload
  /\ UNCHANGED <<loaded, onceVars, ctxVars, poolVars, providers, pc, answer, lost>>

\* t's next step inside KSP_OpenProvider
Step(t) ==
  \/ OnceBegin(t) \/ OnceWait(t) \/ Load(t) \/ GetFunctions(t) \/ Initialize(t)
  \/ SelectSlot(t) \/ OnceEnd(t) \/ Status(t) \/ PoolInitialize(t) \/ AllocProvider(t)

Next ==
  \/ \E t \in Threads : Step(t) \/ OpenProvider(t) \/ FreeProvider(t) \/ Use(t)
  \/ Unload \/ Exit \/ Attach \/ Host

Spec == Init /\ [][Next]_vars

\* Windows runs every thread that can run, and library calls return.
FairSpec == Spec /\ \A t \in Threads : WF_vars(Step(t))

-----------------------------------------------------------------------------
(* Properties                                                               *)

TypeOK ==
  /\ loaded \in {"attached", "detached", "exited"}
  /\ initOnce \in {"fresh", "running", "done"}
  /\ initStatus \in Failures \cup {"ERROR_SUCCESS"}
  /\ hModule \in BOOLEAN /\ pFunctionList \in BOOLEAN /\ bInitialized \in BOOLEAN
  /\ bPoolInit \in BOOLEAN /\ sessions \in BOOLEAN
  /\ providers \subseteq Handles
  /\ pc \in [Threads -> Locs]
  /\ answer \in [Threads -> Failures \cup {"ERROR_SUCCESS", NoAnswer}]
  /\ kspRefs \in 0..1 /\ hostRef \in BOOLEAN
  /\ cryptoki \in {"off", "ksp", "host"}
  /\ hostEnded \in BOOLEAN /\ lost \in BOOLEAN

\* A provider handle is proof of a context: the library is mapped, its function
\* list is there and it is initialised, unless the host has ended that, and the
\* pool is initialised.  The calls behind KSP_IsValidProvider look at none of it.
ProvidersReady ==
  loaded = "attached" /\ providers # {} =>
    /\ initOnce = "done" /\ initStatus = "ERROR_SUCCESS"
    /\ hModule /\ pFunctionList /\ bInitialized /\ bPoolInit
    /\ kspRefs = 1
    /\ cryptoki # "off" \/ hostEnded

\* "the initialisation code runs exactly once": whatever the order and the time
\* of the calls, P11_Initialize tells all threads the same, as long as the DLL
\* is loaded.
OneAnswer ==
  \A t, u \in Threads :
    answer[t] # NoAnswer /\ answer[u] # NoAnswer => answer[t] = answer[u]

\* No path of initialisation, use and detach calls a library that has been
\* freed, although the host may free its own reference at any time.
NoLostCall == ~lost

\* The provider holds one reference to the library while hModule is set and
\* none else, and a library it initialised is finalised: by the callback when
\* it fails, by an unload.
LibraryLetGo ==
  /\ kspRefs = IF hModule THEN 1 ELSE 0
  /\ cryptoki = "ksp" /\ initOnce = "done" =>
       initStatus = "ERROR_SUCCESS" /\ loaded # "detached"

\* Every KSP_OpenProvider returns, unless the process ends.
OpenReturns == \A t \in Threads : pc[t] # "idle" ~> pc[t] = "idle" \/ loaded = "exited"

-----------------------------------------------------------------------------
(* The inductive invariant (P11ContextProof)                                *)

Outside == {"idle", "once"}

\* One thread runs the callback, and nobody is past it before it has returned.
OnceRuns ==
  /\ initOnce = "fresh" => \A t \in Threads : pc[t] \in Outside
  /\ initOnce = "running" =>
       \E t \in Threads :
         pc[t] \in Callback /\ \A u \in Threads \ {t} : pc[u] \in Outside
  /\ initOnce = "done" => \A t \in Threads : pc[t] \notin Callback

\* What the callback has made when it ends
Settled ==
  IF initStatus = "ERROR_SUCCESS"
  THEN hModule /\ pFunctionList /\ bInitialized /\ (cryptoki # "off" \/ hostEnded)
  ELSE ~hModule /\ ~bInitialized /\ cryptoki # "ksp"

\* What it has made on the way there
Stages ==
  /\ initOnce = "fresh" => ~hModule /\ ~bInitialized /\ cryptoki # "ksp"
  /\ initOnce = "done" => Settled
  /\ \A t \in Threads :
       /\ pc[t] \in {"load", "functions", "initialize"} => cryptoki # "ksp"
       /\ pc[t] \in {"load", "functions", "initialize", "slot"} => ~bInitialized
       /\ pc[t] = "load" => ~hModule
       /\ pc[t] \in {"functions", "initialize", "slot"} => hModule
       /\ pc[t] \in {"initialize", "slot"} => pFunctionList
       /\ pc[t] = "slot" => cryptoki # "off" \/ hostEnded
       /\ pc[t] = "end" => Settled

\* Only a successful initialisation leads to the pool, and that to providers.
PoolAfterContext ==
  /\ bPoolInit \/ (\E t \in Threads : pc[t] \in {"pool", "alloc"}) =>
       initOnce = "done" /\ initStatus = "ERROR_SUCCESS"
  /\ providers # {} \/ sessions \/ (\E t \in Threads : pc[t] = "alloc") => bPoolInit

\* Nothing is left of a DLL that is unloaded.
Gone ==
  /\ \A t \in Threads : pc[t] = "idle"
  /\ providers = {} /\ ~sessions /\ ~hModule /\ cryptoki # "ksp"

Answers ==
  \A t \in Threads : answer[t] # NoAnswer => initOnce = "done" /\ answer[t] = initStatus

IInv ==
  /\ TypeOK /\ NoLostCall /\ LibraryLetGo /\ Answers
  /\ loaded = "attached" => OnceRuns /\ Stages /\ PoolAfterContext
  /\ loaded = "detached" => Gone

-----------------------------------------------------------------------------
(* What every call of the provider relies on without a lock                 *)

\* g_ctx and g_initStatus, which every call reads without a lock, are written
\* by nobody from the end of the callback to the detach, nor is the pool's
\* initialisation undone: no reader sees a context change under it.
ContextFrozen ==
  [][loaded = "attached" /\ loaded' = "attached" /\ initOnce = "done" =>
       /\ UNCHANGED <<onceVars, ctxVars>>
       /\ bPoolInit => bPoolInit']_vars

\* A thread stopped at InitOnceExecuteOnce waits for a thread that is inside the
\* callback, where it waits for nobody.
WaitersServed ==
  loaded = "attached" /\ initOnce = "running" =>
    \E u \in Threads : pc[u] \in Callback

\* The steps a KSP_OpenProvider has left, of the thread that runs the callback
StepsFrom(p) ==
  CASE p = "idle" -> 0
    [] p = "alloc" -> 1
    [] p = "pool" -> 2
    [] p = "status" -> 3
    [] p = "end" -> 4
    [] p = "slot" -> 5
    [] p = "initialize" -> 6
    [] p = "functions" -> 7
    [] p = "load" -> 8
    [] p = "once" -> 9

\* Every step of a KSP_OpenProvider brings its end nearer, and nothing else moves
\* it: the callback is not run again, whatever it returned.
OpenGetsShorter ==
  [][\A t \in Threads :
       /\ Step(t) => StepsFrom(pc[t])' < StepsFrom(pc[t])
       /\ pc[t] # "idle" /\ ~Step(t) => pc'[t] = pc[t]]_vars
=============================================================================
