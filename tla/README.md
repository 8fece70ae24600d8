# Verification of Noida

TLA+ models, TLC runs and TLAPS proofs for the programs of this repository:

- `softhsm_ksp/`: a Windows CNG key storage provider (C) that turns NCrypt
  calls into PKCS#11 calls on SoftHSM2;
- `Wearing.cpp`: a simulator of flash wear levelling;
- `encrypt.py` and `generate_guide.py`: two scripts.

The repository is the reference: definitions are translated from the code and
`PROJECT.json` names the lines each one stands for.

## Inventory

### Key storage provider

An application thread calls an NCrypt function; the provider validates handles,
leases a PKCS#11 session from a pool of 16, runs one library operation on it
and gives it back. Calls run on the threads of the host process, so everything
below `KSP_*` is concurrent.

| part | state | operations | called by |
|---|---|---|---|
| session pool (`pkcs11/p11_session.c`) | 16 entries (handle, in use, logged in, lock), a counting semaphore, a lock over the table, "initialised" | initialise, acquire (opens and logs in on first use), release, finalise | every operation below |
| PKCS#11 context (`pkcs11/p11_context.c`) | library module, function list, slot, result of the one-shot initialisation | `P11_Initialize`, `P11_Finalize` | provider, DLL entry |
| provider and DLL entry (`ksp/ksp_provider.c`, `ksp_main.c`) | provider objects | open, free, constant properties, attach, detach | application, loader |
| key management (`ksp/ksp_key.c`) | `KSP_KEY` structures on the heap, objects on the token | create, finalise, open, delete, free, enumerate | application |
| cryptography (`ksp/ksp_crypto.c`) | the active operation of a library session | sign, decrypt, export, import | application |
| properties (`ksp/ksp_properties.c`) | fields of `KSP_KEY` | get, set length | application |
| helpers (`pkcs11/p11_utils.c`) | none | status mapping, searches, attributes, blobs, DER decoding | the three above |
| logging, memory (`common/`) | none | | all |

What is hard, and what makes each part correct:

- **Pool.** The interleavings of three kinds of locks with an entry that is
  freed outside the table's lock; failures of open and login in the middle; the
  process-wide login state; a detach at any moment. A session is held by one
  caller, is open and logged in while it is held, and permits, entries and
  library sessions are never lost.
- **Cryptography.** A library session remembers an operation between calls, and
  sessions go from caller to caller. Data is made with the caller's own key; no
  return path keeps a session.
- **Keys.** A handle is found by several library calls between which other
  callers change the token, and calls fail half way. A handle is a pair that
  was generated together and tells the truth about it; failures and retries
  leave no half and no second pair.
- **Context.** One-shot initialisation, whose failure is also decided once, with
  callers that wait for it; a library that the host may use itself; an order of
  undoing at the detach. A provider handle is proof of a context, everyone gets
  the one answer, nobody calls into a library that is gone.
- **Enumeration.** A snapshot of handles read over many calls. No key is named
  twice, and one is passed over only for a call that failed.
- **Outputs.** A size told by one call and used by another, over a key that may
  go in between; conversions between the token's formats and those of CNG. What
  is delivered means what the token returned, a size told suffices, and every
  return path frees what it allocated.

### Wear-levelling simulator

42 virtual pages over 6 sectors of 14 physical pages. Each write moves a virtual
page to a free physical page and marks the old copy `RECYCLE`; when no page is
free a sector's recycled pages are erased. It is sequential and its choices are
`rand()`. It is correct if no move or erase loses data, if every write ends, and
if `CheckMemory`'s question has the answer "intact" for every page.

### Scripts

`encrypt.py` is one pass of library calls over a file, `generate_guide.py` lays
out a document. Neither has state to model.

## Modules

| module | models |
|---|---|
| `SessionLease` | what the pool promises: exclusive leases, at most `Capacity` out at a time, none after the destruction |
| `P11SessionPool` | `p11_session.c`, every access to shared state a step; implements `SessionLease` |
| `P11SessionPoolProof` | its theorems |
| `KspCrypto` | `KSP_SignHash`, `KSP_Decrypt` and the search of `KSP_OpenKey` over leased sessions; composes `SessionLease` |
| `KspCryptoProof` | its theorems |
| `P11Context` | `p11_context.c`, `KSP_OpenProvider`, `KSP_FreeProvider`, `DllMain` and the host |
| `P11ContextProof` | its theorems |
| `KspKeys` | the life of key handles and token objects, with its inductive invariant |
| `MCKspKeys` | its symmetry |
| `KspKeysProof` | its theorems |
| `KspEnum` | `KSP_EnumKeys` over a token whose keys come and go |
| `KspEnumProof` | its theorems |
| `KspOutputs` | the calls that answer with bytes: `KSP_ExportKey`, `KSP_SignHash`, the getters; composes `SessionLease`; with its inductive invariant |
| `KspOutputsProof` | its theorems |
| `VirtualStore` | what the simulator promises: a write returns with its data at its page, and nothing else but a new experiment changes what a page reads |
| `WearLeveling` | `Wearing.cpp`; implements `VirtualStore` |
| `WearLevelingProof` | its theorems |

Operators whose comment begins with "Slip" are plausible bugs of the definition
that follows them. No specification uses them; `PROJECT.json` pairs each with
the property that catches it.

### P11SessionPool

`pc[t]` is where thread `t` stands; `bPoolInit`, `csPool`, `hSemaphore` and the
entries' `hSession`, `bInUse`, `bLoggedIn`, `cs` are the statics of the file.
Critical sections are owners, semaphores are counts named by the thread that
created them (so that two initialisations are told apart). `libSessions`,
`userLoggedIn` and `nextHandle` are the library, `held` is what
`P11_AcquireSession` returned. `Detach` is `P11_SessionPool_Finalize`: it runs
alone, because at `DLL_PROCESS_DETACH` the other threads are either out of the
DLL or terminated where they stood, so it is enabled at any point of theirs.
`P11_Initialize` has already succeeded when `KSP_OpenProvider` reaches the pool;
`P11Context` has what comes before.

### P11Context

`initOnce` is the one-shot guard, and the thread inside its callback is at
`load`, `functions`, `initialize`, `slot` or `end`; every step may fail, and each
failure undoes what the steps before it made, as the code does. `hModule`,
`pFunctionList` and `bInitialized` are `g_ctx` (a pointer is whether it is not
NULL, and `pFunctionList` stays set when the library is freed, as in the code).
The library module is counted: `kspRefs` and `hostRef`; `lost` remembers a call
made while nobody held it. The host loads, initialises, finalises and unloads
the same library whenever it likes. `Unload` and `Exit` are the two detaches,
`Attach` loads the DLL again with fresh statics. The failures of
`C_Initialize`, which `P11RvToSecStatus` maps, are one status. What a failing
callback undoes is one step (`p11_context.c:101-102`, `107-110`): an exit of the
process between `FreeLibrary` and the clearing of `hModule` is not represented.

The code finalises a library that the host had initialised
(`p11_context.c:107`, and at the detach line 134): the model does the same, and
the properties speak of what the provider itself needs.

### KspCrypto

One action per library call of `KSP_SignHash`, `KSP_Decrypt` and `KSP_OpenKey`,
with `op[s]` the active operation of library session `s`. The pool is
`SessionLease`: `Acquire` is its `Grant`, `ReleaseSession` its `Return`, and
`P11SessionPool` is shown to implement it. The library is modelled from its use:
an Init fails on a session with an operation under way, a size query does not
end an operation (`KSP_SignHash` depends on that), any other answer does.
Buffers are "null", "small" or "fits". `AllocFails` says whether memory may run
out: yes in `crypto_calls`; no in `crypto_double_call`, where the only thing that
can leave a signature active is then a size query.

### KspKeys

`token` holds the halves `<<"priv", p>>` and `<<"pub", p>>` of pairs, `pair[p]`
what `p` was generated with, `key[h]` the `KSP_KEY` structures. A call is cut at
its library calls. `deleted` records what `KSP_DeleteKey` reported as deleted.
`spec` is `dwKeySpec`, `use` what the templates of the generation allow the
private half. `ReuseNames` and `Faults` say what callers and library may do:
with neither, all properties but `UsageIsAllowed` hold; `keys_delete` adds the
fault "destroy". The fault "attribute" (a `C_GetAttributeValue` that fails, of
`CKA_MODULUS_BITS` of a private key as well) breaks `HandleDescribesKey`, because
`KSP_OpenKey` does not look at the result. The fault "search" (a
`C_FindObjectsInit` or `C_FindObjects` that fails) breaks `HalvesTogether`:
`P11_FindObjectByLabel` answers it like a key that is not there, `KSP_OpenKey`
accepts that for the public half (`ksp_key.c:209`), and `KSP_DeleteKey` on such
a handle destroys the private half only and reports success. Names created twice
break `HandleIsPair`, because the two halves are searched separately
(`ksp_key.c:202`, `209`). The theorems say which property needs which
assumption. Callers use one structure one call at a time: `KSP_KEY`
has no lock. The second half of the module is the inductive invariant.

### KspEnum

A call of `KSP_EnumKeys` is cut where it goes to the library. `phObjects[c]` and
`dwIndex[c]` are caller `c`'s `KSP_ENUM_STATE`, `active[c]` says that
`*ppEnumState` is not NULL; they keep their last value when the state is freed,
for the properties to speak of. `since`, `named` and `failed` are history: the
keys that were there throughout, those named, the calls that failed on a key
that was there. `dwIndex` advances before there is a session, so a call that
fails passes its key over: `SkipsAreFailures` says that nothing else does. The
label of a key is the key; names in the module are handles, of which a name made
twice has two. Enumerations share nothing but the token and the pool.

### KspOutputs

A caller asks for a size (`cb = NoBuffer`) and calls again with a buffer of that
size or a byte less; `told[t]` remembers the size. An export is cut at each
`C_GetAttributeValue` and allocation, a signature at each `C_Sign`, and `Destroy`
takes a key from the token at any point. `heap[t]` is what the call has
allocated and not freed. The token's formats are modelled byte by byte as far as
the code looks into them: the DER octet string around an EC point
(`P11_ExportEcPublicKey`), the DER sequence of an ECDSA signature with its sign
bytes and missing leading zeros (`P11_DecodeDerEcdsaSignature`), the headers of
the two blobs. `BlobsComeBack` reads a blob back with `KSP_ImportKey`'s reader.
Sizes are scaled down: coordinates of one and two bytes, bytes 0, 1 and 128,
which are the three that DER treats differently. Sessions come from
`SessionLease`; the operations on them are `KspCrypto`'s. The last section of the
module is the inductive invariant.

### WearLeveling

The state is the program's globals plus `_tmain`'s and `WriteVMemory`'s locals.
An action is an iteration of `_tmain` up to the call, or one pass from `STEP0`
to a return (`Store`, the error of `Defrag`) or a `goto` (`Switch`, `Defrag`).
`Find_Sector_with_Free_Page` is the first sector, since the code returns there
and never reaches the random choice announced at line 404. `Checked` is
`VIRTUAL_SIZE_PAGE`: `CheckMemory` loops to 2, the size of a page, not to 42,
the number of pages. `BuffSrc` is the data of the write under way. The refinement
of `VirtualStore`: its `store` is what the translation reads from the flash,
`pending` the arguments of a `WriteVMemory` at `STEP0`, `epoch` the experiment.
`Fill` and `Wear` begin a write, `Store` ends it, `Check` formats when it starts
the next experiment, and everything else changes none of the three. A write that
returned without having stored, stored other data than it was given, or a move or
erase that touched a live page would be no step of `VirtualStore`.

## Runs

| run | asks | answer |
|---|---|---|
| `pool_safety` | are sessions exclusive, usable and accounted for, are searches never in vain, does the detach close all, does the pool implement `SessionLease`, and drain when the application stops calling? | holds |
| `pool_race` | are sessions exclusive when two threads open the provider at once? | violated |
| `context_safety` | do all threads get the answer of one initialisation, is a provider handle proof of a context, is the library let go of and never called when gone, does every open return? | holds |
| `crypto_calls` | is data made with the caller's key, is every session returned, and after which answers with an operation still active? | holds |
| `crypto_double_call` | does a `KSP_SignHash` with a buffer work after its size query? | violated |
| `keys_safety` | are handles true pairs, no halves, no second pair, if the library does not fail? | holds |
| `keys_delete` | is a deleted key gone if the library may refuse? | violated |
| `keys_usage` | does a handle report the usage its private key has? | violated |
| `enum_safety` | is every key that stays named once, but for failed calls, and does an enumeration end? | holds |
| `enum_busy` | does the end of an enumeration mean that there are no more keys if the library may refuse the search? | violated |
| `outputs_safety` | do signatures and blobs mean what the token returned, do told sizes suffice, is nothing kept on any return path? | holds |
| `wear_safety` | is no data lost, does a write return with its data stored, does every write end? | holds |

Bounds, and why they are enough:

- Pool: 3 threads on 2 entries is the least that has a full pool, a thread that
  waits, and a search that passes an entry another thread frees. 3 or 4 sessions
  over the run (`MaxSessions`) allow a failed login and a second open of an
  entry. The proofs remove the bounds.
- Context: 3 threads are one in the callback and two that wait or come later, 2
  provider handles one that is freed while another lives. There is no bound on
  loads of the DLL: the state does not count them.
- Crypto: 2 callers, 2 sessions and 2 keys let a session with an operation left
  behind reach the other caller, and the same one with another key.
- Keys: 2 callers, 3 structures, 2 names, 2 pairs: two handles of one key plus a
  third, a deletion and a creation inside an open. The proofs remove the bounds.
- Enumeration: 4 keys over a buffer of 3 fill it, leave it short after a
  deletion, and let a key come or go at every point. One caller: another one
  changes nothing that the first reads. The proofs remove the bounds.
- Outputs: 2 callers share one session, one key of each algorithm; coordinates
  of 2 bytes over {0, 1, 128} have every combination of a leading zero, a sign
  byte and neither, in r and in s.
- Wear: 3 sectors of 2 pages over 4 virtual pages, 8 writes, 2 experiments: full
  memory, sectors fully and partly recycled, static pages next to moving ones.

Only `keys_safety`, which has invariants alone, uses symmetry. Deadlock is not
checked where the system stops: after the detach, at the end of the process,
after the last experiment.

### Fairness

`pool_safety`: weak fairness of each thread's next step inside a call. Windows
schedules runnable threads, a wait has a timeout of 5 s, and library calls are
assumed to return. Weak fairness is enough because a lock is free again and
again only until nobody calls any more. Nothing forces a thread to make a call,
the application to stop or the process to exit. `crypto_calls`: weak fairness of
the steps of a call that has its session; a call may wait for a session for ever.
`enum_safety`: an enumerating caller calls again whatever it was answered, until
it abandons the enumeration. `context_safety`: weak fairness of each thread's
next step inside `KSP_OpenProvider`, the callback's included; a thread need not
open a provider, the DLL need not be unloaded. `wear_safety`: the one thread runs on.

### Findings

- **`pool_race`.** `P11_SessionPool_Initialize` (`p11_session.c:21`) is not
  synchronised; the one-shot guard covers `P11_Initialize` only.
- **`crypto_double_call`.** The size query of `KSP_SignHash` (`ksp_crypto.c:128`)
  returns a session with a signature under way. In the run's trace a caller asks
  for the size and another signs with the same key and a buffer that fits: it is
  leased that session, its `C_SignInit` is refused, and it gets `NTE_FAIL`. That
  needs no second thread: a caller alone may be leased the session again.
  `KSP_Decrypt` does the same at line 272, where it also returns `ERROR_SUCCESS`
  for a buffer that is too small, while `docs/06-mapping-erreurs.md:12` maps it to
  `NTE_BUFFER_TOO_SMALL`.
- **`keys_delete`.** `KSP_DeleteKey` ignores failures (`ksp_key.c:407`, `413`).
- **`keys_usage`.** `KSP_OpenKey` takes `dwKeySpec` from its caller
  (`ksp_key.c:225`) and the usage property is derived from it
  (`ksp_properties.c`), not from what the private half allows.
- **`enum_busy`.** A failed search (`ksp_key.c:505`) is answered like an empty
  token; a session with an operation left under way is enough. The unit test
  (`tests/unit/test_ksp_key_ops.c:521-541`) expects that status, the
  documentation (`docs/03-gestion-cles.md:173-174`) speaks of all handles.

Stated here only, without a run: the comment on `MemNbrFree`
(`Wearing.cpp:127`) says "Total Number of Free Sectors", but it is only ever
incremented, by a page (line 285), so it counts pages made free; `PagesAccounted` is what
it does satisfy. `docs/04-operations-crypto.md:319` says that the wrapper of an
EC point is detected; `p11_utils.c:265` skips two bytes whenever the first is
4, which a point without a wrapper also begins with. The library's points have
the wrapper, and `BlobsComeBack` is about those.
`p11_session.h:27` and `:30` say that `P11_Initialize` and `P11_Finalize` call the
pool's functions; `KSP_OpenProvider` and `DllMain` do.

## Proofs

All for every value of the constants.

**Pool** (`P11SessionPoolProof`, any number of threads and entries). `TypeCorrect`
needs nothing about opens. The others assume `~OverlappingOpens`, without which
they are false. None of the properties is inductive. `IInv` adds where the
threads' locals stand (`Locals`), that `g_csPool` is owned by the one thread
inside it (`PoolLock`), that entries in use and claiming threads are in
one-to-one correspondence (`Claims`), what an entry holds by where its claimer
stands (`Entries`) and that handles are fresh (`Sessions`). The permit count is
an argument about cardinalities: each step moves one thread in or out of
`PermitHolders` as it changes the semaphore. `SearchNeverFails` is a pigeonhole:
fewer claimers than entries, so one entry is free, and the scan has not passed
it, since an entry becomes busy only by the lock's owner. `ImplementsLease`
follows from the invariant step by step: `ReadHandle` is a grant, `RelEnd` a
return, `Detach` the destruction, anything else a stutter. `NoDeadlock` says that
whoever waits for a critical section waits for a thread that runs: `EntryLock`
adds to the invariant that an entry's lock is owned by the one thread that
stands inside it. `g_csPool` is never entered with an entry's lock held, and
inside it nobody waits. `CallsBounded` needs no assumption: `StepsLeft` counts
the steps of a call from its `pc` and loop counters, and each step makes it less.

**Crypto** (`KspCryptoProof`, any callers, sessions, keys). `IInv` says that a
caller at work has a session of its own (`Leased`), that the session's operation
is the one it began, with its key (`Owned`), and where delivered data may be
(`Delivered`). An operation left behind makes the next Init fail, so nobody
reaches `Sign` on it. `LeftInv` adds what becomes of such a session:
`WhatIsLeftActive` lists exactly the answers after which one is given back,
`ActiveSessionFails` says that a call that meets it reports `NTE_FAIL` (or, in
`KSP_OpenKey`, a key that does not exist), and `StrandedForGood` that nothing
the provider does ends the operation: each size query that is answered costs the
pool a working session until the detach.
`CallsBounded` is the measure of a call, and `ReleaseTaken` says that
`P11_ReleaseSession` is never refused by the pool.

**Wear** (`WearLevelingProof`, any geometry with more physical than virtual
pages). `WInv` adds where `_tmain` stands (`Control`), which pages are mapped
(`Mapped`), and that the memory is blank while `gCurrentWorkingSector` is -1
(`Blank`). `SomeRoom` is the pigeonhole: one live copy of each virtual page, so a
memory without a free page has a recycled one; hence "ERROR ERROR" is
unreachable and each erase frees a page. `AlwaysAStep` is that fact as an
invariant: until it is done the program has a step, and no error of `WriteVMemory`
or `CheckMemory` is reached. `StepsMoveOn` is a variant in four places
(experiment, phase, write, passes left): `Switch` and `Defrag` both land on a
sector with a free page, so the pass after a `goto STEP0` stores. `ImplementsStore`
takes each action to its step of `VirtualStore`; it needs that the RAM image of
the page being written is the data of the call (`Control`), that the page stored
to is nobody's current one, and that an erase takes no current page.

**Context** (`P11ContextProof`, any threads and handles). `IInv` adds that at most
one thread is inside the callback, that nobody is past it before it has ended
(`OnceRuns`), what the context holds at each step of it (`Stages`), that its end
leaves all or nothing (`Settled`), and that threads reach the pool, and handles
are given out, after a success only (`PoolAfterContext`). `OneAnswer` needs that
all answers since the attach are the `initStatus` of now (`Answers`). `NobodyWrites`
justifies that every call reads `g_ctx` and `g_initStatus` without a lock:
between the end of the callback and the detach no step changes them.
`WaitersAreServed` and `OpensBounded` say that a thread that waits has one
inside the callback to wait for, which is run once and waits for nobody.

**Enumeration** (`KspEnumProof`, any callers, keys and buffer). The array of a
snapshot is injective and `dwIndex` only grows, hence `NamedOnce`. For
`SkipsAreFailures` `CallerInv` counts: the keys passed over, there throughout
and not named, are at most the calls that failed. Keys that come and go only
take from that set (`Unmoved`). `Complete` assumes `~BusySessions`; without it
the property is false (`enum_busy`). `Shrinks` says that the snapshot of an
enumeration under way is never exchanged and that each step of its caller leaves
less of it, the failed ones too.

**Keys** (`KspKeysProof`, any callers, structures, names and pairs). Object
numbers are never used twice and pairs are never relabelled, so what is known of
an object made before stays true (`OldKept`), and a call has its structure to
itself (`OneCall`), so a step of one caller leaves what another knows. With
names created once, the name of a key to be generated is nobody else's
(`NamesReserved`), so a label has one pair and the two searches of `KSP_OpenKey`
find its halves. `CallInv` follows what an open has read and a deletion has
destroyed. Each theorem has the assumptions it needs and no other:

| theorem | assumes |
|---|---|
| `TypeCorrect` | nothing |
| `NoOtherNameDestroyed`, `HandlesSettle`, `NothingReturns` | nothing |
| `OneForName`, `PairFound` | names created once |
| `TellsTheTruth` | `C_GetAttributeValue` answers |
| `DeletedIsGone` | `C_DestroyObject` destroys |
| `NoHalfLeft` | names created once, `C_DestroyObject` destroys, searches do not fail |

The second line is what remains when callers and library do as they like. A
handle may then mix the halves of two keys, but they have the name it was opened
with, so `KSP_DeleteKey` destroys no key of another name
(`NoOtherNameDestroyed`); a finalised structure is never written again
(`HandlesSettle`); and an object that is gone does not come back, so a handle
that outlives its key never names another one (`NothingReturns`).

**Outputs** (`KspOutputsProof`, any callers, sessions, keys and sizes). A step
moves what is the call's own (`Own`), so each action is looked at for its caller
only. `CallInv` is why nothing is kept: a failure empties the heap before the
session is given back, and a block that outlives the release is on the way to
`Deliver` or `Decode`, which free it. `SizeInv` is why a told size suffices: the
size of an answer depends on the key and the question (`AnswerSize`), and a
second call asks the same question. `BlobInv` says that what is delivered is the
blob of a key of the kind asked for: another kind of key has no such attribute,
so the export has failed. `BlobsReadBack` then needs that the parts of a
concatenation are found again (`PartsFound`). `SignInv` says that a signature is
the conversion of a DER sequence of two numbers; `SignatureDecoded` is the round
trip: a number without its leading zeros begins with a byte that is not 0
(`FirstFacts`), so the decoder takes a zero for a sign byte exactly when the
encoder has put one there, and padding restores the width.
`SignatureKept` and `TypeCorrect` assume coordinates of at most 60 bytes, as
those of P-256 and P-384 are: a longer sequence needs a longer DER length, which
the model's token does not write. `BuffersKept` has the same assumption: an answer
is delivered on success only and fits the buffer. The code compares the buffer
with the size of the answer before it converts it, and for a signature that is
the size the key says (`MadeInv`), which the converted bytes must have.
`CallsBounded` is the measure of a call, whatever goes from the token meanwhile.

Assumptions: those of the `ASSUME`s (non-empty pool, `NoThread` is no thread,
more physical than virtual pages and the like), evaluated by TLC in the runs.

Proved and in no run: `ReleaseFindsEntry`, `Keeps`, `NoDeadlock` and
`CallsBounded` (pool); `ActiveSessionFails`, `StrandedForGood`, `CallsBounded` and `ReleaseTaken` (crypto); `TargetInRange`,
`PagesAccounted`, `NoEraseWasted`, `AlwaysAStep` and `StepsMoveOn` (wear);
`NobodyWrites`, `WaitersAreServed` and `OpensBounded` (context); `Shrinks`
(enumeration); `NoOtherNameDestroyed`, `HandlesSettle` and `NothingReturns`
(keys); `BuffersKept` and `CallsBounded` (outputs).

Only model-checked: the liveness properties (`PoolDrains`, `SessionsReturned`,
`OpenReturns`, `EnumEnds`, `Terminates`; liveness and `ENABLED` are out of the
prover's reach). What they rest on is proved for every value of the constants:
that each step of a call brings it nearer its end, and nobody else's step moves
it away (the `CallsBounded` of pool and crypto, `OpensBounded`, `Shrinks`,
`StepsMoveOn`), and that whoever waits does so for somebody who runs
(`NoDeadlock`, `WaitersAreServed`) or need not wait (`ReleaseTaken`,
`AlwaysAStep`). What is left to TLC is to conclude from these, with the fairness
above, that the end comes, and that a thread is not passed over for good by
others at a lock or at the semaphore.

## Not modelled

- `P11_ResolveMechanism` and the reading of the padding information, tables of
  constants. One oddity read there: with SHA-256, a PSS salt length of 0 that
  is asked for explicitly becomes 32 (`ksp_crypto.c:41`).
- That the library may answer `CKM_ECDSA` with the bare r and s of the standard:
  the code decodes DER, and so the model's token answers DER.
- The bytes a failing call has already written to its caller's buffer.
- Concurrent calls on one handle (`KSP_KEY` has no lock), several processes on
  one token, label conversion, logging, the table of functions, the library's
  internals.
- Of `Wearing.cpp`, the functions nothing calls and the printing.
- The two scripts: sequential passes over library calls, without state.

## Plan

Done: every component of the provider and the simulator that has state of its
own, a theorem for every safety property of the passing runs, and the bounds and
absences of deadlock that the liveness properties rest on. Left, in this order:

1. The composition of `P11Context` with `P11SessionPool`: the one-bit pool of the
   first is read off the second by eye, not by a refinement.
2. Two enumerating callers over one session pool, to count the sessions an
   enumeration waits for.
