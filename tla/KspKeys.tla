------------------------------ MODULE KspKeys ------------------------------
(***************************************************************************)
(* The life of key handles and of the token objects they name              *)
(* (softhsm_ksp/src/ksp/ksp_key.c, ksp_properties.c and the public key     *)
(* import of ksp_crypto.c): callers that create, finalise, open, resize,   *)
(* import, delete and free keys over one token.                            *)
(*                                                                         *)
(* A call is cut where it goes to the library, other callers run in        *)
(* between.  The token is external: C_GenerateKeyPair adds both halves of  *)
(* a pair or none, a search finds any one object with the class and label, *)
(* object handles are never used twice.  Calls on one KSP_KEY are one at a *)
(* time, the structure has no lock.  A session that is not obtained and a  *)
(* pair that is not generated are one failure; sessions, label conversion  *)
(* and calls refused at once (arguments, no memory) are left out.          *)
(***************************************************************************)
EXTENDS Naturals, FiniteSets

CONSTANTS
  Threads,        \* callers
  KeyIds,         \* KSP_KEY structures on the heap
  Names,          \* key names (CKA_LABEL)
  MaxPairs,       \* bound: pairs generated and keys imported
  ReuseNames,     \* callers may create a name again
  Faults,         \* library calls that may fail for no reason: "search"
                  \* (C_FindObjectsInit, C_FindObjects), "destroy"
                  \* (C_DestroyObject), "attribute" (C_GetAttributeValue)
  NoName, NoKey

ASSUME KeysAssumption ==
  /\ MaxPairs \in Nat /\ ReuseNames \in BOOLEAN
  /\ Faults \subseteq {"search", "destroy", "attribute"}
  /\ NoName \notin Names /\ NoKey \notin KeyIds

Pairs == 1..MaxPairs
Objects == {"priv", "pub"} \X Pairs
InvalidHandle == <<"none", 0>>      \* CK_INVALID_HANDLE
Algs == {"RSA", "EC"}               \* EC: one of the curves
Lengths == {2048, 4096}             \* two of those KSP_SetKeyProperty takes
Specs == {"AT_SIGNATURE", "AT_KEYEXCHANGE"}   \* dwLegacyKeySpec; 0 is a signature

\* Slip: the curve in bytes
DefaultBits_Bytes(a) == IF a = "RSA" THEN 2048 ELSE 32

DefaultBits(a) == IF a = "RSA" THEN 2048 ELSE 256

\* What the templates of C_GenerateKeyPair allow the private key: CKA_DECRYPT
\* or CKA_SIGN
Use(a, spec) == IF a = "RSA" /\ spec = "AT_KEYEXCHANGE" THEN "decrypt" ELSE "sign"
Locs == {"idle", "create", "finalize", "findPub", "readType", "readSize", "destroyPriv",
         "destroyPub", "deleteEnd", "allocImported"}

VARIABLES
  token,       \* objects in the token
  pair,        \* what each pair was generated with
  nextPair,
  key,         \* the KSP_KEY structures
  deleted,     \* objects of the handles KSP_DeleteKey returned ERROR_SUCCESS for
  pc,          \* callers: where they are,
  cur,         \* the structure they work on,
  hPriv, hPub, \* and locals of KSP_OpenKey and KSP_ImportKey
  name, alg

tokenVars == <<token, pair, nextPair>>
localVars == <<hPriv, hPub, name, alg>>
vars == <<tokenVars, key, deleted, pc, cur, localVars>>

Freed == [live |-> FALSE, name |-> NoName, alg |-> "", bits |-> 0, spec |-> "",
          fin |-> FALSE, hPriv |-> InvalidHandle, hPub |-> InvalidHandle]
NoPair == [label |-> NoName, alg |-> "", bits |-> 0, use |-> ""]

Init ==
  /\ token = {}
  /\ pair = [p \in Pairs |-> NoPair]
  /\ nextPair = 1
  /\ key = [h \in KeyIds |-> Freed]
  /\ deleted = {}
  /\ pc = [t \in Threads |-> "idle"]
  /\ cur = [t \in Threads |-> NoKey]
  /\ hPriv = [t \in Threads |-> InvalidHandle]
  /\ hPub = [t \in Threads |-> InvalidHandle]
  /\ name = [t \in Threads |-> NoName]
  /\ alg = [t \in Threads |-> ""]

At(t, l) == pc[t] = l
Goto(t, l) == pc' = [pc EXCEPT ![t] = l]

\* A structure nobody has, and one on which no call is running
Allocated(h) == key[h].live
Available(h) == ~key[h].live
Ready(h) == Allocated(h) /\ \A t \in Threads : cur[t] # h

\* t takes structure h, goes on at l; t is done with its structure.
Enter(t, h, l) == cur' = [cur EXCEPT ![t] = h] /\ Goto(t, l)
Leave(t) ==
  /\ cur' = [cur EXCEPT ![t] = NoKey]
  /\ Goto(t, "idle")
  /\ hPriv' = [hPriv EXCEPT ![t] = InvalidHandle]
  /\ hPub' = [hPub EXCEPT ![t] = InvalidHandle]
  /\ name' = [name EXCEPT ![t] = NoName]
  /\ alg' = [alg EXCEPT ![t] = ""]

UsedNames == {pair[p].label : p \in Pairs} \cup {key[h].name : h \in KeyIds}

-----------------------------------------------------------------------------
(* KSP_CreatePersistedKey, KSP_SetKeyProperty and KSP_FinalizeKey           *)

CreatePersistedKey(t) ==
  /\ At(t, "idle")
  /\ \E h \in KeyIds, n \in Names, a \in Algs, spec \in Specs, bPersistOnly \in BOOLEAN :
       /\ Available(h)
       /\ ReuseNames \/ n \notin UsedNames
       /\ key' = [key EXCEPT ![h] = [live |-> TRUE, name |-> n, alg |-> a,
                    bits |-> DefaultBits(a), spec |-> spec, fin |-> FALSE,
                    hPriv |-> InvalidHandle, hPub |-> InvalidHandle]]
       /\ IF bPersistOnly THEN UNCHANGED <<pc, cur>> ELSE Enter(t, h, "create")
  /\ UNCHANGED <<tokenVars, deleted, localVars>>

\* Slip: a finalised key too
SetKeyLength_Anytime(t) ==
  /\ At(t, "idle")
  /\ \E h \in KeyIds, n \in Lengths :
       /\ Ready(h)
       /\ key[h].alg = "RSA"
       /\ key' = [key EXCEPT ![h].bits = n]
  /\ UNCHANGED <<tokenVars, deleted, pc, cur, localVars>>

SetKeyLength(t) ==
  /\ At(t, "idle")
  /\ \E h \in KeyIds, n \in Lengths :
       /\ Ready(h)
       /\ ~key[h].fin /\ key[h].alg = "RSA"
       /\ key' = [key EXCEPT ![h].bits = n]
  /\ UNCHANGED <<tokenVars, deleted, pc, cur, localVars>>

\* Slip: bFinalized is not looked at
FinalizeKey_Again(t) ==
  /\ At(t, "idle")
  /\ \E h \in KeyIds : Ready(h) /\ Enter(t, h, "finalize")
  /\ UNCHANGED <<tokenVars, key, deleted, localVars>>

FinalizeKey(t) ==
  /\ At(t, "idle")
  /\ \E h \in KeyIds : Ready(h) /\ ~key[h].fin /\ Enter(t, h, "finalize")
  /\ UNCHANGED <<tokenVars, key, deleted, localVars>>

Generated(h, p) ==
  [key[h] EXCEPT !.hPriv = <<"priv", p>>, !.hPub = <<"pub", p>>, !.fin = TRUE]

\* KSP_GenerateRsaKeyPair or KSP_GenerateEcKeyPair and what follows in its
\* caller.  On failure KSP_CreatePersistedKey frees the structure it has not
\* returned yet; a deferred key stays as it was, to be finalised again.
Generate(t) ==
  /\ At(t, "create") \/ At(t, "finalize")
  /\ LET h == cur[t]
         p == nextPair
     IN  \/ /\ p \in Pairs
            /\ pair' = [pair EXCEPT ![p] =
                 [label |-> key[h].name, alg |-> key[h].alg, bits |-> key[h].bits,
                  use |-> Use(key[h].alg, key[h].spec)]]
            /\ token' = token \cup {<<"priv", p>>, <<"pub", p>>}
            /\ nextPair' = p + 1
            /\ key' = [key EXCEPT ![h] = Generated(h, p)]
         \/ /\ key' = IF At(t, "create") THEN [key EXCEPT ![h] = Freed] ELSE key
            /\ UNCHANGED tokenVars
  /\ Leave(t)
  /\ UNCHANGED deleted

-----------------------------------------------------------------------------
(* KSP_OpenKey                                                              *)

\* Slip: the label is left out of the template
P11_FindObjectByLabel_AnyLabel(c, n) ==
  LET found == {o \in token : o[1] = c}
  IN  IF found = {} \/ "search" \in Faults THEN found \cup {InvalidHandle} ELSE found

\* What a search of the token for one object of a class and label may answer:
\* any such object, and CK_INVALID_HANDLE when there is none or when the library
\* fails C_FindObjectsInit or C_FindObjects
P11_FindObjectByLabel(c, n) ==
  LET found == {o \in token : o[1] = c /\ pair[o[2]].label = n}
  IN  IF found = {} \/ "search" \in Faults THEN found \cup {InvalidHandle} ELSE found

\* The search for the private key; without one, NTE_BAD_KEYSET
OpenKey(t) ==
  /\ At(t, "idle")
  /\ \E n \in Names : \E o \in P11_FindObjectByLabel("priv", n) \ {InvalidHandle} :
       /\ hPriv' = [hPriv EXCEPT ![t] = o]
       /\ name' = [name EXCEPT ![t] = n]
  /\ Goto(t, "findPub")
  /\ UNCHANGED <<tokenVars, key, deleted, cur, hPub, alg>>

\* The search for the public key: whatever it answers is accepted, also that it
\* failed
FindPub(t) ==
  /\ At(t, "findPub")
  /\ \E o \in P11_FindObjectByLabel("pub", name[t]) : hPub' = [hPub EXCEPT ![t] = o]
  /\ Goto(t, "readType")
  /\ UNCHANGED <<tokenVars, key, deleted, cur, hPriv, name, alg>>

\* An attribute of object o, or what the variable held before the call when the
\* object is gone or the library does not answer
Attribute(o, value, initial) ==
  (IF o \in token THEN {value} ELSE {initial}) \cup
  (IF "attribute" \in Faults THEN {initial} ELSE {})

\* CKA_KEY_TYPE: ulKeyType starts as 0, which is CKK_RSA.
ReadType(t) ==
  /\ At(t, "readType")
  /\ \E a \in Attribute(hPriv[t], pair[hPriv[t][2]].alg, "RSA") :
       alg' = [alg EXCEPT ![t] = a]
  /\ Goto(t, "readSize")
  /\ UNCHANGED <<tokenVars, key, deleted, cur, hPriv, hPub, name>>

\* CKA_MODULUS_BITS or CKA_EC_PARAMS, and the structure is returned, if there
\* is memory for it.  An EC key whose parameters are not read keeps an empty
\* algorithm.  dwKeySpec is what the caller says it is.
ReadSize(t) ==
  /\ At(t, "readSize")
  /\ \/ \E h \in KeyIds :
          /\ Available(h)
          /\ \E n \in Attribute(hPriv[t], IF pair[hPriv[t][2]].alg = alg[t]
                                          THEN pair[hPriv[t][2]].bits ELSE 0, 0) :
               \E spec \in Specs :
                 key' = [key EXCEPT ![h] = [live |-> TRUE, name |-> name[t],
                         alg |-> IF alg[t] = "EC" /\ n = 0 THEN "" ELSE alg[t],
                         bits |-> n, spec |-> spec, fin |-> TRUE,
                         hPriv |-> hPriv[t], hPub |-> hPub[t]]]
     \/ UNCHANGED key
  /\ Leave(t)
  /\ UNCHANGED <<tokenVars, deleted>>

-----------------------------------------------------------------------------
(* KSP_ImportKey                                                            *)

\* An RSA public key: a session object without a label
ImportRsaKey(t) ==
  /\ At(t, "idle")
  /\ nextPair \in Pairs
  /\ token' = token \cup {<<"pub", nextPair>>}
  /\ \E n \in Lengths : pair' = [pair EXCEPT ![nextPair] =
                          [label |-> NoName, alg |-> "RSA", bits |-> n, use |-> ""]]
  /\ nextPair' = nextPair + 1
  /\ hPub' = [hPub EXCEPT ![t] = <<"pub", nextPair>>]
  /\ Goto(t, "allocImported")
  /\ UNCHANGED <<key, deleted, cur, hPriv, name, alg>>

\* The structure; without memory for it the object stays, with no handle to it.
AllocImported(t) ==
  /\ At(t, "allocImported")
  /\ \/ \E h \in KeyIds :
          /\ Available(h)
          /\ key' = [key EXCEPT ![h] = [live |-> TRUE, name |-> NoName, alg |-> "RSA",
                       bits |-> pair[hPub[t][2]].bits, spec |-> "", fin |-> TRUE,
                       hPriv |-> InvalidHandle, hPub |-> hPub[t]]]
     \/ UNCHANGED key
  /\ Leave(t)
  /\ UNCHANGED <<tokenVars, deleted>>

\* An EC public key never reaches the library; a blob too short to name its
\* curve is accepted too.
ImportEcKey(t) ==
  /\ At(t, "idle")
  /\ \E h \in KeyIds, a \in {"EC", ""} :
       /\ Available(h)
       /\ key' = [key EXCEPT ![h] = [live |-> TRUE, name |-> NoName, alg |-> a,
                    bits |-> IF a = "" THEN 0 ELSE DefaultBits(a), spec |-> "", fin |-> TRUE,
                    hPriv |-> InvalidHandle, hPub |-> InvalidHandle]]
  /\ UNCHANGED <<tokenVars, deleted, pc, cur, localVars>>

-----------------------------------------------------------------------------
(* KSP_DeleteKey and KSP_FreeKey                                            *)

\* KSP_DeleteKey with a session; without one it returns and nothing changed.
DeleteKey(t) ==
  /\ At(t, "idle")
  /\ \E h \in KeyIds : Ready(h) /\ Enter(t, h, "destroyPriv")
  /\ UNCHANGED <<tokenVars, key, deleted, localVars>>

\* C_DestroyObject, whose result is logged and forgotten
DestroyObject(o) ==
  token' \in {token \ {o}} \cup (IF "destroy" \in Faults THEN {token} ELSE {})

DestroyPriv(t) ==
  /\ At(t, "destroyPriv")
  /\ DestroyObject(key[cur[t]].hPriv)
  /\ Goto(t, "destroyPub")
  /\ UNCHANGED <<pair, nextPair, key, deleted, cur, localVars>>

\* Slip: the public key is left on the token
DestroyPub_Forgotten(t) ==
  /\ At(t, "destroyPub")
  /\ Goto(t, "deleteEnd")
  /\ UNCHANGED <<tokenVars, key, deleted, cur, localVars>>

DestroyPub(t) ==
  /\ At(t, "destroyPub")
  /\ DestroyObject(key[cur[t]].hPub)
  /\ Goto(t, "deleteEnd")
  /\ UNCHANGED <<pair, nextPair, key, deleted, cur, localVars>>

DeleteEnd(t) ==
  /\ At(t, "deleteEnd")
  /\ deleted' = deleted \cup {key[cur[t]].hPriv, key[cur[t]].hPub}
  /\ key' = [key EXCEPT ![cur[t]] = Freed]
  /\ Leave(t)
  /\ UNCHANGED tokenVars

\* The token keeps its objects.
FreeKey(t) ==
  /\ At(t, "idle")
  /\ \E h \in KeyIds : Ready(h) /\ key' = [key EXCEPT ![h] = Freed]
  /\ UNCHANGED <<tokenVars, deleted, pc, cur, localVars>>

Next == \E t \in Threads :
  \/ CreatePersistedKey(t) \/ SetKeyLength(t) \/ FinalizeKey(t) \/ Generate(t)
  \/ OpenKey(t) \/ FindPub(t) \/ ReadType(t) \/ ReadSize(t)
  \/ ImportRsaKey(t) \/ AllocImported(t) \/ ImportEcKey(t)
  \/ DeleteKey(t) \/ DestroyPriv(t) \/ DestroyPub(t) \/ DeleteEnd(t) \/ FreeKey(t)

Spec == Init /\ [][Next]_vars

-----------------------------------------------------------------------------
(* Properties                                                               *)

Handles == Objects \cup {InvalidHandle}
PairRecords ==
  [label : Names \cup {NoName}, alg : Algs \cup {""}, bits : Lengths \cup {0, 256},
   use : {"", "sign", "decrypt"}]
KeyRecords ==
  [live : BOOLEAN, name : Names \cup {NoName}, alg : Algs \cup {""},
   bits : Lengths \cup {0, 256}, spec : Specs \cup {""}, fin : BOOLEAN,
   hPriv : Handles, hPub : Handles]

TypeOK ==
  /\ token \subseteq Objects
  /\ pair \in [Pairs -> PairRecords]
  /\ nextPair \in 1..(MaxPairs + 1)
  /\ key \in [KeyIds -> KeyRecords]
  /\ deleted \subseteq Handles
  /\ pc \in [Threads -> Locs]
  /\ cur \in [Threads -> KeyIds \cup {NoKey}]
  /\ hPriv \in [Threads -> Handles] /\ hPub \in [Threads -> Handles]
  /\ name \in [Threads -> Names \cup {NoName}]
  /\ alg \in [Threads -> Algs \cup {""}]

\* A key handle is a pair: its private and its public object were generated
\* together, although KSP_OpenKey finds them in two searches between which
\* other callers delete and create keys.
HandleIsPair ==
  \A h \in KeyIds :
    LET k == key[h]
    IN  /\ k.hPriv[1] \in {"none", "priv"} /\ k.hPub[1] \in {"none", "pub"}
        /\ k.hPriv # InvalidHandle /\ k.hPub # InvalidHandle =>
             k.hPriv[2] = k.hPub[2]

\* What a handle says of its key (name, algorithm, length) is what the key was
\* generated with, as long as the key exists.
HandleDescribesKey ==
  \A h \in KeyIds :
    key[h].fin /\ key[h].hPriv \in token =>
      LET p == pair[key[h].hPriv[2]]
      IN  key[h].name = p.label /\ key[h].alg = p.alg /\ key[h].bits = p.bits

\* The usage KSP_GetKeyProperty computes from dwKeySpec
KeyUsage(h) == IF key[h].spec = "AT_SIGNATURE" THEN "sign" ELSE "decrypt"

\* "AT_SIGNATURE | CKA_SIGN = TRUE | dwKeySpec", "AT_KEYEXCHANGE | CKA_DECRYPT =
\* TRUE | dwKeySpec": the usage a handle of an RSA key reports is the one its
\* private key has.
UsageIsAllowed ==
  \A h \in KeyIds :
    key[h].fin /\ key[h].alg = "RSA" /\ key[h].hPriv \in token =>
      KeyUsage(h) = pair[key[h].hPriv[2]].use

\* If callers create every name once, there is one pair for a name: retries of
\* KSP_FinalizeKey and failed creations generate none twice.
OnePairPerName ==
  \A p, q \in Pairs : pair[p].label # NoName /\ pair[p].label = pair[q].label => p = q

\* A private key is never on the token without its public key, nor the other
\* way round while nobody is deleting the pair: a failed call leaves no half.
\* It takes a library that neither refuses to destroy nor fails a search: a
\* handle whose public half was not found deletes the private one only.
HalvesTogether ==
  \A p \in Pairs : pair[p].label # NoName =>
    \/ <<"priv", p>> \in token <=> <<"pub", p>> \in token
    \/ \E t \in Threads : At(t, "destroyPub") /\ key[cur[t]].hPriv = <<"priv", p>>

\* Once KSP_DeleteKey has returned ERROR_SUCCESS the objects its handle names are
\* gone from the token.
DeleteDestroys == deleted \cap token = {}

-----------------------------------------------------------------------------
(* The inductive invariant                                                  *)

Busy == {"create", "finalize", "destroyPriv", "destroyPub", "deleteEnd"}
Opening == {"findPub", "readType", "readSize"}
Pending(h) == key[h].live /\ ~key[h].fin    \* its pair is to be generated
Reliable(call) == call \notin Faults

\* The objects pv and pb were made before now, are of their class and have the
\* label n; a lone public object has none.
Named(pv, pb, n) ==
  /\ pv[2] < nextPair /\ pb[2] < nextPair
  /\ pv # InvalidHandle => pv[1] = "priv" /\ n # NoName /\ pair[pv[2]].label = n
  /\ pb # InvalidHandle => pb[1] = "pub" /\ pair[pb[2]].label = n
  /\ pb # InvalidHandle /\ pv = InvalidHandle => n = NoName

\* With searches that do not fail, a public key that was not found beside the
\* private key pv is gone.
LoneIsGone(pv, pb) ==
  Reliable("search") /\ pv # InvalidHandle /\ pb = InvalidHandle =>
    <<"pub", pv[2]>> \notin token

\* What is known of a structure
KeyInv(h) ==
  /\ Named(key[h].hPriv, key[h].hPub, key[h].name)
  /\ ~key[h].fin => key[h].hPriv = InvalidHandle /\ key[h].hPub = InvalidHandle
  /\ Pending(h) => key[h].bits # 0 /\ key[h].name # NoName
  /\ LoneIsGone(key[h].hPriv, key[h].hPub)
  /\ Reliable("attribute") /\ key[h].fin /\ key[h].hPriv \in token =>
       /\ key[h].alg = pair[key[h].hPriv[2]].alg
       /\ key[h].bits = pair[key[h].hPriv[2]].bits

\* What is known of a call: it works on a structure in use, generates only for
\* one that is not finalised, what it has destroyed is gone and what it has read
\* of a key is true.
CallInv(t) ==
  /\ cur[t] # NoKey <=> pc[t] \in Busy
  /\ cur[t] # NoKey => key[cur[t]].live
  /\ pc[t] \in {"create", "finalize"} => ~key[cur[t]].fin
  /\ pc[t] = "idle" =>
       hPriv[t] = InvalidHandle /\ hPub[t] = InvalidHandle /\ name[t] = NoName
  /\ pc[t] = "allocImported" =>
       hPriv[t] = InvalidHandle /\ hPub[t] # InvalidHandle /\ name[t] = NoName
  /\ Named(hPriv[t], hPub[t], name[t])
  /\ pc[t] \in Opening => hPriv[t] # InvalidHandle
  /\ pc[t] \in {"readType", "readSize"} => LoneIsGone(hPriv[t], hPub[t])
  /\ Reliable("attribute") /\ pc[t] = "readSize" /\ hPriv[t] \in token =>
       alg[t] = pair[hPriv[t][2]].alg
  /\ Reliable("destroy") /\ pc[t] \in {"destroyPub", "deleteEnd"} =>
       key[cur[t]].hPriv \notin token
  /\ Reliable("destroy") /\ pc[t] = "deleteEnd" => key[cur[t]].hPub \notin token

PairInv(p) ==
  /\ p >= nextPair => pair[p].label = NoName
  /\ pair[p].label # NoName => pair[p].bits # 0

\* The name of a key to be generated is nobody else's.
NamesReserved ==
  \A h \in KeyIds : Pending(h) =>
    /\ \A p \in Pairs : pair[p].label # key[h].name
    /\ \A g \in KeyIds : Pending(g) /\ key[g].name = key[h].name => g = h

OneCall == \A t, u \in Threads : cur[t] # NoKey /\ cur[u] = cur[t] => u = t
Older == \A o \in token \cup deleted : o[2] < nextPair

Base ==
  /\ TypeOK /\ OneCall /\ Older
  /\ \A h \in KeyIds : KeyInv(h)
  /\ \A t \in Threads : CallInv(t)
  /\ \A p \in Pairs : PairInv(p)

IInv ==
  /\ Base
  /\ ~ReuseNames => NamesReserved /\ OnePairPerName
  /\ Reliable("destroy") => DeleteDestroys
  /\ Reliable("destroy") /\ Reliable("search") /\ ~ReuseNames => HalvesTogether

-----------------------------------------------------------------------------
(* What no call may do, whatever names callers use and whatever the library  *)
(* refuses                                                                   *)

\* Objects leave the token by KSP_DeleteKey only, one a step, and only such as
\* have the name of the handle it was called with: when a name is used twice a
\* handle may mix two keys, but it reaches no key of another name.
DestroysOwnName ==
  [][\A o \in token \ token' : \E t \in Threads :
       /\ pc[t] \in {"destroyPriv", "destroyPub"}
       /\ o = IF pc[t] = "destroyPriv" THEN key[cur[t]].hPriv ELSE key[cur[t]].hPub
       /\ pair[o[2]].label = key[cur[t]].name]_vars

\* A handle is settled once it is finalised: nothing but its release changes the
\* structure, and before that its name, algorithm and purpose stand.
HandleSettled ==
  [][\A h \in KeyIds : key[h].live /\ key'[h].live =>
       /\ key[h].fin => key'[h] = key[h]
       /\ /\ key'[h].name = key[h].name
          /\ key'[h].alg = key[h].alg
          /\ key'[h].spec = key[h].spec]_vars

\* What was generated or imported stays what it was, and an object that is gone
\* does not come back: a handle that outlives its key never names another one.
GoneForGood ==
  [][/\ \A p \in Pairs : p < nextPair => pair'[p] = pair[p]
     /\ \A o \in Objects : o[2] < nextPair /\ o \notin token => o \notin token']_vars
=============================================================================
