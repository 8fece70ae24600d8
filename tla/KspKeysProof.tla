---------------------------- MODULE KspKeysProof ----------------------------
(***************************************************************************)
(* Proofs about key handles, for any callers, structures, names and pairs. *)
(* The argument: object numbers only grow, so what is known of an object   *)
(* made before stays true (OldKept, NamedKept); a call works on a          *)
(* structure of its own (OneCall), so a step of one caller writes nothing  *)
(* another one reads (OneMoves); the name of a key that is to be generated *)
(* is nobody else's (NamesReserved), so the two searches of KSP_OpenKey    *)
(* find one pair.  Each property holds under the assumption it needs about *)
(* the library (Reliable) or the callers (ReuseNames), and no other.       *)
(***************************************************************************)
EXTENDS KspKeys, TLAPS

\* A handle names an object, or is CK_INVALID_HANDLE.
LEMMA HandleFacts ==
  ASSUME NEW o \in Handles
  PROVE  /\ o[2] \in Nat
         /\ o # InvalidHandle =>
              o \in Objects /\ o[1] \in {"priv", "pub"} /\ o[2] \in Pairs /\ o = <<o[1], o[2]>>
         /\ o = InvalidHandle => o[2] = 0
BY KeysAssumption DEF Handles, Objects, InvalidHandle, Pairs

LEMMA Shapes ==
  /\ InvalidHandle \in Handles /\ InvalidHandle \notin Objects /\ InvalidHandle[2] = 0
  /\ Freed \in KeyRecords /\ NoPair \in PairRecords
  /\ \A p \in Pairs : <<"priv", p>> \in Objects /\ <<"pub", p>> \in Objects
BY KeysAssumption DEF InvalidHandle, Handles, Objects, Freed, NoPair, KeyRecords,
   PairRecords, Pairs

\* The types in parts
LEMMA Typed ==
  ASSUME TypeOK
  PROVE  /\ nextPair \in Nat \ {0} /\ MaxPairs \in Nat
         /\ \A h \in KeyIds : key[h] \in KeyRecords /\ key[h].hPriv \in Handles /\ key[h].hPub \in Handles
         /\ \A t \in Threads : hPriv[t] \in Handles /\ hPub[t] \in Handles
         /\ \A p \in Pairs : pair[p] \in PairRecords /\ p \in Nat
<1>1. nextPair \in Nat \ {0} /\ MaxPairs \in Nat
  <2>1. nextPair \in 1..(MaxPairs + 1)
    BY DEF TypeOK
  <2>2. QED BY <2>1, KeysAssumption
<1>2. \A h \in KeyIds : key[h] \in KeyRecords
  BY DEF TypeOK
<1>3. \A k \in KeyRecords : k.hPriv \in Handles /\ k.hPub \in Handles
  BY DEF KeyRecords
<1>4. \A t \in Threads : hPriv[t] \in Handles /\ hPub[t] \in Handles
  BY DEF TypeOK
<1>5. \A p \in Pairs : pair[p] \in PairRecords
  BY DEF TypeOK
<1>6. Pairs \subseteq Nat
  BY KeysAssumption DEF Pairs
<1>7. QED BY <1>1, <1>2, <1>3, <1>4, <1>5, <1>6

\* One structure is written.
LEMMA KeyWrite ==
  ASSUME TypeOK, NEW h \in KeyIds, NEW k \in KeyRecords, key' = [key EXCEPT ![h] = k]
  PROVE  /\ key' \in [KeyIds -> KeyRecords] /\ key'[h] = k
         /\ \A g \in KeyIds : g # h => key'[g] = key[g]
BY DEF TypeOK

\* Pairs are only added, and what has gone does not come back.
OldKept ==
  /\ nextPair' \in Nat /\ nextPair <= nextPair'
  /\ \A p \in Pairs : p < nextPair => pair'[p] = pair[p]
  /\ \A o \in Objects : o[2] < nextPair /\ o \in token' => o \in token

LEMMA NothingNew ==
  ASSUME TypeOK, UNCHANGED <<pair, nextPair>>, token' \subseteq token
  PROVE  OldKept
BY Typed DEF OldKept

\* Named and LoneIsGone of the same objects in the next state
NamedNext(pv, pb, n) ==
  /\ pv[2] < nextPair' /\ pb[2] < nextPair'
  /\ pv # InvalidHandle => pv[1] = "priv" /\ n # NoName /\ pair'[pv[2]].label = n
  /\ pb # InvalidHandle => pb[1] = "pub" /\ pair'[pb[2]].label = n
  /\ pb # InvalidHandle /\ pv = InvalidHandle => n = NoName
LoneNext(pv, pb) ==
  Reliable("search") /\ pv # InvalidHandle /\ pb = InvalidHandle =>
    <<"pub", pv[2]>> \notin token'

\* What is known of the objects pv and pb stays true.
LEMMA NamedKept ==
  ASSUME TypeOK, TypeOK', OldKept
  PROVE  \A pv, pb \in Handles : \A n : Named(pv, pb, n) =>
           /\ NamedNext(pv, pb, n)
           /\ LoneIsGone(pv, pb) => LoneNext(pv, pb)
           /\ pv \in token' => pv \in token /\ pair'[pv[2]] = pair[pv[2]]
<1> USE DEF OldKept
<1> TAKE pv \in Handles, pb \in Handles
<1> TAKE n
<1> HAVE Named(pv, pb, n)
<1>1. nextPair \in Nat
  BY Typed
<1>2. /\ pv[2] \in Nat /\ pb[2] \in Nat
      /\ pv # InvalidHandle => pv \in Objects /\ pv[2] \in Pairs
      /\ pb # InvalidHandle => pb \in Objects /\ pb[2] \in Pairs
  BY HandleFacts
<1>3. pv[2] < nextPair /\ pb[2] < nextPair
  BY DEF Named
<1>4. /\ pv # InvalidHandle => pair'[pv[2]] = pair[pv[2]]
      /\ pb # InvalidHandle => pair'[pb[2]] = pair[pb[2]]
  BY <1>2, <1>3
<1>5. NamedNext(pv, pb, n)
  BY <1>1, <1>2, <1>3, <1>4 DEF Named, NamedNext
<1>6. LoneIsGone(pv, pb) => LoneNext(pv, pb)
  <2>1. pv # InvalidHandle => <<"pub", pv[2]>> \in Objects /\ <<"pub", pv[2]>>[2] = pv[2]
    BY <1>2, Shapes
  <2>2. QED BY <2>1, <1>3 DEF LoneIsGone, LoneNext
<1>7. pv \in token' => pv # InvalidHandle
  BY Shapes DEF TypeOK
<1>8. QED BY <1>2, <1>3, <1>4, <1>5, <1>6, <1>7

\* A structure nobody writes
LEMMA KeyKept ==
  ASSUME Base, TypeOK', OldKept, NEW h \in KeyIds, key'[h] = key[h]
  PROVE  KeyInv(h)'
<1>1. KeyInv(h) /\ key[h].hPriv \in Handles /\ key[h].hPub \in Handles
  BY Typed DEF Base
<1>2. \A pv, pb \in Handles : \A n : Named(pv, pb, n) =>
           /\ NamedNext(pv, pb, n)
           /\ LoneIsGone(pv, pb) => LoneNext(pv, pb)
           /\ pv \in token' => pv \in token /\ pair'[pv[2]] = pair[pv[2]]
  BY NamedKept DEF Base
<1> DEFINE pv == key[h].hPriv
           pb == key[h].hPub
<1>3. /\ NamedNext(pv, pb, key[h].name) /\ LoneNext(pv, pb)
      /\ pv \in token' => pv \in token /\ pair'[pv[2]] = pair[pv[2]]
  BY <1>1, <1>2 DEF KeyInv
<1>4. Named(key[h].hPriv, key[h].hPub, key[h].name)' /\ LoneIsGone(key[h].hPriv, key[h].hPub)'
  BY <1>3 DEF Named, NamedNext, LoneIsGone, LoneNext, Reliable
<1>5. QED BY <1>1, <1>3, <1>4 DEF KeyInv, Pending, Reliable

\* A caller that does not move
LEMMA CallKept ==
  ASSUME Base, TypeOK', OldKept, NEW t \in Threads,
         pc'[t] = pc[t], cur'[t] = cur[t], hPriv'[t] = hPriv[t], hPub'[t] = hPub[t],
         name'[t] = name[t], alg'[t] = alg[t],
         cur[t] # NoKey => key'[cur[t]] = key[cur[t]]
  PROVE  CallInv(t)'
<1>1. CallInv(t) /\ hPriv[t] \in Handles /\ hPub[t] \in Handles
  BY Typed DEF Base
<1>2. \A pv, pb \in Handles : \A n : Named(pv, pb, n) =>
           /\ NamedNext(pv, pb, n)
           /\ LoneIsGone(pv, pb) => LoneNext(pv, pb)
           /\ pv \in token' => pv \in token /\ pair'[pv[2]] = pair[pv[2]]
  BY NamedKept DEF Base
<1> DEFINE pv == hPriv[t]
           pb == hPub[t]
<1>n. /\ NamedNext(pv, pb, name[t])
      /\ LoneIsGone(pv, pb) => LoneNext(pv, pb)
      /\ pv \in token' => pv \in token /\ pair'[pv[2]] = pair[pv[2]]
  BY <1>1, <1>2 DEF CallInv
<1>3. /\ Named(hPriv[t], hPub[t], name[t])'
      /\ LoneIsGone(hPriv[t], hPub[t]) => LoneIsGone(hPriv[t], hPub[t])'
      /\ hPriv[t] \in token' => hPriv[t] \in token /\ pair'[hPriv[t][2]] = pair[hPriv[t][2]]
  BY <1>n DEF Named, NamedNext, LoneIsGone, LoneNext, Reliable
<1>4. cur[t] # NoKey =>
        /\ key[cur[t]].hPriv \in token' => key[cur[t]].hPriv \in token
        /\ key[cur[t]].hPub \in token' => key[cur[t]].hPub \in token
  <2> SUFFICES ASSUME cur[t] # NoKey
               PROVE  /\ key[cur[t]].hPriv \in token' => key[cur[t]].hPriv \in token
                      /\ key[cur[t]].hPub \in token' => key[cur[t]].hPub \in token
    OBVIOUS
  <2>1. cur[t] \in KeyIds
    BY DEF Base, TypeOK
  <2>2. key[cur[t]].hPriv[2] < nextPair /\ key[cur[t]].hPub[2] < nextPair
    BY <2>1 DEF Base, KeyInv, Named
  <2>3. token' \subseteq Objects
    BY DEF TypeOK
  <2>4. \A o \in Objects : o[2] < nextPair /\ o \in token' => o \in token
    BY DEF OldKept
  <2>5. QED BY <2>2, <2>3, <2>4
<1>5. pc[t] \in Busy => cur[t] # NoKey
  BY <1>1 DEF CallInv
<1>6. QED BY <1>1, <1>3, <1>4, <1>5 DEF CallInv, Reliable, Busy

\* Pairs keep what is known of them.
LEMMA PairKept ==
  ASSUME Base, OldKept, NEW p \in Pairs, pair'[p] = pair[p]
  PROVE  PairInv(p)'
<1>1. PairInv(p) /\ p \in Nat /\ nextPair \in Nat
  BY Typed DEF Base
<1>2. QED BY <1>1 DEF OldKept, PairInv

\* The initial state
LEMMA InitIInv == Init => IInv
<1> SUFFICES ASSUME Init PROVE IInv
  OBVIOUS
<1> USE KeysAssumption, Shapes DEF Init
<1>1. TypeOK
  <2>1. nextPair \in 1..(MaxPairs + 1)
    <3>1. nextPair = 1 /\ MaxPairs \in Nat
      OBVIOUS
    <3>2. QED BY ONLY <3>1
  <2>2. "idle" \in Locs
    BY DEF Locs
  <2>3. QED BY <2>1, <2>2 DEF TypeOK
<1>2. OneCall /\ Older
  BY DEF OneCall, Older
<1>n. InvalidHandle[2] < nextPair
  <2>1. InvalidHandle[2] = 0 /\ nextPair = 1
    OBVIOUS
  <2>2. QED BY ONLY <2>1
<1>3. ASSUME NEW h \in KeyIds PROVE KeyInv(h)
  <2>1. key[h] = Freed
    OBVIOUS
  <2>2. /\ key[h].hPriv = InvalidHandle /\ key[h].hPub = InvalidHandle /\ key[h].name = NoName
        /\ ~key[h].live /\ ~key[h].fin
    BY <2>1 DEF Freed
  <2> HIDE DEF Init
  <2>3. QED BY <2>2, <1>n DEF KeyInv, Named, LoneIsGone, Pending
<1>4. ASSUME NEW t \in Threads PROVE CallInv(t)
  <2>1. /\ pc[t] = "idle" /\ cur[t] = NoKey /\ name[t] = NoName
        /\ hPriv[t] = InvalidHandle /\ hPub[t] = InvalidHandle
    OBVIOUS
  <2> HIDE DEF Init
  <2>2. QED BY <2>1, <1>n DEF CallInv, Busy, Opening, Named
<1>5. ASSUME NEW p \in Pairs PROVE PairInv(p)
  <2>1. pair[p] = NoPair
    OBVIOUS
  <2>2. QED BY <2>1 DEF PairInv, NoPair
<1>6. Base
  BY <1>1, <1>2, <1>3, <1>4, <1>5 DEF Base
<1>7. NamesReserved /\ OnePairPerName /\ DeleteDestroys /\ HalvesTogether
  BY DEF NamesReserved, OnePairPerName, DeleteDestroys, HalvesTogether, Pending, Freed, NoPair
<1>8. QED BY <1>6, <1>7 DEF IInv

\* Caller u does not move.
Stays(u) ==
  /\ pc'[u] = pc[u] /\ cur'[u] = cur[u] /\ hPriv'[u] = hPriv[u] /\ hPub'[u] = hPub[u]
  /\ name'[u] = name[u] /\ alg'[u] = alg[u]

\* The parts of TypeOK about callers
CallTypes ==
  /\ pc \in [Threads -> Locs]
  /\ cur \in [Threads -> KeyIds \cup {NoKey}]
  /\ hPriv \in [Threads -> Handles] /\ hPub \in [Threads -> Handles]
  /\ name \in [Threads -> Names \cup {NoName}]
  /\ alg \in [Threads -> Algs \cup {""}]

\* A caller takes a structure nobody works on, or gives its own back.
LEMMA OneCallKept ==
  ASSUME OneCall, NEW t \in Threads, \A u \in Threads : u # t => Stays(u),
         cur'[t] = NoKey \/ \A u \in Threads : u # t => cur[u] # cur'[t]
  PROVE  OneCall'
<1> SUFFICES ASSUME NEW u \in Threads, NEW v \in Threads, cur'[u] # NoKey, cur'[v] = cur'[u]
             PROVE  v = u
  BY DEF OneCall
<1>1. \A w \in Threads : w # t => cur'[w] = cur[w]
  BY DEF Stays
<1>2. QED BY <1>1 DEF OneCall

\* A caller outside the calls on a structure has none.
LEMMA NoStructure ==
  ASSUME Base, NEW t \in Threads, pc[t] \notin Busy
  PROVE  cur[t] = NoKey
BY DEF Base, CallInv

\* A caller that is idle has nothing to be wrong about.
LEMMA IdleCall ==
  ASSUME nextPair' \in Nat \ {0}, NEW t \in Threads, pc'[t] = "idle", cur'[t] = NoKey,
         hPriv'[t] = InvalidHandle, hPub'[t] = InvalidHandle, name'[t] = NoName
  PROVE  CallInv(t)'
<1>1. InvalidHandle[2] = 0
  BY Shapes
<1>2. InvalidHandle[2] < nextPair'
  BY <1>1
<1>3. QED BY <1>2 DEF CallInv, Busy, Opening, Named

\* A call returns.
LEMMA LeaveStep ==
  ASSUME Base, NEW t \in Threads, Leave(t), nextPair' \in Nat \ {0}
  PROVE  /\ CallTypes' /\ OneCall' /\ CallInv(t)'
         /\ \A u \in Threads : u # t => Stays(u)
<1> USE DEF Leave, Goto
<1>1. TypeOK
  BY DEF Base
<1>2. CallTypes'
  BY <1>1, Shapes DEF TypeOK, CallTypes, Locs
<1>3. /\ pc'[t] = "idle" /\ cur'[t] = NoKey
      /\ hPriv'[t] = InvalidHandle /\ hPub'[t] = InvalidHandle /\ name'[t] = NoName
  BY <1>1 DEF TypeOK
<1>4. \A u \in Threads : u # t => Stays(u)
  BY <1>1 DEF TypeOK, Stays
<1>5. OneCall'
  BY <1>3, <1>4, OneCallKept DEF Base
<1>6. CallInv(t)'
  BY <1>3, IdleCall
<1>7. QED BY <1>2, <1>4, <1>5, <1>6

\* A step of one caller: the other callers keep what is known of them.
LEMMA OneMoves ==
  ASSUME Base, TypeOK', OldKept, OneCall', Older', NEW t \in Threads,
         CallInv(t)', \A p \in Pairs : PairInv(p)', \A h \in KeyIds : KeyInv(h)',
         \A u \in Threads : u # t /\ cur[u] # NoKey => key'[cur[u]] = key[cur[u]],
         \A u \in Threads : u # t => Stays(u)
  PROVE  Base'
<1>1. ASSUME NEW u \in Threads PROVE CallInv(u)'
  <2>1. CASE u = t
    BY <2>1
  <2>2. CASE u # t
    BY <2>2, CallKept DEF Stays
  <2>3. QED BY <2>1, <2>2
<1>2. QED BY <1>1 DEF Base

\* A step that writes no structure
LEMMA LocalMove ==
  ASSUME Base, TypeOK', OldKept, OneCall', Older', NEW t \in Threads, key' = key,
         CallInv(t)', \A p \in Pairs : PairInv(p)',
         \A u \in Threads : u # t => Stays(u)
  PROVE  Base'
<1>1. ASSUME NEW h \in KeyIds PROVE KeyInv(h)'
  BY KeyKept
<1>2. QED BY <1>1, OneMoves

\* A step that writes one, which no other caller works on
LEMMA WritingMove ==
  ASSUME Base, TypeOK', OldKept, OneCall', Older', NEW t \in Threads, NEW h \in KeyIds,
         KeyInv(h)', CallInv(t)', \A p \in Pairs : PairInv(p)',
         \A g \in KeyIds : g # h => key'[g] = key[g],
         \A u \in Threads : u # t => cur[u] # h,
         \A u \in Threads : u # t => Stays(u)
  PROVE  Base'
<1>1. ASSUME NEW g \in KeyIds PROVE KeyInv(g)'
  BY KeyKept
<1>2. ASSUME NEW u \in Threads, u # t, cur[u] # NoKey PROVE key'[cur[u]] = key[cur[u]]
  <2>1. cur[u] \in KeyIds
    BY <1>2 DEF Base, TypeOK
  <2>2. QED BY <1>2, <2>1
<1>3. QED BY <1>1, <1>2, OneMoves

\* Only the token's objects change, or nothing about them does.
LEMMA PairsKept ==
  ASSUME Base, UNCHANGED <<pair, nextPair>>
  PROVE  \A p \in Pairs : PairInv(p)'
BY DEF Base, PairInv

\* A call takes structure h.
LEMMA EnterBase ==
  ASSUME Base, NEW t \in Threads, NEW h \in KeyIds, NEW l \in {"finalize", "destroyPriv"},
         At(t, "idle"), Ready(h), l = "finalize" => ~key[h].fin, Enter(t, h, l),
         UNCHANGED <<tokenVars, key, deleted, localVars>>
  PROVE  Base'
<1> USE DEF tokenVars, localVars
<1>1. TypeOK /\ h # NoKey /\ l \in Locs
  BY KeysAssumption DEF Base, Locs
<1>2. TypeOK' /\ pc'[t] = l /\ cur'[t] = h
  BY <1>1 DEF TypeOK, Enter, Goto
<1>3. \A u \in Threads : u # t => Stays(u)
  BY <1>1 DEF TypeOK, Enter, Goto, Stays
<1>4. OldKept
  BY <1>1, NothingNew
<1>5. OneCall' /\ Older'
  <2>1. OneCall'
    BY <1>2, <1>3, OneCallKept DEF Base, Ready
  <2>2. QED BY <2>1 DEF Base, Older
<1>6. CallInv(t)'
  <2>1. Named(hPriv[t], hPub[t], name[t])'
    BY DEF Base, CallInv, Named
  <2>2. QED BY <1>1, <1>2, <2>1 DEF CallInv, Busy, Opening, Ready, Allocated
<1>7. QED BY <1>2, <1>3, <1>4, <1>5, <1>6, PairsKept, LocalMove

LEMMA FinalizeBase == ASSUME Base, NEW t \in Threads, FinalizeKey(t) PROVE Base'
BY EnterBase DEF FinalizeKey

LEMMA DeleteBase == ASSUME Base, NEW t \in Threads, DeleteKey(t) PROVE Base'
BY EnterBase DEF DeleteKey

\* An idle caller writes structure h.
LEMMA WriteBase ==
  ASSUME Base, NEW t \in Threads, NEW h \in KeyIds, NEW k \in KeyRecords, At(t, "idle"),
         key' = [key EXCEPT ![h] = k], KeyInv(h)', \A u \in Threads : cur[u] # h,
         UNCHANGED <<tokenVars, deleted, pc, cur, localVars>>
  PROVE  Base'
<1> USE DEF tokenVars, localVars
<1>1. TypeOK /\ cur[t] = NoKey
  BY NoStructure DEF Base, At, Busy
<1>2. key' \in [KeyIds -> KeyRecords] /\ \A g \in KeyIds : g # h => key'[g] = key[g]
  BY <1>1, KeyWrite
<1>3. TypeOK'
  BY <1>1, <1>2 DEF TypeOK
<1>4. OldKept /\ OneCall' /\ Older'
  BY <1>1, NothingNew DEF Base, OneCall, Older
<1>5. CallInv(t)'
  BY <1>1, <1>3, <1>4, CallKept
<1>6. \A u \in Threads : u # t => Stays(u)
  BY DEF Stays
<1>7. QED BY <1>2, <1>3, <1>4, <1>5, <1>6, PairsKept, WritingMove

LEMMA LengthBase == ASSUME Base, NEW t \in Threads, SetKeyLength(t) PROVE Base'
<1> USE DEF tokenVars, localVars
<1>1. PICK h \in KeyIds, n \in Lengths :
       Ready(h) /\ ~key[h].fin /\ key' = [key EXCEPT ![h].bits = n]
  BY DEF SetKeyLength
<1> DEFINE k == [key[h] EXCEPT !.bits = n]
<1>2. key[h] \in KeyRecords /\ KeyInv(h)
  BY Typed DEF Base
<1>3. k \in KeyRecords /\ n # 0
  <2>1. n \in Lengths \cup {0, 256} /\ n # 0
    BY DEF Lengths
  <2>2. QED BY ZenonT(40), <1>2, <2>1 DEF KeyRecords
<1>4. key' = [key EXCEPT ![h] = k] /\ key'[h] = k
  BY <1>1 DEF Base, TypeOK
<1>5. /\ k.hPriv = key[h].hPriv /\ k.hPub = key[h].hPub /\ k.name = key[h].name
      /\ k.live = key[h].live /\ k.fin = key[h].fin /\ k.bits = n
  BY <1>2 DEF KeyRecords
<1> HIDE DEF k
<1>6. UNCHANGED <<token, pair, nextPair>>
  BY DEF SetKeyLength
<1>7. KeyInv(h)'
  BY <1>1, <1>2, <1>3, <1>4, <1>5, <1>6 DEF KeyInv, Named, LoneIsGone, Pending, Reliable
<1>8. QED BY <1>1, <1>3, <1>4, <1>7, WriteBase DEF SetKeyLength, Ready

\* What is known of the structures of imported EC keys and of freed ones
LEMMA NoObjects ==
  ASSUME nextPair' \in Nat \ {0}, NEW h \in KeyIds, ~Pending(h)', key'[h].name = NoName,
         key'[h].hPriv = InvalidHandle, key'[h].hPub = InvalidHandle,
         key'[h].fin => InvalidHandle \notin token'
  PROVE  KeyInv(h)'
<1>1. InvalidHandle[2] < nextPair'
  <2>1. InvalidHandle[2] = 0
    BY Shapes
  <2>2. QED BY <2>1
<1>2. QED BY <1>1 DEF KeyInv, Named, LoneIsGone

LEMMA FreeBase == ASSUME Base, NEW t \in Threads, FreeKey(t) PROVE Base'
<1>1. PICK h \in KeyIds : Ready(h) /\ key' = [key EXCEPT ![h] = Freed]
  BY DEF FreeKey
<1>2. key'[h] = Freed /\ nextPair' \in Nat \ {0}
  BY <1>1, Typed DEF Base, TypeOK, FreeKey, tokenVars
<1>f. ~Freed.live /\ ~Freed.fin
  BY DEF Freed
<1>g. Freed.name = NoName /\ Freed.hPriv = InvalidHandle /\ Freed.hPub = InvalidHandle
  BY DEF Freed
<1>3. /\ key'[h].name = NoName /\ ~key'[h].fin
      /\ key'[h].hPriv = InvalidHandle /\ key'[h].hPub = InvalidHandle
  BY <1>2, <1>f, <1>g
<1>p. ~Pending(h)'
  BY <1>2, <1>f DEF Pending
<1>4. KeyInv(h)'
  BY <1>2, <1>3, <1>p, NoObjects
<1>5. QED BY <1>1, <1>4, Shapes, WriteBase DEF FreeKey, Ready

LEMMA ImportEcBase == ASSUME Base, NEW t \in Threads, ImportEcKey(t) PROVE Base'
<1>1. PICK h \in KeyIds, a \in {"EC", ""} :
       /\ Available(h)
       /\ key' = [key EXCEPT ![h] = [live |-> TRUE, name |-> NoName, alg |-> a,
                    bits |-> IF a = "" THEN 0 ELSE DefaultBits(a), spec |-> "", fin |-> TRUE,
                    hPriv |-> InvalidHandle, hPub |-> InvalidHandle]]
  BY DEF ImportEcKey
<1> DEFINE bits == IF a = "" THEN 0 ELSE DefaultBits(a)
           k == [live |-> TRUE, name |-> NoName, alg |-> a, bits |-> bits, spec |-> "",
                 fin |-> TRUE, hPriv |-> InvalidHandle, hPub |-> InvalidHandle]
<1>2. k \in KeyRecords
  <2>1. bits \in Lengths \cup {0, 256}
    <3>1. CASE a = ""
      BY <3>1
    <3>2. CASE a = "EC"
      BY <3>2 DEF DefaultBits
    <3>3. QED BY <3>1, <3>2
  <2>2. a \in Algs \cup {""}
    BY DEF Algs
  <2> HIDE DEF bits
  <2>3. QED BY <2>1, <2>2, Shapes DEF KeyRecords
<1>3. key'[h] = k /\ nextPair' \in Nat \ {0} /\ InvalidHandle \notin token'
  BY <1>1, Typed, Shapes DEF Base, TypeOK, ImportEcKey, tokenVars
<1>f. k.fin /\ k.name = NoName /\ k.hPriv = InvalidHandle /\ k.hPub = InvalidHandle
  OBVIOUS
<1> HIDE DEF k
<1>p. /\ ~Pending(h)' /\ key'[h].name = NoName
      /\ key'[h].hPriv = InvalidHandle /\ key'[h].hPub = InvalidHandle
  BY <1>3, <1>f DEF Pending
<1>4. KeyInv(h)'
  BY <1>3, <1>p, NoObjects
<1>5. \A u \in Threads : cur[u] # h
  <2>1. h # NoKey
    BY KeysAssumption
  <2>2. QED BY <1>1, <2>1 DEF Base, CallInv, Available
<1>6. QED BY <1>1, <1>2, <1>4, <1>5, WriteBase DEF ImportEcKey, k

LEMMA CreateBase == ASSUME Base, NEW t \in Threads, CreatePersistedKey(t) PROVE Base'
<1> USE DEF tokenVars, localVars
<1> PICK h \in KeyIds, n \in Names, a \in Algs, spec \in Specs, bPersistOnly \in BOOLEAN :
       /\ Available(h)
       /\ key' = [key EXCEPT ![h] = [live |-> TRUE, name |-> n, alg |-> a,
                    bits |-> DefaultBits(a), spec |-> spec, fin |-> FALSE,
                    hPriv |-> InvalidHandle, hPub |-> InvalidHandle]]
       /\ IF bPersistOnly THEN UNCHANGED <<pc, cur>> ELSE Enter(t, h, "create")
  BY DEF CreatePersistedKey
<1> DEFINE k == [live |-> TRUE, name |-> n, alg |-> a, bits |-> DefaultBits(a), spec |-> spec,
                 fin |-> FALSE, hPriv |-> InvalidHandle, hPub |-> InvalidHandle]
<1>0. /\ At(t, "idle") /\ UNCHANGED <<token, pair, nextPair, deleted, hPriv, hPub, name, alg>>
      /\ TypeOK
  BY DEF CreatePersistedKey, Base
<1>1. k \in KeyRecords
  <2>1. DefaultBits(a) \in Lengths \cup {0, 256} /\ DefaultBits(a) # 0
    BY DEF DefaultBits, Lengths
  <2>2. QED BY <2>1, Shapes DEF KeyRecords
<1>2. key' \in [KeyIds -> KeyRecords] /\ key'[h] = k /\ \A g \in KeyIds : g # h => key'[g] = key[g]
  BY <1>0, <1>1, KeyWrite
<1>3. TypeOK'
  BY <1>0, <1>2 DEF TypeOK, Enter, Goto, Locs
<1>4. OldKept
  BY <1>0, NothingNew
<1>5. \A u \in Threads : cur[u] # h
  <2>1. h # NoKey
    BY KeysAssumption
  <2>2. QED BY <2>1 DEF Base, CallInv, Available
<1>6. \A u \in Threads : u # t => Stays(u)
  BY <1>0 DEF TypeOK, Enter, Goto, Stays
<1>7. \/ pc'[t] = "idle" /\ cur'[t] = NoKey
      \/ pc'[t] = "create" /\ cur'[t] = h
  <2>1. pc[t] = "idle" /\ cur[t] = NoKey
    BY <1>0, NoStructure DEF At, Busy
  <2>2. CASE bPersistOnly
    BY <2>1, <2>2
  <2>3. CASE ~bPersistOnly
    BY <2>3, <1>0 DEF TypeOK, Enter, Goto
  <2>4. QED BY <2>2, <2>3
<1>8. OneCall' /\ Older'
  <2>1. OneCall'
    BY <1>5, <1>6, <1>7, OneCallKept DEF Base
  <2>2. QED BY <2>1, <1>0 DEF Base, Older
<1>9. KeyInv(h)'
  <2>1. InvalidHandle[2] < nextPair
    BY <1>0, Typed, Shapes
  <2>2. n # NoName /\ k.bits # 0
    BY KeysAssumption DEF DefaultBits
  <2>3. QED BY <1>0, <1>2, <2>1, <2>2 DEF KeyInv, Named, LoneIsGone, Pending
<1>10. CallInv(t)'
  <2>1. Named(hPriv[t], hPub[t], name[t])'
    BY <1>0 DEF Base, CallInv, Named
  <2>2. h # NoKey /\ key'[h].live /\ ~key'[h].fin
    BY <1>2, KeysAssumption
  <2>3. hPriv'[t] = InvalidHandle /\ hPub'[t] = InvalidHandle /\ name'[t] = NoName
    BY <1>0 DEF Base, CallInv, At
  <2>4. QED BY <1>7, <2>1, <2>2, <2>3 DEF CallInv, Busy, Opening
<1>11. \A p \in Pairs : PairInv(p)'
  BY <1>0, <1>4, PairKept
<1>12. QED BY <1>3, <1>4, <1>5, <1>6, <1>8, <1>9, <1>10, <1>11, <1>2, WritingMove

\* An object of the token is a handle made before.
LEMMA TokenFacts ==
  ASSUME Base, NEW o \in token
  PROVE  /\ o \in Handles /\ o \in Objects /\ o # InvalidHandle /\ o[2] < nextPair
         /\ o[1] \in {"priv", "pub"} /\ o[2] \in Pairs /\ o = <<o[1], o[2]>>
<1>1. o \in Objects /\ o[2] < nextPair
  BY DEF Base, TypeOK, Older
<1>2. o \in Handles /\ o # InvalidHandle
  BY <1>1, Shapes DEF Handles
<1>3. QED BY <1>1, <1>2, HandleFacts

\* What the search found, found or not
LEMMA OpenBase == ASSUME Base, NEW t \in Threads, OpenKey(t) PROVE Base'
<1> USE DEF tokenVars
<1>1. PICK n \in Names, o \in token :
        /\ o[1] = "priv" /\ pair[o[2]].label = n
        /\ hPriv' = [hPriv EXCEPT ![t] = o] /\ name' = [name EXCEPT ![t] = n]
  BY DEF OpenKey, P11_FindObjectByLabel
<1>2. TypeOK /\ UNCHANGED <<token, pair, nextPair, key, deleted, cur, hPub, alg>>
  BY DEF Base, OpenKey
<1>3. /\ pc'[t] = "findPub" /\ cur'[t] = NoKey /\ hPriv'[t] = o /\ name'[t] = n
      /\ pc' \in [Threads -> Locs]
  <2>1. pc[t] = "idle" /\ cur[t] = NoKey
    BY NoStructure DEF OpenKey, At, Busy
  <2>2. pc' = [pc EXCEPT ![t] = "findPub"]
    BY DEF OpenKey, Goto
  <2>3. QED BY <1>1, <1>2, <2>1, <2>2 DEF TypeOK, Locs
<1>4. \A u \in Threads : u # t => Stays(u)
  BY <1>1, <1>2 DEF TypeOK, OpenKey, Goto, Stays
<1>5. TypeOK'
  BY <1>1, <1>2, <1>3, TokenFacts DEF TypeOK
<1>6. OldKept /\ OneCall' /\ Older'
  BY <1>2, NothingNew DEF Base, OneCall, Older
<1>7. hPub[t] = InvalidHandle
  BY DEF Base, CallInv, OpenKey, At
<1>8. Named(hPriv[t], hPub[t], name[t])'
  <2>1. n # NoName /\ InvalidHandle[2] < nextPair /\ o[2] < nextPair
    BY <1>2, Typed, Shapes, KeysAssumption, TokenFacts
  <2>2. QED BY <1>1, <1>2, <1>3, <1>7, <2>1, TokenFacts DEF Named
<1>9. CallInv(t)'
  BY <1>3, <1>8, TokenFacts DEF CallInv, Busy
<1>10. QED BY <1>2, <1>4, <1>5, <1>6, <1>9, PairsKept, LocalMove

\* A step of a search or a read: only t's locals change.
LEMMA LookBase ==
  ASSUME Base, NEW t \in Threads, NEW l \in {"readType", "readSize"}, pc[t] \in Opening,
         Goto(t, l), UNCHANGED <<token, pair, nextPair, key, deleted, cur, hPriv, name>>,
         hPub' \in [Threads -> Handles], alg' \in [Threads -> Algs \cup {""}],
         \A u \in Threads : u # t => hPub'[u] = hPub[u] /\ alg'[u] = alg[u],
         Named(hPriv[t], hPub'[t], name[t]), LoneIsGone(hPriv[t], hPub'[t]),
         Reliable("attribute") /\ l = "readSize" /\ hPriv[t] \in token =>
           alg'[t] = pair[hPriv[t][2]].alg
  PROVE  Base'
<1>1. TypeOK /\ hPriv[t] # InvalidHandle /\ cur[t] = NoKey
  BY NoStructure DEF Base, CallInv, Opening, Busy
<1>2. pc' \in [Threads -> Locs] /\ pc'[t] = l /\ \A u \in Threads : u # t => pc'[u] = pc[u]
  <2>1. l \in Locs
    BY DEF Locs
  <2>2. QED BY <1>1, <2>1 DEF TypeOK, Goto
<1>3. TypeOK'
  BY <1>1, <1>2 DEF TypeOK
<1>4. \A u \in Threads : u # t => Stays(u)
  BY <1>2 DEF Stays
<1>5. OldKept /\ OneCall' /\ Older'
  BY <1>1, NothingNew DEF Base, OneCall, Older
<1>6. Named(hPriv[t], hPub[t], name[t])' /\ LoneIsGone(hPriv[t], hPub[t])'
  BY DEF Named, LoneIsGone, Reliable
<1>7. CallInv(t)'
  BY <1>1, <1>2, <1>6 DEF CallInv, Busy, Reliable
<1>8. QED BY <1>3, <1>4, <1>5, <1>7, PairsKept, LocalMove

LEMMA FindPubBase == ASSUME Base, NEW t \in Threads, FindPub(t) PROVE Base'
<1> USE DEF tokenVars
<1> DEFINE found == {o \in token : o[1] = "pub" /\ pair[o[2]].label = name[t]}
<1>1. PICK o \in P11_FindObjectByLabel("pub", name[t]) : hPub' = [hPub EXCEPT ![t] = o]
  BY DEF FindPub
<1>2. TypeOK /\ CallInv(t) /\ hPriv[t] # InvalidHandle /\ Named(hPriv[t], hPub[t], name[t])
  BY DEF Base, CallInv, FindPub, At, Opening
<1>3a. o \in IF found = {} \/ "search" \in Faults THEN found \cup {InvalidHandle} ELSE found
  BY DEF P11_FindObjectByLabel
<1>3b. \/ o \in found
       \/ o = InvalidHandle /\ (Reliable("search") => found = {})
  BY <1>3a DEF Reliable
<1>3. \/ /\ o = InvalidHandle
         /\ Reliable("search") =>
              \A x \in token : ~(x[1] = "pub" /\ pair[x[2]].label = name[t])
      \/ o \in token /\ o[1] = "pub" /\ pair[o[2]].label = name[t]
  BY <1>3b
<1> HIDE DEF found
<1>4. o \in Handles /\ o[2] < nextPair
  BY <1>2, <1>3, TokenFacts, Typed, Shapes
<1>5. hPub' \in [Threads -> Handles] /\ hPub'[t] = o /\ \A u \in Threads : u # t => hPub'[u] = hPub[u]
  BY <1>1, <1>2, <1>4 DEF TypeOK
<1>6. Named(hPriv[t], hPub'[t], name[t])
  BY <1>2, <1>3, <1>4, <1>5 DEF Named
<1>7. LoneIsGone(hPriv[t], hPub'[t])
  <2>1. SUFFICES ASSUME Reliable("search"), o = InvalidHandle,
                        <<"pub", hPriv[t][2]>> \in token
                 PROVE  FALSE
    BY <1>5 DEF LoneIsGone
  <2>2. o \notin token
    BY <2>1, <1>2, Shapes DEF TypeOK
  <2>3. QED BY <2>1, <2>2, <1>2, <1>3 DEF Named
<1>8. QED BY <1>2, <1>5, <1>6, <1>7, LookBase DEF FindPub, At, Opening, TypeOK

LEMMA ReadTypeBase == ASSUME Base, NEW t \in Threads, ReadType(t) PROVE Base'
<1> USE DEF tokenVars
<1>1. PICK a \in Attribute(hPriv[t], pair[hPriv[t][2]].alg, "RSA") : alg' = [alg EXCEPT ![t] = a]
  BY DEF ReadType
<1>2. TypeOK /\ CallInv(t) /\ hPriv[t] # InvalidHandle /\ hPriv[t] \in Handles
  BY Typed DEF Base, CallInv, ReadType, At, Opening
<1>3. \/ a = "RSA"
      \/ hPriv[t] \in token /\ a = pair[hPriv[t][2]].alg
  BY DEF Attribute
<1>4. a \in Algs \cup {""}
  <2>1. pair[hPriv[t][2]] \in PairRecords
    BY <1>2, HandleFacts, Typed
  <2>2. pair[hPriv[t][2]].alg \in Algs \cup {""}
    BY <2>1 DEF PairRecords
  <2>3. QED BY <1>3, <2>2 DEF Algs
<1>5. Reliable("attribute") /\ hPriv[t] \in token => a = pair[hPriv[t][2]].alg
  BY DEF Attribute, Reliable
<1>6. /\ alg' \in [Threads -> Algs \cup {""}] /\ alg'[t] = a
      /\ \A u \in Threads : u # t => alg'[u] = alg[u]
  BY <1>1, <1>2, <1>4 DEF TypeOK
<1>7. Named(hPriv[t], hPub[t], name[t]) /\ LoneIsGone(hPriv[t], hPub[t])
  BY <1>2 DEF CallInv, ReadType, At
<1>8. QED BY <1>2, <1>5, <1>6, <1>7, LookBase DEF ReadType, At, Opening, TypeOK

\* A call ends with a structure written, or with none.
LEMMA ReturnBase ==
  ASSUME Base, NEW t \in Threads, Leave(t), UNCHANGED tokenVars, NEW h \in KeyIds,
         key' = [key EXCEPT ![h] = key'[h]], key'[h] \in KeyRecords, KeyInv(h)', Older',
         deleted' \subseteq Handles, \A u \in Threads : u # t => cur[u] # h
  PROVE  Base'
<1> USE DEF tokenVars
<1>1. TypeOK /\ nextPair' \in Nat \ {0}
  BY Typed DEF Base
<1>2. /\ CallTypes' /\ OneCall' /\ CallInv(t)'
      /\ \A u \in Threads : u # t => Stays(u)
  BY <1>1, LeaveStep
<1>3. key' \in [KeyIds -> KeyRecords] /\ \A g \in KeyIds : g # h => key'[g] = key[g]
  BY <1>1, KeyWrite
<1>4. TypeOK'
  BY <1>1, <1>2, <1>3 DEF TypeOK, CallTypes
<1>5. OldKept
  BY <1>1, NothingNew
<1>6. QED BY <1>2, <1>3, <1>4, <1>5, PairsKept, WritingMove

LEMMA ReturnIdle ==
  ASSUME Base, NEW t \in Threads, Leave(t), UNCHANGED <<tokenVars, key, deleted>>
  PROVE  Base'
<1> USE DEF tokenVars
<1>1. TypeOK /\ nextPair' \in Nat \ {0}
  BY Typed DEF Base
<1>2. /\ CallTypes' /\ OneCall' /\ CallInv(t)'
      /\ \A u \in Threads : u # t => Stays(u)
  BY <1>1, LeaveStep
<1>3. TypeOK'
  BY <1>1, <1>2 DEF TypeOK, CallTypes
<1>4. OldKept /\ Older'
  BY <1>1, NothingNew DEF Base, Older
<1>5. QED BY <1>2, <1>3, <1>4, PairsKept, LocalMove

LEMMA EndBase == ASSUME Base, NEW t \in Threads, DeleteEnd(t) PROVE Base'
<1>1. PICK h \in KeyIds : cur[t] = h
  BY DEF Base, TypeOK, CallInv, DeleteEnd, At, Busy
<1>2. key' = [key EXCEPT ![h] = Freed] /\ key'[h] = Freed
  BY <1>1 DEF DeleteEnd, Base, TypeOK
<1>3. Older' /\ deleted' \subseteq Handles
  <2>1. key[h].hPriv \in Handles /\ key[h].hPub \in Handles
    BY <1>1, Typed DEF Base
  <2>2. key[h].hPriv[2] < nextPair /\ key[h].hPub[2] < nextPair
    BY <1>1 DEF Base, KeyInv, Named
  <2>3. deleted' = deleted \cup {key[h].hPriv, key[h].hPub} /\ UNCHANGED <<token, nextPair>>
    BY <1>1 DEF DeleteEnd, tokenVars
  <2>4. QED BY <2>1, <2>2, <2>3 DEF Base, TypeOK, Older
<1>4. KeyInv(h)'
  <2>1. nextPair' \in Nat \ {0}
    BY Typed DEF Base, DeleteEnd, tokenVars
  <2>2. ~Freed.live /\ ~Freed.fin
    BY DEF Freed
  <2>3. Freed.name = NoName /\ Freed.hPriv = InvalidHandle /\ Freed.hPub = InvalidHandle
    BY DEF Freed
  <2>4. ~Pending(h)'
    BY <1>2, <2>2 DEF Pending
  <2>5. QED BY <1>1, <1>2, <2>1, <2>2, <2>3, <2>4, NoObjects
<1>5. \A u \in Threads : u # t => cur[u] # h
  BY <1>1, KeysAssumption DEF Base, OneCall
<1>6. QED BY ZenonT(40), <1>1, <1>2, <1>3, <1>4, <1>5, Shapes, ReturnBase DEF DeleteEnd

\* What is known of a structure that names a key now
LEMMA Finished ==
  ASSUME NEW h \in KeyIds, NEW pv \in Handles, NEW pb \in Handles, NEW n,
         key'[h].hPriv = pv, key'[h].hPub = pb, key'[h].name = n, key'[h].fin,
         NamedNext(pv, pb, n), LoneNext(pv, pb),
         Reliable("attribute") /\ pv \in token' =>
           key'[h].alg = pair'[pv[2]].alg /\ key'[h].bits = pair'[pv[2]].bits
  PROVE  KeyInv(h)'
<1>1. Named(key[h].hPriv, key[h].hPub, key[h].name)' /\ LoneIsGone(key[h].hPriv, key[h].hPub)'
  BY DEF Named, NamedNext, LoneIsGone, LoneNext, Reliable
<1>2. ~Pending(h)'
  BY DEF Pending
<1>3. QED BY <1>1, <1>2 DEF KeyInv, Reliable

LEMMA AllocBase == ASSUME Base, NEW t \in Threads, AllocImported(t) PROVE Base'
<1>1. CASE UNCHANGED key
  BY <1>1, ReturnIdle DEF AllocImported
<1>2. CASE ~UNCHANGED key
  <2>1. PICK h \in KeyIds :
          /\ Available(h)
          /\ key' = [key EXCEPT ![h] = [live |-> TRUE, name |-> NoName, alg |-> "RSA",
                       bits |-> pair[hPub[t][2]].bits, spec |-> "", fin |-> TRUE,
                       hPriv |-> InvalidHandle, hPub |-> hPub[t]]]
    BY <1>2 DEF AllocImported
  <2> DEFINE n == pair[hPub[t][2]].bits
             k == [live |-> TRUE, name |-> NoName, alg |-> "RSA", bits |-> n, spec |-> "",
                   fin |-> TRUE, hPriv |-> InvalidHandle, hPub |-> hPub[t]]
  <2>2. /\ TypeOK /\ UNCHANGED <<token, pair, nextPair, deleted>> /\ Leave(t)
        /\ CallInv(t) /\ hPub[t] \in Handles
    BY Typed DEF Base, AllocImported, tokenVars
  <2>3. hPriv[t] = InvalidHandle /\ hPub[t] # InvalidHandle /\ name[t] = NoName
    BY <2>2 DEF CallInv, AllocImported, At
  <2>4. k \in KeyRecords
    <3>1. pair[hPub[t][2]] \in PairRecords
      BY <2>2, <2>3, HandleFacts, Typed
    <3>2. n \in Lengths \cup {0, 256}
      BY <3>1 DEF PairRecords
    <3> HIDE DEF n
    <3>3. QED BY <2>2, <3>2, Shapes DEF KeyRecords, Algs
  <2>5. key'[h] = k
    BY <2>1, <2>2 DEF TypeOK
  <2>6. /\ k.hPriv = InvalidHandle /\ k.hPub = hPub[t] /\ k.name = NoName /\ k.fin
    OBVIOUS
  <2>7. NamedNext(InvalidHandle, hPub[t], NoName) /\ LoneNext(InvalidHandle, hPub[t])
    BY <2>2, <2>3 DEF CallInv, Named, NamedNext, LoneNext
  <2>8. InvalidHandle \notin token'
    BY <2>2, Shapes DEF TypeOK
  <2> HIDE DEF k
  <2>9. KeyInv(h)'
    BY <2>2, <2>5, <2>6, <2>7, <2>8, Shapes, Finished
  <2>10. \A u \in Threads : u # t => cur[u] # h
    BY <2>1, KeysAssumption DEF Base, CallInv, Available
  <2>11. Older' /\ deleted' \subseteq Handles
    BY <2>2 DEF Base, Older, TypeOK
  <2>12. key' = [key EXCEPT ![h] = key'[h]]
    BY <2>1, <2>5 DEF k
  <2>13. QED BY <2>2, <2>4, <2>5, <2>9, <2>10, <2>11, <2>12, ReturnBase DEF tokenVars
<1>3. QED BY <1>1, <1>2

LEMMA ReadSizeBase == ASSUME Base, NEW t \in Threads, ReadSize(t) PROVE Base'
<1>1. CASE UNCHANGED key
  BY <1>1, ReturnIdle DEF ReadSize
<1>2. CASE ~UNCHANGED key
  <2> DEFINE bits == IF pair[hPriv[t][2]].alg = alg[t] THEN pair[hPriv[t][2]].bits ELSE 0
             a(n) == IF alg[t] = "EC" /\ n = 0 THEN "" ELSE alg[t]
             k(n, spec) == [live |-> TRUE, name |-> name[t], alg |-> a(n), bits |-> n,
                            spec |-> spec, fin |-> TRUE, hPriv |-> hPriv[t], hPub |-> hPub[t]]
  <2>1. PICK h \in KeyIds, n \in Attribute(hPriv[t], bits, 0), spec \in Specs :
          Available(h) /\ key' = [key EXCEPT ![h] = k(n, spec)]
    BY <1>2 DEF ReadSize
  <2>2. /\ TypeOK /\ UNCHANGED <<token, pair, nextPair, deleted>> /\ Leave(t)
        /\ CallInv(t) /\ hPriv[t] \in Handles /\ hPub[t] \in Handles
    BY Typed DEF Base, ReadSize, tokenVars
  <2>3. hPriv[t] # InvalidHandle
    BY <2>2 DEF CallInv, ReadSize, At, Opening
  <2>4. pair[hPriv[t][2]] \in PairRecords /\ PairInv(hPriv[t][2])
    BY <2>2, <2>3, HandleFacts, Typed DEF Base
  <2>5. n \in {bits, 0} /\ (Reliable("attribute") /\ hPriv[t] \in token => n = bits)
    BY DEF Attribute, Reliable
  <2>6. k(n, spec) \in KeyRecords
    <3>1. pair[hPriv[t][2]].bits \in Lengths \cup {0, 256}
      BY <2>4 DEF PairRecords
    <3>2. n \in Lengths \cup {0, 256}
      BY <2>5, <3>1
    <3>3. alg[t] \in Algs \cup {""} /\ name[t] \in Names \cup {NoName}
      BY <2>2 DEF TypeOK
    <3>4. a(n) \in Algs \cup {""}
      BY <3>3
    <3> HIDE DEF a
    <3>5. QED BY <2>2, <3>2, <3>3, <3>4 DEF KeyRecords
  <2>7. key'[h] = k(n, spec)
    BY <2>1, <2>2 DEF TypeOK
  <2>8. Reliable("attribute") /\ hPriv[t] \in token =>
          a(n) = pair[hPriv[t][2]].alg /\ n = pair[hPriv[t][2]].bits
    <3> SUFFICES ASSUME Reliable("attribute"), hPriv[t] \in token
                 PROVE  a(n) = pair[hPriv[t][2]].alg /\ n = pair[hPriv[t][2]].bits
      OBVIOUS
    <3>1. alg[t] = pair[hPriv[t][2]].alg
      BY <2>2 DEF CallInv, ReadSize, At
    <3>2. n = pair[hPriv[t][2]].bits
      BY <2>5, <3>1
    <3>3. n # 0
      BY <2>2, <2>3, <2>4, <3>2 DEF CallInv, Named, PairInv
    <3>4. QED BY <3>1, <3>2, <3>3
  <2>9. /\ k(n, spec).hPriv = hPriv[t] /\ k(n, spec).hPub = hPub[t] /\ k(n, spec).name = name[t]
        /\ k(n, spec).fin /\ k(n, spec).alg = a(n) /\ k(n, spec).bits = n
    OBVIOUS
  <2>10. NamedNext(hPriv[t], hPub[t], name[t]) /\ LoneNext(hPriv[t], hPub[t])
    BY <2>2 DEF CallInv, Named, NamedNext, LoneIsGone, LoneNext, ReadSize, At
  <2>11. key' = [key EXCEPT ![h] = key'[h]]
    BY <2>1, <2>7
  <2> HIDE DEF k, a
  <2>12. KeyInv(h)'
    BY <2>2, <2>7, <2>8, <2>9, <2>10, Finished
  <2>13. \A u \in Threads : u # t => cur[u] # h
    BY <2>1, KeysAssumption DEF Base, CallInv, Available
  <2>14. Older' /\ deleted' \subseteq Handles
    BY <2>2 DEF Base, Older, TypeOK
  <2>15. QED BY <2>2, <2>6, <2>7, <2>11, <2>12, <2>13, <2>14, ReturnBase DEF tokenVars
<1>3. QED BY <1>1, <1>2

\* C_DestroyObject takes at most its object from the token.
LEMMA DestroyFacts ==
  ASSUME NEW o, DestroyObject(o)
  PROVE  token' \subseteq token /\ (Reliable("destroy") => token' = token \ {o})
BY DEF DestroyObject, Reliable

LEMMA DestroyBase ==
  ASSUME Base, NEW t \in Threads, DestroyPriv(t) \/ DestroyPub(t) PROVE Base'
<1>1. PICK h \in KeyIds : cur[t] = h
  BY DEF Base, TypeOK, CallInv, DestroyPriv, DestroyPub, At, Busy
<1>2. /\ TypeOK /\ CallInv(t) /\ UNCHANGED <<pair, nextPair, key, deleted, cur, hPriv, hPub, name, alg>>
      /\ token' \subseteq token
  BY DestroyFacts DEF Base, DestroyPriv, DestroyPub, localVars
<1>3. \/ /\ pc[t] = "destroyPriv" /\ pc'[t] = "destroyPub"
         /\ Reliable("destroy") => key[h].hPriv \notin token'
      \/ /\ pc[t] = "destroyPub" /\ pc'[t] = "deleteEnd"
         /\ Reliable("destroy") => key[h].hPriv \notin token' /\ key[h].hPub \notin token'
  <2>1. CASE DestroyPriv(t)
    BY <2>1, <1>1, <1>2, DestroyFacts DEF DestroyPriv, At, Goto, TypeOK
  <2>2. CASE DestroyPub(t)
    <3>1. Reliable("destroy") => key[h].hPriv \notin token /\ key[h].hPub \notin token'
      BY <2>2, <1>1, <1>2, DestroyFacts DEF DestroyPub, At, CallInv
    <3>2. QED BY <2>2, <3>1, <1>2 DEF DestroyPub, At, Goto, TypeOK
  <2>3. QED BY <2>1, <2>2
<1>4. pc' \in [Threads -> Locs] /\ \A u \in Threads : u # t => Stays(u)
  BY <1>2 DEF DestroyPriv, DestroyPub, Goto, TypeOK, Locs, Stays
<1>5. TypeOK'
  BY <1>2, <1>4 DEF TypeOK
<1>6. OldKept /\ OneCall' /\ Older'
  BY <1>2, NothingNew DEF Base, OneCall, Older
<1>7. Named(hPriv[t], hPub[t], name[t])'
  BY <1>2 DEF CallInv, Named
<1>8. CallInv(t)'
  BY <1>1, <1>2, <1>3, <1>7 DEF CallInv, Busy, Opening, Reliable
<1>9. QED BY <1>2, <1>4, <1>5, <1>6, <1>8, PairsKept, LocalMove

\* A pair is made, or an imported object: its number is new.
LEMMA NewPair ==
  ASSUME Base, nextPair \in Pairs, NEW r \in PairRecords, pair' = [pair EXCEPT ![nextPair] = r],
         nextPair' = nextPair + 1, deleted' = deleted, r.label # NoName => r.bits # 0,
         NEW O \in SUBSET {<<"priv", nextPair>>, <<"pub", nextPair>>}, token' = token \cup O
  PROVE  /\ pair' \in [Pairs -> PairRecords] /\ nextPair' \in 1..(MaxPairs + 1)
         /\ token' \subseteq Objects /\ pair'[nextPair] = r
         /\ OldKept /\ Older' /\ \A p \in Pairs : PairInv(p)'
<1>1. TypeOK /\ nextPair \in Nat
  BY Typed DEF Base
<1>2. pair' \in [Pairs -> PairRecords] /\ pair'[nextPair] = r
      /\ \A p \in Pairs : p # nextPair => pair'[p] = pair[p]
  BY <1>1 DEF TypeOK
<1>3. nextPair' \in 1..(MaxPairs + 1)
  BY KeysAssumption DEF Pairs
<1>4. token' \subseteq Objects
  BY <1>1, Shapes DEF TypeOK
<1>5. \A o \in O : o[2] = nextPair
  OBVIOUS
<1>6. OldKept
  <2>1. \A p \in Pairs : p < nextPair => pair'[p] = pair[p]
    BY <1>1, <1>2
  <2>2. \A o \in Objects : o[2] < nextPair /\ o \in token' => o \in token
    BY <1>1, <1>5
  <2>3. QED BY <1>1, <2>1, <2>2 DEF OldKept
<1>7. Older'
  <2>1. \A o \in token \cup deleted : o[2] < nextPair /\ o[2] \in Nat
    BY <1>1, HandleFacts DEF Base, Older, TypeOK, Handles
  <2>2. \A o \in token \cup deleted : o[2] < nextPair + 1
    BY <1>1, <2>1
  <2>3. QED BY <1>1, <1>5, <2>2 DEF Older
<1>8. ASSUME NEW p \in Pairs PROVE PairInv(p)'
  <2>1. p \in Nat /\ PairInv(p)
    BY <1>1, Typed DEF Base
  <2>2. CASE p = nextPair
    BY <2>2, <1>1, <1>2 DEF PairInv
  <2>3. CASE p # nextPair
    BY <2>1, <2>3, <1>1, <1>2 DEF PairInv
  <2>4. QED BY <2>2, <2>3
<1>9. QED BY <1>2, <1>3, <1>4, <1>6, <1>7, <1>8

LEMMA ImportRsaBase == ASSUME Base, NEW t \in Threads, ImportRsaKey(t) PROVE Base'
<1>1. PICK n \in Lengths :
        pair' = [pair EXCEPT ![nextPair] = [label |-> NoName, alg |-> "RSA", bits |-> n, use |-> ""]]
  BY DEF ImportRsaKey
<1> DEFINE r == [label |-> NoName, alg |-> "RSA", bits |-> n, use |-> ""]
           o == <<"pub", nextPair>>
<1>2. /\ TypeOK /\ UNCHANGED <<key, deleted, cur, hPriv, name, alg>>
      /\ nextPair \in Pairs /\ nextPair' = nextPair + 1 /\ token' = token \cup {o}
      /\ hPub' = [hPub EXCEPT ![t] = o] /\ Goto(t, "allocImported")
  BY DEF ImportRsaKey, Base
<1>3. r \in PairRecords /\ r.label = NoName
  BY DEF PairRecords, Algs
<1>4. /\ pair' \in [Pairs -> PairRecords] /\ nextPair' \in 1..(MaxPairs + 1)
      /\ token' \subseteq Objects /\ pair'[nextPair] = r
      /\ OldKept /\ Older' /\ \A p \in Pairs : PairInv(p)'
  <2> HIDE DEF r
  <2>1. {o} \in SUBSET {<<"priv", nextPair>>, <<"pub", nextPair>>}
    OBVIOUS
  <2>2. QED BY <1>1, <1>2, <1>3, <2>1, NewPair DEF r
<1>5. o \in Handles /\ o # InvalidHandle
  BY <1>2, Shapes DEF Handles
<1>6. /\ pc' \in [Threads -> Locs] /\ hPub' \in [Threads -> Handles]
      /\ pc'[t] = "allocImported" /\ hPub'[t] = o
      /\ \A u \in Threads : u # t => Stays(u)
  BY <1>2, <1>5 DEF Goto, TypeOK, Locs, Stays
<1>7. TypeOK'
  BY <1>2, <1>4, <1>6 DEF TypeOK
<1>8. OneCall'
  BY <1>2 DEF Base, OneCall
<1>9. hPriv[t] = InvalidHandle /\ name[t] = NoName /\ cur[t] = NoKey
  BY NoStructure DEF Base, CallInv, ImportRsaKey, At, Busy
<1>10. Named(hPriv[t], hPub[t], name[t])'
  <2>1. InvalidHandle[2] < nextPair' /\ o[2] < nextPair'
    BY <1>2, Typed, Shapes
  <2>2. pair'[o[2]].label = NoName /\ o[1] = "pub"
    BY <1>3, <1>4
  <2>3. QED BY <1>2, <1>6, <1>9, <2>1, <2>2 DEF Named
<1>11. CallInv(t)'
  BY <1>2, <1>5, <1>6, <1>9, <1>10 DEF CallInv, Busy, Opening
<1>12. QED BY <1>2, <1>4, <1>6, <1>7, <1>8, <1>11, LocalMove

\* What a generation gives: the pair of the key's name, and a structure that
\* names it
GeneratedPair(t, h, p) ==
  /\ p \in Pairs /\ p = nextPair
  /\ pair' = [pair EXCEPT ![p] = [label |-> key[h].name, alg |-> key[h].alg,
                                  bits |-> key[h].bits, use |-> Use(key[h].alg, key[h].spec)]]
  /\ token' = token \cup {<<"priv", p>>, <<"pub", p>>}
  /\ nextPair' = p + 1
  /\ key' = [key EXCEPT ![h] = Generated(h, p)]

LEMMA GenerateCases ==
  ASSUME Base, NEW t \in Threads, Generate(t)
  PROVE  \E h \in KeyIds :
           /\ cur[t] = h /\ Pending(h) /\ Leave(t) /\ deleted' = deleted
           /\ \/ GeneratedPair(t, h, nextPair)
              \/ UNCHANGED tokenVars /\ key' = [key EXCEPT ![h] = Freed]
              \/ UNCHANGED <<tokenVars, key>>
<1>1. PICK h \in KeyIds : cur[t] = h
  BY DEF Base, TypeOK, CallInv, Generate, At, Busy
<1>2. Pending(h)
  BY <1>1, KeysAssumption DEF Base, CallInv, Generate, At, Pending
<1>3. QED BY <1>1, <1>2 DEF Generate, GeneratedPair

LEMMA GenerateBase == ASSUME Base, NEW t \in Threads, Generate(t) PROVE Base'
<1>1. PICK h \in KeyIds :
        /\ cur[t] = h /\ Pending(h) /\ Leave(t) /\ deleted' = deleted
        /\ \/ GeneratedPair(t, h, nextPair)
           \/ UNCHANGED tokenVars /\ key' = [key EXCEPT ![h] = Freed]
           \/ UNCHANGED <<tokenVars, key>>
  BY GenerateCases
<1>2. /\ TypeOK /\ key[h] \in KeyRecords /\ KeyInv(h) /\ nextPair \in Nat \ {0}
      /\ \A u \in Threads : u # t => cur[u] # h
  BY <1>1, Typed, KeysAssumption DEF Base, OneCall
<1>3. CASE UNCHANGED <<tokenVars, key>>
  BY <1>1, <1>3, ReturnIdle
<1>4. CASE UNCHANGED tokenVars /\ key' = [key EXCEPT ![h] = Freed]
  <2>1. key'[h] = Freed /\ nextPair' \in Nat \ {0} /\ Older' /\ deleted' \subseteq Handles
    BY <1>1, <1>2, <1>4 DEF tokenVars, TypeOK, Base, Older
  <2>2. ~Freed.live /\ ~Freed.fin
    BY DEF Freed
  <2>3. Freed.name = NoName /\ Freed.hPriv = InvalidHandle /\ Freed.hPub = InvalidHandle
    BY DEF Freed
  <2>4. ~Pending(h)'
    BY <2>1, <2>2 DEF Pending
  <2>5. KeyInv(h)'
    BY <2>1, <2>2, <2>3, <2>4, NoObjects
  <2>6. key' = [key EXCEPT ![h] = key'[h]] /\ key'[h] \in KeyRecords
    BY <1>4, <2>1, Shapes
  <2>7. QED BY ZenonT(40), <1>1, <1>2, <1>4, <2>1, <2>5, <2>6, ReturnBase
<1>5. CASE GeneratedPair(t, h, nextPair)
  <2> DEFINE p == nextPair
             r == [label |-> key[h].name, alg |-> key[h].alg, bits |-> key[h].bits,
                   use |-> Use(key[h].alg, key[h].spec)]
             k == Generated(h, p)
             O == {<<"priv", nextPair>>, <<"pub", nextPair>>}
  <2>1. r \in PairRecords
    BY <1>2 DEF PairRecords, KeyRecords, Use
  <2>2. r.label = key[h].name /\ r.bits = key[h].bits /\ r.alg = key[h].alg /\ key[h].bits # 0
        /\ key[h].name # NoName
    BY <1>1, <1>2 DEF KeyInv
  <2>3. /\ p \in Pairs /\ pair' = [pair EXCEPT ![nextPair] = r] /\ token' = token \cup O
        /\ nextPair' = nextPair + 1 /\ key' = [key EXCEPT ![h] = k]
    BY <1>5 DEF GeneratedPair
  <2>4. /\ pair' \in [Pairs -> PairRecords] /\ nextPair' \in 1..(MaxPairs + 1)
        /\ token' \subseteq Objects /\ pair'[nextPair] = r
        /\ OldKept /\ Older' /\ \A q \in Pairs : PairInv(q)'
    <3>1. O \in SUBSET {<<"priv", nextPair>>, <<"pub", nextPair>>}
      OBVIOUS
    <3> HIDE DEF r, O
    <3>2. QED BY <1>1, <2>1, <2>2, <2>3, <3>1, NewPair
  <2>5. /\ <<"priv", p>> \in Handles /\ <<"priv", p>> # InvalidHandle
        /\ <<"pub", p>> \in Handles /\ <<"pub", p>> # InvalidHandle
    BY <2>3, Shapes DEF Handles
  <2>6. k \in KeyRecords
    BY <1>2, <2>5 DEF KeyRecords, Generated
  <2>7. /\ k.hPriv = <<"priv", p>> /\ k.hPub = <<"pub", p>> /\ k.name = key[h].name /\ k.fin
        /\ k.alg = key[h].alg /\ k.bits = key[h].bits
    BY <1>2 DEF KeyRecords, Generated
  <2>8. key' \in [KeyIds -> KeyRecords] /\ key'[h] = k /\ \A g \in KeyIds : g # h => key'[g] = key[g]
    BY <1>2, <2>3, <2>6, KeyWrite
  <2>9. /\ CallTypes' /\ OneCall' /\ CallInv(t)' /\ \A u \in Threads : u # t => Stays(u)
    BY <1>1, <1>2, <2>3, LeaveStep
  <2>10. TypeOK'
    BY <1>1, <1>2, <2>4, <2>8, <2>9 DEF TypeOK, CallTypes
  <2> HIDE DEF k, r
  <2>11. NamedNext(<<"priv", p>>, <<"pub", p>>, key[h].name) /\ LoneNext(<<"priv", p>>, <<"pub", p>>)
    BY <1>2, <2>2, <2>3, <2>4, <2>5 DEF NamedNext, LoneNext
  <2>12. KeyInv(h)'
    BY <2>2, <2>4, <2>5, <2>7, <2>8, <2>11, Finished
  <2>13. QED BY <1>2, <2>4, <2>8, <2>9, <2>10, <2>12, WritingMove
<1>6. QED BY <1>1, <1>3, <1>4, <1>5

LEMMA NextBase == ASSUME Base, [Next]_vars PROVE Base'
<1>1. ASSUME NEW t \in Threads, CreatePersistedKey(t) PROVE Base'
  BY <1>1, CreateBase
<1>2. CASE UNCHANGED vars
  <2>1. UNCHANGED <<token, pair, nextPair, key, deleted, pc, cur, hPriv, hPub, name, alg>>
    BY <1>2 DEF vars, tokenVars, localVars
  <2>2. TypeOK' /\ OneCall' /\ Older' /\ OldKept
    BY <2>1, NothingNew DEF Base, TypeOK, OneCall, Older
  <2>3. \A h \in KeyIds : KeyInv(h)'
    BY <2>1, <2>2, KeyKept
  <2>4. \A t \in Threads : CallInv(t)'
    BY <2>1, <2>2, CallKept
  <2>5. QED BY <2>1, <2>2, <2>3, <2>4, PairsKept DEF Base
<1>3. QED BY <1>1, <1>2, LengthBase, FinalizeBase, GenerateBase, OpenBase, FindPubBase,
     ReadTypeBase, ReadSizeBase, ImportRsaBase, AllocBase, ImportEcBase, DeleteBase,
     DestroyBase, EndBase, FreeBase DEF Next

-----------------------------------------------------------------------------
(* Names: one pair for each                                                 *)

Names1 == NamesReserved /\ OnePairPerName

\* A step that names no pair and reserves no name
LEMMA QuietNames ==
  ASSUME Names1, \A p \in Pairs : pair'[p].label = pair[p].label,
         \A h \in KeyIds : Pending(h)' => Pending(h) /\ key'[h].name = key[h].name
  PROVE  Names1'
<1>1. NamesReserved'
  BY DEF Names1, NamesReserved
<1>2. OnePairPerName'
  BY DEF Names1, OnePairPerName
<1>3. QED BY <1>1, <1>2 DEF Names1

\* A structure is written that is not to be generated.
LEMMA QuietWrite ==
  ASSUME TypeOK, Names1, UNCHANGED pair, NEW h \in KeyIds, NEW k, key' = [key EXCEPT ![h] = k],
         k.fin \/ ~k.live
  PROVE  Names1'
<1>1. key'[h] = k /\ \A g \in KeyIds : g # h => key'[g] = key[g]
  BY DEF TypeOK
<1>2. ASSUME NEW g \in KeyIds, Pending(g)' PROVE Pending(g) /\ key'[g].name = key[g].name
  <2>1. g # h
    BY <1>1, <1>2 DEF Pending
  <2>2. key'[g] = key[g]
    BY <1>1, <2>1
  <2>3. QED BY <1>2, <2>2 DEF Pending
<1>3. QED BY <1>2, QuietNames

LEMMA CreateNames ==
  ASSUME Base, Names1, ~ReuseNames, NEW t \in Threads, CreatePersistedKey(t) PROVE Names1'
<1>1. PICK h \in KeyIds, n \in Names, a \in Algs, spec \in Specs :
       /\ n \notin UsedNames
       /\ key' = [key EXCEPT ![h] = [live |-> TRUE, name |-> n, alg |-> a,
                    bits |-> DefaultBits(a), spec |-> spec, fin |-> FALSE,
                    hPriv |-> InvalidHandle, hPub |-> InvalidHandle]]
  BY DEF CreatePersistedKey
<1>2. key'[h].name = n /\ (\A g \in KeyIds : g # h => key'[g] = key[g]) /\ UNCHANGED pair
  BY <1>1 DEF Base, TypeOK, CreatePersistedKey, tokenVars
<1>3. \A g \in KeyIds : g # h => key'[g].name # n
  BY <1>1, <1>2 DEF UsedNames
<1>4. \A p \in Pairs : pair'[p].label # n
  BY <1>1, <1>2 DEF UsedNames
<1>5. NamesReserved'
  <2> SUFFICES ASSUME NEW g \in KeyIds, Pending(g)'
               PROVE  /\ \A p \in Pairs : pair'[p].label # key'[g].name
                      /\ \A f \in KeyIds : Pending(f)' /\ key'[f].name = key'[g].name => f = g
    BY DEF NamesReserved
  <2>1. CASE g = h
    BY <2>1, <1>2, <1>3, <1>4
  <2>2. CASE g # h
    BY <2>2, <1>2, <1>3 DEF Names1, NamesReserved, Pending
  <2>3. QED BY <2>1, <2>2
<1>6. OnePairPerName'
  BY <1>2 DEF Names1, OnePairPerName
<1>7. QED BY <1>5, <1>6 DEF Names1

LEMMA GenerateNames ==
  ASSUME Base, Names1, NEW t \in Threads, Generate(t) PROVE Names1'
<1>1. PICK h \in KeyIds :
        /\ cur[t] = h /\ Pending(h) /\ Leave(t) /\ deleted' = deleted
        /\ \/ GeneratedPair(t, h, nextPair)
           \/ UNCHANGED tokenVars /\ key' = [key EXCEPT ![h] = Freed]
           \/ UNCHANGED <<tokenVars, key>>
  BY GenerateCases
<1>2. TypeOK
  BY DEF Base
<1>3. CASE UNCHANGED <<tokenVars, key>>
  BY <1>3, QuietNames DEF tokenVars, Pending
<1>4. CASE UNCHANGED tokenVars /\ key' = [key EXCEPT ![h] = Freed]
  <2>1. ~Freed.live
    BY DEF Freed
  <2>2. QED BY <1>2, <1>4, <2>1, QuietWrite DEF tokenVars
<1>5. CASE GeneratedPair(t, h, nextPair)
  <2>1. /\ pair'[nextPair].label = key[h].name
        /\ \A p \in Pairs : p # nextPair => pair'[p] = pair[p]
    BY <1>2, <1>5 DEF GeneratedPair, TypeOK
  <2>2. key'[h].fin /\ \A g \in KeyIds : g # h => key'[g] = key[g]
    <3>1. key'[h] = Generated(h, nextPair) /\ \A g \in KeyIds : g # h => key'[g] = key[g]
      BY <1>2, <1>5 DEF GeneratedPair, TypeOK
    <3>2. Generated(h, nextPair).fin
      BY <1>2, Typed DEF Generated, KeyRecords
    <3>3. QED BY <3>1, <3>2
  <2>3. NamesReserved'
    BY <1>1, <2>1, <2>2 DEF Names1, NamesReserved, Pending
  <2>4. \A p \in Pairs : pair[p].label # key[h].name
    BY <1>1 DEF Names1, NamesReserved
  <2>5. OnePairPerName'
    BY <2>1, <2>4 DEF Names1, OnePairPerName
  <2>6. QED BY <2>3, <2>5 DEF Names1
<1>6. QED BY <1>1, <1>3, <1>4, <1>5

LEMMA NextNames ==
  ASSUME Base, Names1, ~ReuseNames, [Next]_vars PROVE Names1'
<1> USE DEF tokenVars, localVars
<1>1. TypeOK
  BY DEF Base
<1>2. CASE UNCHANGED <<pair, key>>
  BY <1>2, QuietNames DEF Pending
<1>3. ASSUME NEW t \in Threads, SetKeyLength(t) PROVE Names1'
  <2>1. PICK h \in KeyIds, n \in Lengths : key' = [key EXCEPT ![h].bits = n]
    BY <1>3 DEF SetKeyLength
  <2>2. ASSUME NEW g \in KeyIds
        PROVE  key'[g].name = key[g].name /\ key'[g].live = key[g].live /\ key'[g].fin = key[g].fin
    <3>1. CASE g = h
      <4>1. key'[g] = [key[g] EXCEPT !.bits = n] /\ key[g] \in KeyRecords
        BY <1>1, <2>1, <3>1, Typed DEF TypeOK
      <4>2. QED BY <4>1 DEF KeyRecords
    <3>2. CASE g # h
      BY <1>1, <2>1, <3>2 DEF TypeOK
    <3>3. QED BY <3>1, <3>2
  <2>3. \A g \in KeyIds : Pending(g)' => Pending(g)
    BY <2>2 DEF Pending
  <2>4. QED BY <1>3, <2>2, <2>3, QuietNames DEF SetKeyLength
<1>n. ASSUME NEW h \in KeyIds, NEW n, NEW a, NEW b, NEW s, NEW v, NEW u, UNCHANGED pair,
             key' = [key EXCEPT ![h] = [live |-> TRUE, name |-> n, alg |-> a, bits |-> b,
                       spec |-> s, fin |-> TRUE, hPriv |-> v, hPub |-> u]]
      PROVE  Names1'
  <2> DEFINE k == [live |-> TRUE, name |-> n, alg |-> a, bits |-> b, spec |-> s, fin |-> TRUE,
                   hPriv |-> v, hPub |-> u]
  <2>1. k.fin
    OBVIOUS
  <2>2. key' = [key EXCEPT ![h] = k]
    BY <1>n
  <2> HIDE DEF k
  <2>3. QED BY <1>1, <1>n, <2>1, <2>2, QuietWrite
<1>a. ASSUME NEW t \in Threads, ReadSize(t) PROVE Names1'
  <2>1. CASE UNCHANGED key
    BY <1>a, <2>1, <1>2 DEF ReadSize
  <2>2. CASE ~UNCHANGED key
    <3> DEFINE al(n) == IF alg[t] = "EC" /\ n = 0 THEN "" ELSE alg[t]
    <3>1. PICK h \in KeyIds,
               n \in Attribute(hPriv[t], IF pair[hPriv[t][2]].alg = alg[t]
                                        THEN pair[hPriv[t][2]].bits ELSE 0, 0), spec \in Specs :
            key' = [key EXCEPT ![h] = [live |-> TRUE, name |-> name[t], alg |-> al(n),
                      bits |-> n, spec |-> spec, fin |-> TRUE, hPriv |-> hPriv[t], hPub |-> hPub[t]]]
      BY <1>a, <2>2 DEF ReadSize
    <3> HIDE DEF al
    <3>2. UNCHANGED pair
      BY <1>a DEF ReadSize
    <3>3. QED BY <1>n, <3>1, <3>2
  <2>3. QED BY <2>1, <2>2
<1>b. ASSUME NEW t \in Threads, AllocImported(t) PROVE Names1'
  <2>1. CASE UNCHANGED key
    BY <1>b, <2>1, <1>2 DEF AllocImported
  <2>2. CASE ~UNCHANGED key
    <3> DEFINE n == pair[hPub[t][2]].bits
    <3>1. PICK h \in KeyIds :
            key' = [key EXCEPT ![h] = [live |-> TRUE, name |-> NoName, alg |-> "RSA", bits |-> n,
                      spec |-> "", fin |-> TRUE, hPriv |-> InvalidHandle, hPub |-> hPub[t]]]
      BY <1>b, <2>2 DEF AllocImported
    <3> HIDE DEF n
    <3>2. UNCHANGED pair
      BY <1>b DEF AllocImported
    <3>3. QED BY <1>n, <3>1, <3>2
  <2>3. QED BY <2>1, <2>2
<1>4. ASSUME NEW t \in Threads, ImportEcKey(t) PROVE Names1'
  <2> DEFINE n(a) == IF a = "" THEN 0 ELSE DefaultBits(a)
  <2>1. PICK h \in KeyIds, a \in {"EC", ""} :
          key' = [key EXCEPT ![h] = [live |-> TRUE, name |-> NoName, alg |-> a, bits |-> n(a),
                    spec |-> "", fin |-> TRUE, hPriv |-> InvalidHandle, hPub |-> InvalidHandle]]
    BY <1>4 DEF ImportEcKey
  <2> HIDE DEF n
  <2>2. UNCHANGED pair
    BY <1>4 DEF ImportEcKey
  <2>3. QED BY <1>n, <2>1, <2>2
<1>5. ASSUME NEW t \in Threads, ImportRsaKey(t) PROVE Names1'
  <2>1. nextPair \in Pairs /\ PairInv(nextPair) /\ nextPair \in Nat
    BY <1>1, <1>5, Typed DEF ImportRsaKey, Base
  <2>2. pair[nextPair].label = NoName
    BY <2>1 DEF PairInv
  <2>3. PICK n \in Lengths : pair' = [pair EXCEPT ![nextPair] =
                          [label |-> NoName, alg |-> "RSA", bits |-> n, use |-> ""]]
    BY <1>5 DEF ImportRsaKey
  <2>4. \A p \in Pairs : pair'[p].label = pair[p].label
    BY <1>1, <2>1, <2>2, <2>3 DEF TypeOK
  <2>5. UNCHANGED key
    BY <1>5 DEF ImportRsaKey
  <2>6. QED BY <2>4, <2>5, QuietNames DEF Pending
<1>6. ASSUME NEW t \in Threads, DeleteEnd(t) \/ FreeKey(t) PROVE Names1'
  <2>1. PICK h \in KeyIds : key' = [key EXCEPT ![h] = Freed]
    BY <1>6 DEF DeleteEnd, FreeKey, Base, TypeOK, CallInv, At, Busy
  <2>2. ~Freed.live
    BY DEF Freed
  <2>3. QED BY <1>1, <1>6, <2>1, <2>2, QuietWrite DEF DeleteEnd, FreeKey
<1>7. ASSUME NEW t \in Threads, FinalizeKey(t) \/ OpenKey(t) \/ FindPub(t) \/ ReadType(t)
               \/ DeleteKey(t) \/ DestroyPriv(t) \/ DestroyPub(t) PROVE Names1'
  BY <1>7, <1>2 DEF FinalizeKey, OpenKey, FindPub, ReadType, DeleteKey, DestroyPriv, DestroyPub
<1>8. CASE UNCHANGED vars
  BY <1>8, <1>2 DEF vars
<1>9. QED BY <1>3, <1>a, <1>b, <1>4, <1>5, <1>6, <1>7, <1>8, CreateNames, GenerateNames DEF Next

-----------------------------------------------------------------------------
(* Objects: what is destroyed stays destroyed, both halves or none          *)

Half(p) == {<<"priv", p>>, <<"pub", p>>}

\* A step adds objects to the token only under the next number.
LEMMA TokenStep ==
  ASSUME Base, [Next]_vars
  PROVE  \/ token' \subseteq token
         \/ token' \subseteq token \cup Half(nextPair) /\ deleted' = deleted
<1> USE DEF tokenVars, Half
<1>1. ASSUME NEW t \in Threads, DestroyPriv(t) \/ DestroyPub(t) PROVE token' \subseteq token
  BY <1>1, DestroyFacts DEF DestroyPriv, DestroyPub
<1>2. ASSUME NEW t \in Threads, Generate(t)
      PROVE  \/ token' \subseteq token
             \/ token' \subseteq token \cup Half(nextPair) /\ deleted' = deleted
  BY <1>2 DEF Generate
<1>3. ASSUME NEW t \in Threads, ImportRsaKey(t)
      PROVE  token' \subseteq token \cup Half(nextPair) /\ deleted' = deleted
  BY <1>3 DEF ImportRsaKey
<1>4. CASE token' = token
  BY <1>4
<1>5. QED BY <1>1, <1>2, <1>3, <1>4 DEF Next, vars, CreatePersistedKey, SetKeyLength,
   FinalizeKey,
  OpenKey, FindPub, ReadType, ReadSize, AllocImported, ImportEcKey, DeleteKey, DeleteEnd, FreeKey

\* What KSP_DeleteKey reports destroyed
LEMMA DeletedStep ==
  ASSUME Base, [Next]_vars, Reliable("destroy")
  PROVE  \/ deleted' = deleted
         \/ token' = token /\ \A o \in deleted' : o \in deleted \/ o \notin token
<1>1. ASSUME NEW t \in Threads, DeleteEnd(t)
      PROVE  token' = token /\ \A o \in deleted' : o \in deleted \/ o \notin token
  <2>1. key[cur[t]].hPriv \notin token /\ key[cur[t]].hPub \notin token
    BY <1>1 DEF Base, CallInv, DeleteEnd, At
  <2>2. QED BY <1>1, <2>1 DEF DeleteEnd, tokenVars
<1>2. CASE deleted' = deleted
  BY <1>2
<1>3. QED BY <1>1, <1>2 DEF Next, vars, CreatePersistedKey, SetKeyLength, FinalizeKey, Generate,
  OpenKey, FindPub, ReadType, ReadSize, ImportRsaKey, AllocImported, ImportEcKey, DeleteKey,
  DestroyPriv, DestroyPub, FreeKey

LEMMA NextDeleted ==
  ASSUME Base, [Next]_vars, Reliable("destroy"), DeleteDestroys PROVE DeleteDestroys'
<1>1. ASSUME NEW o \in deleted PROVE o \notin Half(nextPair)
  BY Typed DEF Base, Older, Half
<1>2. QED BY <1>1, TokenStep, DeletedStep DEF DeleteDestroys

\* The step of t leaves the other callers and their structures alone.
Apart(t) ==
  \A u \in Threads : u # t =>
    pc'[u] = pc[u] /\ cur'[u] = cur[u] /\ (cur[u] # NoKey => key'[cur[u]] = key[cur[u]])

LEMMA WriteApart ==
  ASSUME Base, NEW t \in Threads, NEW h \in KeyIds,
         \A g \in KeyIds : g # h => key'[g] = key[g], Available(h) \/ Ready(h) \/ cur[t] = h
  PROVE  \A u \in Threads : u # t /\ cur[u] # NoKey => key'[cur[u]] = key[cur[u]]
<1> SUFFICES ASSUME NEW u \in Threads, u # t, cur[u] # NoKey PROVE key'[cur[u]] = key[cur[u]]
  OBVIOUS
<1>1. cur[u] \in KeyIds /\ key[cur[u]].live
  BY DEF Base, TypeOK, CallInv
<1>2. cur[u] # h
  BY <1>1 DEF Available, Ready, Base, OneCall
<1>3. QED BY <1>1, <1>2 DEF Base, TypeOK

\* Every action but the two of C_DestroyObject is apart from the other callers'.
LEMMA EveryApart ==
  ASSUME Base, NEW t \in Threads,
         \/ CreatePersistedKey(t) \/ SetKeyLength(t) \/ FinalizeKey(t) \/ Generate(t)
         \/ OpenKey(t) \/ FindPub(t) \/ ReadType(t) \/ ReadSize(t)
         \/ ImportRsaKey(t) \/ AllocImported(t) \/ ImportEcKey(t)
         \/ DeleteKey(t) \/ DeleteEnd(t) \/ FreeKey(t)
  PROVE  Apart(t) /\ pc[t] # "destroyPub"
<1> USE DEF tokenVars, localVars
<1>1. TypeOK
  BY DEF Base
<1>2. /\ pc[t] # "destroyPub"
      /\ \A u \in Threads : u # t => pc'[u] = pc[u] /\ cur'[u] = cur[u]
  BY <1>1 DEF TypeOK, CreatePersistedKey, SetKeyLength, FinalizeKey, Generate, OpenKey,
     FindPub, ReadType,
     ReadSize, ImportRsaKey, AllocImported, ImportEcKey, DeleteKey, DeleteEnd, FreeKey,
     Enter, Leave, Goto, At
<1> DEFINE Untouched == \A u \in Threads : u # t /\ cur[u] # NoKey => key'[cur[u]] = key[cur[u]]
<1>3. ASSUME key' = key PROVE Untouched
  BY <1>3
<1>4. ASSUME CreatePersistedKey(t) PROVE Untouched
  <2>1. PICK h \in KeyIds : Available(h) /\ \A g \in KeyIds : g # h => key'[g] = key[g]
    BY <1>1, <1>4 DEF CreatePersistedKey, TypeOK
  <2>2. QED BY <2>1, WriteApart
<1>5. ASSUME SetKeyLength(t) PROVE Untouched
  <2>1. PICK h \in KeyIds : Ready(h) /\ \A g \in KeyIds : g # h => key'[g] = key[g]
    BY <1>1, <1>5 DEF SetKeyLength, TypeOK
  <2>2. QED BY <2>1, WriteApart
<1>6. ASSUME ReadSize(t) PROVE Untouched
  <2>1. CASE UNCHANGED key
    BY <1>3, <2>1
  <2>2. CASE ~UNCHANGED key
    <3>1. PICK h \in KeyIds : Available(h) /\ \A g \in KeyIds : g # h => key'[g] = key[g]
      BY <1>1, <1>6, <2>2 DEF ReadSize, TypeOK
    <3>2. QED BY <3>1, WriteApart
  <2>3. QED BY <2>1, <2>2
<1>7. ASSUME AllocImported(t) PROVE Untouched
  <2>1. CASE UNCHANGED key
    BY <1>3, <2>1
  <2>2. CASE ~UNCHANGED key
    <3>1. PICK h \in KeyIds : Available(h) /\ \A g \in KeyIds : g # h => key'[g] = key[g]
      BY <1>1, <1>7, <2>2 DEF AllocImported, TypeOK
    <3>2. QED BY <3>1, WriteApart
  <2>3. QED BY <2>1, <2>2
<1>8. ASSUME ImportEcKey(t) PROVE Untouched
  <2>1. PICK h \in KeyIds : Available(h) /\ \A g \in KeyIds : g # h => key'[g] = key[g]
    BY <1>1, <1>8 DEF ImportEcKey, TypeOK
  <2>2. QED BY <2>1, WriteApart
<1>9. ASSUME DeleteEnd(t) PROVE Untouched
  <2>1. PICK h \in KeyIds : cur[t] = h
    BY <1>9 DEF Base, TypeOK, CallInv, DeleteEnd, At, Busy
  <2>2. \A g \in KeyIds : g # h => key'[g] = key[g]
    BY <1>1, <1>9, <2>1 DEF DeleteEnd, TypeOK
  <2>3. QED BY <2>1, <2>2, WriteApart
<1>10. ASSUME FreeKey(t) PROVE Untouched
  <2>1. PICK h \in KeyIds : Ready(h) /\ \A g \in KeyIds : g # h => key'[g] = key[g]
    BY <1>1, <1>10 DEF FreeKey, TypeOK
  <2>2. QED BY <2>1, WriteApart
<1>11. ASSUME Generate(t) PROVE Untouched
  <2>1. PICK h \in KeyIds :
          /\ cur[t] = h
          /\ \/ GeneratedPair(t, h, nextPair)
             \/ UNCHANGED tokenVars /\ key' = [key EXCEPT ![h] = Freed]
             \/ UNCHANGED <<tokenVars, key>>
    BY <1>11, GenerateCases
  <2>2. \A g \in KeyIds : g # h => key'[g] = key[g]
    BY <1>1, <2>1 DEF GeneratedPair, TypeOK
  <2>3. QED BY <2>1, <2>2, WriteApart
<1>12. Untouched
  BY <1>3, <1>4, <1>5, <1>6, <1>7, <1>8, <1>9, <1>10, <1>11
     DEF FinalizeKey, OpenKey, FindPub, ReadType, ImportRsaKey, DeleteKey
<1>13. QED BY <1>2, <1>12 DEF Apart

\* A step that adds or takes both halves of named pairs, or none
LEMMA HalvesKept ==
  ASSUME Base, HalvesTogether, NEW t \in Threads, Apart(t), pc[t] # "destroyPub",
         \A p \in Pairs : pair'[p].label # NoName =>
           \/ pair[p].label # NoName /\ (<<"priv", p>> \in token' <=> <<"priv", p>> \in token)
                                     /\ (<<"pub", p>> \in token' <=> <<"pub", p>> \in token)
           \/ <<"priv", p>> \in token' /\ <<"pub", p>> \in token'
  PROVE  HalvesTogether'
<1> SUFFICES ASSUME NEW p \in Pairs, pair'[p].label # NoName,
                    ~(<<"priv", p>> \in token' <=> <<"pub", p>> \in token')
             PROVE  \E u \in Threads : pc'[u] = "destroyPub" /\ key'[cur'[u]].hPriv = <<"priv", p>>
  BY DEF HalvesTogether, At
<1>1. PICK u \in Threads : pc[u] = "destroyPub" /\ key[cur[u]].hPriv = <<"priv", p>>
  BY DEF HalvesTogether, At
<1>2. u # t /\ cur[u] # NoKey
  BY <1>1 DEF Base, CallInv, Busy
<1>3. QED BY <1>1, <1>2 DEF Apart

\* Two objects of a structure that have the same label are of one pair.
LEMMA SamePair ==
  ASSUME Base, OnePairPerName, NEW h \in KeyIds,
         key[h].hPriv # InvalidHandle, key[h].hPub # InvalidHandle
  PROVE  key[h].hPriv[2] = key[h].hPub[2]
<1>1. key[h].hPriv[2] \in Pairs /\ key[h].hPub[2] \in Pairs
  BY Typed, HandleFacts DEF Base
<1>2. QED BY <1>1 DEF Base, KeyInv, Named, OnePairPerName

LEMMA DestroyHalves ==
  ASSUME Base, OnePairPerName, HalvesTogether, Reliable("destroy"), Reliable("search"),
         NEW t \in Threads, DestroyPriv(t) \/ DestroyPub(t)
  PROVE  HalvesTogether'
<1>1. PICK h \in KeyIds : cur[t] = h
  BY DEF Base, TypeOK, CallInv, DestroyPriv, DestroyPub, At, Busy
<1>2. /\ TypeOK /\ UNCHANGED <<pair, key, cur>> /\ KeyInv(h)
      /\ key[h].hPriv \in Handles /\ key[h].hPub \in Handles
      /\ InvalidHandle \notin token
  BY Typed, Shapes DEF Base, DestroyPriv, DestroyPub, TypeOK
<1> SUFFICES ASSUME NEW p \in Pairs, pair[p].label # NoName,
                    ~(<<"priv", p>> \in token' <=> <<"pub", p>> \in token')
             PROVE  \E u \in Threads : pc'[u] = "destroyPub" /\ key[cur[u]].hPriv = <<"priv", p>>
  BY <1>2 DEF HalvesTogether, At
<1>3. ASSUME NEW u \in Threads, u # t, pc[u] = "destroyPub" PROVE pc'[u] = "destroyPub"
  BY <1>2, <1>3 DEF DestroyPriv, DestroyPub, Goto, TypeOK
<1>4. CASE DestroyPriv(t)
  <2>1. token' = token \ {key[h].hPriv} /\ pc[t] = "destroyPriv" /\ pc'[t] = "destroyPub"
    BY <1>1, <1>2, <1>4, DestroyFacts DEF DestroyPriv, At, Goto, TypeOK
  <2>2. CASE key[h].hPriv = <<"priv", p>>
    BY <1>1, <2>1, <2>2
  <2>3. CASE key[h].hPriv # <<"priv", p>>
    <3>1. key[h].hPriv # <<"pub", p>>
      <4>1. key[h].hPriv = InvalidHandle \/ key[h].hPriv[1] = "priv"
        BY <1>2 DEF KeyInv, Named
      <4>2. QED BY <4>1 DEF InvalidHandle
    <3>2. ~(<<"priv", p>> \in token <=> <<"pub", p>> \in token)
      BY <2>1, <2>3, <3>1
    <3>3. PICK u \in Threads : pc[u] = "destroyPub" /\ key[cur[u]].hPriv = <<"priv", p>>
      BY <3>2 DEF HalvesTogether, At
    <3>4. u # t
      BY <2>1, <3>3
    <3>5. QED BY <1>3, <3>3, <3>4
  <2>4. QED BY <2>2, <2>3
<1>5. CASE DestroyPub(t)
  <2>1. /\ token' = token \ {key[h].hPub} /\ pc[t] = "destroyPub" /\ key[h].hPriv \notin token
    BY <1>1, <1>2, <1>5, DestroyFacts DEF DestroyPub, At, Base, CallInv
  <2>2. CASE key[h].hPriv = <<"priv", p>>
    <3>1. <<"priv", p>> \notin token'
      BY <2>1, <2>2
    <3>2. CASE key[h].hPub = InvalidHandle
      <4>1. key[h].hPriv # InvalidHandle /\ key[h].hPriv[2] = p
        BY <2>2 DEF InvalidHandle
      <4>2. <<"pub", p>> \notin token
        BY <1>2, <3>2, <4>1 DEF KeyInv, LoneIsGone
      <4>3. QED BY <2>1, <3>1, <4>2
    <3>3. CASE key[h].hPub # InvalidHandle
      <4>1. key[h].hPriv # InvalidHandle
        BY <2>2 DEF InvalidHandle
      <4>2. key[h].hPub[2] = p /\ key[h].hPub[1] = "pub"
        BY <1>2, <2>2, <3>3, <4>1, SamePair DEF KeyInv, Named
      <4>3. key[h].hPub = <<"pub", p>>
        BY <1>2, <3>3, <4>2, HandleFacts
      <4>4. QED BY <2>1, <3>1, <4>3
    <3>4. QED BY <3>2, <3>3
  <2>3. CASE key[h].hPriv # <<"priv", p>>
    <3>1. key[h].hPub # <<"priv", p>>
      <4>1. key[h].hPub = InvalidHandle \/ key[h].hPub[1] = "pub"
        BY <1>2 DEF KeyInv, Named
      <4>2. QED BY <4>1 DEF InvalidHandle
    <3>2. key[h].hPub # <<"pub", p>>
      <4>1. SUFFICES ASSUME key[h].hPub = <<"pub", p>> PROVE FALSE
        OBVIOUS
      <4>2. key[h].hPub # InvalidHandle /\ key[h].hPub[2] = p
        BY <4>1 DEF InvalidHandle
      <4>3. key[h].hPriv # InvalidHandle
        BY <1>2, <4>2 DEF KeyInv, Named
      <4>4. key[h].hPriv[2] = p /\ key[h].hPriv[1] = "priv"
        BY <1>2, <4>2, <4>3, SamePair DEF KeyInv, Named
      <4>5. QED BY <1>2, <2>3, <4>3, <4>4, HandleFacts
    <3>3. PICK u \in Threads : pc[u] = "destroyPub" /\ key[cur[u]].hPriv = <<"priv", p>>
      BY <2>1, <3>1, <3>2 DEF HalvesTogether, At
    <3>4. u # t
      BY <1>1, <2>3, <3>3
    <3>5. QED BY <1>3, <3>3, <3>4
  <2>4. QED BY <2>2, <2>3
<1>6. QED BY <1>4, <1>5

LEMMA NextHalves ==
  ASSUME Base, [Next]_vars, OnePairPerName, HalvesTogether, Reliable("destroy"),
         Reliable("search")
  PROVE  HalvesTogether'
<1>1. CASE UNCHANGED vars
  BY <1>1 DEF vars, tokenVars, HalvesTogether, At
<1>2. ASSUME NEW t \in Threads, Apart(t), pc[t] # "destroyPub", UNCHANGED <<pair, token>>
      PROVE  HalvesTogether'
  BY <1>2, HalvesKept
<1>3. ASSUME NEW t \in Threads, Generate(t) PROVE HalvesTogether'
  <2>1. Apart(t) /\ pc[t] # "destroyPub"
    BY <1>3, EveryApart
  <2>2. CASE UNCHANGED tokenVars
    BY <1>2, <2>1, <2>2 DEF tokenVars
  <2>3. CASE ~UNCHANGED tokenVars
    <3>1. PICK h \in KeyIds : GeneratedPair(t, h, nextPair)
      BY <1>3, <2>3, GenerateCases DEF tokenVars
    <3>2. \A p \in Pairs : p # nextPair => pair'[p] = pair[p]
      BY <3>1 DEF GeneratedPair, Base, TypeOK
    <3>3. token' = token \cup Half(nextPair)
      BY <3>1 DEF GeneratedPair, Half
    <3>4. QED BY <2>1, <3>2, <3>3, HalvesKept DEF Half
  <2>4. QED BY <2>2, <2>3
<1>4. ASSUME NEW t \in Threads, ImportRsaKey(t) PROVE HalvesTogether'
  <2>1. Apart(t) /\ pc[t] # "destroyPub"
    BY <1>4, EveryApart
  <2>2. PICK n \in Lengths : pair' = [pair EXCEPT ![nextPair] =
                          [label |-> NoName, alg |-> "RSA", bits |-> n, use |-> ""]]
    BY <1>4 DEF ImportRsaKey
  <2>3. /\ nextPair \in Pairs /\ token' = token \cup {<<"pub", nextPair>>}
        /\ pair'[nextPair].label = NoName
        /\ \A p \in Pairs : p # nextPair => pair'[p] = pair[p]
    BY <1>4, <2>2 DEF ImportRsaKey, Base, TypeOK
  <2>4. QED BY <2>1, <2>3, HalvesKept
<1>5. QED BY ZenonT(40), <1>1, <1>2, <1>3, <1>4, EveryApart, DestroyHalves
   DEF Next, tokenVars, CreatePersistedKey, SetKeyLength, FinalizeKey, OpenKey, FindPub,
       ReadType, ReadSize, AllocImported, ImportEcKey, DeleteKey, DeleteEnd, FreeKey

-----------------------------------------------------------------------------
(* The theorems                                                             *)

LEMMA NextIInv == IInv /\ [Next]_vars => IInv'
<1> SUFFICES ASSUME IInv, [Next]_vars PROVE IInv'
  OBVIOUS
<1>1. Base'
  BY NextBase DEF IInv
<1>2. ~ReuseNames => NamesReserved' /\ OnePairPerName'
  BY NextNames DEF IInv, Names1
<1>3. Reliable("destroy") => DeleteDestroys'
  BY NextDeleted DEF IInv
<1>4. Reliable("destroy") /\ Reliable("search") /\ ~ReuseNames => HalvesTogether'
  BY NextHalves DEF IInv
<1>5. QED BY <1>1, <1>2, <1>3, <1>4 DEF IInv, Reliable

\* The inductive invariant of ksp_key.c over a token, for every set of library
\* calls that may fail (searches, destructions, reads of attributes) and names
\* used once or more: each part says which failures it excludes.
THEOREM Invariance == Spec => []IInv
BY InitIInv, NextIInv, PTL DEF Spec

\* Types: every handle names an object of the token's numbering, or none.
THEOREM TypeCorrect == Spec => []TypeOK
<1>1. IInv => TypeOK
  BY DEF IInv, Base
<1>2. QED BY <1>1, Invariance, PTL

\* When callers create every name once, KSP_FinalizeKey and its retries
\* generate one pair for it.
THEOREM OneForName == ASSUME ~ReuseNames PROVE Spec => []OnePairPerName
<1>1. IInv => OnePairPerName
  BY DEF IInv
<1>2. QED BY <1>1, Invariance, PTL

\* The two searches of KSP_OpenKey find the halves of one pair.
THEOREM PairFound == ASSUME ~ReuseNames PROVE Spec => []HandleIsPair
<1>1. IInv => HandleIsPair
  <2> SUFFICES ASSUME IInv, NEW h \in KeyIds
               PROVE  /\ key[h].hPriv[1] \in {"none", "priv"} /\ key[h].hPub[1] \in {"none", "pub"}
                      /\ key[h].hPriv # InvalidHandle /\ key[h].hPub # InvalidHandle =>
                           key[h].hPriv[2] = key[h].hPub[2]
    BY DEF HandleIsPair
  <2>1. InvalidHandle[1] = "none"
    BY DEF InvalidHandle
  <2>2. KeyInv(h)
    BY DEF IInv, Base
  <2>3. QED BY <2>1, <2>2, SamePair DEF IInv, KeyInv, Named
<1>2. QED BY <1>1, Invariance, PTL

\* With a library that answers C_GetAttributeValue, a handle describes its key.
THEOREM TellsTheTruth == ASSUME Reliable("attribute") PROVE Spec => []HandleDescribesKey
<1>1. IInv => HandleDescribesKey
  <2> SUFFICES ASSUME IInv, NEW h \in KeyIds, key[h].fin, key[h].hPriv \in token
               PROVE  /\ key[h].name = pair[key[h].hPriv[2]].label
                      /\ key[h].alg = pair[key[h].hPriv[2]].alg
                      /\ key[h].bits = pair[key[h].hPriv[2]].bits
    BY DEF HandleDescribesKey
  <2>1. key[h].hPriv # InvalidHandle
    BY Shapes DEF IInv, Base, TypeOK
  <2>2. QED BY <2>1 DEF IInv, Base, KeyInv, Named
<1>2. QED BY <1>1, Invariance, PTL

\* With a library that destroys what it is asked to and fails no search, a
\* failed or concurrent call leaves no half of a pair.  Without the second
\* KSP_OpenKey may return a handle without the public half that is there, and
\* KSP_DeleteKey then destroys the private one only.
THEOREM NoHalfLeft ==
  ASSUME Reliable("destroy"), Reliable("search"), ~ReuseNames
  PROVE  Spec => []HalvesTogether
<1>1. IInv => HalvesTogether
  BY DEF IInv
<1>2. QED BY <1>1, Invariance, PTL

\* With a library that destroys what it is asked to, KSP_DeleteKey reports success
\* only when the objects its handle names are gone for good.
THEOREM DeletedIsGone == ASSUME Reliable("destroy") PROVE Spec => []DeleteDestroys
<1>1. IInv => DeleteDestroys
  BY DEF IInv
<1>2. QED BY <1>1, Invariance, PTL

-----------------------------------------------------------------------------
(* What no call may do, whatever names callers use                          *)

\* Every action but C_DestroyObject takes nothing from the token.
LEMMA NothingTaken ==
  ASSUME NEW t \in Threads,
         \/ CreatePersistedKey(t) \/ SetKeyLength(t) \/ FinalizeKey(t) \/ Generate(t)
         \/ OpenKey(t) \/ FindPub(t) \/ ReadType(t) \/ ReadSize(t)
         \/ ImportRsaKey(t) \/ AllocImported(t) \/ ImportEcKey(t)
         \/ DeleteKey(t) \/ DeleteEnd(t) \/ FreeKey(t)
  PROVE  token \subseteq token'
<1>1. CASE Generate(t)
  BY <1>1 DEF Generate, tokenVars
<1>2. CASE ImportRsaKey(t)
  BY <1>2 DEF ImportRsaKey
<1>3. CASE ~Generate(t) /\ ~ImportRsaKey(t)
  BY <1>3 DEF CreatePersistedKey, SetKeyLength, FinalizeKey, OpenKey, FindPub, ReadType,
     ReadSize, AllocImported, ImportEcKey, DeleteKey, DeleteEnd, FreeKey, tokenVars
<1>4. QED BY <1>1, <1>2, <1>3

\* What C_DestroyObject is called with in KSP_DeleteKey
Victim(t) == IF pc[t] = "destroyPriv" THEN key[cur[t]].hPriv ELSE key[cur[t]].hPub

\* An object that leaves the token has the name of the handle being deleted.
LEMMA DestroysNamed ==
  ASSUME Base, Next, NEW o \in token, o \notin token'
  PROVE  \E t \in Threads :
           /\ pc[t] \in {"destroyPriv", "destroyPub"}
           /\ o = Victim(t)
           /\ pair[o[2]].label = key[cur[t]].name
<1>1. PICK t \in Threads : DestroyPriv(t) \/ DestroyPub(t)
  BY NothingTaken DEF Next
<1>2. pc[t] \in {"destroyPriv", "destroyPub"} /\ o = Victim(t)
  <2>1. CASE DestroyPriv(t)
    BY <2>1 DEF DestroyPriv, DestroyObject, At, Victim
  <2>2. CASE DestroyPub(t)
    BY <2>2 DEF DestroyPub, DestroyObject, At, Victim
  <2>3. QED BY <1>1, <2>1, <2>2
<1>3. cur[t] \in KeyIds
  BY <1>2 DEF Base, CallInv, Busy, TypeOK
<1>4. o # InvalidHandle
  BY Shapes DEF Base, TypeOK
<1>5. Named(key[cur[t]].hPriv, key[cur[t]].hPub, key[cur[t]].name)
  BY <1>3 DEF Base, KeyInv
<1>6. pair[o[2]].label = key[cur[t]].name
  BY <1>2, <1>4, <1>5 DEF Victim, Named
<1>7. QED BY <1>2, <1>6

\* KSP_DeleteKey destroys objects of its handle's name only, even when callers
\* use a name twice and a handle mixes two keys.
THEOREM NoOtherNameDestroyed == Spec => DestroysOwnName
<1> DEFINE Own ==
      \A o \in token \ token' : \E t \in Threads :
       /\ pc[t] \in {"destroyPriv", "destroyPub"}
       /\ o = IF pc[t] = "destroyPriv" THEN key[cur[t]].hPriv ELSE key[cur[t]].hPub
       /\ pair[o[2]].label = key[cur[t]].name
<1>1. Base /\ Next => Own
  BY DestroysNamed DEF Victim
<1>2. IInv /\ [Next]_vars => [Own]_vars
  BY <1>1 DEF IInv
<1>3. DestroysOwnName <=> [][Own]_vars
  BY DEF DestroysOwnName
<1> HIDE DEF Own
<1>4. QED BY <1>2, <1>3, Invariance, PTL DEF Spec

\* What a step may do to a structure in use
Settled(h) ==
  key[h].live /\ key'[h].live =>
    /\ key[h].fin => key'[h] = key[h]
    /\ key'[h].name = key[h].name /\ key'[h].alg = key[h].alg /\ key'[h].spec = key[h].spec

\* A step that writes a structure nobody has, or frees one, changes none in use.
LEMMA WriteSettles ==
  ASSUME TypeOK, NEW g \in KeyIds, NEW k, key' = [key EXCEPT ![g] = k],
         Available(g) \/ k = Freed
  PROVE  \A h \in KeyIds : Settled(h)
<1>1. key \in [KeyIds -> KeyRecords]
  BY DEF TypeOK
<1>2. key'[g] = k /\ \A h \in KeyIds : h # g => key'[h] = key[h]
  BY <1>1
<1>3. ~Freed.live
  BY DEF Freed
<1>4. Settled(g)
  BY <1>2, <1>3 DEF Settled, Available
<1>5. QED BY <1>2, <1>4 DEF Settled

\* Every step leaves finalised structures as they are.
LEMMA StepSettles ==
  ASSUME Base, Next
  PROVE  \A h \in KeyIds : Settled(h)
<1>1. TypeOK
  BY DEF Base
<1>2. CASE UNCHANGED key
  BY <1>2 DEF Settled
<1>3. ASSUME NEW t \in Threads, CreatePersistedKey(t) PROVE \A h \in KeyIds : Settled(h)
  BY <1>1, <1>3, WriteSettles DEF CreatePersistedKey
<1>4. ASSUME NEW t \in Threads, SetKeyLength(t) PROVE \A h \in KeyIds : Settled(h)
  <2>1. PICK g \in KeyIds, n \in Lengths :
          ~key[g].fin /\ key' = [key EXCEPT ![g].bits = n]
    BY <1>4 DEF SetKeyLength
  <2>2. key[g] \in KeyRecords
    BY <1>1 DEF TypeOK
  <2>3. /\ \A h \in KeyIds : h # g => key'[h] = key[h]
        /\ key'[g] = [key[g] EXCEPT !.bits = n]
    BY <1>1, <2>1 DEF TypeOK
  <2>4. /\ key'[g].name = key[g].name /\ key'[g].alg = key[g].alg
        /\ key'[g].spec = key[g].spec
    BY <2>2, <2>3 DEF KeyRecords
  <2>5. QED BY <2>1, <2>3, <2>4 DEF Settled
<1>5. ASSUME NEW t \in Threads, Generate(t) PROVE \A h \in KeyIds : Settled(h)
  <2>1. PICK g \in KeyIds :
          /\ Pending(g)
          /\ \/ key' = [key EXCEPT ![g] = Generated(g, nextPair)]
             \/ key' = [key EXCEPT ![g] = Freed]
             \/ UNCHANGED key
    BY <1>5, GenerateCases DEF GeneratedPair
  <2>2. CASE key' = [key EXCEPT ![g] = Generated(g, nextPair)]
    <3>1. key[g] \in KeyRecords
      BY <1>1 DEF TypeOK
    <3>2. /\ \A h \in KeyIds : h # g => key'[h] = key[h]
          /\ key'[g] = Generated(g, nextPair)
      BY <1>1, <2>2 DEF TypeOK
    <3>3. /\ key'[g].name = key[g].name /\ key'[g].alg = key[g].alg
          /\ key'[g].spec = key[g].spec
      BY <3>1, <3>2 DEF KeyRecords, Generated
    <3>4. QED BY <2>1, <3>2, <3>3 DEF Settled, Pending
  <2>3. CASE key' = [key EXCEPT ![g] = Freed]
    BY <1>1, <2>3, WriteSettles
  <2>4. QED BY <1>2, <2>1, <2>2, <2>3
<1>6. ASSUME NEW t \in Threads, ReadSize(t) PROVE \A h \in KeyIds : Settled(h)
  BY <1>1, <1>2, <1>6, WriteSettles DEF ReadSize
<1>7. ASSUME NEW t \in Threads, AllocImported(t) PROVE \A h \in KeyIds : Settled(h)
  BY <1>1, <1>2, <1>7, WriteSettles DEF AllocImported
<1>8. ASSUME NEW t \in Threads, ImportEcKey(t) PROVE \A h \in KeyIds : Settled(h)
  BY <1>1, <1>8, WriteSettles DEF ImportEcKey
<1>9. ASSUME NEW t \in Threads, FreeKey(t) PROVE \A h \in KeyIds : Settled(h)
  BY <1>1, <1>9, WriteSettles DEF FreeKey
<1>10. ASSUME NEW t \in Threads, DeleteEnd(t) PROVE \A h \in KeyIds : Settled(h)
  <2>1. cur[t] \in KeyIds
    BY <1>10 DEF DeleteEnd, At, Base, CallInv, Busy, TypeOK
  <2>2. QED BY <1>1, <1>10, <2>1, WriteSettles DEF DeleteEnd
<1>11. QED
  BY <1>2, <1>3, <1>4, <1>5, <1>6, <1>7, <1>8, <1>9, <1>10 DEF Next, FinalizeKey, OpenKey,
     FindPub, ReadType, ImportRsaKey, DeleteKey, DestroyPriv, DestroyPub

\* A finalised handle never changes, a deferred one keeps its name, algorithm
\* and purpose: KSP_SetKeyProperty reaches the length of a deferred key only.
THEOREM HandlesSettle == Spec => HandleSettled
<1> DEFINE Keeps ==
      \A h \in KeyIds : key[h].live /\ key'[h].live =>
       /\ key[h].fin => key'[h] = key[h]
       /\ /\ key'[h].name = key[h].name
          /\ key'[h].alg = key[h].alg
          /\ key'[h].spec = key[h].spec
<1>1. Base /\ Next => Keeps
  BY StepSettles DEF Settled
<1>2. IInv /\ [Next]_vars => [Keeps]_vars
  BY <1>1 DEF IInv
<1>3. HandleSettled <=> [][Keeps]_vars
  BY DEF HandleSettled
<1> HIDE DEF Keeps
<1>4. QED BY <1>2, <1>3, Invariance, PTL DEF Spec

\* A step writes the record of the next pair only.
LEMMA PairsStand ==
  ASSUME Base, Next, NEW p \in Pairs, p < nextPair
  PROVE  pair'[p] = pair[p]
<1>1. pair \in [Pairs -> PairRecords] /\ p # nextPair
  <2>1. TypeOK
    BY DEF Base
  <2>2. p \in Nat /\ nextPair \in Nat
    BY <2>1, Typed
  <2>3. pair \in [Pairs -> PairRecords]
    BY <2>1 DEF TypeOK
  <2>4. QED BY <2>2, <2>3
<1>2. ASSUME NEW t \in Threads, Generate(t) PROVE pair'[p] = pair[p]
  BY <1>1, <1>2 DEF Generate, tokenVars
<1>3. ASSUME NEW t \in Threads, ImportRsaKey(t) PROVE pair'[p] = pair[p]
  BY <1>1, <1>3 DEF ImportRsaKey
<1>4. QED
  BY <1>2, <1>3 DEF Next, tokenVars, CreatePersistedKey, SetKeyLength, FinalizeKey, OpenKey,
     FindPub, ReadType, ReadSize, AllocImported, ImportEcKey, DeleteKey, DestroyPriv,
     DestroyPub, DeleteEnd, FreeKey

\* The token only gains new objects, and a pair stays what it was generated as.
THEOREM NothingReturns == Spec => GoneForGood
<1> DEFINE Gone ==
      /\ \A p \in Pairs : p < nextPair => pair'[p] = pair[p]
      /\ \A o \in Objects : o[2] < nextPair /\ o \notin token => o \notin token'
<1>1. Base /\ Next => Gone
  <2>1. SUFFICES ASSUME Base, Next PROVE Gone
    OBVIOUS
  <2>2. \A o \in Half(nextPair) : ~(o[2] < nextPair)
    BY <2>1, Typed DEF Half, Base
  <2>3. \A o \in Objects : o[2] < nextPair /\ o \notin token => o \notin token'
    BY <2>1, <2>2, TokenStep
  <2>4. QED BY <2>1, <2>3, PairsStand
<1>2. IInv /\ [Next]_vars => [Gone]_vars
  BY <1>1 DEF IInv
<1>3. GoneForGood <=> [][Gone]_vars
  BY DEF GoneForGood
<1> HIDE DEF Gone
<1>4. QED BY <1>2, <1>3, Invariance, PTL DEF Spec
=============================================================================
