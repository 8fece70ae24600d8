---------------------------- MODULE KspEnumProof ----------------------------
(***************************************************************************)
(* Proofs about KSP_EnumKeys, for any number of callers and keys and any   *)
(* size of the handle buffer.  The argument: the array of a snapshot names *)
(* no key twice and dwIndex only grows, so a key is read once; each key an *)
(* enumeration has passed was named, has gone, or took one of the failures *)
(* with it (CallerInv).  A step of one caller moves only its own           *)
(* enumeration, and the keys that come and go only take from the sets that *)
(* are counted (Unmoved).                                                  *)
(***************************************************************************)
EXTENDS KspEnum, FiniteSetTheorems, TLAPS

\* An array of Arrays has the domain its count says.
LEMMA ArrayFacts ==
  ASSUME NEW c \in Callers, phObjects[c] \in Arrays
  PROVE  /\ dwCount(c) \in 0..MaxFound
         /\ phObjects[c] \in [1..dwCount(c) -> Objects]
<1>1. PICK n \in 0..MaxFound : phObjects[c] \in [1..n -> Objects]
  BY DEF Arrays
<1>2. n \in Nat /\ n <= MaxFound
  BY EnumAssumption
<1>3. Cardinality(1..n) = n
  BY <1>2, FS_Interval
<1>4. QED BY <1>1, <1>2, <1>3 DEF dwCount

\* The keys counted against the failures are finitely many.
LEMMA Counted ==
  ASSUME TypeOK, NEW c \in Callers, NEW S
  PROVE  IsFiniteSet((since[c] \cap S) \ named[c])
<1>1. (since[c] \cap S) \ named[c] \in SUBSET Objects
  BY DEF TypeOK
<1>2. QED BY <1>1, FS_Subset, EnumAssumption

\* What is left of the keys counted is not more of them.
LEMMA FewerCounted ==
  ASSUME NEW S, NEW T, IsFiniteSet(S), T \subseteq S
  PROVE  Cardinality(T) <= Cardinality(S)
BY FS_Subset

\* The empty array is an array, injective, and of count 0.
LEMMA EmptyFacts ==
  /\ Empty \in Arrays /\ IsInjective(Empty)
  /\ Cardinality(DOMAIN Empty) = 0
<1>1. Empty \in [1..0 -> Objects] /\ DOMAIN Empty = {}
  BY DEF Empty
<1>2. 0 \in 0..MaxFound
  BY EnumAssumption
<1>3. QED BY <1>1, <1>2, FS_EmptySet DEF Arrays, IsInjective

\* An enumeration at its start keeps its invariant.
LEMMA Fresh ==
  ASSUME NEW c \in Callers, phObjects[c] = Empty, dwIndex[c] = 0, named[c] = {},
         failed[c] = 0, since[c] \subseteq token, pc[c] # "read"
  PROVE  CallerInv(c)
<1>1. dwCount(c) = 0 /\ Passed(c) = {}
  BY EmptyFacts DEF dwCount, Passed, Reached
<1>2. Cardinality((since[c] \cap Passed(c)) \ named[c]) = 0
  BY <1>1, FS_EmptySet
<1>3. QED BY <1>1, <1>2, EmptyFacts DEF CallerInv, Reached

\* The initial state satisfies the inductive invariant.
LEMMA InitIInv == Init => IInv
<1> SUFFICES ASSUME Init PROVE IInv
  OBVIOUS
<1>1. TypeOK
  BY EmptyFacts, EnumAssumption DEF Init, TypeOK, Locs
<1>2. ASSUME NEW c \in Callers PROVE CallerInv(c)
  BY Fresh DEF Init
<1>3. QED BY <1>1, <1>2 DEF IInv

\* A caller whose call does not move keeps its invariant, as long as the keys
\* that were there throughout are among those that are there.
LEMMA Unmoved ==
  ASSUME TypeOK, NEW c \in Callers, CallerInv(c),
         phObjects'[c] = phObjects[c], dwIndex'[c] = dwIndex[c], pc'[c] = pc[c],
         status'[c] = status[c], named'[c] = named[c], failed'[c] = failed[c],
         since'[c] \subseteq since[c], since'[c] \subseteq token'
  PROVE  CallerInv(c)'
<1>1. Passed(c)' = Passed(c) /\ Reached(c)' = Reached(c) /\ dwCount(c)' = dwCount(c)
  BY DEF Passed, Reached, dwCount
<1> DEFINE S == (since[c] \cap Passed(c)) \ named[c]
           T == (since'[c] \cap Passed(c)) \ named[c]
<1>2. Cardinality(T) <= Cardinality(S)
  BY Counted, FewerCounted
<1>3. IsFiniteSet(S) /\ IsFiniteSet(T)
  <2>1. T \in SUBSET S
    OBVIOUS
  <2>2. IsFiniteSet(S)
    BY Counted
  <2> HIDE DEF S, T
  <2>3. QED BY <2>1, <2>2, FS_Subset
<1>4. Cardinality(S) \in Nat /\ Cardinality(T) \in Nat /\ failed[c] \in Nat
  BY <1>3, FS_CardinalityType, EnumAssumption DEF TypeOK
<1>5. Cardinality(T) <= failed[c]
  BY <1>2, <1>4 DEF CallerInv
<1>6. T = ((since[c] \cap Passed(c)) \ named[c])'
  BY <1>1
<1>7. Cardinality((since[c] \cap Passed(c)) \ named[c])' <= failed'[c]
  BY <1>5, <1>6
<1>8. IsInjective(phObjects[c])'
  BY DEF CallerInv
<1> HIDE DEF S, T
<1>9. QED BY <1>1, <1>7, <1>8 DEF CallerInv, Ended, At

\* A call that begins or ends without moving its enumeration
LEMMA SamePlace ==
  ASSUME IInv, NEW c \in Callers, UNCHANGED <<phObjects, dwIndex, since, named, failed, token>>,
         pc[c] # "read", pc'[c] \notin {"read", "search"},
         Ended(c)' => dwIndex[c] = dwCount(c)
  PROVE  CallerInv(c)'
<1>1. Passed(c)' = Passed(c) /\ Reached(c)' = Reached(c) /\ dwCount(c)' = dwCount(c)
  BY DEF Passed, Reached, dwCount
<1>2. CallerInv(c)
  BY DEF IInv
<1>3. IsInjective(phObjects[c])' /\ (Cardinality((since[c] \cap Passed(c)) \ named[c]) <= failed[c])'
  BY <1>1, <1>2 DEF CallerInv
<1>4. QED BY <1>1, <1>2, <1>3 DEF CallerInv

\* One more key is passed.
LEMMA PassOne ==
  ASSUME NEW c \in Callers, phObjects'[c] = phObjects[c], Reached(c) \in Nat,
         Reached(c)' = Reached(c) + 1
  PROVE  Passed(c)' = Passed(c) \cup {phObjects[c][Reached(c) + 1]}
<1>1. 1..(Reached(c) + 1) = (1..Reached(c)) \cup {Reached(c) + 1}
  OBVIOUS
<1>2. QED BY <1>1 DEF Passed

\* One more element counts for one at most.
LEMMA CountOne ==
  ASSUME NEW S, NEW T, NEW x, IsFiniteSet(S), T \subseteq S \cup {x}
  PROVE  /\ Cardinality(S) \in Nat /\ Cardinality(T) \in Nat
         /\ Cardinality(T) <= Cardinality(S) + 1
<1>1. IsFiniteSet(S \cup {x}) /\ Cardinality(S \cup {x}) <= Cardinality(S) + 1
  <2>1. IsFiniteSet(S \cup {x})
        /\ Cardinality(S \cup {x}) = IF x \in S THEN Cardinality(S) ELSE Cardinality(S) + 1
    BY FS_AddElement
  <2>2. Cardinality(S) \in Nat
    BY FS_CardinalityType
  <2>3. QED BY <2>1, <2>2
<1>2. IsFiniteSet(T) /\ Cardinality(T) <= Cardinality(S \cup {x})
  <2>1. T \in SUBSET (S \cup {x})
    OBVIOUS
  <2>2. QED BY <2>1, <1>1, FS_Subset
<1>3. QED BY <1>1, <1>2, FS_CardinalityType

\* A first call begins an enumeration, or fails.
LEMMA FirstCallStep == ASSUME IInv, NEW c \in Callers, FirstCall(c) PROVE IInv'
<1> USE DEF FirstCall, At, Goto, Return, tokenVars, enumVars, historyVars
<1>1. TypeOK'
  BY EmptyFacts, EnumAssumption DEF IInv, TypeOK, Locs
<1>2. CallerInv(c)'
  <2>1. CASE Return(c, "NTE_NO_MEMORY") /\ UNCHANGED <<enumVars, historyVars>>
    BY <2>1, SamePlace DEF IInv, TypeOK, Ended
  <2>2. CASE Goto(c, "search") /\ UNCHANGED status
    <3>1. /\ phObjects'[c] = Empty /\ dwIndex'[c] = 0 /\ named'[c] = {} /\ failed'[c] = 0
          /\ since'[c] = token /\ token' = token /\ pc'[c] = "search"
      BY <2>2, EnumAssumption DEF IInv, TypeOK
    <3>2. dwCount(c)' = 0 /\ Passed(c)' = {} /\ Reached(c)' = 0
      BY <3>1, EmptyFacts DEF dwCount, Passed, Reached
    <3>3. Cardinality((since[c] \cap Passed(c)) \ named[c])' = 0
      BY <3>2, FS_EmptySet
    <3>4. IsInjective(phObjects[c])'
      BY <3>1, EmptyFacts
    <3>5. QED BY <3>1, <3>2, <3>3, <3>4 DEF CallerInv, Ended
  <2>3. QED BY <2>1, <2>2
<1>3. ASSUME NEW d \in Callers, d # c PROVE CallerInv(d)'
  BY <1>3, Unmoved DEF IInv, TypeOK, CallerInv
<1>4. QED BY <1>1, <1>2, <1>3 DEF IInv

\* What C_FindObjects returned fits the array and names no key twice.
LEMMA FoundFacts ==
  ASSUME IInv, NEW F \in SUBSET token, NEW f \in Bijection(1..Cardinality(F), F), Found(F)
  PROVE  f \in Arrays /\ IsInjective(f) /\ DOMAIN f = 1..Cardinality(F) /\ Range(f) = F
         /\ Cardinality(F) \in 0..MaxFound /\ Cardinality(DOMAIN f) = Cardinality(F)
<1>1. F \in SUBSET Objects
  BY DEF IInv, TypeOK
<1>2. Cardinality(F) \in Nat /\ Cardinality(F) <= MaxFound
  BY <1>1, FS_Subset, FS_CardinalityType, EnumAssumption DEF Found
<1>3. f \in [1..Cardinality(F) -> F] /\ IsInjective(f) /\ \A o \in F : \E i \in 1..Cardinality(F) : f[i] = o
  BY DEF Bijection, Injection, Surjection
<1>4. f \in [1..Cardinality(F) -> Objects]
  BY <1>1, <1>3
<1>5. Cardinality(1..Cardinality(F)) = Cardinality(F)
  BY <1>2, FS_Interval
<1>6. QED BY <1>2, <1>3, <1>4, <1>5, EnumAssumption DEF Arrays, Range

\* The search takes a snapshot, or the enumeration is over before it began.
LEMMA SearchStep == ASSUME IInv, NEW c \in Callers, Search(c) PROVE IInv'
<1> USE DEF At, Goto, Return, tokenVars, historyVars
<1>1. /\ pc[c] = "search" /\ dwIndex[c] = 0 /\ phObjects[c] = Empty
      /\ UNCHANGED <<token, used, dwIndex, since, named, failed>>
      /\ Passed(c) = {} /\ Reached(c) = 0 /\ dwCount(c) = 0
      /\ named[c] = {} /\ failed[c] = 0
  <2>1. CallerInv(c) /\ failed[c] \in Nat
    BY EnumAssumption DEF IInv, TypeOK
  <2>2. /\ pc[c] = "search" /\ UNCHANGED <<token, used, dwIndex, since, named, failed>>
    BY DEF Search
  <2>3. dwIndex[c] = 0 /\ phObjects[c] = Empty /\ named[c] \subseteq Passed(c)
        /\ failed[c] <= Reached(c)
    BY <2>1, <2>2 DEF CallerInv
  <2>4. Reached(c) = 0 /\ dwCount(c) = 0
    BY <2>2, <2>3, EmptyFacts DEF Reached, dwCount
  <2>5. Passed(c) = {}
    BY <2>4 DEF Passed
  <2>6. QED BY <2>1, <2>2, <2>3, <2>4, <2>5
<1>2. ASSUME NEW x \in {"NTE_NO_MORE_ITEMS", "NTE_NO_MEMORY"},
             Return(c, x), UNCHANGED <<active, phObjects>>
      PROVE  IInv'
  <2>1. TypeOK'
    BY <1>1, <1>2 DEF IInv, TypeOK, Locs
  <2>2. CallerInv(c)'
    BY <1>1, <1>2, SamePlace DEF IInv, TypeOK
  <2>3. ASSUME NEW d \in Callers, d # c PROVE CallerInv(d)'
    BY <1>1, <1>2, <2>3, Unmoved DEF IInv, TypeOK, CallerInv
  <2>4. QED BY <2>1, <2>2, <2>3 DEF IInv
<1>3. ASSUME NEW F \in SUBSET token, NEW f \in Bijection(1..Cardinality(F), F), Found(F),
             active' = [active EXCEPT ![c] = TRUE],
             phObjects' = [phObjects EXCEPT ![c] = f], Goto(c, "advance"), UNCHANGED status
      PROVE  IInv'
  <2>1. TypeOK'
    BY <1>1, <1>3, FoundFacts DEF IInv, TypeOK, Locs
  <2>2. CallerInv(c)'
    <3>1. /\ phObjects'[c] = f /\ pc'[c] = "advance" /\ dwIndex'[c] = 0
          /\ failed'[c] = failed[c] /\ named'[c] = named[c]
      BY <1>1, <1>3 DEF IInv, TypeOK
    <3>2. dwCount(c)' \in Nat /\ Passed(c)' = {} /\ Reached(c)' = 0
      BY <1>3, <3>1, FoundFacts, EnumAssumption DEF dwCount, Passed, Reached
    <3>3. Cardinality((since[c] \cap Passed(c)) \ named[c])' = 0
      BY <3>2, FS_EmptySet
    <3>4. IsInjective(phObjects[c])'
      BY <1>3, <3>1, FoundFacts
    <3>5. since'[c] \subseteq token'
      BY <1>1 DEF IInv, CallerInv
    <3>6. QED BY <1>1, <3>1, <3>2, <3>3, <3>4, <3>5 DEF CallerInv, Ended
  <2>3. ASSUME NEW d \in Callers, d # c PROVE CallerInv(d)'
    BY <1>1, <1>3, <2>3, Unmoved DEF IInv, TypeOK, CallerInv
  <2>4. QED BY <2>1, <2>2, <2>3 DEF IInv
<1>4. QED BY <1>2, <1>3 DEF Search

\* Arithmetic of an enumeration
LEMMA IndexFacts ==
  ASSUME IInv, NEW c \in Callers
  PROVE  /\ dwIndex[c] \in Nat /\ dwCount(c) \in Nat /\ failed[c] \in Nat
         /\ dwCount(c) <= MaxFound /\ MaxFound \in Nat
         /\ phObjects[c] \in [1..dwCount(c) -> Objects]
         /\ CallerInv(c)
<1>1. dwIndex[c] \in 0..MaxFound /\ failed[c] \in 0..MaxFound /\ phObjects[c] \in Arrays
  BY DEF IInv, TypeOK
<1>2. QED BY <1>1, ArrayFacts, EnumAssumption DEF IInv

\* The steps that leave the array and the index alone keep the invariant.
LEMMA QuietStep ==
  ASSUME IInv, NEW c \in Callers, NextCall(c) \/ End(c) \/ Abandon(c)
  PROVE  IInv'
<1> USE DEF NextCall, End, Abandon, At, Goto, Return, tokenVars, enumVars, historyVars
<1>1. /\ UNCHANGED <<phObjects, dwIndex, since, named, failed, token, used>>
      /\ pc[c] \in {"idle", "advance"} /\ pc'[c] \in {"idle", "advance"}
      /\ \A d \in Callers \ {c} : pc'[d] = pc[d] /\ status'[d] = status[d]
  BY DEF IInv, TypeOK
<1>2. TypeOK'
  BY DEF IInv, TypeOK, Locs
<1>3. CallerInv(c)'
  <2>1. dwCount(c) \in Nat /\ dwIndex[c] \in Nat /\ dwIndex[c] <= dwCount(c)
    BY IndexFacts DEF CallerInv
  <2>2. Ended(c)' => dwIndex[c] = dwCount(c)
    <3>1. CASE NextCall(c) \/ Abandon(c)
      BY <3>1 DEF Ended, IInv, TypeOK
    <3>2. CASE End(c)
      BY <2>1, <3>2
    <3>3. QED BY <3>1, <3>2
  <2>3. QED BY <1>1, <2>2, SamePlace
<1>4. ASSUME NEW d \in Callers, d # c PROVE CallerInv(d)'
  BY <1>1, <1>4, Unmoved DEF IInv, CallerInv
<1>5. QED BY <1>2, <1>3, <1>4 DEF IInv

\* A key passed over by a failure is paid for by it.
LEMMA PassedOver ==
  ASSUME IInv, NEW c \in Callers, Reached(c) \in Nat,
         Reached(c)' = Reached(c) + 1, phObjects'[c] = phObjects[c],
         since'[c] = since[c], named'[c] = named[c], failed'[c] = failed[c] + 1
  PROVE  /\ named'[c] \subseteq Passed(c)'
         /\ Cardinality((since[c] \cap Passed(c)) \ named[c])' <= failed'[c]
<1> DEFINE S == (since[c] \cap Passed(c)) \ named[c]
           T == (since[c] \cap Passed(c)') \ named[c]
           o == phObjects[c][Reached(c) + 1]
<1>1. Passed(c)' = Passed(c) \cup {o}
  BY PassOne
<1>2. T \subseteq S \cup {o}
  BY <1>1
<1>3. IsFiniteSet(S)
  BY Counted DEF IInv
<1>4. Cardinality(S) \in Nat /\ Cardinality(T) \in Nat /\ Cardinality(T) <= Cardinality(S) + 1
  <2> HIDE DEF S, T, o
  <2>1. QED BY <1>2, <1>3, CountOne
<1>5. Cardinality(S) <= failed[c] /\ failed[c] \in Nat
  BY IndexFacts DEF CallerInv
<1>6. T = ((since[c] \cap Passed(c)) \ named[c])'
  OBVIOUS
<1>7. named'[c] \subseteq Passed(c)'
  BY <1>1, IndexFacts DEF CallerInv
<1>8. Cardinality(T) <= failed'[c]
  <2> HIDE DEF S, T, o
  <2>1. QED BY <1>4, <1>5
<1>9. QED BY <1>6, <1>7, <1>8

\* The index moves to the next key, which is read or passed over.
LEMMA AdvanceStep == ASSUME IInv, NEW c \in Callers, Advance(c) PROVE IInv'
<1> USE DEF At, Goto, Return, tokenVars
<1>1. /\ pc[c] = "advance" /\ dwIndex[c] < dwCount(c)
      /\ UNCHANGED <<token, used, active, phObjects, since, named>>
      /\ dwIndex' = [dwIndex EXCEPT ![c] = @ + 1] /\ dwIndex'[c] = dwIndex[c] + 1
  BY DEF Advance, IInv, TypeOK
<1>2. dwCount(c)' = dwCount(c) /\ Reached(c) = dwIndex[c] /\ Reached(c) \in Nat
  BY <1>1, IndexFacts DEF dwCount, Reached
<1>3. failed[c] <= dwIndex[c]
  BY <1>2, IndexFacts DEF CallerInv
<1>4. dwIndex' \in [Callers -> 0..MaxFound]
  BY <1>1, IndexFacts DEF IInv, TypeOK
<1>5. IsInjective(phObjects[c])' /\ since'[c] \subseteq token'
  BY <1>1, IndexFacts DEF CallerInv
<1>6. CASE Goto(c, "read") /\ UNCHANGED <<status, failed>>
  <2>1. TypeOK'
    BY <1>1, <1>4, <1>6 DEF IInv, TypeOK, Locs
  <2>2. pc'[c] = "read" /\ Reached(c)' = Reached(c)
    BY <1>1, <1>2, <1>6, IndexFacts DEF Reached, IInv, TypeOK
  <2>3. Passed(c)' = Passed(c)
    BY <1>1, <2>2 DEF Passed
  <2>4. (Cardinality((since[c] \cap Passed(c)) \ named[c]) <= failed[c])'
    BY <1>1, <1>6, <2>3, IndexFacts DEF CallerInv
  <2>5. CallerInv(c)'
    BY <1>1, <1>2, <1>3, <1>5, <1>6, <2>2, <2>3, <2>4, IndexFacts DEF CallerInv, Ended
  <2>6. ASSUME NEW d \in Callers, d # c PROVE CallerInv(d)'
    BY <1>1, <1>6, <2>6, Unmoved DEF IInv, TypeOK, CallerInv
  <2>7. QED BY <2>1, <2>5, <2>6 DEF IInv
<1>7. CASE Fail(c, "NTE_NO_MEMORY")
  <2> USE DEF Fail
  <2>1. pc'[c] = "idle" /\ status'[c] = "NTE_NO_MEMORY" /\ failed'[c] = failed[c] + 1
    BY <1>1, <1>7, IndexFacts DEF IInv, TypeOK
  <2>2. TypeOK'
    <3>1. failed[c] + 1 \in 0..MaxFound
      BY <1>1, <1>3, IndexFacts
    <3>2. failed' \in [Callers -> 0..MaxFound]
      BY <1>7, <3>1 DEF IInv, TypeOK
    <3>3. QED BY <1>1, <1>4, <1>7, <3>2 DEF IInv, TypeOK, Locs
  <2>3. Reached(c)' = Reached(c) + 1
    BY <1>1, <1>2, <2>1 DEF Reached
  <2>4. named'[c] \subseteq Passed(c)' /\ (Cardinality((since[c] \cap Passed(c)) \ named[c]) <= failed[c])'
    BY <1>1, <1>2, <2>1, <2>3, PassedOver
  <2>5. CallerInv(c)'
    <3>1. dwIndex'[c] <= dwCount(c)'
      BY <1>1, <1>2, IndexFacts
    <3>2. failed'[c] <= Reached(c)'
      BY <1>2, <1>3, <2>1, <2>3, IndexFacts
    <3>3. QED BY <1>5, <2>1, <2>4, <3>1, <3>2 DEF CallerInv, Ended
  <2>6. ASSUME NEW d \in Callers, d # c PROVE CallerInv(d)'
    BY <1>1, <1>7, <2>6, Unmoved DEF IInv, TypeOK, CallerInv
  <2>7. QED BY <2>2, <2>5, <2>6 DEF IInv
<1>8. QED BY <1>6, <1>7 DEF Advance

\* The key the index has come to is named, gone, or passed over.
LEMMA ReadStep == ASSUME IInv, NEW c \in Callers, Read(c) PROVE IInv'
<1> USE DEF At, Goto, Return, tokenVars, enumVars
<1> DEFINE o == phObjects[c][dwIndex[c]]
<1>1. /\ pc[c] = "read" /\ UNCHANGED <<token, used, active, phObjects, dwIndex, since>>
      /\ pc' = [pc EXCEPT ![c] = "idle"] /\ pc'[c] = "idle"
      /\ \E x \in {"ERROR_SUCCESS", "NTE_NO_MEMORY", "NTE_BAD_KEY"} :
           status' = [status EXCEPT ![c] = x] /\ status'[c] = x
  BY DEF Read, Fail, IInv, TypeOK
<1>2. \/ /\ named' = [named EXCEPT ![c] = @ \cup {o}] /\ failed' = failed
      \/ /\ named' = named /\ failed' = [failed EXCEPT ![c] = @ + 1]
      \/ /\ named' = named /\ failed' = failed /\ o \notin token
  BY DEF Read, Fail
<1>3. /\ dwIndex[c] >= 1 /\ dwIndex[c] <= dwCount(c) /\ Reached(c) = dwIndex[c] - 1
      /\ Reached(c) \in Nat /\ dwCount(c)' = dwCount(c)
  <2>1. dwCount(c)' = dwCount(c)
    BY <1>1 DEF dwCount
  <2>2. dwIndex[c] >= 1 /\ dwIndex[c] <= dwCount(c) /\ Reached(c) = dwIndex[c] - 1
    BY <1>1, IndexFacts DEF CallerInv, Reached
  <2>3. QED BY <2>1, <2>2, IndexFacts
<1>4. o \in Objects /\ failed[c] + 1 <= dwIndex[c] /\ failed[c] + 1 \in 0..MaxFound
  <2>1. o \in Objects
    BY <1>3, IndexFacts
  <2>2. failed[c] <= Reached(c)
    BY IndexFacts DEF CallerInv
  <2>3. QED BY <1>3, <2>1, <2>2, IndexFacts
<1>5. TypeOK'
  <2>1. named' \in [Callers -> SUBSET Objects]
    BY <1>2, <1>4 DEF IInv, TypeOK
  <2>2. failed' \in [Callers -> 0..MaxFound]
    BY <1>2, <1>4 DEF IInv, TypeOK
  <2>3. QED BY <1>1, <2>1, <2>2 DEF IInv, TypeOK, Locs
<1>6. Reached(c)' = Reached(c) + 1 /\ Passed(c)' = Passed(c) \cup {o}
  <2>1. Reached(c)' = Reached(c) + 1
    BY <1>1, <1>3, IndexFacts DEF Reached
  <2>2. Reached(c) + 1 = dwIndex[c]
    BY <1>3, IndexFacts
  <2>3. QED BY <1>1, <1>3, <2>1, <2>2, PassOne
<1>7. /\ IsInjective(phObjects[c])' /\ since'[c] \subseteq token' /\ ~Ended(c)'
      /\ dwIndex'[c] <= dwCount(c)' /\ failed[c] + 1 <= Reached(c)' /\ failed[c] \in Nat
  <2>1. IsInjective(phObjects[c])' /\ since'[c] \subseteq token'
    BY <1>1, IndexFacts DEF CallerInv
  <2>2. ~Ended(c)'
    BY <1>1 DEF Ended
  <2>3. QED BY <1>1, <1>3, <1>4, <1>6, <2>1, <2>2, IndexFacts
<1>8. CallerInv(c)'
  <2>1. CASE named' = named /\ failed' = [failed EXCEPT ![c] = @ + 1]
    <3>1. failed'[c] = failed[c] + 1
      BY <2>1 DEF IInv, TypeOK
    <3>2. named'[c] \subseteq Passed(c)' /\ (Cardinality((since[c] \cap Passed(c)) \ named[c]) <= failed[c])'
      BY <1>1, <1>3, <1>6, <2>1, <3>1, PassedOver
    <3>3. QED BY <1>1, <1>7, <3>1, <3>2 DEF CallerInv
  <2>2. CASE failed' = failed /\ (named'[c] = named[c] \cup {o} \/ (named'[c] = named[c] /\ o \notin token))
    <3> DEFINE S == (since[c] \cap Passed(c)) \ named[c]
               T == (since[c] \cap Passed(c)') \ named'[c]
    <3>1. since[c] \subseteq token /\ named[c] \subseteq Passed(c) /\ Cardinality(S) <= failed[c]
      BY IndexFacts DEF CallerInv
    <3>2. T \in SUBSET S
      BY <1>6, <2>2, <3>1
    <3>3. IsFiniteSet(S)
      BY Counted DEF IInv
    <3>4. Cardinality(T) <= Cardinality(S) /\ Cardinality(S) \in Nat /\ Cardinality(T) \in Nat
      <4> HIDE DEF S, T
      <4>1. QED BY <3>2, <3>3, FS_Subset, FS_CardinalityType
    <3>5. T = ((since[c] \cap Passed(c)) \ named[c])'
      BY <1>1
    <3>6. (Cardinality((since[c] \cap Passed(c)) \ named[c]) <= failed[c])'
      <4> HIDE DEF S, T
      <4>1. QED BY <1>7, <2>2, <3>1, <3>4, <3>5
    <3>7. named'[c] \subseteq Passed(c)' /\ failed'[c] <= Reached(c)'
      BY <1>6, <1>7, <1>3, <2>2, <3>1
    <3> HIDE DEF S, T
    <3>8. QED BY <1>1, <1>7, <3>6, <3>7 DEF CallerInv
  <2>3. QED BY <1>2, <2>1, <2>2 DEF IInv, TypeOK
<1>9. ASSUME NEW d \in Callers, d # c PROVE CallerInv(d)'
  BY <1>1, <1>2, <1>9, Unmoved DEF IInv, TypeOK, CallerInv
<1>10. QED BY <1>5, <1>8, <1>9 DEF IInv

\* Keys that come and go keep the invariant.
LEMMA TokenStep ==
  ASSUME IInv, NEW o \in Objects, Generate(o) \/ Destroy(o)
  PROVE  IInv'
<1> USE DEF Generate, Destroy, enumVars, historyVars
<1>1. TypeOK'
  BY DEF IInv, TypeOK
<1>2. ASSUME NEW c \in Callers PROVE CallerInv(c)'
  <2>1. since'[c] \subseteq since[c] /\ since'[c] \subseteq token'
    BY DEF IInv, CallerInv
  <2>2. UNCHANGED <<phObjects, dwIndex, pc, status, named, failed>>
    OBVIOUS
  <2>3. QED BY <2>1, <2>2, Unmoved DEF IInv
<1>3. QED BY <1>1, <1>2 DEF IInv

\* Every step keeps the inductive invariant.
LEMMA NextIInv == IInv /\ [Next]_vars => IInv'
<1> SUFFICES ASSUME IInv, [Next]_vars PROVE IInv'
  OBVIOUS
<1>1. ASSUME NEW c \in Callers, Step(c) \/ FirstCall(c) \/ Abandon(c) PROVE IInv'
  BY <1>1, FirstCallStep, SearchStep, QuietStep, AdvanceStep, ReadStep DEF Step
<1>2. CASE \E o \in Objects : Generate(o) \/ Destroy(o)
  BY <1>2, TokenStep
<1>3. CASE UNCHANGED vars
  <2>1. TypeOK'
    BY <1>3 DEF vars, tokenVars, enumVars, historyVars, IInv, TypeOK
  <2>2. ASSUME NEW c \in Callers PROVE CallerInv(c)'
    BY <1>3, Unmoved DEF vars, tokenVars, enumVars, historyVars, IInv, CallerInv
  <2>3. QED BY <2>1, <2>2 DEF IInv
<1>4. QED BY <1>1, <1>2, <1>3 DEF Next

\* IInv holds throughout, for any number of callers, keys and slots of the buffer.
THEOREM Invariance == Spec => []IInv
BY InitIInv, NextIInv, PTL DEF Spec

\* Type correctness: dwIndex never leaves the array.
THEOREM TypeCorrect == Spec => []TypeOK
<1>1. IInv => TypeOK
  BY DEF IInv
<1>2. QED BY <1>1, Invariance, PTL

\* No enumeration names a key twice, whatever fails and is tried again.
THEOREM NoneTwice == Spec => []NamedOnce
<1>1. ASSUME IInv, NEW c \in Callers, At(c, "read")
      PROVE  phObjects[c][dwIndex[c]] \notin named[c]
  <2>1. /\ dwIndex[c] \in 1..dwCount(c) /\ Reached(c) = dwIndex[c] - 1
        /\ IsInjective(phObjects[c]) /\ named[c] \subseteq Passed(c)
        /\ DOMAIN phObjects[c] = 1..dwCount(c)
    <3>1. pc[c] = "read" /\ CallerInv(c) /\ dwIndex[c] \in Nat /\ dwCount(c) \in Nat
      BY <1>1, IndexFacts DEF At
    <3>2. DOMAIN phObjects[c] = 1..dwCount(c)
      BY <1>1, IndexFacts
    <3>3. QED BY <3>1, <3>2 DEF CallerInv, Reached
  <2>2. ASSUME NEW i \in 1..Reached(c) PROVE phObjects[c][i] # phObjects[c][dwIndex[c]]
    BY <1>1, <2>1, IndexFacts DEF IsInjective
  <2>3. QED BY <2>1, <2>2 DEF Passed
<1>2. IInv => NamedOnce
  BY <1>1 DEF NamedOnce
<1>3. QED BY <1>2, Invariance, PTL

\* An enumeration that has ended owes a failed call for every key of its
\* snapshot that is still there and was not named.
THEOREM SkipsPaid == Spec => []SkipsAreFailures
<1>1. ASSUME IInv, NEW c \in Callers, Ended(c)
      PROVE  Cardinality((since[c] \cap Snapshot(c)) \ named[c]) <= failed[c]
  <2>1. Reached(c) = dwCount(c) /\ DOMAIN phObjects[c] = 1..dwCount(c)
    BY <1>1, IndexFacts DEF CallerInv, Reached, Ended, At
  <2>2. Passed(c) = Snapshot(c)
    BY <2>1 DEF Passed, Snapshot, Range
  <2>3. QED BY <1>1, <2>2, IndexFacts DEF CallerInv
<1>2. IInv => SkipsAreFailures
  BY <1>1 DEF SkipsAreFailures
<1>3. QED BY <1>2, Invariance, PTL

\* When no search fails, a snapshot with room left holds every key that has been
\* there since the enumeration began.
LEMMA NextSnapshot == ~BusySessions /\ IInv /\ SnapshotInv /\ [Next]_vars => SnapshotInv'
<1> SUFFICES ASSUME ~BusySessions, IInv, SnapshotInv, [Next]_vars, NEW c \in Callers
             PROVE  SnapshotOf(c)'
  BY DEF SnapshotInv
<1> USE DEF At, Goto, Return, tokenVars, enumVars, historyVars
<1>1. ASSUME phObjects'[c] = phObjects[c], since'[c] \subseteq since[c],
             (active[c] \/ Ended(c))' => active[c] \/ Ended(c),
             pc'[c] = "search" => pc[c] = "search" /\ active'[c] = active[c],
             pc'[c] \in {"advance", "read"} => active'[c]
      PROVE  SnapshotOf(c)'
  BY <1>1 DEF SnapshotInv, SnapshotOf, Snapshot, dwCount
<1>2. ASSUME NEW d \in Callers, FirstCall(d) PROVE SnapshotOf(c)'
  <2>1. pc[c] \in {"advance", "read"} => active[c]
    BY DEF SnapshotInv, SnapshotOf
  <2>2. CASE c # d
    BY <1>1, <1>2, <2>1, <2>2 DEF FirstCall, Ended, IInv, TypeOK
  <2>3. CASE c = d
    <3>1. pc[c] = "idle" /\ ~active[c] /\ active' = active
      BY <1>2, <2>3 DEF FirstCall
    <3>2. CASE pc'[c] = "search"
      BY <3>1, <3>2 DEF Ended, SnapshotOf
    <3>3. CASE pc'[c] = "idle" /\ status'[c] = "NTE_NO_MEMORY"
      BY <3>1, <3>3 DEF Ended, SnapshotOf
    <3>4. QED BY <1>2, <2>3, <3>2, <3>3 DEF FirstCall, IInv, TypeOK
  <2>4. QED BY <2>2, <2>3
<1>3. ASSUME NEW d \in Callers, Search(d) PROVE SnapshotOf(c)'
  <2>1. CASE c # d
    <3>1. pc[c] \in {"advance", "read"} => active[c]
      BY DEF SnapshotInv, SnapshotOf
    <3>2. QED BY <1>1, <1>3, <2>1, <3>1 DEF Search, Ended, IInv, TypeOK
  <2>2. CASE c = d
    <3>1. pc[c] = "search" /\ ~active[c] /\ since'[c] = since[c] /\ since[c] \subseteq token
      BY <1>3, <2>2, IndexFacts DEF Search, CallerInv, SnapshotInv, SnapshotOf
    <3>2. ASSUME NEW x \in {"NTE_NO_MORE_ITEMS", "NTE_NO_MEMORY"}, Return(c, x),
                 UNCHANGED <<active, phObjects>>, x = "NTE_NO_MORE_ITEMS" => token = {}
          PROVE  SnapshotOf(c)'
      <4>1. pc'[c] = "idle" /\ status'[c] = x /\ ~active'[c]
        BY <3>1, <3>2 DEF IInv, TypeOK
      <4>2. QED BY <3>1, <3>2, <4>1 DEF SnapshotOf, Ended
    <3>3. ASSUME NEW F \in SUBSET token, NEW f \in Bijection(1..Cardinality(F), F), Found(F),
                 active' = [active EXCEPT ![c] = TRUE],
                 phObjects' = [phObjects EXCEPT ![c] = f], Goto(c, "advance")
          PROVE  SnapshotOf(c)'
      <4>1. phObjects'[c] = f /\ pc'[c] = "advance" /\ active'[c]
        BY <3>3 DEF IInv, TypeOK
      <4>2. dwCount(c)' = Cardinality(F) /\ Snapshot(c)' = F
        BY <3>3, <4>1, FoundFacts DEF dwCount, Snapshot
      <4>3. Cardinality(F) < MaxFound => F = token
        BY <3>3, FoundFacts, EnumAssumption DEF Found
      <4>4. QED BY <3>1, <4>1, <4>2, <4>3 DEF SnapshotOf
    <3>4. ASSUME NEW F \in SUBSET token, Found(F), F = {} PROVE token = {}
      BY <3>4, FS_EmptySet, EnumAssumption DEF Found
    <3>5. QED BY <1>3, <2>2, <3>2, <3>3, <3>4 DEF Search
  <2>3. QED BY <2>1, <2>2
<1>4. ASSUME NEW d \in Callers, NextCall(d) \/ End(d) \/ Advance(d) \/ Read(d) \/ Abandon(d)
      PROVE  SnapshotOf(c)'
  <2>1. pc[c] \in {"advance", "read"} => active[c]
    BY DEF SnapshotInv, SnapshotOf
  <2>2. CASE NextCall(d) \/ Abandon(d)
    BY <1>1, <2>1, <2>2 DEF NextCall, Abandon, Ended, IInv, TypeOK
  <2>3. CASE End(d)
    BY <1>1, <2>1, <2>3 DEF End, Ended, IInv, TypeOK
  <2>4. CASE Advance(d) \/ Read(d)
    BY <1>1, <2>1, <2>4 DEF Advance, Read, Fail, Ended, IInv, TypeOK
  <2>5. QED BY <1>4, <2>2, <2>3, <2>4
<1>5. ASSUME NEW o \in Objects, Generate(o) \/ Destroy(o) PROVE SnapshotOf(c)'
  BY <1>1, <1>5 DEF Generate, Destroy, Ended, SnapshotInv, SnapshotOf
<1>6. CASE UNCHANGED vars
  BY <1>1, <1>6 DEF vars, Ended, SnapshotInv, SnapshotOf
<1>7. QED BY <1>2, <1>3, <1>4, <1>5, <1>6 DEF Next, Step

\* An enumeration that ends, with room left in the buffer, has seen every key
\* there was throughout, when no search fails.
THEOREM Complete == ASSUME ~BusySessions PROVE Spec => []SnapshotComplete
<1>1. Init => SnapshotInv
  BY DEF Init, SnapshotInv, SnapshotOf, Ended, At
<1>2. IInv /\ SnapshotInv /\ [Next]_vars => SnapshotInv'
  BY NextSnapshot
<1>3. Spec => []SnapshotInv
  BY <1>1, <1>2, Invariance, PTL DEF Spec
<1>4. SnapshotInv => SnapshotComplete
  BY DEF SnapshotInv, SnapshotOf, SnapshotComplete
<1>5. QED BY <1>3, <1>4, PTL
-----------------------------------------------------------------------------
(* Why an enumeration ends                                                  *)

\* Every step keeps CallsMatch, busy sessions or not.
LEMMA NextCallsMatch == TypeOK /\ CallsMatch /\ [Next]_vars => CallsMatch'
<1> SUFFICES ASSUME TypeOK, CallsMatch, [Next]_vars PROVE CallsMatch'
  OBVIOUS
<1> USE DEF TypeOK, CallsMatch, At, Goto, Return, tokenVars, enumVars, historyVars
<1>1. ASSUME NEW d \in Callers, Search(d) PROVE CallsMatch'
  <2>1. /\ pc[d] = "search" /\ \A c \in Callers \ {d} : pc'[c] = pc[c] /\ active'[c] = active[c]
        /\ \/ pc'[d] = "idle"
           \/ pc'[d] = "advance" /\ active'[d]
    BY <1>1 DEF Search
  <2>2. QED BY <2>1
<1>2. ASSUME NEW d \in Callers, FirstCall(d) \/ Abandon(d) \/ NextCall(d) \/ End(d)
      PROVE  CallsMatch'
  BY <1>2 DEF FirstCall, Abandon, NextCall, End
<1>3. ASSUME NEW d \in Callers, Advance(d) \/ Read(d) PROVE CallsMatch'
  BY <1>3 DEF Advance, Read, Fail
<1>4. ASSUME NEW o \in Objects, Generate(o) \/ Destroy(o) PROVE CallsMatch'
  BY <1>4 DEF Generate, Destroy
<1>5. CASE UNCHANGED vars
  BY <1>5 DEF vars
<1>6. QED BY <1>1, <1>2, <1>3, <1>4, <1>5 DEF Next, Step

\* What a step does to the enumeration of caller c that it leaves active.
LEMMA ShrinkStep ==
  ASSUME IInv, CallsMatch, [Next]_vars, NEW c \in Callers, active[c], active'[c]
  PROVE  /\ phObjects'[c] = phObjects[c]
         /\ Step(c) => StepsLeft(c)' < StepsLeft(c)
         /\ ~Step(c) => StepsLeft(c)' = StepsLeft(c)
<1> DEFINE Keeps == phObjects'[c] = phObjects[c] /\ dwIndex'[c] = dwIndex[c] /\ pc'[c] = pc[c]
<1>1. dwIndex[c] \in Nat /\ dwCount(c) \in Nat
  BY IndexFacts
<1>2. pc[c] # "search" /\ pc[c] \in Locs /\ active \in [Callers -> BOOLEAN]
  BY DEF CallsMatch, IInv, TypeOK
<1> USE DEF At, Goto, Return, tokenVars, enumVars, historyVars
<1>3. ASSUME NextCall(c) \/ Advance(c) \/ Read(c)
      PROVE  phObjects'[c] = phObjects[c] /\ StepsLeft(c)' < StepsLeft(c)
  <2>1. phObjects'[c] = phObjects[c] /\ dwCount(c)' = dwCount(c)
    BY <1>3 DEF NextCall, Advance, Read, dwCount
  <2>2. CASE NextCall(c)
    <3>1. pc[c] = "idle" /\ pc'[c] = "advance" /\ dwIndex'[c] = dwIndex[c]
      BY <2>2 DEF NextCall, IInv, TypeOK
    <3>2. QED BY <1>1, <2>1, <3>1 DEF StepsLeft
  <2>3. CASE Advance(c)
    <3>1. pc[c] = "advance" /\ pc'[c] \in {"read", "idle"} /\ dwIndex'[c] = dwIndex[c] + 1
      BY <2>3 DEF Advance, Fail, IInv, TypeOK
    <3>2. QED BY <1>1, <2>1, <3>1 DEF StepsLeft
  <2>4. CASE Read(c)
    <3>1. pc[c] = "read" /\ pc'[c] = "idle" /\ dwIndex'[c] = dwIndex[c]
      BY <2>4 DEF Read, Fail, IInv, TypeOK
    <3>2. QED BY <1>1, <2>1, <3>1 DEF StepsLeft
  <2>5. QED BY <1>3, <2>1, <2>2, <2>3, <2>4
<1>4. ~Search(c) /\ ~End(c) /\ ~FirstCall(c) /\ ~Abandon(c)
  BY <1>2 DEF Search, End, FirstCall, Abandon
<1>5. ASSUME NEW d \in Callers, d # c, Step(d) \/ FirstCall(d) \/ Abandon(d) PROVE Keeps
  <2>1. CASE Search(d)
    BY <1>5, <2>1 DEF Search, IInv, TypeOK
  <2>2. CASE FirstCall(d) \/ Abandon(d) \/ NextCall(d) \/ End(d)
    BY <1>5, <2>2 DEF FirstCall, Abandon, NextCall, End, IInv, TypeOK
  <2>3. CASE Advance(d) \/ Read(d)
    BY <1>5, <2>3 DEF Advance, Read, Fail, IInv, TypeOK
  <2>4. QED BY <1>5, <2>1, <2>2, <2>3 DEF Step
<1>6. ASSUME NEW o \in Objects, Generate(o) \/ Destroy(o) PROVE Keeps
  BY <1>6 DEF Generate, Destroy
<1>7. ASSUME UNCHANGED vars PROVE Keeps
  BY <1>7 DEF vars
<1>8. Keeps => StepsLeft(c)' = StepsLeft(c)
  BY DEF StepsLeft, dwCount
<1> HIDE DEF Keeps
<1>9. Step(c) <=> NextCall(c) \/ Advance(c) \/ Read(c)
  BY <1>4 DEF Step
<1>10. ~Step(c) => Keeps
  BY <1>4, <1>5, <1>6, <1>7 DEF Next
<1>11. QED BY <1>3, <1>8, <1>9, <1>10 DEF Keeps

\* An enumeration comes to its end with the calls made on it, whichever of them
\* fail: the snapshot stands still and the place in it moves one way.
THEOREM Shrinks == Spec => EnumShrinks
<1> DEFINE Shrunk == \A c \in Callers : active[c] /\ active'[c] =>
                       /\ phObjects'[c] = phObjects[c]
                       /\ Step(c) => StepsLeft(c)' < StepsLeft(c)
                       /\ ~Step(c) => StepsLeft(c)' = StepsLeft(c)
<1>1. Init => CallsMatch
  BY DEF Init, CallsMatch
<1>2. TypeOK /\ CallsMatch /\ [Next]_vars => CallsMatch'
  BY NextCallsMatch
<1>3. IInv /\ CallsMatch /\ [Next]_vars => [Shrunk]_vars
  BY ShrinkStep
<1>4. EnumShrinks <=> [][Shrunk]_vars
  BY DEF EnumShrinks
<1> HIDE DEF Shrunk
<1>5. QED BY <1>1, <1>2, <1>3, <1>4, Invariance, TypeCorrect, PTL DEF Spec

=============================================================================
