-------------------------- MODULE KspOutputsProof --------------------------
(***************************************************************************)
(* Proofs about the calls that answer with bytes, for any callers, keys    *)
(* and sizes.  The argument: a step of a call moves only what is the       *)
(* call's own (Own).  Nothing is kept, because every failure empties the   *)
(* heap before the session is given back and a block that outlives that    *)
(* release is on the way to the step that frees it (CallInv).  A size that *)
(* was told suffices, because the size of an answer depends on the key and *)
(* the question only (SizeInv).  What is delivered means what the token    *)
(* returned, because the conversions undo its formats (BlobInv, SignInv,   *)
(* SignatureDecoded).                                                      *)
(***************************************************************************)
EXTENDS KspOutputs, SequenceTheorems, WellFoundedInduction, TLAPS

\* An array of n elements is a sequence of them.
LEMMA ArrayIsSeq ==
  ASSUME NEW S, NEW n \in Nat, NEW f \in [1..n -> S]
  PROVE  f \in Seq(S) /\ Len(f) = n
<1>1. f \in Seq(S)
  BY SeqDef
<1>2. DOMAIN f = 1..n /\ DOMAIN f = 1..Len(f) /\ Len(f) \in Nat
  BY <1>1, LenProperties
<1>3. QED BY <1>1, <1>2

\* A piece of a sequence, element by element
LEMMA Piece ==
  ASSUME NEW S, NEW d \in Seq(S), NEW b \in Seq(S), NEW k \in Nat,
         k + Len(b) <= Len(d), \A i \in 1..Len(b) : d[k + i] = b[i]
  PROVE  SubSeq(d, k + 1, k + Len(b)) = b
<1> DEFINE v == SubSeq(d, k + 1, k + Len(b))
<1>1. Len(b) \in Nat /\ Len(d) \in Nat
  BY LenProperties
<1>2. k + 1 \in Int /\ k + Len(b) \in Int /\ \A i \in (k + 1)..(k + Len(b)) : d[i] \in S
  BY <1>1, ElementOfSeq
<1>3. /\ v \in Seq(S)
      /\ Len(v) = (IF k + 1 <= k + Len(b) THEN (k + Len(b)) - (k + 1) + 1 ELSE 0)
      /\ \A i \in 1..((k + Len(b)) - (k + 1) + 1) : v[i] = d[(k + 1) + i - 1]
  BY <1>2, SubSeqProperties
<1>4. Len(v) = Len(b)
  BY <1>1, <1>3
<1>5. ASSUME NEW i \in 1..Len(b) PROVE v[i] = b[i]
  <2>1. (k + Len(b)) - (k + 1) + 1 = Len(b) /\ (k + 1) + i - 1 = k + i
    BY <1>1
  <2>2. QED BY <1>3, <2>1
<1> HIDE DEF v
<1>6. v = b
  BY <1>3, <1>4, <1>5, SeqEqual
<1>7. QED BY <1>6 DEF v

\* Indices of a concatenation
LEMMA Indices ==
  ASSUME NEW S, NEW a \in Seq(S), NEW b \in Seq(S)
  PROVE  /\ a \o b \in Seq(S) /\ Len(a \o b) = Len(a) + Len(b)
         /\ \A i \in 1..Len(a) : (a \o b)[i] = a[i]
         /\ \A i \in 1..Len(b) : (a \o b)[Len(a) + i] = b[i]
<1>1. Len(a) \in Nat /\ Len(b) \in Nat
  BY LenProperties
<1>2. QED BY <1>1, ConcatProperties

\* The bytes of an attribute are numbers.
LEMMA NumberedIsSeq ==
  ASSUME NEW m \in Nat, NEW n \in Nat
  PROVE  Numbered(m, n) \in Seq(Nat) /\ Len(Numbered(m, n)) = n
<1>1. Numbered(m, n) \in [1..n -> Nat]
  BY DEF Numbered
<1>2. QED BY <1>1, ArrayIsSeq

\* The sizes of keys are numbers.
LEMMA CoordIsNat ==
  /\ RsaBytes \in Nat /\ ExponentBytes \in Nat
  /\ \A k \in Keys : CoordBytes(k) \in Nat /\ SignatureSize(k) \in Nat
BY OutputsAssumption DEF CoordBytes, SignatureSize

\* The size of an answer is a number if those of its parts are.
LEMMA StructureSize ==
  ASSUME NEW h, NEW b, Len(h) \in Nat, Len(b) \in Nat
  PROVE  Size(Structure(h, b)) \in Nat
<1>1. Structure(h, b).head = h /\ Structure(h, b).body = b
  BY DEF Structure
<1>2. QED BY <1>1 DEF Size

\* An RSA blob has a size.
LEMMA RsaSize ==
  ASSUME NEW k \in Keys
  PROVE  Size(BlobOf("RSAPUBLICBLOB", k)) \in Nat
<1> DEFINE x == Attribute(k, "exponent")
           y == Attribute(k, "modulus")
<1>1. x \in Seq(Nat) /\ y \in Seq(Nat)
  BY NumberedIsSeq, CoordIsNat DEF Attribute
<1> HIDE DEF x, y
<1>2. Len(x \o y) \in Nat
  BY <1>1, ConcatProperties, LenProperties
<1>3. Len(<<"RSAPUBLIC", 8 * Len(y), Len(x), Len(y), 0, 0>>) = 6
  OBVIOUS
<1>4. BlobOf("RSAPUBLICBLOB", k) =
        Structure(<<"RSAPUBLIC", 8 * Len(y), Len(x), Len(y), 0, 0>>, x \o y)
  BY DEF BlobOf, RsaBlob, x, y
<1>5. QED BY <1>2, <1>3, <1>4, StructureSize

\* An EC blob has a size.
LEMMA EcSize ==
  ASSUME NEW k \in Keys
  PROVE  Size(BlobOf("ECCPUBLICBLOB", k)) \in Nat
<1> DEFINE c == CoordBytes(k)
           p == Attribute(k, "point")
           n == (Len(p) - 2 - 1) \div 2
           h == <<IF n = P256Bytes THEN "P256" ELSE "P384", n>>
<1>1. c \in Nat
  BY CoordIsNat
<1>2. <<4, 2 * c + 1, 4>> \in Seq(Nat) /\ Len(<<4, 2 * c + 1, 4>>) = 3
  BY <1>1
<1>3. p = <<4, 2 * c + 1, 4>> \o Numbered(200, 2 * c)
  BY DEF Attribute
<1> HIDE DEF c, p
<1>4. Numbered(200, 2 * c) \in Seq(Nat) /\ Len(Numbered(200, 2 * c)) = 2 * c
  <2>1. 200 \in Nat /\ 2 * c \in Nat
    BY <1>1
  <2>2. QED BY <2>1, NumberedIsSeq
<1>5. p \in Seq(Nat) /\ Len(p) = 3 + 2 * c
  BY <1>2, <1>3, <1>4, ConcatProperties
<1>6. n = c
  BY <1>1, <1>5
<1>7. Len(SubSeq(p, 4, 2 * n + 3)) \in Nat
  <2>1. \A i \in 4..(2 * n + 3) : p[i] \in Nat
    BY <1>1, <1>5, <1>6, ElementOfSeq
  <2>2. 4 \in Int /\ 2 * n + 3 \in Int
    BY <1>1, <1>6
  <2>3. Len(SubSeq(p, 4, 2 * n + 3)) =
          IF 4 <= 2 * n + 3 THEN 2 * n + 3 - 4 + 1 ELSE 0
    BY <2>1, <2>2, SubSeqProperties
  <2>4. QED BY <2>3, <1>1, <1>6
<1>8. Len(h) = 2
  OBVIOUS
<1>9. BlobOf("ECCPUBLICBLOB", k) = Structure(h, SubSeq(p, 4, 2 * n + 3))
  BY DEF BlobOf, EccBlob, p
<1> HIDE DEF h, n
<1>10. QED BY <1>7, <1>8, <1>9, StructureSize

\* A string has a size.
LEMMA WideSize ==
  ASSUME NEW s, NEW n \in Nat
  PROVE  Size(Wide(s, n)) \in Nat
<1> DEFINE f == [i \in 1..(2 * (n + 1)) |-> s]
<1>1. f \in [1..(2 * (n + 1)) -> {s}] /\ 2 * (n + 1) \in Nat
  OBVIOUS
<1> HIDE DEF f
<1>2. Len(f) \in Nat
  BY <1>1, ArrayIsSeq
<1>3. Wide(s, n) = Structure(<<>>, f)
  BY DEF Wide, f
<1>4. Len(<<>>) = 0
  BY EmptySeq
<1>5. QED BY <1>2, <1>3, <1>4, StructureSize

\* A property has a size.
LEMMA PropertySize ==
  ASSUME NEW k \in Keys, NEW w \in KeyProperties
  PROVE  Size(KeyProperty(k, w)) \in Nat
<1>1. \A x : Size(Dword(x)) \in Nat
  <2>1. ASSUME NEW x PROVE Size(Dword(x)) \in Nat
    <3>1. Len(<<x>>) = 1 /\ Len(<<>>) = 0
      BY EmptySeq
    <3>2. QED BY <3>1, StructureSize DEF Dword
  <2>2. QED BY <2>1
<1>2. \A s : Size(Wide(s, 1)) \in Nat /\ Size(Wide(s, 3)) \in Nat
             /\ Size(Wide(s, 5)) \in Nat /\ Size(Wide(s, 10)) \in Nat
  BY WideSize
<1>3. CASE w = "Algorithm Name"
  BY <1>2, <1>3 DEF KeyProperty
<1>4. CASE w \in {"Length", "Key Type", "Export Policy", "Key Usage"}
  BY <1>1, <1>4 DEF KeyProperty
<1>5. CASE w = "Name"
  BY <1>2, <1>5 DEF KeyProperty
<1>6. CASE w = "Algorithm Group"
  BY <1>2, <1>6 DEF KeyProperty
<1>7. QED BY <1>3, <1>4, <1>5, <1>6 DEF KeyProperties

\* Every answer has a size.
LEMMA SizeIsNat ==
  ASSUME NEW k \in Keys, NEW w \in Whats
  PROVE  AnswerSize(w, k) \in Nat
<1>1. w \in KeyProperties => AnswerSize(w, k) \in Nat
  BY PropertySize DEF AnswerSize
<1>2. w \notin KeyProperties =>
        w = "signature" \/ w = "RSAPUBLICBLOB" \/ w = "ECCPUBLICBLOB"
  BY DEF Whats, Blobs
<1>3. QED BY <1>1, <1>2, RsaSize, EcSize, CoordIsNat DEF AnswerSize
\* The parts of a concatenation are found again.
LEMMA PartsFound ==
  ASSUME NEW S, NEW a \in Seq(S), NEW b \in Seq(S)
  PROVE  /\ SubSeq(a \o b, 1, Len(a)) = a
         /\ SubSeq(a \o b, Len(a) + 1, Len(a) + Len(b)) = b
<1> DEFINE c == a \o b
<1>1. Len(a) \in Nat /\ Len(b) \in Nat
  BY LenProperties
<1>2. /\ c \in Seq(S) /\ Len(c) = Len(a) + Len(b)
      /\ \A i \in 1..Len(a) : c[i] = a[i]
      /\ \A i \in 1..Len(b) : c[Len(a) + i] = b[i]
  BY Indices
<1> HIDE DEF c
<1>3. SubSeq(c, 1, Len(a)) = a
  <2>1. 0 \in Nat /\ 0 + Len(a) <= Len(c) /\ 0 + Len(a) = Len(a) /\ 0 + 1 = 1
    BY <1>1, <1>2
  <2>2. \A i \in 1..Len(a) : c[0 + i] = a[i]
    BY <1>1, <1>2
  <2>3. SubSeq(c, 0 + 1, 0 + Len(a)) = a
    BY <1>2, <2>1, <2>2, Piece
  <2>4. QED BY <2>1, <2>3
<1>4. SubSeq(c, Len(a) + 1, Len(a) + Len(b)) = b
  <2>1. Len(a) + Len(b) <= Len(c)
    BY <1>1, <1>2
  <2>2. QED BY <1>1, <1>2, <2>1, Piece
<1>5. QED BY <1>3, <1>4 DEF c

\* KSP_ImportKey reads the blob of an RSA key back, of any size.
LEMMA RsaComesBack ==
  ASSUME NEW k \in RsaKeys
  PROVE  ImportKey("RSAPUBLICBLOB", BlobOf("RSAPUBLICBLOB", k)) =
           [alg |-> "RSA", bits |-> 8 * RsaBytes,
            exponent |-> Attribute(k, "exponent"), modulus |-> Attribute(k, "modulus")]
<1> DEFINE x == Attribute(k, "exponent")
           y == Attribute(k, "modulus")
           b == BlobOf("RSAPUBLICBLOB", k)
<1>1. x \in Seq(Nat) /\ y \in Seq(Nat) /\ Len(y) = RsaBytes
  BY NumberedIsSeq, CoordIsNat DEF Attribute
<1> HIDE DEF x, y
<1>2. /\ b.head[2] = 8 * Len(y) /\ b.head[3] = Len(x) /\ b.head[4] = Len(y)
      /\ b.body = x \o y
  BY DEF BlobOf, RsaBlob, Structure, x, y
<1>3. SubSeq(x \o y, 1, Len(x)) = x /\ SubSeq(x \o y, Len(x) + 1, Len(x) + Len(y)) = y
  BY <1>1, PartsFound
<1> HIDE DEF b
<1>4. ImportKey("RSAPUBLICBLOB", b) =
        [alg |-> "RSA", bits |-> b.head[2], exponent |-> SubSeq(b.body, 1, b.head[3]),
         modulus |-> SubSeq(b.body, b.head[3] + 1, b.head[3] + b.head[4])]
  BY DEF ImportKey
<1>5. ImportKey("RSAPUBLICBLOB", b) =
        [alg |-> "RSA", bits |-> 8 * RsaBytes, exponent |-> x, modulus |-> y]
  BY <1>1, <1>2, <1>3, <1>4
<1>6. QED BY <1>5 DEF b, x, y

\* The blob of an EC key names its curve and holds its point, unwrapped.
LEMMA EcComesBack ==
  ASSUME NEW k \in EcKeys
  PROVE  LET b == BlobOf("ECCPUBLICBLOB", k)
         IN  /\ ImportKey("ECCPUBLICBLOB", b) =
                  [alg |-> IF k \in P256Keys THEN "ECDSA_P256" ELSE "ECDSA_P384",
                   bits |-> 8 * CoordBytes(k)]
             /\ b.head[1] = IF k \in P256Keys THEN "P256" ELSE "P384"
             /\ Attribute(k, "point") = <<4, Len(b.body) + 1, 4>> \o b.body
<1> DEFINE c == CoordBytes(k)
           w == <<4, 2 * c + 1, 4>>
           q == Numbered(200, 2 * c)
           p == Attribute(k, "point")
           n == (Len(p) - 2 - 1) \div 2
           b == BlobOf("ECCPUBLICBLOB", k)
<1>1. c \in Nat /\ (k \in P256Keys <=> c = P256Bytes) /\ (c = P256Bytes \/ c = P384Bytes)
  BY CoordIsNat, OutputsAssumption DEF CoordBytes, EcKeys, Keys
<1>2. p = w \o q
  BY DEF Attribute
<1>3. /\ b.head[1] = (IF n = P256Bytes THEN "P256" ELSE "P384") /\ b.head[2] = n
      /\ b.body = SubSeq(p, 4, 2 * n + 3)
  BY DEF BlobOf, EccBlob, Structure
<1>4. ImportKey("ECCPUBLICBLOB", b) =
        [alg |-> IF b.head[2] = P256Bytes THEN "ECDSA_P256" ELSE "ECDSA_P384",
         bits |-> 8 * (IF b.head[2] = P256Bytes THEN P256Bytes ELSE P384Bytes)]
  BY DEF ImportKey
<1>5. w \in Seq(Nat) /\ Len(w) = 3
  BY <1>1
<1> HIDE DEF c, p
<1>6. q \in Seq(Nat) /\ Len(q) = 2 * c
  <2>1. 200 \in Nat /\ 2 * c \in Nat
    BY <1>1
  <2>2. QED BY <2>1, NumberedIsSeq
<1> HIDE DEF q, b
<1>7. Len(p) = 3 + 2 * c
  BY <1>2, <1>5, <1>6, ConcatProperties
<1>8. n = c
  BY <1>1, <1>7
<1>9. b.body = q
  <2>1. SubSeq(w \o q, Len(w) + 1, Len(w) + Len(q)) = q
    BY <1>5, <1>6, PartsFound
  <2>2. Len(w) + 1 = 4 /\ Len(w) + Len(q) = 2 * n + 3
    BY <1>1, <1>5, <1>6, <1>8
  <2> HIDE DEF w, n
  <2>3. QED BY <2>1, <2>2, <1>2, <1>3
<1>10. p = <<4, Len(b.body) + 1, 4>> \o b.body
  BY <1>2, <1>6, <1>9
<1> HIDE DEF n
<1>11. ImportKey("ECCPUBLICBLOB", b) =
         [alg |-> IF k \in P256Keys THEN "ECDSA_P256" ELSE "ECDSA_P384", bits |-> 8 * c]
  BY <1>1, <1>3, <1>4, <1>8
<1>12. b.head[1] = IF k \in P256Keys THEN "P256" ELSE "P384"
  BY <1>1, <1>3, <1>8
<1>13. QED BY <1>10, <1>11, <1>12 DEF b, c, p

\* A set of numbers has a least one.
LEMMA Least ==
  ASSUME NEW T \in SUBSET Nat, T # {}
  PROVE  \E x \in T : \A y \in T : x <= y
<1>1. PICK x \in T : \A y \in T : ~ (<<y, x>> \in OpToRel(<, Nat))
  BY NatLessThanWellFounded, WFMin
<1>2. ASSUME NEW y \in T PROVE x <= y
  <2>1. ~ (y < x)
    BY <1>1, Zenon DEF OpToRel
  <2>2. QED BY <2>1
<1>3. QED BY <1>2

\* A number that is not 0 has a first byte that is not 0.
LEMMA FirstFacts ==
  ASSUME NEW n \in Nat, NEW x \in Scalars(n)
  PROVE  /\ x \in Seq(Nat) /\ Len(x) = n /\ \A i \in 1..n : x[i] \in 0..255
         /\ FirstOf(x) \in 1..n /\ x[FirstOf(x)] # 0
         /\ \A j \in 1..(FirstOf(x) - 1) : x[j] = 0
<1>1. x \in [1..n -> SigBytes] /\ \E i \in 1..n : x[i] # 0
  BY DEF Scalars
<1>2. x \in [1..n -> Nat] /\ \A i \in 1..n : x[i] \in 0..255
  <2>1. SigBytes \subseteq 0..255 /\ 0..255 \subseteq Nat
    BY OutputsAssumption
  <2>2. x \in [1..n -> 0..255]
    BY <1>1, <2>1
  <2>3. QED BY <2>1, <2>2
<1>3. x \in Seq(Nat) /\ Len(x) = n
  BY <1>2, ArrayIsSeq
<1> DEFINE T == {i \in 1..n : x[i] # 0}
<1>4. T \in SUBSET Nat /\ T # {}
  BY <1>1
<1>5. PICK f \in T : \A y \in T : f <= y
  BY <1>4, Least
<1>6. f \in 1..n /\ x[f] # 0
  BY <1>5
<1>7. \A j \in 1..(f - 1) : x[j] = 0
  <2>1. ASSUME NEW j \in 1..(f - 1) PROVE x[j] = 0
    <3>1. j \in 1..n /\ ~(f <= j)
      BY <1>6
    <3>2. QED BY <1>5, <3>1
  <2>2. QED BY <2>1
<1>8. \E i \in 1..Len(x) : x[i] # 0 /\ \A j \in 1..(i - 1) : x[j] = 0
  BY <1>3, <1>6, <1>7
<1>9. FirstOf(x) \in 1..Len(x) /\ x[FirstOf(x)] # 0
      /\ \A j \in 1..(FirstOf(x) - 1) : x[j] = 0
  BY <1>8, Zenon DEF FirstOf
<1>10. QED BY <1>2, <1>3, <1>9

\* The number without its leading zeros
Magnitude(x) == SubSeq(x, FirstOf(x), Len(x))

\* It has a byte that is not 0, and padding gives the number back.
LEMMA MagnitudeFacts ==
  ASSUME NEW n \in Nat, NEW x \in Scalars(n)
  PROVE  /\ Magnitude(x) \in Seq(Nat) /\ Len(Magnitude(x)) \in 1..n
         /\ Magnitude(x)[1] # 0 /\ Magnitude(x)[1] \in 0..255
         /\ Pad(Magnitude(x), n) = x
<1> DEFINE f == FirstOf(x)
           m == Magnitude(x)
           z == [i \in 1..(n - Len(m)) |-> 0]
<1>1. /\ x \in Seq(Nat) /\ Len(x) = n /\ f \in 1..n /\ x[f] # 0
      /\ \A j \in 1..(f - 1) : x[j] = 0
      /\ \A i \in 1..n : x[i] \in 0..255
  BY FirstFacts
<1> HIDE DEF f
<1>2. m = SubSeq(x, f, n)
  BY <1>1 DEF Magnitude, f
<1>3. /\ m \in Seq(Nat) /\ Len(m) = n - f + 1
      /\ \A i \in 1..(n - f + 1) : m[i] = x[f + i - 1]
  <2>1. f \in Int /\ n \in Int /\ f <= n /\ \A i \in f..n : x[i] \in Nat
    BY <1>1
  <2>2. QED BY <2>1, <1>2, SubSeqProperties
<1> HIDE DEF m
<1>4. m[1] = x[f]
  <2>1. 1 \in 1..(n - f + 1) /\ f + 1 - 1 = f
    BY <1>1
  <2>2. QED BY <2>1, <1>3
<1>5. Len(m) \in 1..n /\ n - Len(m) = f - 1
  BY <1>1, <1>3
<1>6. z \in Seq(Nat) /\ Len(z) = f - 1
  <2>1. f - 1 \in Nat /\ z \in [1..(f - 1) -> Nat]
    BY <1>1, <1>5
  <2> HIDE DEF z
  <2>2. QED BY <2>1, ArrayIsSeq
<1>7. \A i \in 1..(f - 1) : z[i] = 0
  BY <1>5
<1>8. Pad(m, n) = z \o m
  BY DEF Pad
<1> HIDE DEF z
<1>9. z \o m = x
  <2>1. z \o m \in Seq(Nat) /\ Len(z \o m) = n
    <3>1. z \o m \in Seq(Nat) /\ Len(z \o m) = Len(z) + Len(m)
      BY <1>3, <1>6, Indices
    <3>2. Len(z) + Len(m) = n
      BY <1>1, <1>3, <1>6
    <3>3. QED BY <3>1, <3>2
  <2>2. ASSUME NEW i \in 1..n PROVE (z \o m)[i] = x[i]
    <3>1. CASE i \in 1..(f - 1)
      BY SMTT(30), <1>1, <1>3, <1>6, <1>7, <3>1, Indices
    <3>2. CASE i \notin 1..(f - 1)
      <4>1. i - (f - 1) \in 1..Len(m) /\ i - (f - 1) \in 1..(n - f + 1)
        BY <1>1, <1>3, <3>2
      <4>2. (z \o m)[Len(z) + (i - (f - 1))] = m[i - (f - 1)]
        BY <4>1, <1>3, <1>6, Indices
      <4>3. m[i - (f - 1)] = x[f + (i - (f - 1)) - 1]
        BY <4>1, <1>3
      <4>4. Len(z) + (i - (f - 1)) = i /\ f + (i - (f - 1)) - 1 = i
        BY <1>1, <1>6
      <4>5. QED BY <4>2, <4>3, <4>4
    <3>3. QED BY <3>1, <3>2
  <2>3. QED BY <2>1, <2>2, <1>1, SeqEqual
<1>10. QED BY <1>1, <1>3, <1>4, <1>5, <1>8, <1>9 DEF m

\* The bytes of a DER integer
LEMMA DerIntegerFacts ==
  ASSUME NEW n \in Nat, NEW x \in Scalars(n)
  PROVE  /\ DerInteger(x) \in Seq(Nat) /\ Len(DerInteger(x)) \in 3..(n + 3)
         /\ DerInteger(x)[1] = 2 /\ DerInteger(x)[2] = Len(DerInteger(x)) - 2
         /\ \E v \in Seq(Nat) :
              /\ Len(v) = Len(DerInteger(x)) - 2
              /\ \A i \in 1..Len(v) : DerInteger(x)[2 + i] = v[i]
              /\ v # <<>> /\ Magnitude(x) = IF v[1] = 0 THEN Tail(v) ELSE v
<1> DEFINE m == Magnitude(x)
           v == IF m[1] >= 128 THEN <<0>> \o m ELSE m
           h == <<2, Len(v)>>
<1>1. m \in Seq(Nat) /\ Len(m) \in 1..n /\ m[1] # 0 /\ m[1] \in 0..255
  BY MagnitudeFacts
<1>2. DerInteger(x) = h \o v
  BY DEF DerInteger, Magnitude
<1> HIDE DEF m
<1>3. /\ v \in Seq(Nat) /\ Len(v) \in 1..(n + 1) /\ v # <<>>
      /\ m = IF v[1] = 0 THEN Tail(v) ELSE v
  <2>1. CASE m[1] >= 128
    <3>1. <<0>> \in Seq(Nat) /\ Len(<<0>>) = 1 /\ <<0>>[1] = 0
      OBVIOUS
    <3>2. /\ <<0>> \o m \in Seq(Nat) /\ Len(<<0>> \o m) = 1 + Len(m)
          /\ (<<0>> \o m)[1] = 0 /\ \A i \in 1..Len(m) : (<<0>> \o m)[1 + i] = m[i]
      BY <1>1, <3>1, Indices
    <3>3. v = <<0>> \o m
      BY <2>1
    <3> HIDE DEF v
    <3>4. v \in Seq(Nat) /\ Len(v) = 1 + Len(m) /\ v[1] = 0
      BY <3>2, <3>3
    <3>5. v # <<>>
      BY <3>4, <1>1, EmptySeq
    <3>6. /\ Tail(v) \in Seq(Nat) /\ Len(Tail(v)) = Len(v) - 1
          /\ \A i \in 1..Len(Tail(v)) : Tail(v)[i] = v[i + 1]
      BY <3>4, <3>5, HeadTailProperties
    <3>7. Len(Tail(v)) = Len(m) /\ \A i \in 1..Len(Tail(v)) : Tail(v)[i] = m[i]
      <4>1. Len(Tail(v)) = Len(m)
        BY <1>1, <3>4, <3>6
      <4>2. ASSUME NEW i \in 1..Len(m) PROVE Tail(v)[i] = m[i]
        <5>1. i + 1 = 1 + i
          BY <1>1
        <5>2. QED BY <3>2, <3>3, <3>6, <4>1, <5>1
      <4>3. QED BY <4>1, <4>2
    <3>8. Tail(v) = m
      BY <1>1, <3>6, <3>7, SeqEqual
    <3>9. QED BY <1>1, <3>4, <3>5, <3>8
  <2>2. CASE ~(m[1] >= 128)
    <3>1. v = m
      BY <2>2
    <3> HIDE DEF v
    <3>2. QED BY <1>1, <3>1, EmptySeq
  <2>3. QED BY <2>1, <2>2
<1> HIDE DEF v
<1>4. h \in Seq(Nat) /\ Len(h) = 2 /\ h[1] = 2 /\ h[2] = Len(v)
  BY <1>3
<1> HIDE DEF h
<1>5. /\ h \o v \in Seq(Nat) /\ Len(h \o v) = 2 + Len(v)
      /\ (h \o v)[1] = 2 /\ (h \o v)[2] = Len(v)
      /\ \A i \in 1..Len(v) : (h \o v)[2 + i] = v[i]
  <2>1. /\ h \o v \in Seq(Nat) /\ Len(h \o v) = Len(h) + Len(v)
        /\ \A i \in 1..Len(h) : (h \o v)[i] = h[i]
        /\ \A i \in 1..Len(v) : (h \o v)[Len(h) + i] = v[i]
    <3>1. h \in Seq(Nat) /\ v \in Seq(Nat)
      BY <1>3, <1>4
    <3>2. QED BY <3>1, Indices
  <2>2. 1 \in 1..Len(h) /\ 2 \in 1..Len(h)
    BY <1>4
  <2>3. QED BY <1>4, <2>1, <2>2
<1>6. Len(h \o v) \in 3..(n + 3) /\ Len(v) = Len(h \o v) - 2
  BY <1>3, <1>5
<1>7. QED BY <1>2, <1>3, <1>5, <1>6 DEF m

\* The decoder finds an integer wherever it is in the bytes.
LEMMA IntegerFound ==
  ASSUME NEW n \in Nat, NEW x \in Scalars(n), NEW d \in Seq(Nat), NEW k \in Nat,
         k + Len(DerInteger(x)) <= Len(d),
         \A i \in 1..Len(DerInteger(x)) : d[k + i] = DerInteger(x)[i]
  PROVE  IntegerAt(d, k + 1) =
           [tag |-> 2, next |-> k + 1 + Len(DerInteger(x)), bytes |-> Magnitude(x)]
<1> DEFINE e == DerInteger(x)
<1>1. /\ e \in Seq(Nat) /\ Len(e) \in 3..(n + 3) /\ e[1] = 2 /\ e[2] = Len(e) - 2
  BY DerIntegerFacts
<1>2. PICK v \in Seq(Nat) :
        /\ Len(v) = Len(e) - 2
        /\ \A i \in 1..Len(v) : e[2 + i] = v[i]
        /\ v # <<>> /\ Magnitude(x) = IF v[1] = 0 THEN Tail(v) ELSE v
  BY DerIntegerFacts
<1> HIDE DEF e
<1>3. /\ k + Len(e) <= Len(d) /\ \A i \in 1..Len(e) : d[k + i] = e[i]
  BY DEF e
<1>4. d[k + 1] = 2 /\ d[k + 2] = Len(v)
  <2>1. 1 \in 1..Len(e) /\ 2 \in 1..Len(e)
    BY <1>1
  <2>2. d[k + 1] = e[1] /\ d[k + 2] = e[2]
    BY <1>3, <2>1
  <2>3. QED BY <1>1, <1>2, <2>2
<1>5. SubSeq(d, k + 3, k + 2 + Len(v)) = v
  <2>1. k + 2 \in Nat /\ (k + 2) + Len(v) <= Len(d) /\ (k + 2) + 1 = k + 3
    BY <1>1, <1>2, <1>3
  <2>2. ASSUME NEW i \in 1..Len(v) PROVE d[(k + 2) + i] = v[i]
    <3>1. Len(e) \in Nat /\ Len(v) = Len(e) - 2 /\ i \in Nat /\ 1 <= i /\ i <= Len(v)
      BY <1>1, <1>2
    <3>2. 2 + i \in 1..Len(e) /\ k + (2 + i) = (k + 2) + i
      BY <3>1
    <3>3. QED BY <1>2, <1>3, <3>2
  <2>3. SubSeq(d, (k + 2) + 1, (k + 2) + Len(v)) = v
    BY <2>1, <2>2, Piece
  <2>4. QED BY <2>1, <2>3
<1>6. IntegerAt(d, k + 1) =
        [tag |-> 2, next |-> k + 1 + Len(e),
         bytes |-> IF v # <<>> /\ v[1] = 0 THEN Tail(v) ELSE v]
  <2>1. (k + 1) + 1 = k + 2 /\ (k + 1) + 2 = k + 3
    OBVIOUS
  <2>2. (k + 1) + 1 + Len(v) = k + 2 + Len(v) /\ (k + 1) + 2 + Len(v) = k + 1 + Len(e)
    BY <1>1, <1>2
  <2>3. SubSeq(d, (k + 1) + 2, (k + 1) + 1 + d[(k + 1) + 1]) = v
    BY <1>4, <1>5, <2>1, <2>2
  <2>4. /\ (k + 1) + 2 + d[(k + 1) + 1] = k + 1 + Len(e) /\ d[k + 1] = 2
    BY <1>4, <2>1, <2>2
  <2>5. IntegerAt(d, k + 1) =
          [tag |-> d[k + 1], next |-> (k + 1) + 2 + d[(k + 1) + 1],
           bytes |-> LET u == SubSeq(d, (k + 1) + 2, (k + 1) + 1 + d[(k + 1) + 1])
                     IN  IF u # <<>> /\ u[1] = 0 THEN Tail(u) ELSE u]
    BY DEF IntegerAt
  <2>6. QED BY <2>3, <2>4, <2>5
<1>7. QED BY <1>2, <1>6 DEF e

\* P11_DecodeDerEcdsaSignature gives back the two numbers of a signature, each
\* as wide as it was, as long as the sequence's length takes one byte.
LEMMA SignatureDecoded ==
  ASSUME NEW n \in Nat, n <= 60, NEW r \in Scalars(n), NEW s \in Scalars(n)
  PROVE  P11_DecodeDerEcdsaSignature(DerSignature(r, s), n) = Structure(<<>>, r \o s)
<1> DEFINE a == DerInteger(r)
           b == DerInteger(s)
           w == a \o b
           h == <<48, Len(w)>>
           d == DerSignature(r, s)
<1>1. /\ a \in Seq(Nat) /\ Len(a) \in 3..(n + 3)
      /\ b \in Seq(Nat) /\ Len(b) \in 3..(n + 3)
  BY DerIntegerFacts
<1>2. d = h \o w
  BY DEF DerSignature
<1> HIDE DEF a, b, d
<1>3. /\ w \in Seq(Nat) /\ Len(w) = Len(a) + Len(b)
      /\ \A i \in 1..Len(a) : w[i] = a[i]
      /\ \A i \in 1..Len(b) : w[Len(a) + i] = b[i]
  BY <1>1, Indices
<1> HIDE DEF w
<1>4. h \in Seq(Nat) /\ Len(h) = 2 /\ h[1] = 48 /\ h[2] = Len(w)
  BY <1>1, <1>3
<1> HIDE DEF h
<1>5. /\ d \in Seq(Nat) /\ Len(d) = 2 + Len(w) /\ d[1] = 48 /\ d[2] = Len(w)
      /\ \A i \in 1..Len(w) : d[2 + i] = w[i]
  <2>1. /\ h \o w \in Seq(Nat) /\ Len(h \o w) = Len(h) + Len(w)
        /\ \A i \in 1..Len(h) : (h \o w)[i] = h[i]
        /\ \A i \in 1..Len(w) : (h \o w)[Len(h) + i] = w[i]
    <3>1. h \in Seq(Nat) /\ w \in Seq(Nat)
      BY <1>3, <1>4
    <3>2. QED BY <3>1, Indices
  <2>2. 1 \in 1..Len(h) /\ 2 \in 1..Len(h)
    BY <1>4
  <2>3. QED BY <1>2, <1>4, <2>1, <2>2
<1> DEFINE La == Len(a)
           Lb == Len(b)
<1>6. /\ La \in 3..(n + 3) /\ Lb \in 3..(n + 3) /\ Len(w) = La + Lb
       /\ Len(d) = 2 + Len(w) /\ d[2] = Len(w)
  BY <1>1, <1>3, <1>5
<1> HIDE DEF La, Lb
<1>7. La \in Nat /\ Lb \in Nat /\ Len(w) = La + Lb /\ Len(d) = 2 + (La + Lb)
  BY <1>6
<1>8. ~(d[2] >= 128)
  BY <1>6
<1>9. IntegerAt(d, 3) = [tag |-> 2, next |-> 3 + Len(a), bytes |-> Magnitude(r)]
  <2>1. 2 + La <= Len(d) /\ La \in Nat /\ Lb \in Nat /\ Len(w) = La + Lb
    BY <1>7
  <2>2. ASSUME NEW i \in 1..Len(a) PROVE d[2 + i] = a[i]
    <3>1. i \in 1..Len(w)
      BY <2>1 DEF La
    <3>2. QED BY <1>3, <1>5, <3>1
  <2>3. IntegerAt(d, 2 + 1) = [tag |-> 2, next |-> 2 + 1 + Len(a), bytes |-> Magnitude(r)]
    <3>1. 2 + Len(a) <= Len(d) /\ 2 \in Nat /\ d \in Seq(Nat)
      BY <1>5, <2>1 DEF La
    <3>2. QED BY <3>1, <2>2, IntegerFound DEF a
  <2>4. 2 + 1 = 3 /\ 2 + 1 + Len(a) = 3 + Len(a)
    BY <1>1
  <2>5. QED BY <2>3, <2>4
<1>10. IntegerAt(d, 3 + Len(a)) =
        [tag |-> 2, next |-> 3 + Len(a) + Len(b), bytes |-> Magnitude(s)]
  <2> DEFINE k == 2 + Len(a)
  <2>1. k + Len(b) <= Len(d) /\ k \in Nat
    BY <1>7 DEF La, Lb
  <2>2. ASSUME NEW i \in 1..Len(b) PROVE d[k + i] = b[i]
    <3>1. Len(a) + i \in 1..Len(w) /\ 2 + (Len(a) + i) = k + i
      BY <1>1, <1>3
    <3>2. QED BY ZenonT(40), <1>3, <1>5, <3>1
  <2>3. k + 1 = 3 + Len(a) /\ k + 1 + Len(b) = 3 + Len(a) + Len(b)
    BY <1>1
  <2> HIDE DEF k
  <2>4. IntegerAt(d, k + 1) = [tag |-> 2, next |-> k + 1 + Len(b), bytes |-> Magnitude(s)]
    BY <1>5, <2>1, <2>2, IntegerFound DEF b
  <2>5. QED BY <2>3, <2>4
<1>11. /\ Pad(Magnitude(r), n) = r /\ Pad(Magnitude(s), n) = s
      /\ Len(Magnitude(r)) \in 1..n /\ Len(Magnitude(s)) \in 1..n
  BY MagnitudeFacts
<1>12. P11_DecodeDerEcdsaSignature(d, n) =
         LET p == IF d[2] >= 128 THEN 3 + (d[2] % 128) ELSE 3
             u == IntegerAt(d, p)
             v == IntegerAt(d, u.next)
         IN  IF d[1] # 48 \/ u.tag # 2 \/ v.tag # 2 \/ Len(u.bytes) > n \/ Len(v.bytes) > n
             THEN Nothing
             ELSE Structure(<<>>, Pad(u.bytes, n) \o Pad(v.bytes, n))
  BY DEF P11_DecodeDerEcdsaSignature
<1> DEFINE u == IntegerAt(d, 3)
           v == IntegerAt(d, u.next)
<1>13. /\ u.next = 3 + Len(a) /\ u.tag = 2 /\ u.bytes = Magnitude(r)
  BY <1>9
<1>14. v.tag = 2 /\ v.bytes = Magnitude(s)
  BY <1>10, <1>13
<1>15. P11_DecodeDerEcdsaSignature(d, n) =
         IF d[1] # 48 \/ u.tag # 2 \/ v.tag # 2 \/ Len(u.bytes) > n \/ Len(v.bytes) > n
         THEN Nothing
         ELSE Structure(<<>>, Pad(u.bytes, n) \o Pad(v.bytes, n))
  BY <1>8, <1>12
<1> HIDE DEF u, v
<1>16. P11_DecodeDerEcdsaSignature(d, n) = Structure(<<>>, r \o s)
  BY <1>5, <1>11, <1>13, <1>14, <1>15
<1>17. QED BY <1>16 DEF d

-----------------------------------------------------------------------------

\* A step of t writes no other call's entries.
Own(t) ==
  /\ DOMAIN pc' = Threads /\ DOMAIN heap' = Threads /\ DOMAIN lease' = Threads
  /\ DOMAIN status' = Threads /\ DOMAIN call' = Threads /\ DOMAIN told' = Threads
  /\ DOMAIN raw' = Threads /\ DOMAIN result' = Threads /\ DOMAIN out' = Threads
  /\ DOMAIN attr' = Threads /\ DOMAIN made' = Threads
  /\ \A u \in Threads : u # t =>
       /\ pc'[u] = pc[u] /\ heap'[u] = heap[u] /\ lease'[u] = lease[u]
       /\ status'[u] = status[u] /\ call'[u] = call[u] /\ told'[u] = told[u]
       /\ raw'[u] = raw[u] /\ result'[u] = result[u] /\ out'[u] = out[u]
       /\ attr'[u] = attr[u] /\ made'[u] = made[u]

\* A call that has not moved keeps its invariant.
LEMMA Unmoved ==
  ASSUME NEW u \in Threads, CallInv(u), SizeInv(u), BlobInv(u), SignInv(u),
         pc'[u] = pc[u], heap'[u] = heap[u], lease'[u] = lease[u],
         status'[u] = status[u], call'[u] = call[u], told'[u] = told[u],
         raw'[u] = raw[u], result'[u] = result[u], out'[u] = out[u], attr'[u] = attr[u],
         made'[u] = made[u]
  PROVE  CallInv(u)' /\ SizeInv(u)' /\ BlobInv(u)' /\ SignInv(u)'
<1>1. CallInv(u)'
  BY DEF CallInv, Query
<1>2. SizeInv(u)'
  BY DEF SizeInv, Query
<1>3. BlobInv(u)'
  BY DEF BlobInv, Matching, Query
<1>4. Signed(u) => Signed(u)'
  BY DEF Signed
<1>5. SignInv(u)'
  BY <1>4 DEF SignInv, Query
<1>6. QED BY <1>1, <1>2, <1>3, <1>5

\* For a step of t it is enough to look at t.
LEMMA OthersKeep ==
  ASSUME IInv, NEW t \in Threads, Own(t),
         CallInv(t)', SizeInv(t)', BlobInv(t)', SignInv(t)'
  PROVE  IInv'
<1>1. ASSUME NEW u \in Threads, u # t
      PROVE  CallInv(u)' /\ SizeInv(u)' /\ BlobInv(u)' /\ SignInv(u)'
  BY <1>1, Unmoved DEF Own, IInv
<1>2. QED BY <1>1 DEF Own, IInv

\* The initial state satisfies the invariant.
LEMMA InitIInv == Init => IInv
<1> SUFFICES ASSUME Init PROVE IInv
  OBVIOUS
<1>1. /\ DOMAIN pc = Threads /\ DOMAIN heap = Threads /\ DOMAIN status = Threads
      /\ DOMAIN call = Threads /\ DOMAIN lease = Threads /\ DOMAIN told = Threads
      /\ DOMAIN raw = Threads /\ DOMAIN result = Threads /\ DOMAIN out = Threads
      /\ DOMAIN attr = Threads /\ DOMAIN made = Threads
  BY DEF Init, Lease!Init
<1>2. ASSUME NEW t \in Threads PROVE CallInv(t) /\ SizeInv(t) /\ BlobInv(t) /\ SignInv(t)
  <2>1. /\ pc[t] = "idle" /\ heap[t] = {} /\ lease[t] = NoSession
        /\ status[t] = "ERROR_SUCCESS" /\ told[t].cb = NoBuffer
    BY DEF Init, Lease!Init, NoCall
  <2>2. QED BY <2>1 DEF CallInv, SizeInv, BlobInv, SignInv, Clean, Sessionless, Exporting, Working
<1>3. QED BY <1>1, <1>2 DEF IInv

\* The common end of the calls: an answer of the size that was told fits.
LEMMA AnswerFits ==
  ASSUME NEW t \in Threads, NEW a, SizeInv(t), Answer(t, a), pc[t] # "idle",
         DOMAIN result = Threads, DOMAIN status = Threads,
         Size(a) = AnswerSize(call[t].what, call[t].key),
         call[t] \in [what : Whats, key : Keys, cb : Int],
         status[t] = "ERROR_SUCCESS",
         pc'[t] = "return", call' = call, told' = told
  PROVE  SizeInv(t)'
<1>1. Size(a) \in Nat
  BY SizeIsNat
<1>2. result'[t] = Size(a)
  BY DEF Answer
<1>3. CASE Query(t)
  BY <1>2, <1>3 DEF SizeInv, Query
<1>4. CASE ~Query(t)
  <2>1. told[t].cb = Size(a)
    BY <1>4 DEF SizeInv
  <2>2. \/ call[t].cb < Size(a) /\ status'[t] = "NTE_BUFFER_TOO_SMALL"
        \/ call[t].cb >= Size(a) /\ status'[t] = "ERROR_SUCCESS"
    BY <1>4 DEF Answer, Status
  <2>3. QED BY <1>1, <1>4, <2>1, <2>2 DEF SizeInv, Query
<1>5. QED BY <1>3, <1>4

\* A call begins with nothing on the heap.
LEMMA CallStep == ASSUME IInv, NEW t \in Threads, Call(t) PROVE IInv'
<1> USE DEF At, Goto, Status, answerVars
<1>1. Own(t)
  BY DEF Call, Own, IInv
<1>2. CallInv(t)'
  BY DEF Call, IInv, CallInv, Query, Clean, Sessionless, Exporting, Working,
         Whats, Blobs
<1>3. SizeInv(t)'
  <2>1. PICK c \in [what : Whats, key : Keys, cb : {NoBuffer, told[t].cb, told[t].cb - 1}] :
          /\ \/ c.cb = NoBuffer /\ told' = [told EXCEPT ![t] = NoCall]
             \/ c.cb >= 0 /\ c.what = told[t].what /\ c.key = told[t].key /\ UNCHANGED told
          /\ call' = [call EXCEPT ![t] = c]
          /\ pc' = [pc EXCEPT ![t] = IF c.what \in KeyProperties THEN "property"
                                      ELSE "acquire"]
    BY DEF Call
  <2>2. /\ call'[t] = c /\ pc'[t] = (IF c.what \in KeyProperties THEN "property"
                                      ELSE "acquire")
        /\ SizeInv(t) /\ NoCall.cb = NoBuffer
    BY <2>1 DEF IInv, NoCall
  <2>3. told[t].cb \in Int
    BY <2>2, SizeIsNat DEF SizeInv, NoBuffer
  <2>4. c \in [what : Whats, key : Keys, cb : Int]
    BY <2>3 DEF NoBuffer
  <2>5. CASE c.cb = NoBuffer
    <3>1. told'[t] = NoCall
      BY <2>1, <2>5 DEF IInv, NoBuffer
    <3>2. QED BY <2>2, <2>4, <2>5, <3>1 DEF SizeInv, Query
  <2>6. CASE c.cb # NoBuffer
    <3>1. /\ told' = told /\ c.cb >= 0 /\ c.what = told[t].what /\ c.key = told[t].key
          /\ c.cb \in {told[t].cb, told[t].cb - 1}
      BY <2>1, <2>6
    <3>2. told[t].cb # NoBuffer
      BY <2>3, <3>1 DEF NoBuffer
    <3>3. QED BY <2>2, <2>4, <2>6, <3>1, <3>2 DEF SizeInv, Query
  <2>7. QED BY <2>5, <2>6
<1>4. BlobInv(t)'
  BY DEF Call, IInv, CallInv, SizeInv, BlobInv, Matching,
         Query, Exporting, Working, Whats, Blobs, KeyProperties
<1>5. SignInv(t)'
  BY DEF Call, IInv, CallInv, SizeInv, SignInv, Signed, Query,
         Exporting, Working, Blobs, KeyProperties
<1>6. QED BY <1>1, <1>2, <1>3, <1>4, <1>5, OthersKeep

\* A call that goes to the token has a session.
LEMMA AcquireStep == ASSUME IInv, NEW t \in Threads, Acquire(t) PROVE IInv'
<1> USE DEF At, Goto, Status, answerVars
<1>1. Own(t)
  BY DEF Acquire, Lease!Grant, Own, IInv
<1>2. CallInv(t)'
  BY DEF Acquire, Lease!Grant, IInv, CallInv, Query, Clean, Sessionless, Exporting, Working,
         Whats, Blobs
<1>3. SizeInv(t)'
  BY DEF Acquire, Lease!Grant, IInv, CallInv, SizeInv, Query, Clean, Exporting, Working,
         Whats, Blobs, KeyProperties
<1>4. BlobInv(t)'
  BY DEF Acquire, Lease!Grant, IInv, CallInv, SizeInv, BlobInv, Matching,
         Query, Exporting, Working, Whats, Blobs, KeyProperties
<1>5. SignInv(t)'
  BY DEF Acquire, Lease!Grant, IInv, CallInv, SizeInv, SignInv, Signed, Query,
         Exporting, Working, Blobs, KeyProperties
<1>6. QED BY <1>1, <1>2, <1>3, <1>4, <1>5, OthersKeep

\* A call without a session returns.
LEMMA AcquireFailsStep == ASSUME IInv, NEW t \in Threads, AcquireFails(t) PROVE IInv'
<1> USE DEF At, Goto, Status, answerVars
<1>1. Own(t)
  BY DEF AcquireFails, Own, IInv
<1>2. CallInv(t)'
  BY DEF AcquireFails, IInv, CallInv, Query, Clean, Sessionless, Exporting, Working,
         Whats, Blobs
<1>3. SizeInv(t)'
  BY DEF AcquireFails, IInv, CallInv, SizeInv, Query, Clean, Exporting, Working,
         Whats, Blobs, KeyProperties
<1>4. BlobInv(t)'
  BY DEF AcquireFails, IInv, CallInv, SizeInv, BlobInv, Matching,
         Query, Exporting, Working, Whats, Blobs, KeyProperties
<1>5. SignInv(t)'
  BY DEF AcquireFails, IInv, CallInv, SizeInv, SignInv, Signed, Query,
         Exporting, Working, Blobs, KeyProperties
<1>6. QED BY <1>1, <1>2, <1>3, <1>4, <1>5, OthersKeep

\* The session is given back; what follows depends on what was made.
LEMMA ReleaseStep == ASSUME IInv, NEW t \in Threads, Release(t) PROVE IInv'
<1> USE DEF At, Goto, Status, answerVars
<1>1. Own(t)
  BY DEF Release, Lease!Return, Own, IInv
<1>2. CallInv(t)'
  BY DEF Release, Lease!Return, IInv, CallInv, Query, Clean, Sessionless, Exporting, Working,
         Whats, Blobs
<1>3. SizeInv(t)'
  BY DEF Release, Lease!Return, IInv, CallInv, SizeInv, Query, Clean, Exporting, Working,
         Whats, Blobs, KeyProperties
<1>4. BlobInv(t)'
  BY DEF Release, Lease!Return, IInv, CallInv, SizeInv, BlobInv, Matching,
         Query, Exporting, Working, Whats, Blobs, KeyProperties
<1>5. SignInv(t)'
  <2>1. /\ SignInv(t) /\ pc[t] = "release"
        /\ call' = call /\ made' = made /\ raw' = raw /\ status' = status
        /\ pc'[t] = (IF status[t] # "ERROR_SUCCESS" THEN "return"
                     ELSE IF call[t].what \in Blobs THEN "deliver"
                     ELSE IF Query(t) THEN "return" ELSE "decode")
    BY DEF IInv, Release
  <2>2. CASE /\ call[t].what = "signature" /\ ~Query(t)
             /\ status[t] = "ERROR_SUCCESS"
    <3>1. Signed(t) /\ pc'[t] = "decode"
      BY <2>1, <2>2 DEF SignInv, Blobs
    <3>2. Signed(t)'
      BY <2>1, <3>1 DEF Signed
    <3>3. QED BY <3>1, <3>2 DEF SignInv
  <2>3. CASE ~(/\ call[t].what = "signature" /\ ~Query(t)
               /\ status[t] = "ERROR_SUCCESS")
    BY <2>1, <2>3 DEF SignInv, Query
  <2>4. QED BY <2>2, <2>3
<1>6. QED BY <1>1, <1>2, <1>3, <1>4, <1>5, OthersKeep

\* A call that returns has freed its blocks.
LEMMA ReturnStep == ASSUME IInv, NEW t \in Threads, Return(t) PROVE IInv'
<1> USE DEF At, Goto, Status, answerVars
<1>1. Own(t)
  BY DEF Return, Own, IInv
<1>2. CallInv(t)'
  BY DEF Return, IInv, CallInv, Query, Clean, Sessionless, Exporting, Working,
         Whats, Blobs
<1>3. SizeInv(t)'
  <2>1. SizeInv(t) /\ pc[t] = "return"
    BY DEF IInv, Return
  <2>2. pc'[t] = "idle" /\ NoCall.cb = NoBuffer
    BY DEF IInv, Return, NoCall
  <2>3. CASE Query(t) /\ status[t] = "ERROR_SUCCESS"
    <3>1. told'[t] = [call[t] EXCEPT !.cb = result[t]]
      BY <2>3 DEF IInv, Return
    <3>2. call[t] \in [what : Whats, key : Keys, cb : Int]
      BY <2>1 DEF SizeInv
    <3>3. /\ told'[t].what = call[t].what /\ told'[t].key = call[t].key
          /\ told'[t].cb = result[t]
      BY <3>1, <3>2
    <3>4. result[t] = AnswerSize(call[t].what, call[t].key)
      BY <2>1, <2>3 DEF SizeInv
    <3>5. QED BY <2>2, <3>2, <3>3, <3>4 DEF SizeInv
  <2>4. CASE ~(Query(t) /\ status[t] = "ERROR_SUCCESS")
    <3>1. told'[t] = NoCall
      BY <2>4 DEF IInv, Return
    <3>2. QED BY <2>2, <3>1 DEF SizeInv
  <2>5. QED BY <2>3, <2>4
<1>4. BlobInv(t)'
  BY DEF Return, IInv, CallInv, SizeInv, BlobInv, Matching,
         Query, Exporting, Working, Whats, Blobs, KeyProperties
<1>5. SignInv(t)'
  BY DEF Return, IInv, CallInv, SizeInv, SignInv, Signed, Query,
         Exporting, Working, Blobs, KeyProperties
<1>6. QED BY <1>1, <1>2, <1>3, <1>4, <1>5, OthersKeep

\* The getters allocate nothing.
LEMMA GetKeyPropertyStep == ASSUME IInv, NEW t \in Threads, GetKeyProperty(t) PROVE IInv'
<1> USE DEF At, Goto, Status, answerVars
<1>1. Own(t)
  BY DEF GetKeyProperty, Answer, Own, IInv
<1>2. CallInv(t)'
  BY DEF GetKeyProperty, Answer, IInv, CallInv, Query, Clean, Sessionless, Exporting, Working,
         Whats, Blobs
<1>3. SizeInv(t)'
  <2> DEFINE a == KeyProperty(call[t].key, call[t].what)
  <2>1. SizeInv(t) /\ CallInv(t) /\ pc[t] = "property" /\ Answer(t, a)
    BY DEF IInv, GetKeyProperty
  <2>2. /\ call[t] \in [what : Whats, key : Keys, cb : Int]
        /\ Size(a) = AnswerSize(call[t].what, call[t].key)
        /\ status[t] = "ERROR_SUCCESS"
    BY <2>1 DEF SizeInv, CallInv, AnswerSize, Working
  <2> HIDE DEF a
  <2>3. QED BY <2>1, <2>2, AnswerFits DEF GetKeyProperty, IInv
<1>4. BlobInv(t)'
  BY DEF GetKeyProperty, Answer, IInv, CallInv, SizeInv, BlobInv, Matching,
         Query, Exporting, Working, Whats, Blobs, KeyProperties
<1>5. SignInv(t)'
  BY DEF GetKeyProperty, IInv, CallInv, SizeInv, SignInv, Signed, Query,
         Exporting, Working, Blobs, KeyProperties
<1>6. QED BY <1>1, <1>2, <1>3, <1>4, <1>5, OthersKeep

\* An attribute is allocated, or all are freed.
LEMMA AttrSizeStep == ASSUME IInv, NEW t \in Threads, AttrSize(t) PROVE IInv'
<1> USE DEF At, Goto, Status, answerVars
<1>1. Own(t)
  BY DEF AttrSize, BadAttribute, Own, IInv
<1>2. CallInv(t)'
  BY DEF AttrSize, BadAttribute, IInv, CallInv, Query, Clean, Sessionless, Exporting, Working,
         Whats, Blobs
<1>3. SizeInv(t)'
  BY ZenonT(40)
     DEF AttrSize, BadAttribute, IInv, CallInv, SizeInv, Query, Clean, Exporting, Working,
         Whats, Blobs, KeyProperties
<1>4. BlobInv(t)'
  <2>1. CallInv(t) /\ SizeInv(t) /\ BlobInv(t) /\ pc[t] = "size"
    BY DEF IInv, AttrSize
  <2>2. /\ call[t].what \in Blobs /\ status[t] = "ERROR_SUCCESS"
        /\ call[t].key \in Keys
        /\ attr[t] \in IF call[t].what = "RSAPUBLICBLOB" THEN {"modulus", "exponent"}
                       ELSE {"point"}
    BY <2>1 DEF CallInv, SizeInv, BlobInv, Exporting, Working
  <2>3. CASE /\ Readable(t) /\ pc'[t] = "value"
             /\ UNCHANGED <<attr, call>>
    <3>1. attr[t] \in Attributes(call[t].key)
      BY <2>3 DEF Readable
    <3>2. Matching(t)
      BY <2>2, <3>1 DEF Attributes, Matching, Keys, EcKeys
    <3>3. QED BY <2>1, <2>3, <3>2 DEF BlobInv, Matching, Exporting
  <2>4. CASE pc'[t] = "release" /\ status'[t] = "NTE_BAD_KEY"
    BY <2>4 DEF BlobInv, Exporting
  <2>5. QED BY <2>3, <2>4 DEF AttrSize, BadAttribute, IInv
<1>5. SignInv(t)'
  BY DEF AttrSize, BadAttribute, IInv, CallInv, SizeInv, SignInv, Signed, Query,
         Exporting, Working, Blobs, KeyProperties
<1>6. QED BY <1>1, <1>2, <1>3, <1>4, <1>5, OthersKeep

\* An attribute is read, or all are freed.
LEMMA AttrValueStep == ASSUME IInv, NEW t \in Threads, AttrValue(t) PROVE IInv'
<1> USE DEF At, Goto, Status, answerVars
<1>1. Own(t)
  BY DEF AttrValue, BadAttribute, Own, IInv
<1>2. CallInv(t)'
  BY DEF AttrValue, BadAttribute, IInv, CallInv, Query, Clean, Sessionless, Exporting, Working,
         Whats, Blobs
<1>3. SizeInv(t)'
  BY ZenonT(40)
     DEF AttrValue, BadAttribute, IInv, CallInv, SizeInv, Query, Clean, Exporting, Working,
         Whats, Blobs, KeyProperties
<1>4. BlobInv(t)'
  BY DEF AttrValue, BadAttribute, Readable, Attributes, IInv, CallInv, SizeInv, BlobInv, Matching,
         Query, Exporting, Working, Whats, Blobs, KeyProperties
<1>5. SignInv(t)'
  BY DEF AttrValue, BadAttribute, IInv, CallInv, SizeInv, SignInv, Signed, Query,
         Exporting, Working, Blobs, KeyProperties
<1>6. QED BY <1>1, <1>2, <1>3, <1>4, <1>5, OthersKeep

\* The blob takes the place of the attributes, or all are freed.
LEMMA BlobStep == ASSUME IInv, NEW t \in Threads, Blob(t) PROVE IInv'
<1> USE DEF At, Goto, Status, answerVars
<1>1. Own(t)
  BY DEF Blob, Own, IInv
<1>2. CallInv(t)'
  BY DEF Blob, IInv, CallInv, Query, Clean, Sessionless, Exporting, Working,
         Whats, Blobs
<1>3. SizeInv(t)'
  <2>1. /\ SizeInv(t) /\ CallInv(t) /\ pc[t] = "blob" /\ pc'[t] = "release"
        /\ call'[t] = call[t] /\ told'[t] = told[t]
    BY DEF IInv, Blob
  <2>2. call[t].what \in Blobs /\ status[t] = "ERROR_SUCCESS"
    BY <2>1 DEF CallInv, Exporting, Working
  <2>3. CASE status'[t] = "ERROR_SUCCESS"
    <3>1. raw'[t] = BlobOf(call[t].what, call[t].key)
      BY <2>3, <2>2 DEF Blob, BlobOf, IInv
    <3>2. QED BY <2>1, <2>2, <2>3, <3>1
          DEF SizeInv, Query, Blobs, KeyProperties
  <2>4. CASE status'[t] = "NTE_NO_MEMORY"
    BY <2>1, <2>2, <2>4 DEF SizeInv, Query, Blobs, KeyProperties
  <2>5. status'[t] \in {"ERROR_SUCCESS", "NTE_NO_MEMORY"}
    BY <2>2 DEF Blob, IInv
  <2>6. QED BY <2>3, <2>4, <2>5
<1>4. BlobInv(t)'
  BY DEF Blob, IInv, CallInv, SizeInv, BlobInv, Matching,
         Query, Exporting, Working, Whats, Blobs, KeyProperties
<1>5. SignInv(t)'
  BY DEF Blob, IInv, CallInv, SizeInv, SignInv, Signed, Query,
         Exporting, Working, Blobs, KeyProperties
<1>6. QED BY <1>1, <1>2, <1>3, <1>4, <1>5, OthersKeep

\* The blob is delivered and freed.
LEMMA DeliverStep == ASSUME IInv, NEW t \in Threads, Deliver(t) PROVE IInv'
<1> USE DEF At, Goto, Status, answerVars
<1>1. Own(t)
  BY DEF Deliver, Answer, Own, IInv
<1>2. CallInv(t)'
  BY DEF Deliver, Answer, IInv, CallInv, Query, Clean, Sessionless, Exporting, Working,
         Whats, Blobs
<1>3. SizeInv(t)'
  <2>1. SizeInv(t) /\ pc[t] = "deliver" /\ Answer(t, raw[t])
    BY DEF IInv, Deliver
  <2>2. /\ call[t] \in [what : Whats, key : Keys, cb : Int]
        /\ raw[t] = BlobOf(call[t].what, call[t].key)
        /\ status[t] = "ERROR_SUCCESS" /\ call[t].what \in Blobs
    BY <2>1 DEF SizeInv
  <2>3. Size(raw[t]) = AnswerSize(call[t].what, call[t].key)
    BY <2>2 DEF AnswerSize, Blobs, KeyProperties
  <2>4. QED BY <2>1, <2>2, <2>3, AnswerFits DEF Deliver, IInv
<1>4. BlobInv(t)'
  BY DEF Deliver, Answer, IInv, CallInv, SizeInv, BlobInv, Matching,
         Query, Exporting, Working, Whats, Blobs, KeyProperties
<1>5. SignInv(t)'
  BY DEF Deliver, IInv, CallInv, SizeInv, SignInv, Signed, Query,
         Exporting, Working, Blobs, KeyProperties
<1>6. QED BY <1>1, <1>2, <1>3, <1>4, <1>5, OthersKeep

\* A query allocates nothing; a signature is allocated otherwise.
LEMMA SignSizeStep == ASSUME IInv, NEW t \in Threads, SignSize(t) PROVE IInv'
<1> USE DEF At, Goto, Status, answerVars
<1>1. Own(t)
  BY DEF SignSize, SignFails, Own, IInv
<1>2. CallInv(t)'
  BY DEF SignSize, SignFails, IInv, CallInv, Query, Clean, Sessionless, Exporting, Working,
         Whats, Blobs
<1>3. SizeInv(t)'
  <2>1. /\ SizeInv(t) /\ CallInv(t) /\ pc[t] = "sign"
        /\ call'[t] = call[t] /\ told'[t] = told[t]
    BY DEF IInv, SignSize
  <2>2. call[t].what = "signature" /\ status[t] = "ERROR_SUCCESS"
    BY <2>1 DEF SizeInv, CallInv, Working
  <2>3. CASE pc'[t] = "release" /\ status'[t] = status[t] /\ Query(t)
             /\ result'[t] = SignatureSize(call[t].key)
    BY <2>1, <2>2, <2>3 DEF SizeInv, Query, AnswerSize, Blobs, KeyProperties
  <2>4. CASE pc'[t] = "data"
    BY <2>1, <2>2, <2>4 DEF SizeInv, Query
  <2>5. CASE pc'[t] = "release" /\ status'[t] \in {"NTE_BAD_KEY", "NTE_NO_MEMORY", "NTE_FAIL"}
    BY <2>1, <2>2, <2>5 DEF SizeInv, Query, KeyProperties
  <2>6. QED BY <2>3, <2>4, <2>5 DEF SignSize, SignFails, IInv
<1>4. BlobInv(t)'
  BY DEF SignSize, SignFails, IInv, CallInv, SizeInv, BlobInv, Matching,
         Query, Exporting, Working, Whats, Blobs, KeyProperties
<1>5. SignInv(t)'
  BY DEF SignSize, SignFails, IInv, CallInv, SizeInv, SignInv, Signed, Query,
         Exporting, Working, Blobs, KeyProperties
<1>6. QED BY <1>1, <1>2, <1>3, <1>4, <1>5, OthersKeep

\* The signature is made, or freed.
LEMMA SignDataStep == ASSUME IInv, NEW t \in Threads, SignData(t) PROVE IInv'
<1> USE DEF At, Goto, Status, answerVars
<1>1. Own(t)
  BY DEF SignData, SignFails, Own, IInv
<1>2. CallInv(t)'
  BY DEF SignData, SignFails, IInv, CallInv, Query, Clean, Sessionless, Exporting, Working,
         Whats, Blobs
<1>3. SizeInv(t)'
  BY DEF SignData, SignFails, IInv, CallInv, SizeInv, Query, Clean, Exporting, Working,
         Whats, Blobs, KeyProperties
<1>4. BlobInv(t)'
  BY DEF SignData, SignFails, IInv, CallInv, SizeInv, BlobInv, Matching,
         Query, Exporting, Working, Whats, Blobs, KeyProperties
<1>5. SignInv(t)'
  <2>1. /\ SizeInv(t) /\ CallInv(t) /\ pc[t] = "data" /\ pc'[t] = "release"
        /\ call'[t] = call[t]
    BY DEF IInv, SignData, SignFails
  <2>2. CASE /\ call[t].key \in RsaKeys
             /\ made' = [made EXCEPT ![t] = Numbered(50, RsaBytes)]
             /\ raw' = [raw EXCEPT ![t] = Structure(<<>>, made'[t])]
    <3>1. made'[t] \in Seq(Nat) /\ raw'[t] = Structure(<<>>, made'[t])
      BY <2>2, CoordIsNat, NumberedIsSeq DEF IInv
    <3>2. QED BY <2>1, <2>2, <3>1 DEF SignInv, Signed
  <2>3. CASE /\ call[t].key \in EcKeys
             /\ \E r, s \in Scalars(CoordBytes(call[t].key)) :
                  /\ made' = [made EXCEPT ![t] = r \o s]
                  /\ raw' = [raw EXCEPT ![t] = Structure(<<>>, DerSignature(r, s))]
    <3>1. PICK r, s \in Scalars(CoordBytes(call[t].key)) :
            /\ made' = [made EXCEPT ![t] = r \o s]
            /\ raw' = [raw EXCEPT ![t] = Structure(<<>>, DerSignature(r, s))]
      BY <2>3
    <3>2. made'[t] = r \o s /\ raw'[t] = Structure(<<>>, DerSignature(r, s))
      BY <3>1 DEF IInv
    <3>3. QED BY <2>1, <2>3, <3>2 DEF SignInv, Signed
  <2>4. CASE status'[t] # "ERROR_SUCCESS"
    BY <2>4 DEF SignInv
  <2>5. QED BY <2>2, <2>3, <2>4 DEF SignData, SignFails, IInv
<1>6. QED BY <1>1, <1>2, <1>3, <1>4, <1>5, OthersKeep

\* The signature is delivered, or refused, and freed.
LEMMA DecodeStep == ASSUME IInv, NEW t \in Threads, Decode(t) PROVE IInv'
<1> USE DEF At, Goto, Status, answerVars
<1>1. Own(t)
  BY DEF Decode, Own, IInv
<1>2. CallInv(t)'
  BY DEF Decode, IInv, CallInv, Query, Clean, Sessionless, Exporting, Working,
         Whats, Blobs
<1>3. SizeInv(t)'
  <2>1. /\ SizeInv(t) /\ pc[t] = "decode" /\ pc'[t] = "return"
        /\ call'[t] = call[t] /\ told'[t] = told[t]
    BY DEF IInv, Decode
  <2>2. /\ call[t].what = "signature" /\ ~Query(t)
        /\ call[t] \in [what : Whats, key : Keys, cb : Int]
    BY <2>1 DEF SizeInv
  <2>3. told[t].cb = SignatureSize(call[t].key) /\ SignatureSize(call[t].key) \in Nat
    BY <2>1, <2>2, CoordIsNat DEF SizeInv, AnswerSize, KeyProperties
  <2>4. CASE call[t].cb < SignatureSize(call[t].key) /\ status'[t] = "NTE_BUFFER_TOO_SMALL"
    BY <2>1, <2>2, <2>3, <2>4 DEF SizeInv, Query
  <2>5. CASE ~(call[t].cb < SignatureSize(call[t].key))
             /\ status'[t] \in {"NTE_INVALID_PARAMETER", status[t]}
    <3>1. status[t] = "ERROR_SUCCESS"
      BY <2>1 DEF SizeInv
    <3>2. QED BY <2>1, <2>2, <2>3, <2>5, <3>1 DEF SizeInv, Query
  <2>6. QED
    <3>1. CASE call[t].cb < SignatureSize(call[t].key)
      BY <2>4, <3>1 DEF Decode, IInv
    <3>2. CASE ~(call[t].cb < SignatureSize(call[t].key))
      BY <2>5, <3>2 DEF Decode, IInv
    <3>3. QED BY <3>1, <3>2
<1>4. BlobInv(t)'
  BY DEF Decode, IInv, CallInv, SizeInv, BlobInv, Matching,
         Query, Exporting, Working, Whats, Blobs, KeyProperties
<1>5. SignInv(t)'
  <2>1. /\ SizeInv(t) /\ SignInv(t) /\ pc[t] = "decode" /\ pc'[t] = "return"
        /\ call'[t] = call[t] /\ made'[t] = made[t] /\ raw'[t] = raw[t]
    BY DEF IInv, Decode
  <2>2. /\ call[t].what = "signature" /\ ~Query(t) /\ status[t] = "ERROR_SUCCESS"
        /\ Signed(t)
    BY <2>1 DEF SizeInv, SignInv
  <2> DEFINE k == call[t].key
             a == IF k \in RsaKeys THEN raw[t]
                  ELSE P11_DecodeDerEcdsaSignature(raw[t].body, CoordBytes(k))
  <2>3. \/ status'[t] # "ERROR_SUCCESS"
        \/ out'[t] = a /\ result'[t] = Size(a)
    BY DEF Decode, IInv
  <2> HIDE DEF a
  <2>4. CASE status'[t] # "ERROR_SUCCESS"
    BY <2>4 DEF SignInv
  <2>5. CASE out'[t] = a /\ result'[t] = Size(a)
    <3>1. Signed(t)'
      BY <2>1, <2>2 DEF Signed
    <3>2. QED BY <2>1, <2>5, <3>1 DEF SignInv, a
  <2>6. QED BY <2>3, <2>4, <2>5
<1>6. QED BY <1>1, <1>2, <1>3, <1>4, <1>5, OthersKeep

\* A key that goes from the token changes no call, nor does a stutter.
LEMMA NextIInv == IInv /\ [Next]_vars => IInv'
<1> SUFFICES ASSUME IInv, [Next]_vars PROVE IInv'
  OBVIOUS
<1>1. CASE Destroy \/ UNCHANGED vars
  <2>1. UNCHANGED <<pc, heap, lease, status, call, told, raw, result, out, attr, made>>
    BY <1>1 DEF Destroy, vars, answerVars
  <2>2. \A u \in Threads : CallInv(u)' /\ SizeInv(u)' /\ BlobInv(u)' /\ SignInv(u)'
    BY <2>1, Unmoved DEF IInv
  <2>3. QED BY <2>1, <2>2 DEF IInv
<1>2. QED BY <1>1, CallStep, AcquireStep, AcquireFailsStep, ReleaseStep, ReturnStep,
     GetKeyPropertyStep, AttrSizeStep, AttrValueStep, BlobStep, DeliverStep,
     SignSizeStep, SignDataStep, DecodeStep DEF Next

\* Where a call's blocks and its session are, and what it knows of the size of
\* its answer, throughout
THEOREM Invariance == Spec => []IInv
BY InitIInv, NextIInv, PTL DEF Spec

\* KSP_ExportKey, KSP_SignHash and the getters free what they allocate and give
\* their session back on every return path.
THEOREM NoneKept == Spec => []NothingKept
<1>1. IInv => NothingKept
  BY DEF IInv, CallInv, NothingKept, Clean, Sessionless
<1>2. QED BY <1>1, Invariance, PTL

\* A buffer of the size that was told is never too small, a shorter one never
\* succeeds.
THEOREM ToldSuffices == Spec => []TwoStepFits
<1>1. IInv => TwoStepFits
  BY DEF IInv, SizeInv, TwoStepFits, At
<1>2. QED BY <1>1, Invariance, PTL

\* A blob that is delivered is the public key on the token, for keys of any size.
THEOREM BlobsReadBack == Spec => []BlobsComeBack
<1>1. ASSUME IInv, NEW t \in Threads, Delivered(t, Blobs)
      PROVE  LET k == call[t].key
                 b == ImportKey(call[t].what, out[t])
             IN  IF k \in RsaKeys
                 THEN b = [alg |-> "RSA", bits |-> 8 * RsaBytes,
                           exponent |-> Attribute(k, "exponent"),
                           modulus |-> Attribute(k, "modulus")]
                 ELSE /\ b = [alg |-> IF k \in P256Keys THEN "ECDSA_P256" ELSE "ECDSA_P384",
                              bits |-> 8 * CoordBytes(k)]
                      /\ out[t].head[1] = IF k \in P256Keys THEN "P256" ELSE "P384"
                      /\ Attribute(k, "point") = <<4, Len(out[t].body) + 1, 4>> \o out[t].body
  <2>1. /\ Matching(t) /\ out[t] = BlobOf(call[t].what, call[t].key)
        /\ call[t].what \in Blobs
    BY <1>1 DEF IInv, BlobInv, Delivered, At
  <2>2. CASE call[t].what = "RSAPUBLICBLOB"
    <3>1. call[t].key \in RsaKeys
      BY <2>1, <2>2 DEF Matching
    <3>2. QED BY <2>1, <2>2, <3>1, RsaComesBack
  <2>3. CASE call[t].what = "ECCPUBLICBLOB"
    <3>1. call[t].key \in EcKeys /\ call[t].key \notin RsaKeys
      BY <2>1, <2>3, OutputsAssumption DEF Matching
    <3>2. QED BY <2>1, <2>3, <3>1, EcComesBack
  <2>4. QED BY <2>1, <2>2, <2>3 DEF Blobs
<1>2. IInv => BlobsComeBack
  BY <1>1 DEF BlobsComeBack
<1>3. QED BY <1>2, Invariance, PTL

\* What KSP_SignHash makes of the token's answer: r and s, or an RSA signature.
LEMMA Converted ==
  ASSUME P256Bytes <= 60, P384Bytes <= 60, NEW t \in Threads, Signed(t)
  PROVE  LET a == IF call[t].key \in RsaKeys THEN raw[t]
                  ELSE P11_DecodeDerEcdsaSignature(raw[t].body, CoordBytes(call[t].key))
         IN  /\ made[t] \in Seq(Nat) /\ a = Structure(<<>>, made[t])
             /\ Size(a) = Len(made[t])
<1> DEFINE k == call[t].key
           n == CoordBytes(k)
           a == IF k \in RsaKeys THEN raw[t]
                ELSE P11_DecodeDerEcdsaSignature(raw[t].body, n)
<1>1. Signed(t)
  OBVIOUS
<1>2. made[t] \in Seq(Nat) /\ a = Structure(<<>>, made[t])
  <2>1. CASE k \in RsaKeys
    BY <1>1, <2>1, OutputsAssumption DEF Signed
  <2>2. CASE k \notin RsaKeys
    <3>1. k \in EcKeys
      BY <1>1, <2>2 DEF Signed
    <3>2. PICK r, s \in Scalars(n) :
            made[t] = r \o s /\ raw[t] = Structure(<<>>, DerSignature(r, s))
      BY <1>1, <2>2 DEF Signed
    <3>3. n \in Nat /\ n <= 60
      BY <3>1, CoordIsNat DEF CoordBytes, Keys, EcKeys
    <3>4. raw[t].body = DerSignature(r, s)
      BY <3>2 DEF Structure
    <3>5. P11_DecodeDerEcdsaSignature(raw[t].body, n) = Structure(<<>>, r \o s)
      BY <3>3, <3>4, SignatureDecoded
    <3>6. r \in Seq(Nat) /\ s \in Seq(Nat)
      BY <3>3, FirstFacts
    <3>7. r \o s \in Seq(Nat)
      BY <3>6, Indices
    <3>8. QED BY <1>1, <2>2, <3>2, <3>5, <3>7
  <2>3. QED BY <2>1, <2>2
<1>3. Size(Structure(<<>>, made[t])) = Len(made[t])
  <2>1. Len(made[t]) \in Nat /\ Len(<<>>) = 0
    BY <1>2, LenProperties, EmptySeq
  <2>2. /\ Structure(<<>>, made[t]).head = <<>>
        /\ Structure(<<>>, made[t]).body = made[t]
    BY DEF Structure
  <2>3. Size(Structure(<<>>, made[t])) = 4 * Len(<<>>) + Len(made[t])
    BY <2>2 DEF Size
  <2>4. QED
    <3> DEFINE z == Len(<<>>)
               m == Len(made[t])
    <3>1. z = 0 /\ m \in Nat
      BY <2>1
    <3> HIDE DEF z, m
    <3>2. 4 * z + m = m
      BY <3>1
    <3>3. QED BY <2>3, <3>2 DEF z, m
<1>4. QED BY <1>2, <1>3

\* A signature that is delivered holds the two numbers the token made, for
\* coordinates of up to 60 bytes, as those of both curves are: a DER sequence of
\* two of them has a length of one byte.
THEOREM SignatureKept ==
  ASSUME P256Bytes <= 60, P384Bytes <= 60 PROVE Spec => []SignatureAsMade
<1>1. ASSUME IInv, NEW t \in Threads, Delivered(t, {"signature"})
      PROVE  out[t] = Structure(<<>>, made[t]) /\ result[t] = Len(made[t])
  <2>1. /\ Signed(t) /\ result[t] = Size(out[t])
        /\ out[t] = IF call[t].key \in RsaKeys THEN raw[t]
                    ELSE P11_DecodeDerEcdsaSignature(raw[t].body, CoordBytes(call[t].key))
    BY <1>1 DEF IInv, SignInv, Delivered, At
  <2>2. QED BY <2>1, Converted
<1>2. IInv => SignatureAsMade
  BY <1>1 DEF SignatureAsMade
<1>3. QED BY <1>2, Invariance, PTL

\* A call, or the answer of a query, is a question about a key.
Typed(c) == c.what \in Whats \cup {""} /\ c.key \in Keys \cup {NoKey}
            /\ c.cb \in Nat \cup {NoBuffer}

\* What is put on the heap
Blocks == {"modulus", "exponent", "point", "blob", "signature"}

\* The part of the type invariant that no conversion touches, and the sizes
Shape ==
  /\ lease \in [Threads -> Sessions \cup {NoSession}] /\ closed = FALSE
  /\ present \subseteq Keys
  /\ pc \in [Threads -> {"idle", "acquire", "property", "size", "value", "blob",
                         "deliver", "sign", "data", "decode", "release", "return"}]
  /\ attr \in [Threads -> {"", "modulus", "exponent", "point"}]
  /\ heap \in [Threads -> SUBSET Blocks]
  /\ status \in [Threads -> Statuses]

\* The type invariant, thread by thread
LEMMA TypeParts ==
  TypeOK <=> /\ Shape /\ result \in [Threads -> Nat]
             /\ \A t \in Threads : Typed(call[t]) /\ Typed(told[t])
BY DEF TypeOK, Shape, Typed, Blocks

\* The initial state is well typed.
LEMMA InitTypeOK == Init => TypeOK
<1> SUFFICES ASSUME Init PROVE TypeOK
  OBVIOUS
<1>1. Shape
  BY DEF Init, Lease!Init, Shape, Statuses, Blocks
<1>2. result \in [Threads -> Nat]
  BY DEF Init
<1>3. \A t \in Threads : Typed(call[t]) /\ Typed(told[t])
  BY DEF Init, Typed, NoCall, NoBuffer
<1>4. QED BY <1>1, <1>2, <1>3, TypeParts

\* A heap that changes for one call
LEMMA HeapPut ==
  ASSUME heap \in [Threads -> SUBSET Blocks], NEW t \in Threads, NEW x, x \subseteq Blocks
  PROVE  [heap EXCEPT ![t] = x] \in [Threads -> SUBSET Blocks]
OBVIOUS

\* No step leaves the shape.
LEMMA ShapeKept ==
  ASSUME IInv, Shape, [Next]_vars
  PROVE  Shape'
<1> USE DEF At, Goto, Status, answerVars
<1>1. ASSUME NEW t \in Threads, Call(t) PROVE Shape'
  BY <1>1 DEF Shape, Call
<1>2. ASSUME NEW t \in Threads, Acquire(t) PROVE Shape'
  BY <1>2 DEF Shape, Acquire, Lease!Grant
<1>3. ASSUME NEW t \in Threads, AcquireFails(t) \/ Release(t) PROVE Shape'
  BY <1>3 DEF Shape, AcquireFails, Release, Lease!Return, Statuses
<1>4. ASSUME NEW t \in Threads, Return(t) PROVE Shape'
  BY <1>4 DEF Shape, Return, Statuses
<1>5. ASSUME NEW t \in Threads, NEW a, Answer(t, a) PROVE status' \in [Threads -> Statuses]
  BY <1>5 DEF Shape, Answer, Statuses
<1>6. ASSUME NEW t \in Threads, GetKeyProperty(t) \/ Deliver(t) PROVE Shape'
  <2>1. status' \in [Threads -> Statuses]
    BY <1>5, <1>6 DEF GetKeyProperty, Deliver
  <2>2. QED BY <1>6, <2>1 DEF Shape, GetKeyProperty, Deliver
<1>7. ASSUME NEW t \in Threads, AttrSize(t) PROVE Shape'
  <2>1. attr[t] \in {"modulus", "exponent", "point"}
    BY <1>7 DEF AttrSize, IInv, CallInv, BlobInv, Exporting
  <2>2. heap' \in [Threads -> SUBSET Blocks]
    <3>1. heap[t] \cup {attr[t]} \subseteq Blocks /\ {} \subseteq Blocks
      BY <2>1 DEF Shape, Blocks
    <3>2. \/ heap' = [heap EXCEPT ![t] = heap[t] \cup {attr[t]}]
          \/ heap' = [heap EXCEPT ![t] = {}]
      BY <1>7 DEF AttrSize, BadAttribute
    <3>3. QED BY <3>1, <3>2, HeapPut DEF Shape
  <2>3. status' \in [Threads -> Statuses]
    BY <1>7 DEF Shape, AttrSize, BadAttribute, Statuses
  <2>4. QED BY <1>7, <2>2, <2>3 DEF Shape, AttrSize, BadAttribute
<1>8. ASSUME NEW t \in Threads, AttrValue(t) PROVE Shape'
  BY <1>8 DEF Shape, AttrValue, BadAttribute, Statuses
<1>9. ASSUME NEW t \in Threads, Blob(t) PROVE Shape'
  <2>1. heap' \in [Threads -> SUBSET Blocks]
    <3>1. {"blob"} \subseteq Blocks /\ {} \subseteq Blocks
      BY DEF Blocks
    <3>2. \/ heap' = heap \/ heap' = [heap EXCEPT ![t] = {"blob"}]
          \/ heap' = [heap EXCEPT ![t] = {}]
      BY <1>9 DEF Blob
    <3>3. heap \in [Threads -> SUBSET Blocks]
      BY DEF Shape
    <3>4. /\ [heap EXCEPT ![t] = {"blob"}] \in [Threads -> SUBSET Blocks]
          /\ [heap EXCEPT ![t] = {}] \in [Threads -> SUBSET Blocks]
      BY <3>1, <3>3, HeapPut
    <3>5. QED BY <3>2, <3>3, <3>4
  <2>2. status' \in [Threads -> Statuses]
    BY <1>9 DEF Shape, Blob, Statuses
  <2>3. QED BY <1>9, <2>1, <2>2 DEF Shape, Blob
<1>10. ASSUME NEW t \in Threads, SignSize(t) PROVE Shape'
  <2>1. heap' \in [Threads -> SUBSET Blocks]
    <3>1. {"signature"} \subseteq Blocks /\ {} \subseteq Blocks
      BY DEF Blocks
    <3>2. \/ heap' = heap \/ heap' = [heap EXCEPT ![t] = {"signature"}]
          \/ heap' = [heap EXCEPT ![t] = {}]
      BY <1>10 DEF SignSize, SignFails
    <3>3. heap \in [Threads -> SUBSET Blocks]
      BY DEF Shape
    <3>4. /\ [heap EXCEPT ![t] = {"signature"}] \in [Threads -> SUBSET Blocks]
          /\ [heap EXCEPT ![t] = {}] \in [Threads -> SUBSET Blocks]
      BY <3>1, <3>3, HeapPut
    <3>5. QED BY <3>2, <3>3, <3>4
  <2>2. status' \in [Threads -> Statuses]
    BY <1>10 DEF Shape, SignSize, SignFails, Statuses
  <2>3. QED BY <1>10, <2>1, <2>2 DEF Shape, SignSize, SignFails
<1>11. ASSUME NEW t \in Threads, SignData(t) PROVE Shape'
  BY ZenonT(40), <1>11 DEF Shape, SignData, SignFails, Statuses
<1>12. ASSUME NEW t \in Threads, Decode(t) PROVE Shape'
  BY <1>12 DEF Shape, Decode, Statuses
<1>13. CASE Destroy \/ UNCHANGED vars
  BY <1>13 DEF Shape, Destroy, vars
<1>14. QED BY <1>1, <1>2, <1>3, <1>4, <1>6, <1>7, <1>8, <1>9, <1>10, <1>11, <1>12,
     <1>13 DEF Next

\* What *pcbResult is set to is a size.
LEMMA ResultKept ==
  ASSUME P256Bytes <= 60, P384Bytes <= 60,
         IInv, result \in [Threads -> Nat], [Next]_vars
  PROVE  result' \in [Threads -> Nat]
<1> USE DEF At, Goto, Status, answerVars
<1>1. ASSUME NEW t \in Threads, GetKeyProperty(t) PROVE result' \in [Threads -> Nat]
  <2>1. call[t].key \in Keys /\ call[t].what \in KeyProperties
    BY <1>1 DEF GetKeyProperty, IInv, SizeInv
  <2>2. QED BY <1>1, <2>1, PropertySize DEF GetKeyProperty, Answer
<1>2. ASSUME NEW t \in Threads, Deliver(t) PROVE result' \in [Threads -> Nat]
  <2>1. call[t].key \in Keys /\ call[t].what \in Whats /\ call[t].what \in Blobs
        /\ raw[t] = BlobOf(call[t].what, call[t].key)
    BY <1>2 DEF Deliver, IInv, SizeInv
  <2>2. Size(raw[t]) \in Nat
    BY <2>1, SizeIsNat DEF AnswerSize, Blobs, KeyProperties
  <2>3. QED BY <1>2, <2>2 DEF Deliver, Answer
<1>3. ASSUME NEW t \in Threads, SignSize(t) PROVE result' \in [Threads -> Nat]
  <2>1. call[t].key \in Keys
    BY <1>3 DEF SignSize, IInv, SizeInv
  <2>2. SignatureSize(call[t].key) \in Nat
    BY <2>1, CoordIsNat DEF SignatureSize
  <2>3. QED BY <1>3, <2>2 DEF SignSize
<1>4. ASSUME NEW t \in Threads, Decode(t) PROVE result' \in [Threads -> Nat]
  <2> DEFINE a == IF call[t].key \in RsaKeys THEN raw[t]
                  ELSE P11_DecodeDerEcdsaSignature(raw[t].body, CoordBytes(call[t].key))
  <2>1. Signed(t)
    BY <1>4 DEF Decode, IInv, SizeInv, SignInv
  <2>2. Size(a) \in Nat
    BY <2>1, Converted, LenProperties
  <2>3. result' = result \/ result' = [result EXCEPT ![t] = Size(a)]
    BY <1>4 DEF Decode
  <2> HIDE DEF a
  <2>4. QED BY <2>2, <2>3
<1>5. ASSUME NEW t \in Threads, Return(t) PROVE result' \in [Threads -> Nat]
  BY <1>5 DEF Return
<1>6. ASSUME NEW t \in Threads,
             \/ Call(t) \/ Acquire(t) \/ AcquireFails(t) \/ Release(t)
             \/ AttrSize(t) \/ AttrValue(t) \/ Blob(t) \/ SignData(t)
      PROVE  result' \in [Threads -> Nat]
  BY <1>6 DEF Call, Acquire, AcquireFails, Release, AttrSize, AttrValue, Blob, SignData
<1>7. CASE Destroy \/ UNCHANGED vars
  BY <1>7 DEF Destroy, vars
<1>8. QED BY <1>1, <1>2, <1>3, <1>4, <1>5, <1>6, <1>7 DEF Next

\* Calls ask about keys, and answers to queries are sizes.
LEMMA CallsKept ==
  ASSUME IInv, TypeOK, [Next]_vars, NEW u \in Threads
  PROVE  Typed(call'[u]) /\ Typed(told'[u])
<1> USE DEF At, Goto, Status, answerVars
<1>1. Typed(call[u]) /\ Typed(told[u]) /\ Typed(NoCall) /\ result[u] \in Nat
  BY TypeParts DEF Typed, NoCall, NoBuffer
<1>2. ASSUME NEW t \in Threads, Call(t) PROVE Typed(call'[u]) /\ Typed(told'[u])
  <2>1. PICK c \in [what : Whats, key : Keys, cb : {NoBuffer, told[t].cb, told[t].cb - 1}] :
          /\ \/ c.cb = NoBuffer /\ told' = [told EXCEPT ![t] = NoCall]
             \/ c.cb >= 0 /\ c.what = told[t].what /\ c.key = told[t].key /\ UNCHANGED told
          /\ call' = [call EXCEPT ![t] = c]
    BY <1>2 DEF Call
  <2>2. told[t].cb \in Nat \cup {NoBuffer}
    BY TypeParts DEF Typed
  <2>3. Typed(c)
    <3>1. c.what \in Whats /\ c.key \in Keys
          /\ c.cb \in {NoBuffer, told[t].cb, told[t].cb - 1}
      OBVIOUS
    <3>2. c.cb \in Nat \cup {NoBuffer}
      BY <2>1, <2>2, <3>1 DEF NoBuffer
    <3>3. QED BY <3>1, <3>2 DEF Typed
  <2>4. QED BY <1>1, <2>1, <2>3 DEF IInv
<1>3. ASSUME NEW t \in Threads, Return(t) PROVE Typed(call'[u]) /\ Typed(told'[u])
  <2>1. call[t] \in [what : Whats, key : Keys, cb : Int] /\ result[t] \in Nat
    BY <1>3, TypeParts DEF Return, IInv, SizeInv
  <2>2. Typed([call[t] EXCEPT !.cb = result[t]])
    BY <2>1 DEF Typed
  <2>3. QED BY <1>1, <1>3, <2>2 DEF Return, IInv
<1>4. ASSUME UNCHANGED <<call, told>> PROVE Typed(call'[u]) /\ Typed(told'[u])
  BY <1>1, <1>4
<1>5. ASSUME NEW t \in Threads, ~Call(t), ~Return(t),
             \/ Acquire(t) \/ AcquireFails(t) \/ Release(t) \/ GetKeyProperty(t)
             \/ AttrSize(t) \/ AttrValue(t) \/ Blob(t) \/ Deliver(t)
             \/ SignSize(t) \/ SignData(t) \/ Decode(t)
      PROVE  UNCHANGED <<call, told>>
  BY <1>5 DEF Acquire, AcquireFails, Release, GetKeyProperty, AttrSize, AttrValue, Blob,
              Deliver, SignSize, SignData, Decode
<1>6. CASE Destroy \/ UNCHANGED vars
  BY <1>4, <1>6 DEF Destroy, vars
<1>7. QED BY <1>2, <1>3, <1>4, <1>5, <1>6 DEF Next

\* Statuses are those of CNG whatever the library answers, sizes are sizes, and
\* no call has a session that is not of the pool, for the sizes of both curves.
THEOREM TypeCorrect ==
  ASSUME P256Bytes <= 60, P384Bytes <= 60 PROVE Spec => []TypeOK
<1>1. IInv /\ TypeOK /\ [Next]_vars => TypeOK'
  <2> SUFFICES ASSUME IInv, TypeOK, [Next]_vars PROVE TypeOK'
    OBVIOUS
  <2>1. Shape /\ result \in [Threads -> Nat]
    BY TypeParts
  <2>2. Shape' /\ result' \in [Threads -> Nat]
    BY <2>1, ShapeKept, ResultKept
  <2>3. \A u \in Threads : Typed(call'[u]) /\ Typed(told'[u])
    BY CallsKept
  <2>4. QED BY ZenonT(40), <2>2, <2>3 DEF TypeOK, Shape, Typed, Blocks
<1>2. QED BY <1>1, InitTypeOK, Invariance, PTL DEF Spec

-----------------------------------------------------------------------------
(* What is written at the caller's buffer                                   *)

\* A step of one caller
Step(t) ==
  \/ Call(t) \/ Acquire(t) \/ AcquireFails(t) \/ Release(t) \/ Return(t)
  \/ GetKeyProperty(t)
  \/ AttrSize(t) \/ AttrValue(t) \/ Blob(t) \/ Deliver(t)
  \/ SignSize(t) \/ SignData(t) \/ Decode(t)

\* It writes no other caller's entries.
LEMMA StepOwn == ASSUME IInv, NEW t \in Threads, Step(t) PROVE Own(t)
<1> USE DEF Own, IInv, Goto, Status, answerVars
<1>1. CASE Call(t) \/ Return(t)
  BY <1>1 DEF Call, Return
<1>2. CASE Acquire(t) \/ AcquireFails(t) \/ Release(t)
  BY <1>2 DEF Acquire, AcquireFails, Release, Lease!Grant, Lease!Return
<1>3. CASE GetKeyProperty(t) \/ Deliver(t)
  BY <1>3 DEF GetKeyProperty, Deliver, Answer
<1>4. CASE AttrSize(t) \/ AttrValue(t)
  BY <1>4 DEF AttrSize, AttrValue, BadAttribute
<1>5. CASE Blob(t)
  BY <1>5 DEF Blob
<1>6. CASE SignSize(t) \/ SignData(t)
  BY <1>6 DEF SignSize, SignData, SignFails
<1>7. CASE Decode(t)
  BY <1>7 DEF Decode
<1>8. QED BY <1>1, <1>2, <1>3, <1>4, <1>5, <1>6, <1>7 DEF Step

\* WithinBuffer, caller by caller
Delivers(t) ==
  pc[t] = "return" /\ call[t].what \in Whats /\ ~Query(t) /\ status[t] = "ERROR_SUCCESS"
Within(t) ==
  IF Delivers(t) THEN Size(out[t]) <= call[t].cb /\ result[t] = Size(out[t])
  ELSE out[t] = Nothing

LEMMA WithinParts == WithinBuffer <=> \A t \in Threads : Within(t)
BY DEF WithinBuffer, Within, Delivers, Delivered, At

\* The common end of the calls compares the caller's size with the answer's.
LEMMA AnswerWithin ==
  ASSUME NEW t \in Threads, NEW a, Answer(t, a), Size(a) \in Nat,
         DOMAIN result = Threads, DOMAIN status = Threads, DOMAIN out = Threads,
         call[t].cb \in Int, status[t] = "ERROR_SUCCESS", out[t] = Nothing,
         pc'[t] = "return", call' = call, call[t].what \in Whats
  PROVE  Within(t)'
<1>1. result'[t] = Size(a)
  BY DEF Answer
<1>2. CASE Query(t)
  <2>1. out'[t] = Nothing /\ ~Delivers(t)'
    BY <1>2 DEF Answer, Delivers, Query
  <2>2. QED BY <2>1 DEF Within
<1>3. CASE ~Query(t) /\ call[t].cb < Size(a)
  <2>1. out'[t] = Nothing /\ status'[t] = "NTE_BUFFER_TOO_SMALL"
    BY <1>3 DEF Answer, Status
  <2>2. QED BY <2>1 DEF Within, Delivers
<1>4. CASE ~Query(t) /\ ~(call[t].cb < Size(a))
  <2>1. out'[t] = a /\ status'[t] = "ERROR_SUCCESS"
    BY <1>4 DEF Answer, Status
  <2>2. Size(a) <= call[t].cb
    BY <1>4
  <2>3. Delivers(t)'
    BY <1>4, <2>1 DEF Delivers, Query
  <2>4. QED BY <1>1, <2>1, <2>2, <2>3 DEF Within
<1>5. QED BY <1>2, <1>3, <1>4

\* A step that writes nothing at the buffer and returns no success to a caller
\* with a buffer
LEMMA NothingWritten ==
  ASSUME NEW t \in Threads, out[t] = Nothing, out'[t] = Nothing,
         \/ pc'[t] # "return" \/ status'[t] # "ERROR_SUCCESS"
         \/ call'[t].cb = NoBuffer
  PROVE  Within(t)'
BY DEF Within, Delivers, Query

\* Before its last step a call has written nothing.
LEMMA NothingYet ==
  ASSUME BufferInv, NEW t \in Threads, pc[t] # "return"
  PROVE  out[t] = Nothing
BY WithinParts DEF BufferInv, Within, Delivers

\* The answers of the calls that end in Answer fit what they are copied to.
LEMMA AnswerStepWithin ==
  ASSUME BufferInv, NEW t \in Threads, GetKeyProperty(t) \/ Deliver(t)
  PROVE  Within(t)'
<1>1. CASE GetKeyProperty(t)
  <2>1. /\ pc[t] = "property" /\ pc'[t] = "return" /\ call' = call
        /\ Answer(t, KeyProperty(call[t].key, call[t].what))
    BY <1>1 DEF GetKeyProperty, At, Goto, BufferInv, IInv
  <2>2. /\ call[t] \in [what : Whats, key : Keys, cb : Int]
        /\ call[t].what \in KeyProperties /\ status[t] = "ERROR_SUCCESS"
    BY <2>1 DEF BufferInv, IInv, SizeInv, CallInv, Working
  <2>3. Size(KeyProperty(call[t].key, call[t].what)) \in Nat
    BY <2>2, PropertySize
  <2>4. out[t] = Nothing
    BY <2>1, NothingYet
  <2>5. QED BY <2>1, <2>2, <2>3, <2>4, AnswerWithin DEF BufferInv, IInv
<1>2. CASE Deliver(t)
  <2>1. /\ pc[t] = "deliver" /\ pc'[t] = "return" /\ call' = call
        /\ Answer(t, raw[t])
    BY <1>2 DEF Deliver, At, Goto, BufferInv, IInv
  <2>2. /\ call[t] \in [what : Whats, key : Keys, cb : Int]
        /\ call[t].what \in Blobs /\ status[t] = "ERROR_SUCCESS"
        /\ raw[t] = BlobOf(call[t].what, call[t].key)
    BY <2>1 DEF BufferInv, IInv, SizeInv
  <2>3. Size(raw[t]) = AnswerSize(call[t].what, call[t].key)
    BY <2>2 DEF AnswerSize, Blobs, KeyProperties
  <2>4. Size(raw[t]) \in Nat
    BY <2>2, <2>3, SizeIsNat
  <2>5. out[t] = Nothing
    BY <2>1, NothingYet
  <2>6. QED BY <2>1, <2>2, <2>4, <2>5, AnswerWithin DEF BufferInv, IInv
<1>3. QED BY <1>1, <1>2

\* A converted signature has the size that was compared with the caller's.
LEMMA DecodeWithin ==
  ASSUME P256Bytes <= 60, P384Bytes <= 60, BufferInv, NEW t \in Threads, Decode(t)
  PROVE  Within(t)'
<1> DEFINE k == call[t].key
           a == IF k \in RsaKeys THEN raw[t]
                ELSE P11_DecodeDerEcdsaSignature(raw[t].body, CoordBytes(k))
<1>1. pc[t] = "decode" /\ pc'[t] = "return" /\ call' = call
  BY DEF Decode, At, Goto, BufferInv, IInv
<1>2. /\ call[t] \in [what : Whats, key : Keys, cb : Int] /\ ~Query(t)
      /\ call[t].what = "signature" /\ status[t] = "ERROR_SUCCESS"
  BY <1>1 DEF BufferInv, IInv, SizeInv
<1>3. Signed(t) /\ Len(made[t]) = SignatureSize(k)
  BY <1>1, <1>2 DEF BufferInv, IInv, SignInv, MadeInv
<1>4. Size(a) = SignatureSize(k) /\ SignatureSize(k) \in Nat
  BY <1>2, <1>3, Converted, CoordIsNat
<1>5. out[t] = Nothing
  BY <1>1, NothingYet
<1> HIDE DEF a
<1>6. CASE status'[t] # "ERROR_SUCCESS" /\ out' = out
  BY <1>5, <1>6, NothingWritten
<1>7. CASE ~(call[t].cb < SignatureSize(k)) /\ result'[t] = Size(a) /\ out'[t] = a
           /\ status'[t] = status[t]
  <2>1. Size(a) <= call[t].cb
    BY <1>2, <1>4, <1>7
  <2>2. Delivers(t)'
    BY <1>1, <1>2, <1>7 DEF Delivers, Query
  <2>3. QED BY <1>1, <1>7, <2>1, <2>2 DEF Within
<1>8. QED BY <1>6, <1>7 DEF Decode, Status, BufferInv, IInv, a

\* No other step returns success to a caller with a buffer.
LEMMA OtherStepsWithin ==
  ASSUME BufferInv, NEW t \in Threads, Step(t),
         ~GetKeyProperty(t), ~Deliver(t), ~Decode(t)
  PROVE  Within(t)'
<1> USE DEF At, Goto, Status, answerVars, BufferInv, IInv
<1>1. CASE Return(t)
  <2>1. out'[t] = Nothing /\ pc'[t] = "idle"
    BY <1>1 DEF Return
  <2>2. QED BY <2>1 DEF Within, Delivers
<1>2. CASE Release(t)
  <2>1. /\ pc[t] = "release" /\ out' = out /\ call' = call /\ status' = status
        /\ pc'[t] = IF status[t] # "ERROR_SUCCESS" THEN "return"
                    ELSE IF call[t].what \in Blobs THEN "deliver"
                    ELSE IF Query(t) THEN "return" ELSE "decode"
    BY <1>2 DEF Release
  <2>2. out[t] = Nothing
    BY <2>1, NothingYet
  <2>3. QED BY <2>1, <2>2, NothingWritten DEF Query
<1>3. CASE AcquireFails(t)
  <2>1. pc[t] = "acquire" /\ out' = out /\ status'[t] # "ERROR_SUCCESS"
    BY <1>3 DEF AcquireFails
  <2>2. QED BY <2>1, NothingYet, NothingWritten
<1>4. CASE \/ Call(t) \/ Acquire(t) \/ AttrSize(t) \/ AttrValue(t) \/ Blob(t)
           \/ SignSize(t) \/ SignData(t)
  <2>1. pc[t] # "return" /\ pc'[t] # "return" /\ out' = out
    <3>1. CASE Call(t)
      BY <3>1 DEF Call
    <3>2. CASE Acquire(t)
      BY <3>2 DEF Acquire
    <3>3. CASE AttrSize(t) \/ AttrValue(t)
      BY <3>3 DEF AttrSize, AttrValue, BadAttribute
    <3>4. CASE Blob(t)
      BY <3>4 DEF Blob
    <3>5. CASE SignSize(t) \/ SignData(t)
      BY <3>5 DEF SignSize, SignData, SignFails
    <3>6. QED BY <1>4, <3>1, <3>2, <3>3, <3>4, <3>5
  <2>2. QED BY <2>1, NothingYet, NothingWritten
<1>5. QED BY <1>1, <1>2, <1>3, <1>4 DEF Step

\* The token's signature has the length its key gives it.
LEMMA SignatureLength ==
  ASSUME BufferInv, NEW t \in Threads, SignData(t), status'[t] = "ERROR_SUCCESS"
  PROVE  Len(made'[t]) = SignatureSize(call[t].key)
<1> DEFINE k == call[t].key
<1>1. pc[t] = "data" /\ k \in Keys /\ DOMAIN made = Threads /\ DOMAIN status = Threads
  BY DEF SignData, At, BufferInv, IInv, SizeInv
<1>2. CASE k \in RsaKeys /\ made' = [made EXCEPT ![t] = Numbered(50, RsaBytes)]
  <2>1. Len(Numbered(50, RsaBytes)) = RsaBytes
    BY CoordIsNat, NumberedIsSeq
  <2>2. QED BY <1>1, <1>2, <2>1 DEF SignatureSize
<1>3. CASE k \in EcKeys /\ \E r, s \in Scalars(CoordBytes(k)) : made' = [made EXCEPT ![t] = r \o s]
  <2>1. PICK r, s \in Scalars(CoordBytes(k)) : made' = [made EXCEPT ![t] = r \o s]
    BY <1>3
  <2>2. CoordBytes(k) \in Nat /\ k \notin RsaKeys
    BY <1>1, <1>3, CoordIsNat, OutputsAssumption
  <2>3. /\ r \in Seq(Nat) /\ s \in Seq(Nat)
        /\ Len(r) = CoordBytes(k) /\ Len(s) = CoordBytes(k)
    BY <2>2, FirstFacts
  <2>4. Len(r \o s) = 2 * CoordBytes(k)
    <3>1. Len(r \o s) = Len(r) + Len(s)
      BY <2>3, Indices
    <3>2. Len(r \o s) = CoordBytes(k) + CoordBytes(k)
      BY <2>3, <3>1
    <3>3. \A m \in Nat : m + m = 2 * m
      OBVIOUS
    <3>4. QED BY <2>2, <3>2, <3>3
  <2>5. QED BY <1>1, <2>1, <2>2, <2>4 DEF SignatureSize
<1>4. CASE SignFails(t)
  BY <1>1, <1>4 DEF SignFails, Status
<1>5. QED BY <1>2, <1>3, <1>4 DEF SignData

\* It stays that of the call.
LEMMA StepMade ==
  ASSUME BufferInv, NEW t \in Threads, Step(t)
  PROVE  MadeInv(t)'
<1> USE DEF At, Goto, Status, answerVars, BufferInv, IInv
<1>1. CASE SignData(t)
  <2>1. call' = call
    BY <1>1 DEF SignData
  <2>2. QED BY <1>1, <2>1, SignatureLength DEF MadeInv
<1>2. CASE Release(t)
  <2>1. pc[t] = "release" /\ call' = call /\ made' = made /\ status' = status
    BY <1>2 DEF Release
  <2>2. QED BY <2>1 DEF MadeInv, Query
<1>3. CASE AttrSize(t) \/ AttrValue(t) \/ Blob(t)
  <2>1. call' = call /\ pc[t] \in Exporting
    BY <1>3 DEF AttrSize, AttrValue, Blob, Exporting
  <2>2. call[t].what \in Blobs
    BY <2>1 DEF CallInv
  <2>3. QED BY <2>1, <2>2 DEF MadeInv, Blobs
<1>4. CASE SignSize(t)
  <2>1. /\ call' = call
        /\ Query(t) \/ pc'[t] = "data" \/ status'[t] # "ERROR_SUCCESS"
    BY <1>4 DEF SignSize, SignFails
  <2>2. QED BY <2>1 DEF MadeInv, Query
<1>5. CASE \/ Call(t) \/ Acquire(t) \/ AcquireFails(t) \/ Return(t) \/ GetKeyProperty(t)
           \/ Deliver(t) \/ Decode(t)
  <2>1. pc'[t] \notin {"release", "decode"}
    BY <1>5 DEF Call, Acquire, AcquireFails, Return, GetKeyProperty, Deliver, Decode
  <2>2. QED BY <2>1 DEF MadeInv
<1>6. QED BY <1>1, <1>2, <1>3, <1>4, <1>5 DEF Step

\* Every step keeps to the buffers.
LEMMA NextBufferInv ==
  ASSUME P256Bytes <= 60, P384Bytes <= 60, BufferInv, [Next]_vars
  PROVE  BufferInv'
<1>1. IInv /\ IInv'
  BY NextIInv DEF BufferInv
<1>2. \A u \in Threads : Within(u) /\ MadeInv(u)
  BY WithinParts DEF BufferInv
<1>3. ASSUME NEW u \in Threads, pc'[u] = pc[u], call'[u] = call[u], status'[u] = status[u],
             out'[u] = out[u], result'[u] = result[u], made'[u] = made[u]
      PROVE  Within(u)' /\ MadeInv(u)'
  BY <1>2, <1>3 DEF Within, Delivers, MadeInv, Query
<1>4. \A u \in Threads : Within(u)' /\ MadeInv(u)'
  <2>1. CASE Destroy \/ UNCHANGED vars
    BY <1>3, <2>1 DEF Destroy, vars, answerVars
  <2>2. ASSUME NEW t \in Threads, Step(t) PROVE \A u \in Threads : Within(u)' /\ MadeInv(u)'
    <3>1. Within(t)' /\ MadeInv(t)'
      BY <2>2, AnswerStepWithin, DecodeWithin, OtherStepsWithin, StepMade
    <3>2. ASSUME NEW u \in Threads, u # t PROVE Within(u)' /\ MadeInv(u)'
      BY <1>1, <1>3, <2>2, <3>2, StepOwn DEF Own
    <3>3. QED BY <3>1, <3>2
  <2>3. QED BY <2>1, <2>2 DEF Next, Step
<1>5. WithinBuffer'
  <2>1. ASSUME NEW t \in Threads
        PROVE  (IF Delivered(t, Whats)
                THEN Size(out[t]) <= call[t].cb /\ result[t] = Size(out[t])
                ELSE out[t] = Nothing)'
    BY <1>4 DEF Within, Delivers, Delivered, At, Query
  <2>2. QED BY <2>1 DEF WithinBuffer
<1>6. QED BY <1>1, <1>4, <1>5 DEF BufferInv

\* KSP_ExportKey, KSP_SignHash and the getters deliver an answer only when they
\* succeed, and never one longer than the caller's buffer.
THEOREM BuffersKept ==
  ASSUME P256Bytes <= 60, P384Bytes <= 60 PROVE Spec => []WithinBuffer
<1>1. Init => BufferInv
  <2>1. Init => WithinBuffer /\ \A t \in Threads : MadeInv(t)
    BY DEF Init, WithinBuffer, Delivered, At, MadeInv
  <2>2. QED BY <2>1, InitIInv DEF BufferInv
<1>2. BufferInv /\ [Next]_vars => BufferInv'
  BY NextBufferInv
<1>3. BufferInv => WithinBuffer
  BY DEF BufferInv
<1>4. QED BY <1>1, <1>2, <1>3, PTL DEF Spec

-----------------------------------------------------------------------------
(* Why a call ends                                                          *)

\* The steps left fall along the control flow of each call.
LEMMA StepsTable ==
  /\ \A a : /\ StepsFrom("return", a) = 1 /\ StepsFrom("idle", a) = 0
           /\ StepsFrom("property", a) = 2 /\ StepsFrom("deliver", a) = 2
           /\ StepsFrom("decode", a) = 2 /\ StepsFrom("release", a) = 3
           /\ StepsFrom("blob", a) = 4 /\ StepsFrom("data", a) = 4
           /\ StepsFrom("sign", a) = 5 /\ StepsFrom("acquire", a) = 9
           /\ StepsFrom("size", a) \in {6, 8} /\ StepsFrom("value", a) \in {5, 7}
           /\ StepsFrom("value", a) = StepsFrom("size", a) - 1
  /\ StepsFrom("value", "modulus") = 7 /\ StepsFrom("size", "exponent") = 6
BY DEF StepsFrom

\* A caller's step outside "idle" is nearer the end of its call.
LEMMA StepShortens ==
  ASSUME IInv, NEW t \in Threads, Step(t), pc[t] # "idle"
  PROVE  StepsLeft(t)' < StepsLeft(t)
<1> USE StepsTable DEF At, Goto, StepsLeft, IInv
<1>1. CASE Call(t)
  BY <1>1 DEF Call
<1>2. CASE Acquire(t)
  BY <1>2 DEF Acquire
<1>3. CASE AcquireFails(t)
  BY <1>3 DEF AcquireFails
<1>4. CASE Release(t)
  BY <1>4 DEF Release
<1>5. CASE Return(t)
  <2>1. pc[t] = "return" /\ pc'[t] = "idle"
    BY <1>5, Zenon DEF Return
  <2>2. QED BY <2>1
<1>6. CASE GetKeyProperty(t)
  BY <1>6 DEF GetKeyProperty
<1>7. CASE AttrSize(t)
  BY <1>7 DEF AttrSize, BadAttribute
<1>8. CASE AttrValue(t)
  BY <1>8 DEF AttrValue, BadAttribute
<1>9. CASE Blob(t) \/ Deliver(t)
  BY <1>9 DEF Blob, Deliver
<1>10. CASE SignSize(t) \/ SignData(t)
  BY <1>10 DEF SignSize, SignData, SignFails
<1>11. CASE Decode(t)
  BY <1>11 DEF Decode
<1>12. QED
  BY <1>1, <1>2, <1>3, <1>4, <1>5, <1>6, <1>7, <1>8, <1>9, <1>10, <1>11 DEF Step

\* KSP_ExportKey, KSP_SignHash and the getters come back in a bounded number of
\* steps of their own, also when their key is deleted meanwhile.
THEOREM CallsBounded == Spec => CallsShorten
<1> DEFINE Shorter ==
      \/ /\ present' # present /\ present' \subseteq present
         /\ UNCHANGED <<pc, attr>>
      \/ \E t \in Threads :
          /\ pc[t] = "idle" \/ StepsLeft(t)' < StepsLeft(t)
          /\ \A u \in Threads \ {t} : StepsLeft(u)' = StepsLeft(u)
<1>1. ASSUME IInv, NEW t \in Threads, Step(t) PROVE Shorter
  BY <1>1, StepShortens, StepOwn DEF Own, StepsLeft
<1>2. Destroy => Shorter
  BY DEF Destroy
<1>3. IInv /\ [Next]_vars => [Shorter]_vars
  BY <1>1, <1>2 DEF Next, Step
<1>4. CallsShorten <=> [][Shorter]_vars
  BY DEF CallsShorten
<1> HIDE DEF Shorter
<1>5. QED BY <1>3, <1>4, Invariance, PTL DEF Spec
=============================================================================
