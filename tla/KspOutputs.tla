----------------------------- MODULE KspOutputs -----------------------------
(***************************************************************************)
(* The calls of the provider that answer with bytes: KSP_ExportKey,        *)
(* KSP_SignHash and the property getters (softhsm_ksp/src/ksp/             *)
(* ksp_crypto.c, ksp_properties.c, ksp_provider.c, pkcs11/p11_utils.c).    *)
(* A caller asks for the size first and calls again with a buffer; the     *)
(* answer is put together on the heap from what the token returns, and     *)
(* converted from the token's format to that of CNG.                       *)
(*                                                                         *)
(* External: the token, which may lose a key at any time.  An EC point is  *)
(* a DER octet string of an uncompressed point, an ECDSA signature the DER *)
(* sequence of two integers in the shortest form, as the code takes them   *)
(* to be.  Bytes are numbers below 256, a structure is its fields of four  *)
(* bytes and the bytes behind them; the sizes of keys are scaled down.     *)
(* Sessions are SessionLease; their operations are in KspCrypto.           *)
(***************************************************************************)
EXTENDS Integers, FiniteSets, Sequences

CONSTANTS
  Threads, Sessions, NoSession, NoKey,
  RsaKeys, P256Keys, P384Keys,      \* keys by algorithm
  RsaBytes, ExponentBytes,          \* sizes of a modulus, a public exponent
  P256Bytes, P384Bytes,             \* EC_P256_COORD_SIZE, EC_P384_COORD_SIZE
  SigBytes                          \* bytes that occur in signatures

Keys == RsaKeys \cup P256Keys \cup P384Keys
EcKeys == P256Keys \cup P384Keys

ASSUME OutputsAssumption ==
  /\ {RsaBytes, ExponentBytes, P256Bytes, P384Bytes} \subseteq Nat \ {0}
  /\ P256Bytes # P384Bytes
  /\ SigBytes \subseteq 0..255
  /\ RsaKeys \cap EcKeys = {} /\ P256Keys \cap P384Keys = {}

VARIABLES
  lease, closed,   \* the session pool
  present,         \* keys whose public key is on the token
  pc, call,        \* callers: where they are, the call they make
  attr,            \* attribute P11_GetBinaryAttr is reading for them
  heap,            \* blocks they have allocated, by what they hold
  made,            \* history: r and s of the signature the token made
  raw,             \* pbBlob or pbRawSig
  status, result, out,   \* what the call returns, *pcbResult, the buffer
  told             \* history: the size a query has answered, for its call

answerVars == <<status, result, out>>
vars == <<lease, closed, present, pc, call, attr, heap, made, raw, answerVars, told>>

Lease == INSTANCE SessionLease WITH
  Clients <- Threads, Capacity <- Cardinality(Sessions)

NoBuffer == -1
Blobs == {"RSAPUBLICBLOB", "ECCPUBLICBLOB"}
KeyProperties == {"Algorithm Name", "Length", "Key Type", "Name", "Export Policy",
                  "Key Usage", "Algorithm Group"}
Whats == Blobs \cup KeyProperties \cup {"signature"}
NoCall == [what |-> "", key |-> NoKey, cb |-> NoBuffer]
Statuses == {"ERROR_SUCCESS", "NTE_NO_MEMORY", "NTE_BAD_KEY", "NTE_FAIL",
             "NTE_BUFFER_TOO_SMALL", "NTE_INVALID_PARAMETER"}

\* An answer: fields of four bytes, and bytes
Structure(fields, bytes) == [head |-> fields, body |-> bytes]
Nothing == Structure(<<>>, <<>>)
Size(a) == 4 * Len(a.head) + Len(a.body)

-----------------------------------------------------------------------------
(* The token's data                                                         *)

CoordBytes(k) == IF k \in P256Keys THEN P256Bytes ELSE P384Bytes
Numbered(from, n) == [i \in 1..n |-> from + i]

\* What C_GetAttributeValue returns; every byte of a key is another one.
Attribute(k, a) ==
  CASE a = "modulus" -> Numbered(100, RsaBytes)
    [] a = "exponent" -> Numbered(150, ExponentBytes)
    [] a = "point" -> <<4, 2 * CoordBytes(k) + 1, 4>> \o Numbered(200, 2 * CoordBytes(k))

Attributes(k) == IF k \in RsaKeys THEN {"modulus", "exponent"} ELSE {"point"}

\* A DER integer: no byte more than its sign needs
FirstOf(x) == CHOOSE i \in 1..Len(x) : x[i] # 0 /\ \A j \in 1..(i - 1) : x[j] = 0
DerInteger(x) ==
  LET m == SubSeq(x, FirstOf(x), Len(x))
      v == IF m[1] >= 128 THEN <<0>> \o m ELSE m
  IN  <<2, Len(v)>> \o v
DerSignature(r, s) ==
  LET v == DerInteger(r) \o DerInteger(s) IN <<48, Len(v)>> \o v

\* r or s: a number that is not 0
Scalars(n) == {x \in [1..n -> SigBytes] : \E i \in 1..n : x[i] # 0}

-----------------------------------------------------------------------------
(* Conversions                                                              *)

\* Slip: the bytes are copied to the start of their field
Pad_Left(x, n) == x \o [i \in 1..(n - Len(x)) |-> 0]

Pad(x, n) == [i \in 1..(n - Len(x)) |-> 0] \o x

\* The integer of der at p: its bytes without the sign byte, and where it ends
IntegerAt(der, p) ==
  LET v == SubSeq(der, p + 2, p + 1 + der[p + 1])
  IN  [tag |-> der[p], next |-> p + 2 + der[p + 1],
       bytes |-> IF v # <<>> /\ v[1] = 0 THEN Tail(v) ELSE v]

\* P11_DecodeDerEcdsaSignature for coordinates of n bytes
P11_DecodeDerEcdsaSignature(der, n) ==
  LET p == IF der[2] >= 128 THEN 3 + (der[2] % 128) ELSE 3
      r == IntegerAt(der, p)
      s == IntegerAt(der, r.next)
  IN  IF der[1] # 48 \/ r.tag # 2 \/ s.tag # 2 \/ Len(r.bytes) > n \/ Len(s.bytes) > n
      THEN Nothing
      ELSE Structure(<<>>, Pad(r.bytes, n) \o Pad(s.bytes, n))

\* P11_ExportRsaPublicKey's BCRYPT_RSAKEY_BLOB
RsaBlob(modulus, exponent) ==
  Structure(<<"RSAPUBLIC", 8 * Len(modulus), Len(exponent), Len(modulus), 0, 0>>,
            exponent \o modulus)

\* Slip: the octet string's header is taken for a part of the point
EccBlob_Unwrapped(point) ==
  LET n == (Len(point) - 1) \div 2
  IN  Structure(<<IF n = P256Bytes THEN "P256" ELSE "P384", n>>, SubSeq(point, 2, 2 * n + 1))

\* P11_ExportEcPublicKey's BCRYPT_ECCKEY_BLOB
EccBlob(point) ==
  LET n == (Len(point) - 2 - 1) \div 2
  IN  Structure(<<IF n = P256Bytes THEN "P256" ELSE "P384", n>>, SubSeq(point, 4, 2 * n + 3))

\* A WCHAR string of n characters, with its terminator
Wide(s, n) == Structure(<<>>, [i \in 1..(2 * (n + 1)) |-> s])
Dword(x) == Structure(<<x>>, <<>>)

\* KSP_GetKeyProperty; names have one character, handles were made with
\* AT_SIGNATURE.  KSP_GetProviderProperty answers in the same way.
KeyProperty(k, p) ==
  CASE p = "Algorithm Name" -> IF k \in RsaKeys THEN Wide("RSA", 3) ELSE Wide("ECDSA_Pxxx", 10)
    [] p = "Length" -> Dword(8 * (IF k \in RsaKeys THEN RsaBytes ELSE CoordBytes(k)))
    [] p = "Key Type" -> Dword("AT_SIGNATURE")
    [] p = "Name" -> Wide(k, 1)
    [] p = "Export Policy" -> Dword(0)
    [] p = "Key Usage" -> Dword("NCRYPT_ALLOW_SIGNING_FLAG")
    [] p = "Algorithm Group" -> IF k \in RsaKeys THEN Wide("RSA", 3) ELSE Wide("ECDSA", 5)

\* KSP_ImportKey's reading of a blob
ImportKey(what, b) ==
  IF what = "RSAPUBLICBLOB"
  THEN [alg |-> "RSA", bits |-> b.head[2],
        exponent |-> SubSeq(b.body, 1, b.head[3]),
        modulus |-> SubSeq(b.body, b.head[3] + 1, b.head[3] + b.head[4])]
  ELSE [alg |-> IF b.head[2] = P256Bytes THEN "ECDSA_P256" ELSE "ECDSA_P384",
        bits |-> 8 * (IF b.head[2] = P256Bytes THEN P256Bytes ELSE P384Bytes)]

-----------------------------------------------------------------------------
(* The steps of a call                                                      *)

Init ==
  /\ Lease!Init
  /\ present = Keys
  /\ pc = [t \in Threads |-> "idle"]
  /\ call = [t \in Threads |-> NoCall]
  /\ attr = [t \in Threads |-> ""]
  /\ heap = [t \in Threads |-> {}]
  /\ made = [t \in Threads |-> <<>>]
  /\ raw = [t \in Threads |-> Nothing]
  /\ status = [t \in Threads |-> "ERROR_SUCCESS"]
  /\ result = [t \in Threads |-> 0]
  /\ out = [t \in Threads |-> Nothing]
  /\ told = [t \in Threads |-> NoCall]

At(t, l) == pc[t] = l
Goto(t, l) == pc' = [pc EXCEPT ![t] = l]
Status(t, x) == status' = [status EXCEPT ![t] = x]
Query(t) == call[t].cb = NoBuffer

\* A call for the size, or with a buffer of the size told or a byte short of it
Call(t) ==
  /\ At(t, "idle")
  /\ \E c \in [what : Whats, key : Keys, cb : {NoBuffer, told[t].cb, told[t].cb - 1}] :
       /\ \/ c.cb = NoBuffer /\ told' = [told EXCEPT ![t] = NoCall]
          \/ c.cb >= 0 /\ c.what = told[t].what /\ c.key = told[t].key /\ UNCHANGED told
       /\ call' = [call EXCEPT ![t] = c]
       /\ Goto(t, IF c.what \in KeyProperties THEN "property" ELSE "acquire")
  /\ UNCHANGED <<lease, closed, present, attr, heap, made, raw, answerVars>>

Acquire(t) ==
  /\ At(t, "acquire")
  /\ Lease!Grant(t)
  /\ attr' = [attr EXCEPT ![t] = IF call[t].what = "RSAPUBLICBLOB" THEN "modulus"
                                 ELSE "point"]
  /\ Goto(t, IF call[t].what = "signature" THEN "sign" ELSE "size")
  /\ UNCHANGED <<present, call, heap, made, raw, answerVars, told>>

AcquireFails(t) ==
  /\ At(t, "acquire")
  /\ Status(t, "NTE_NO_MEMORY") /\ Goto(t, "return")
  /\ UNCHANGED <<lease, closed, present, call, attr, heap, made, raw, result, out, told>>

Release(t) ==
  /\ At(t, "release")
  /\ Lease!Return(t)
  /\ Goto(t, IF status[t] # "ERROR_SUCCESS" THEN "return"
             ELSE IF call[t].what \in Blobs THEN "deliver"
             ELSE IF Query(t) THEN "return" ELSE "decode")
  /\ UNCHANGED <<present, call, attr, heap, made, raw, answerVars, told>>

\* Slip: a buffer of exactly the size is too small
Answer_Inclusive(t, a) ==
  /\ result' = [result EXCEPT ![t] = Size(a)]
  /\ \/ Query(t) /\ UNCHANGED <<status, out>>
     \/ /\ ~Query(t) /\ call[t].cb <= Size(a)
        /\ Status(t, "NTE_BUFFER_TOO_SMALL") /\ UNCHANGED out
     \/ /\ ~Query(t) /\ call[t].cb > Size(a)
        /\ out' = [out EXCEPT ![t] = a] /\ UNCHANGED status

\* The common end: *pcbResult is the size, the data is copied if it fits.
Answer(t, a) ==
  /\ result' = [result EXCEPT ![t] = Size(a)]
  /\ \/ Query(t) /\ UNCHANGED <<status, out>>
     \/ /\ ~Query(t) /\ call[t].cb < Size(a)
        /\ Status(t, "NTE_BUFFER_TOO_SMALL") /\ UNCHANGED out
     \/ /\ ~Query(t) /\ call[t].cb >= Size(a)
        /\ out' = [out EXCEPT ![t] = a] /\ UNCHANGED status

Return(t) ==
  /\ At(t, "return") /\ Goto(t, "idle")
  /\ told' = [told EXCEPT ![t] =
       IF Query(t) /\ status[t] = "ERROR_SUCCESS"
       THEN [call[t] EXCEPT !.cb = result[t]] ELSE NoCall]
  /\ call' = [call EXCEPT ![t] = NoCall]
  /\ attr' = [attr EXCEPT ![t] = ""]
  /\ made' = [made EXCEPT ![t] = <<>>]
  /\ raw' = [raw EXCEPT ![t] = Nothing]
  /\ Status(t, "ERROR_SUCCESS")
  /\ result' = [result EXCEPT ![t] = 0]
  /\ out' = [out EXCEPT ![t] = Nothing]
  /\ UNCHANGED <<lease, closed, present, heap>>

-----------------------------------------------------------------------------
(* KSP_GetKeyProperty                                                       *)

GetKeyProperty(t) ==
  /\ At(t, "property")
  /\ Answer(t, KeyProperty(call[t].key, call[t].what))
  /\ Goto(t, "return")
  /\ UNCHANGED <<lease, closed, present, call, attr, heap, made, raw, told>>

-----------------------------------------------------------------------------
(* KSP_ExportKey                                                            *)

Readable(t) == call[t].key \in present /\ attr[t] \in Attributes(call[t].key)

\* Slip: the modulus is kept when the exponent cannot be read
BadAttribute_KeepsModulus(t) ==
  /\ heap' = [heap EXCEPT ![t] = @ \ {attr[t]}]
  /\ Status(t, "NTE_BAD_KEY") /\ Goto(t, "release")

\* An attribute that is not read, for want of the key or of memory
BadAttribute(t) ==
  /\ heap' = [heap EXCEPT ![t] = {}]
  /\ Status(t, "NTE_BAD_KEY") /\ Goto(t, "release")

\* P11_GetBinaryAttr: a call for the size, an allocation ...
AttrSize(t) ==
  /\ At(t, "size")
  /\ \/ /\ Readable(t)
        /\ heap' = [heap EXCEPT ![t] = @ \cup {attr[t]}]
        /\ Goto(t, "value") /\ UNCHANGED status
     \/ BadAttribute(t)
  /\ UNCHANGED <<lease, closed, present, call, attr, made, raw, result, out, told>>

\* ... and one for the value, of the modulus and of the exponent or of the point
AttrValue(t) ==
  /\ At(t, "value")
  /\ \/ /\ Readable(t)
        /\ IF attr[t] = "modulus"
           THEN attr' = [attr EXCEPT ![t] = "exponent"] /\ Goto(t, "size")
           ELSE Goto(t, "blob") /\ UNCHANGED attr
        /\ UNCHANGED <<heap, status>>
     \/ BadAttribute(t) /\ UNCHANGED attr
  /\ UNCHANGED <<lease, closed, present, call, made, raw, result, out, told>>

Blob(t) ==
  /\ At(t, "blob")
  /\ \/ /\ raw' = [raw EXCEPT ![t] =
              IF call[t].what = "RSAPUBLICBLOB"
              THEN RsaBlob(Attribute(call[t].key, "modulus"),
                           Attribute(call[t].key, "exponent"))
              ELSE EccBlob(Attribute(call[t].key, "point"))]
        /\ heap' = [heap EXCEPT ![t] = {"blob"}]
        /\ UNCHANGED status
     \/ /\ heap' = [heap EXCEPT ![t] = {}]
        /\ Status(t, "NTE_NO_MEMORY") /\ UNCHANGED raw
  /\ Goto(t, "release")
  /\ UNCHANGED <<lease, closed, present, call, attr, made, result, out, told>>

Deliver(t) ==
  /\ At(t, "deliver")
  /\ Answer(t, raw[t])
  /\ heap' = [heap EXCEPT ![t] = {}]
  /\ Goto(t, "return")
  /\ UNCHANGED <<lease, closed, present, call, attr, made, raw, told>>

-----------------------------------------------------------------------------
(* KSP_SignHash                                                             *)

SignatureSize(k) == IF k \in RsaKeys THEN RsaBytes ELSE 2 * CoordBytes(k)

\* Slip: the library's answer is returned as it is
SignFails_Raw(t) ==
  /\ Status(t, "CKR_DEVICE_ERROR")
  /\ heap' = [heap EXCEPT ![t] = {}]
  /\ Goto(t, "release")

SignFails(t) ==
  /\ \E x \in {"NTE_BAD_KEY", "NTE_NO_MEMORY", "NTE_FAIL"} : Status(t, x)
  /\ heap' = [heap EXCEPT ![t] = {}]
  /\ Goto(t, "release")

\* C_SignInit and the C_Sign for the size
SignSize(t) ==
  /\ At(t, "sign")
  /\ \/ /\ Query(t) /\ call[t].key \in present
        /\ result' = [result EXCEPT ![t] = SignatureSize(call[t].key)]
        /\ Goto(t, "release") /\ UNCHANGED <<heap, status>>
     \/ /\ ~Query(t) /\ call[t].key \in present
        /\ heap' = [heap EXCEPT ![t] = {"signature"}]
        /\ Goto(t, "data") /\ UNCHANGED <<result, status>>
     \/ SignFails(t) /\ UNCHANGED result
  /\ UNCHANGED <<lease, closed, present, call, attr, made, raw, out, told>>

\* The C_Sign for the signature
SignData(t) ==
  /\ At(t, "data")
  /\ \/ /\ call[t].key \in RsaKeys
        /\ made' = [made EXCEPT ![t] = Numbered(50, RsaBytes)]
        /\ raw' = [raw EXCEPT ![t] = Structure(<<>>, made'[t])]
        /\ Goto(t, "release") /\ UNCHANGED <<heap, status>>
     \/ /\ call[t].key \in EcKeys
        /\ \E r, s \in Scalars(CoordBytes(call[t].key)) :
             /\ made' = [made EXCEPT ![t] = r \o s]
             /\ raw' = [raw EXCEPT ![t] = Structure(<<>>, DerSignature(r, s))]
        /\ Goto(t, "release") /\ UNCHANGED <<heap, status>>
     \/ SignFails(t) /\ UNCHANGED <<made, raw>>
  /\ UNCHANGED <<lease, closed, present, call, attr, result, out, told>>

\* What follows the release: an ECDSA signature is converted into the caller's
\* buffer, another one copied.  *pcbResult is written on success only.
Decode(t) ==
  /\ At(t, "decode")
  /\ LET k == call[t].key
         a == IF k \in RsaKeys THEN raw[t]
              ELSE P11_DecodeDerEcdsaSignature(raw[t].body, CoordBytes(k))
     IN  IF call[t].cb < SignatureSize(k)
         THEN Status(t, "NTE_BUFFER_TOO_SMALL") /\ UNCHANGED <<result, out>>
         ELSE IF a = Nothing
         THEN Status(t, "NTE_INVALID_PARAMETER") /\ UNCHANGED <<result, out>>
         ELSE /\ result' = [result EXCEPT ![t] = Size(a)]
              /\ out' = [out EXCEPT ![t] = a]
              /\ UNCHANGED status
  /\ heap' = [heap EXCEPT ![t] = {}]
  /\ Goto(t, "return")
  /\ UNCHANGED <<lease, closed, present, call, attr, made, raw, told>>

\* Another caller's KSP_DeleteKey
Destroy ==
  /\ \E k \in present : present' = present \ {k}
  /\ UNCHANGED <<lease, closed, pc, call, attr, heap, made, raw, answerVars, told>>

Next ==
  \/ \E t \in Threads :
       \/ Call(t) \/ Acquire(t) \/ AcquireFails(t) \/ Release(t) \/ Return(t)
       \/ GetKeyProperty(t)
       \/ AttrSize(t) \/ AttrValue(t) \/ Blob(t) \/ Deliver(t)
       \/ SignSize(t) \/ SignData(t) \/ Decode(t)
  \/ Destroy

Spec == Init /\ [][Next]_vars

-----------------------------------------------------------------------------
(* Properties                                                               *)

TypeOK ==
  /\ lease \in [Threads -> Sessions \cup {NoSession}] /\ closed = FALSE
  /\ present \subseteq Keys
  /\ pc \in [Threads -> {"idle", "acquire", "property", "size", "value", "blob",
                         "deliver", "sign", "data", "decode", "release", "return"}]
  /\ \A c \in {call[t] : t \in Threads} \cup {told[t] : t \in Threads} :
       c.what \in Whats \cup {""} /\ c.key \in Keys \cup {NoKey} /\ c.cb \in Nat \cup {NoBuffer}
  /\ attr \in [Threads -> {"", "modulus", "exponent", "point"}]
  /\ heap \in [Threads -> SUBSET {"modulus", "exponent", "point", "blob", "signature"}]
  /\ status \in [Threads -> Statuses]
  /\ result \in [Threads -> Nat]

\* Call t is about to return ERROR_SUCCESS with the bytes of w at its buffer.
Delivered(t, w) ==
  At(t, "return") /\ call[t].what \in w /\ ~Query(t) /\ status[t] = "ERROR_SUCCESS"

\* "Windows r||s format": what KSP_SignHash delivers are the two numbers of the
\* token's signature, each as wide as the curve's coordinates, whatever their
\* leading zeros and sign bytes, and *pcbResult is their size.
SignatureAsMade ==
  \A t \in Threads :
    Delivered(t, {"signature"}) =>
      out[t] = Structure(<<>>, made[t]) /\ result[t] = Len(made[t])

\* A blob of KSP_ExportKey is the public key on the token: KSP_ImportKey reads
\* it back with the same algorithm, length and numbers, and an EC blob holds
\* the point's coordinates without their wrapping.
BlobsComeBack ==
  \A t \in Threads :
    Delivered(t, Blobs) =>
      LET k == call[t].key
          b == ImportKey(call[t].what, out[t])
      IN  IF k \in RsaKeys
          THEN b = [alg |-> "RSA", bits |-> 8 * RsaBytes,
                    exponent |-> Attribute(k, "exponent"),
                    modulus |-> Attribute(k, "modulus")]
          ELSE /\ b = [alg |-> IF k \in P256Keys THEN "ECDSA_P256" ELSE "ECDSA_P384",
                       bits |-> 8 * CoordBytes(k)]
               /\ out[t].head[1] = IF k \in P256Keys THEN "P256" ELSE "P384"
               /\ Attribute(k, "point") = <<4, Len(out[t].body) + 1, 4>> \o out[t].body

\* "the first call with pbSignature=NULL returns the required size": a buffer of
\* the size a query has told is never refused as too small, although the answer
\* is made anew, and one a byte shorter always is, unless the call fails.
TwoStepFits ==
  \A t \in Threads :
    At(t, "return") /\ ~Query(t) =>
      /\ call[t].cb = told[t].cb => status[t] # "NTE_BUFFER_TOO_SMALL"
      /\ call[t].cb < told[t].cb => status[t] # "ERROR_SUCCESS"

\* On every return path the blocks of the call are freed and its session is
\* given back, wherever the token lost the key and memory ran out.
NothingKept ==
  \A t \in Threads :
    /\ pc[t] \in {"idle", "acquire", "property", "return"} => heap[t] = {}
    /\ pc[t] \in {"idle", "acquire", "property", "return", "deliver", "decode"} =>
         lease[t] = NoSession

-----------------------------------------------------------------------------
(* The inductive invariant                                                  *)

\* Where a call has nothing on the heap, where it has no session, and where
\* nothing has failed yet
Clean == {"idle", "acquire", "property", "sign", "return"}
Sessionless == {"idle", "acquire", "property", "return", "deliver", "decode"}
Exporting == {"size", "value", "blob"}
Working == {"idle", "acquire", "property", "sign", "data"} \cup Exporting

\* What a call has at each step: a block outlives the release of the session
\* only on the way to the step that frees it.
CallInv(t) ==
  /\ pc[t] \in Clean => heap[t] = {}
  /\ pc[t] \in Sessionless => lease[t] = NoSession
  /\ pc[t] \in Working => status[t] = "ERROR_SUCCESS"
  /\ pc[t] = "acquire" => call[t].what \in Blobs \cup {"signature"}
  /\ pc[t] \in Exporting => call[t].what \in Blobs
  /\ pc[t] = "data" => ~Query(t)
  /\ pc[t] = "release" /\ heap[t] # {} =>
       status[t] = "ERROR_SUCCESS" /\ (call[t].what \in Blobs \/ ~Query(t))

\* The size of an answer, which the conversions of a key's data do not change
BlobOf(what, k) ==
  IF what = "RSAPUBLICBLOB"
  THEN RsaBlob(Attribute(k, "modulus"), Attribute(k, "exponent"))
  ELSE EccBlob(Attribute(k, "point"))
AnswerSize(what, k) ==
  IF what \in KeyProperties THEN Size(KeyProperty(k, what))
  ELSE IF what = "signature" THEN SignatureSize(k)
  ELSE Size(BlobOf(what, k))

\* The size told is that of the answer, and the second call asks for the same.
SizeInv(t) ==
  /\ told[t].cb # NoBuffer =>
       /\ told[t].what \in Whats /\ told[t].key \in Keys
       /\ told[t].cb = AnswerSize(told[t].what, told[t].key)
  /\ pc[t] # "idle" => call[t] \in [what : Whats, key : Keys, cb : Int]
  /\ pc[t] # "idle" /\ ~Query(t) =>
       /\ told[t].cb # NoBuffer
       /\ call[t].what = told[t].what /\ call[t].key = told[t].key
       /\ call[t].cb \in {told[t].cb, told[t].cb - 1}
  /\ pc[t] = "property" => call[t].what \in KeyProperties
  /\ pc[t] \in {"sign", "data", "decode"} => call[t].what = "signature"
  /\ pc[t] = "release" => call[t].what \notin KeyProperties
  /\ pc[t] = "decode" => ~Query(t)
  /\ pc[t] = "release" => status[t] # "NTE_BUFFER_TOO_SMALL"
  /\ pc[t] \in {"deliver", "decode"} => status[t] = "ERROR_SUCCESS"
  /\ pc[t] = "deliver" => call[t].what \in Blobs
  /\ /\ pc[t] \in {"release", "deliver"}
     /\ status[t] = "ERROR_SUCCESS" /\ call[t].what \in Blobs
     => raw[t] = BlobOf(call[t].what, call[t].key)
  /\ \/ pc[t] = "release" /\ call[t].what = "signature"
     \/ pc[t] = "return"
     => (Query(t) /\ status[t] = "ERROR_SUCCESS" =>
           result[t] = AnswerSize(call[t].what, call[t].key))
  /\ pc[t] = "return" /\ ~Query(t) =>
       /\ call[t].cb = told[t].cb => status[t] # "NTE_BUFFER_TOO_SMALL"
       /\ call[t].cb < told[t].cb => status[t] # "ERROR_SUCCESS"

\* The kind of blob asked for is the kind of the key.
Matching(t) ==
  IF call[t].what = "RSAPUBLICBLOB" THEN call[t].key \in RsaKeys ELSE call[t].key \in EcKeys

\* What is delivered is the blob of the key: attributes of another kind of key
\* cannot be read.
BlobInv(t) ==
  /\ pc[t] \in Exporting =>
       attr[t] \in IF call[t].what = "RSAPUBLICBLOB" THEN {"modulus", "exponent"} ELSE {"point"}
  /\ pc[t] \in {"value", "blob"} => Matching(t)
  /\ /\ pc[t] \in {"release", "deliver", "return"}
     /\ status[t] = "ERROR_SUCCESS" /\ call[t].what \in Blobs
     => Matching(t)
  /\ /\ pc[t] = "return" /\ ~Query(t)
     /\ status[t] = "ERROR_SUCCESS" /\ call[t].what \in Blobs
     => out[t] = BlobOf(call[t].what, call[t].key)

\* The answer of C_Sign
Signed(t) ==
  \/ /\ call[t].key \in RsaKeys /\ made[t] \in Seq(Nat)
     /\ raw[t] = Structure(<<>>, made[t])
  \/ /\ call[t].key \in EcKeys
     /\ \E r, s \in Scalars(CoordBytes(call[t].key)) :
          made[t] = r \o s /\ raw[t] = Structure(<<>>, DerSignature(r, s))

\* What is delivered is its conversion.
SignInv(t) ==
  /\ call[t].what = "signature" /\ ~Query(t) /\ status[t] = "ERROR_SUCCESS"
  /\ pc[t] \in {"release", "decode", "return"}
  => /\ Signed(t)
     /\ pc[t] = "return" =>
          /\ out[t] = IF call[t].key \in RsaKeys THEN raw[t]
                      ELSE P11_DecodeDerEcdsaSignature(raw[t].body, CoordBytes(call[t].key))
          /\ result[t] = Size(out[t])

IInv ==
  /\ DOMAIN pc = Threads /\ DOMAIN heap = Threads /\ DOMAIN status = Threads
  /\ DOMAIN call = Threads /\ DOMAIN lease = Threads /\ DOMAIN told = Threads
  /\ DOMAIN raw = Threads /\ DOMAIN result = Threads /\ DOMAIN out = Threads
  /\ DOMAIN attr = Threads /\ DOMAIN made = Threads
  /\ \A t \in Threads : CallInv(t) /\ SizeInv(t) /\ BlobInv(t) /\ SignInv(t)

-----------------------------------------------------------------------------
(* What is written at the caller's buffer                                   *)

\* An answer is delivered by a call that returns ERROR_SUCCESS only, never past
\* the end of the buffer, and *pcbResult is then the number of its bytes: the
\* sizes the code compares are the caller's and that of the answer, which for a
\* signature is known before the answer is converted. (The bytes a failing call
\* may have put in the buffer are not modelled.)
WithinBuffer ==
  \A t \in Threads :
    IF Delivered(t, Whats)
    THEN Size(out[t]) <= call[t].cb /\ result[t] = Size(out[t])
    ELSE out[t] = Nothing

\* A signature of the token is as long as the key says.
MadeInv(t) ==
  /\ call[t].what = "signature" /\ ~Query(t) /\ status[t] = "ERROR_SUCCESS"
  /\ pc[t] \in {"release", "decode"}
  => Len(made[t]) = SignatureSize(call[t].key)

BufferInv == IInv /\ WithinBuffer /\ \A t \in Threads : MadeInv(t)

-----------------------------------------------------------------------------
(* Why a call ends                                                          *)

\* The steps of a call at l that reads attribute a, to its end, at most
StepsFrom(l, a) ==
  CASE l = "idle" -> 0
    [] l = "return" -> 1
    [] l \in {"property", "deliver", "decode"} -> 2
    [] l = "release" -> 3
    [] l \in {"blob", "data"} -> 4
    [] l = "sign" -> 5
    [] l = "value" -> IF a = "modulus" THEN 7 ELSE 5
    [] l = "size" -> IF a = "modulus" THEN 8 ELSE 6
    [] l = "acquire" -> 9
StepsLeft(t) == StepsFrom(pc[t], attr[t])

\* Every step takes a key from the token or is one of one caller, which enters a
\* call or is nearer the end of it, whatever has gone from the token meanwhile.
CallsShorten ==
  [][\/ /\ present' # present /\ present' \subseteq present
        /\ UNCHANGED <<pc, attr>>
     \/ \E t \in Threads :
          /\ pc[t] = "idle" \/ StepsLeft(t)' < StepsLeft(t)
          /\ \A u \in Threads \ {t} : StepsLeft(u)' = StepsLeft(u)]_vars
=============================================================================
