CONSTANTS
  Threads = {t1, t2}
  Sessions = {s1}
  NoSession = NoSession
  NoKey = NoKey
  RsaKeys = {rsa}
  P256Keys = {p256}
  P384Keys = {p384}
  RsaBytes = 3
  ExponentBytes = 2
  P256Bytes = 1
  P384Bytes = 2
  SigBytes = {0, 1, 128}
SPECIFICATION Spec
INVARIANTS
  TypeOK
  SignatureAsMade
  BlobsComeBack
  TwoStepFits
  NothingKept
