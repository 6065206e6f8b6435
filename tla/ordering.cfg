\* A producer that numbers its events wrongly.
SPECIFICATION Spec
CONSTANTS
  e1 = e1
  e2 = e2
  r1 = r1
  r2 = r2
  k1 = k1
  k2 = k2
  a = a
  b = b
  short = short
  noKid = noKid
  NoKey = NoKey
  EmptyId = noKid
  Event = {e1, e2}
  MaxLog = 2
  Run = {r1}
  KeyId = {k1, k2}
  Key = {a, b}
  ShortKey = {short}
  Root <- MerkleRoot
  Signer <- OneSigner
  KidOf <- OneKid
  SeqNo <- Numbered
  Rings <- OneRing
  Faulty = {}
  Misnumbered = {r1}
  EditKinds = {}
  MaxSealed = 1
  MaxEdits = 0
INVARIANTS
  AcceptedInOrder
CHECK_DEADLOCK FALSE
