\* Two signers, splices between their records, and a rotating keyring.
SPECIFICATION Spec
CONSTANTS
  e1 = e1
  e2 = e2
  r1 = r1
  r2 = r2
  k1 = k1
  k2 = k2
  a = a
  b = b
  short = short
  noKid = noKid
  NoKey = NoKey
  EmptyId = noKid
  Event = {e1, e2}
  MaxLog = 2
  Run = {r1, r2}
  KeyId = {k1}
  Key = {a, b}
  ShortKey = {short}
  Root <- MerkleRoot
  Signer <- TwoSigners
  KidOf <- OneKid
  SeqNo <- Numbered
  Rings <- RotatedRings
  Faulty = {}
  Misnumbered = {}
  EditKinds = {"events", "signed", "splice"}
  MaxSealed = 2
  MaxEdits = 1
INVARIANTS
  TypeOK
  Authentic
  AcceptedChain
  HonestAccepted
  SuiteCodes
PROPERTIES
  ImplementsAttestation
CHECK_DEADLOCK FALSE
