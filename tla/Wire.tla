--------------------------------- MODULE Wire ---------------------------------
(***************************************************************************)
(* The sealed run record as the verifiers see it: not the bytes, but every *)
(* distinction between two byte strings that some check of some verifier   *)
(* makes.  A record is a container (cddl/record.cddl) around the events and *)
(* a COSE_Sign1 checkpoint (cddl/checkpoint.cddl); each field below says   *)
(* which way of being, or of not being, the canonical encoding it holds.   *)
(***************************************************************************)
EXTENDS Integers, Sequences

CONSTANTS
  Event,     \* the distinct canonical event byte strings
  MaxLog,    \* bound: the longest log
  Run,       \* runs, which are also the origins their checkpoints name
  KeyId,     \* key ids a record can name and a keyring can hold
  EmptyId,   \* the empty key id, which may or may not be in KeyId
  Key,       \* 32-byte Ed25519 public keys
  ShortKey,  \* byte strings of another length, given where a key is expected
  NoKey,     \* no key at all
  Root(_)    \* the tree head of a sequence of events: Merkle!MerkleRoot

EventSeq == UNION {[1..n -> Event] : n \in 0..MaxLog}

ASSUME BoundAssumption == MaxLog \in Nat
ASSUME KeyAssumption ==
  /\ NoKey \notin Key \cup ShortKey /\ Key \cap ShortKey = {}
  /\ {"none", "nonbytes"} \cap KeyId = {}

\* SHA-256 is collision-free, so the tree head determines the log (MerkleLog
\* checks that the tree's shape adds no collision of its own).
ASSUME RootBinding ==
  \A s, t \in EventSeq : Len(s) = Len(t) /\ Root(s) = Root(t) => s = t
-------------------------------------------------------------------------------
(* Failure codes.  A verifier is a chain of checks, each of which either   *)
(* passes or ends the call with its code: checks are joined by ??.         *)

OK == "ok"

\* An exception that is not a VerifyError: the call ends without a code.
Uncaught == "uncaught"

Codes == {"record.decode", "record.non_canonical", "record.empty",
          "record.size_mismatch", "record.root_mismatch",
          "sign.signature_invalid", "sign.bad_content_type", "sign.unknown_key",
          "sign.bad_key", "sign.checkpoint_decode"}

Verdicts == Codes \cup {OK, Uncaught}

\* One check: raise the code when the defect is there.
Fail(defect, code) == IF defect THEN code ELSE OK

\* The first check that fails decides.
first ?? next == IF first # OK THEN first ELSE next
-------------------------------------------------------------------------------
(* The checkpoint.                                                         *)

\* What the bytes of the protected header decode to.  "map" has each label at
\* most once, "dup" does not, "trailed" is followed by further bytes; "empty" is the
\* map without claims, "zero" the zero-length string.
HeaderShape == {"map", "dup", "trailed", "empty", "zero", "notmap", "undecodable"}

\* Claims beyond the three that the profile pins.  "typed" ones have integer or text
\* labels, each once, and values of the types and forms RFC 9052 asks for; "mistyped" ones
\* do not.  No client asks for them, but coset decodes them into types.  Values in
\* which a CBOR decoder interprets a tag, and labels in floats, are not modelled.
Extra == {"none", "typed", "mistyped"}

\* A header that is no map with claims has none.
NoClaims(shape) ==
  [shape |-> shape, alg |-> "none", ct |-> "none", kid |-> "none", extra |-> "none"]

HasClaims(hdr) == hdr.shape \in {"map", "dup", "trailed"}

Header ==
  {hdr \in [shape : HeaderShape,
            alg   : {"-19", "-19.0", "-8",               \* label 1; -19.0 is a float,
                     "malformed", "none"},               \* "malformed" not assigned
            ct    : {"checkpoint", "other",              \* label 3; "malformed" is no
                     "malformed", "none"},               \* type/subtype, or not assigned
            kid   : KeyId \cup {"nonbytes", "none"},     \* label 4
            extra : Extra] :                             \* any further claim
     HasClaims(hdr) \/ hdr = NoClaims(hdr.shape)}

\* The signed bytes.  "bignum" is the canonical encoding of a size beyond 64 bits.
Payload ==
  [form   : {"canonical", "malformed", "bignum"},
   origin : Run,
   size   : 0..(MaxLog + 1),
   root   : {Root(s) : s \in EventSeq}]

\* An ideal signature names the key that made it and the exact header and
\* payload it covers; by = NoKey is any byte string that verifies under no key.
Signature == [by : Key \cup {NoKey}, hdr : Header, pay : Payload]

\* The CBOR type of the three elements of the COSE array that are byte strings
\* in a conformant checkpoint; "ints" is the array of the same byte values.
Slot == {"protected", "payload", "signature"}
SlotType == {"bstr", "ints", "text", "num", "nil"}

Cose ==
  [frame  : {"ok", "bad"},              \* decodes, tag 18, an array of four
   tail   : BOOLEAN,                    \* bytes after the COSE item
   unprot : Extra \cup {"notmap"},      \* the unprotected header
   slot   : [Slot -> SlotType],
   hdr    : Header,
   pay    : Payload,
   sig    : Signature]
-------------------------------------------------------------------------------
(* The container.                                                          *)

Field == {"events", "checkpoint", "text", "int"}  \* the last two are foreign keys
Required == {"events", "checkpoint"}
CanonicalKeys == <<"events", "checkpoint">>

WireRecord ==
  [container : {"map", "notmap", "undecodable"},
   keys      : Seq(Field),                        \* in wire order, duplicates kept
   head      : {"shortest", "wide", "indefinite"},
   trailing  : BOOLEAN,                           \* bytes after the container
   typed     : BOOLEAN,                           \* byte string, array of byte strings
   events    : EventSeq,
   cose      : Cose]

\* The members of a sequence of map keys.
KeysOf(r) == {r.keys[i] : i \in DOMAIN r.keys}
-------------------------------------------------------------------------------
(* What a verifier is told to trust: one key, or a keyring.                *)

AnyKey == Key \cup ShortKey
Ring == UNION {[ids -> AnyKey] : ids \in SUBSET KeyId}

Trust == [mode : {"single"}, key : AnyKey] \cup [mode : {"ring"}, ring : Ring]

Single(k) == [mode |-> "single", key |-> k]
Keyring(f) == [mode |-> "ring", ring |-> f]

\* The keys a trust argument carries, and whether all have the right length.
TrustedKeys(t) == IF t.mode = "single" THEN {t.key}
                  ELSE {t.ring[kid] : kid \in DOMAIN t.ring}
WellFormed(t) == TrustedKeys(t) \subseteq Key

\* Mutant of Resolve: a kid the ring does not hold falls back to some key of it.
ResolveLoosely(t, kid) ==
  IF t.mode = "single" THEN t.key
  ELSE IF kid \in DOMAIN t.ring THEN t.ring[kid]
  ELSE IF t.ring = <<>> THEN NoKey ELSE CHOOSE k \in TrustedKeys(t) : TRUE

\* The key the record's kid resolves to; a single key is trusted for any kid.
Resolve(t, kid) ==
  IF t.mode = "single" THEN t.key
  ELSE IF kid \in DOMAIN t.ring THEN t.ring[kid] ELSE NoKey

\* Ed25519: the signature was made by this key over these very bytes.
Verifies(sig, key, hdr, pay) == sig = [by |-> key, hdr |-> hdr, pay |-> pay]
-------------------------------------------------------------------------------
(* The encoding a conformant producer writes.                              *)

HonestHeader(kid) ==
  [shape |-> "map", alg |-> "-19", ct |-> "checkpoint", kid |-> kid, extra |-> "none"]

HonestPayload(run, events) ==
  [form |-> "canonical", origin |-> run, size |-> Len(events), root |-> Root(events)]

\* A record of these events whose checkpoint was signed by key over hdr and pay.
Sealed(key, hdr, pay, events) ==
  [container |-> "map", keys |-> CanonicalKeys, head |-> "shortest",
   trailing |-> FALSE, typed |-> TRUE, events |-> events,
   cose |-> [frame |-> "ok", tail |-> FALSE, unprot |-> "none",
             slot |-> [s \in Slot |-> "bstr"], hdr |-> hdr, pay |-> pay,
             sig |-> [by |-> key, hdr |-> hdr, pay |-> pay]]]
===============================================================================
