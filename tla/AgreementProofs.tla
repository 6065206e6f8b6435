---------------------------- MODULE AgreementProofs ---------------------------
(***************************************************************************)
(* That the three clients accept the same records, and every record of a   *)
(* producer without fault, for every number of runs, keys and events.      *)
(***************************************************************************)
EXTENDS ProvetrailProofs
-------------------------------------------------------------------------------
(* The clients agree.                                                      *)

\* The one encoding each client accepts of a checkpoint that the key signed.
Acceptable(r, key) ==
  /\ r.container = "map" /\ r.keys = CanonicalKeys /\ r.head = "shortest"
  /\ ~r.trailing /\ r.typed /\ r.events # <<>>
  /\ r.cose.frame = "ok" /\ r.cose.slot["payload"] = "bstr"
  /\ r.cose.hdr.shape = "map" /\ r.cose.hdr.ct = "checkpoint" /\ r.cose.hdr.alg = "-19"
  /\ r.cose.pay.form = "canonical"
  /\ Attests(r, key)

\* Exactly the two known keys, the first of them first and none counted twice,
\* is the canonical key order.
LEMMA CanonicalByCount ==
  ASSUME NEW r \in WireRecord
  PROVE  r.keys = CanonicalKeys <=>
           KeysOf(r) = Required /\ r.keys[1] = "events" /\ ~(Len(r.keys) > 2)
<1> DEFINE keys == r.keys
<1>1. keys \in Seq(Field) /\ Len(keys) \in Nat
  BY DEF WireRecord
<1>2. ASSUME keys = CanonicalKeys
      PROVE  KeysOf(r) = Required /\ keys[1] = "events" /\ ~(Len(keys) > 2)
  <2>1. Len(keys) = 2 /\ keys[1] = "events" /\ keys[2] = "checkpoint" /\ DOMAIN keys = 1..2
    BY <1>2 DEF CanonicalKeys
  <2>2. KeysOf(r) = {keys[1], keys[2]}
    BY <2>1 DEF KeysOf
  <2> QED
    BY <2>1, <2>2 DEF Required
<1>3. ASSUME KeysOf(r) = Required, keys[1] = "events", ~(Len(keys) > 2)
      PROVE  keys = CanonicalKeys
  <2>1. PICK i \in DOMAIN keys : keys[i] = "checkpoint"
    BY <1>3 DEF KeysOf, Required
  <2>2. i \in 1..Len(keys) /\ i # 1
    BY <1>1, <1>3, <2>1
  <2>3. Len(keys) = 2 /\ i = 2
    <3>1. \A n \in Nat : \A j \in 1..n : ~(n > 2) /\ j # 1 => n = 2 /\ j = 2
      OBVIOUS
    <3>2. Len(keys) \in Nat /\ ~(Len(keys) > 2)
      BY <1>1, <1>3
    <3> HIDE DEF keys
    <3> QED
      BY <2>2, <3>1, <3>2
  <2>4. keys = <<"events", "checkpoint">>
    BY <1>1, <1>3, <2>1, <2>3
  <2> QED
    BY <2>4 DEF CanonicalKeys
<1> QED
  BY <1>2, <1>3

\* An Acceptable record passes every check of the Python client under trust
\* that resolves its kid, and under plain framing nothing else does.
LEMMA PyAcceptsExactly ==
  ASSUME NEW r \in WireRecord, NEW t, WellFormed(t), PlainFraming(r.cose)
  PROVE  PyVerify(r, t) = OK <=> Acceptable(r, Resolve(t, r.cose.hdr.kid))
<1> DEFINE key == Resolve(t, r.cose.hdr.kid)
<1>1. PyContainer(r) = OK <=>
        /\ r.container = "map" /\ r.keys = CanonicalKeys /\ r.head = "shortest"
        /\ ~r.trailing /\ r.typed /\ r.events # <<>>
  <2>1. r.head \in {"shortest", "wide", "indefinite"} /\ r.trailing \in BOOLEAN
    BY DEF WireRecord
  <2>2. PyContainer(r) = OK <=>
          /\ Fail(r.container # "map" \/ ~(Required \subseteq KeysOf(r)), "record.decode") = OK
          /\ Fail(KeysOf(r) # Required \/ r.keys[1] # "events", "record.non_canonical") = OK
          /\ Fail(~r.typed \/ r.head = "indefinite" \/ PyOvercounts(r), "record.decode") = OK
          /\ Fail(r.head = "shortest" /\ r.trailing, "record.decode") = OK
          /\ Fail(r.head = "wide", "record.non_canonical") = OK
          /\ Fail(r.events = <<>>, "record.empty") = OK
    BY AllPass DEF PyContainer
  <2>3. PyContainer(r) = OK <=>
          /\ r.container = "map" /\ Required \subseteq KeysOf(r)
          /\ KeysOf(r) = Required /\ r.keys[1] = "events"
          /\ r.typed /\ r.head # "indefinite" /\ ~PyOvercounts(r)
          /\ ~(r.head = "shortest" /\ r.trailing) /\ r.head # "wide" /\ r.events # <<>>
    BY <2>2 DEF Fail, OK
  <2> QED
    BY <2>1, <2>3, CanonicalByCount DEF PyOvercounts
<1>2. PyCheckpoint(r.cose, t) = OK <=>
        /\ r.cose.frame = "ok" /\ r.cose.slot["payload"] = "bstr"
        /\ r.cose.hdr.shape = "map" /\ r.cose.hdr.ct = "checkpoint" /\ r.cose.hdr.alg = "-19"
        /\ r.cose.pay.form # "malformed" /\ key # NoKey
        /\ Verifies(r.cose.sig, key, r.cose.hdr, r.cose.pay)
  <2> DEFINE c == r.cose
             badShape == c.slot.protected = "num" \/ c.hdr.shape \in {"zero", "notmap", "undecodable"}
  <2>1. PyCheckpoint(c, t) = OK <=>
          /\ Fail(c.frame = "bad" \/ c.slot.payload = "nil", "sign.signature_invalid") = OK
          /\ Fail(PyBytesRaises(c), Uncaught) = OK
          /\ Fail(badShape, "sign.signature_invalid") = OK
          /\ Fail(c.hdr.ct # "checkpoint", "sign.bad_content_type") = OK
          /\ Fail(key = NoKey, "sign.unknown_key") = OK
          /\ Fail(c.hdr.alg \notin {"-19", "-19.0"}, "sign.signature_invalid") = OK
          /\ Fail(~PySigned(c, key), "sign.signature_invalid") = OK
          /\ Fail(c.pay.form = "malformed", "sign.checkpoint_decode") = OK
    BY AllPass DEF PyCheckpoint
  <2>2. PyCheckpoint(c, t) = OK <=>
          /\ c.frame # "bad" /\ c.slot.payload # "nil" /\ ~PyBytesRaises(c) /\ ~badShape
          /\ c.hdr.ct = "checkpoint" /\ key # NoKey /\ c.hdr.alg \in {"-19", "-19.0"}
          /\ PySigned(c, key) /\ c.pay.form # "malformed"
    BY <2>1 DEF Fail, OK, Uncaught
  <2>3. /\ c \in Cose /\ c.hdr \in Header
        /\ c.frame \in {"ok", "bad"} /\ c.hdr.shape \in HeaderShape
    BY DEF WireRecord, Cose, Header
  <2>4. /\ c.slot["protected"] = "bstr" /\ c.slot["signature"] = "bstr"
        /\ c.slot["payload"] \in {"bstr", "nil"}
        /\ c.hdr.shape \notin {"dup", "trailed"} /\ c.hdr.alg # "-19.0"
    BY DEF PlainFraming, Slot
  <2>5. c.slot["payload"] = "bstr" => ~PyBytesRaises(c)
    BY <2>4 DEF PyBytesRaises, Slot
  <2>6. c.hdr.shape = "empty" => c.hdr.ct # "checkpoint"
    BY <2>3 DEF Header, HasClaims, NoClaims
  <2> HIDE DEF c
  <2> QED
    BY <2>2, <2>3, <2>4, <2>5, <2>6 DEF PySigned, HeaderShape, c
<1>3. PyRebuild(r) = OK <=>
        /\ r.cose.pay.form # "bignum"
        /\ Len(r.events) = r.cose.pay.size /\ Root(r.events) = r.cose.pay.root
  BY AllPass DEF PyRebuild, PyRoot, Fail, OK
<1>4. r.cose.pay.form \in {"canonical", "malformed", "bignum"}
  BY DEF WireRecord, Cose, Payload
<1>5. PyVerify(r, t) = OK <=>
        PyContainer(r) = OK /\ PyCheckpoint(r.cose, t) = OK /\ PyRebuild(r) = OK
  BY AllPass DEF PyVerify, Fail
<1> QED
  BY <1>1, <1>2, <1>3, <1>4, <1>5 DEF Acceptable, Attests

\* So does the JavaScript client.
LEMMA JsAcceptsExactly ==
  ASSUME NEW r \in WireRecord, NEW t, WellFormed(t), PlainFraming(r.cose)
  PROVE  JsVerify(r, t) = OK <=> Acceptable(r, Resolve(t, r.cose.hdr.kid))
<1> DEFINE key == Resolve(t, r.cose.hdr.kid)
<1>1. JsContainer(r) = OK <=>
        /\ r.container = "map" /\ r.keys = CanonicalKeys /\ r.head = "shortest"
        /\ ~r.trailing /\ r.typed /\ r.events # <<>>
  <2>1. r.head \in {"shortest", "wide", "indefinite"} /\ r.trailing \in BOOLEAN
    BY DEF WireRecord
  <2>2. JsContainer(r) = OK <=>
          /\ Fail(~JsFieldsFound(r), "record.decode") = OK
          /\ Fail(KeysOf(r) # Required \/ r.keys[1] # "events", "record.non_canonical") = OK
          /\ Fail(~r.typed \/ r.head = "indefinite" \/ JsOvercounts(r), "record.decode") = OK
          /\ Fail(r.head = "wide", "record.non_canonical") = OK
          /\ Fail(r.events = <<>>, "record.empty") = OK
    BY AllPass DEF JsContainer
  <2>3. JsContainer(r) = OK <=>
          /\ JsFieldsFound(r) /\ KeysOf(r) = Required /\ r.keys[1] = "events"
          /\ r.typed /\ r.head # "indefinite" /\ ~JsOvercounts(r)
          /\ r.head # "wide" /\ r.events # <<>>
    BY <2>2 DEF Fail, OK
  <2>4. KeysOf(r) = Required => "int" \notin KeysOf(r)
    BY DEF Required
  <2> QED
    BY <2>1, <2>3, <2>4, CanonicalByCount DEF JsOvercounts, JsFieldsFound
<1>2. JsCheckpoint(r.cose, t) = OK <=>
        /\ r.cose.frame = "ok" /\ r.cose.slot["payload"] = "bstr"
        /\ r.cose.hdr.shape = "map" /\ r.cose.hdr.ct = "checkpoint" /\ r.cose.hdr.alg = "-19"
        /\ r.cose.pay.form # "malformed" /\ key # NoKey
        /\ Verifies(r.cose.sig, key, r.cose.hdr, r.cose.pay)
  <2> DEFINE c == r.cose
  <2>1. JsCheckpoint(c, t) = OK <=>
          /\ Fail(c.frame = "bad" \/ c.tail \/ c.slot.payload = "nil", "sign.signature_invalid") = OK
          /\ Fail(~JsHeaderIsMap(c), "sign.signature_invalid") = OK
          /\ Fail(c.hdr.ct # "checkpoint", "sign.bad_content_type") = OK
          /\ Fail(key = NoKey, "sign.unknown_key") = OK
          /\ Fail(c.hdr.alg \notin {"-19", "-19.0"}, "sign.signature_invalid") = OK
          /\ Fail(c.slot.signature \in {"num", "nil"}, Uncaught) = OK
          /\ Fail(~JsSigned(c, key), "sign.signature_invalid") = OK
          /\ Fail(c.pay.form = "malformed", "sign.checkpoint_decode") = OK
    BY AllPass DEF JsCheckpoint
  <2>2. JsCheckpoint(c, t) = OK <=>
          /\ c.frame # "bad" /\ ~c.tail /\ c.slot.payload # "nil" /\ JsHeaderIsMap(c)
          /\ c.hdr.ct = "checkpoint" /\ key # NoKey /\ c.hdr.alg \in {"-19", "-19.0"}
          /\ c.slot.signature \notin {"num", "nil"}
          /\ JsSigned(c, key) /\ c.pay.form # "malformed"
    BY <2>1 DEF Fail, OK, Uncaught
  <2>3. c.frame \in {"ok", "bad"} /\ c.hdr.shape \in HeaderShape
    BY DEF WireRecord, Cose, Header
  <2>4. /\ c.slot["protected"] = "bstr" /\ c.slot["signature"] = "bstr"
        /\ c.slot["payload"] \in {"bstr", "nil"}
        /\ ~c.tail /\ c.hdr.shape \notin {"dup", "trailed"} /\ c.hdr.alg # "-19.0"
    BY DEF PlainFraming, Slot
  <2> HIDE DEF c
  <2> QED
    BY <2>2, <2>3, <2>4 DEF JsSigned, JsHeaderIsMap, HeaderShape, c
<1>3. JsRebuild(r) = OK <=>
        /\ r.cose.pay.form # "bignum"
        /\ Len(r.events) = r.cose.pay.size /\ Root(r.events) = r.cose.pay.root
  BY AllPass DEF JsRebuild, JsRoot, Fail, OK
<1>4. r.cose.pay.form \in {"canonical", "malformed", "bignum"}
  BY DEF WireRecord, Cose, Payload
<1>5. JsVerify(r, t) = OK <=>
        JsContainer(r) = OK /\ JsCheckpoint(r.cose, t) = OK /\ JsRebuild(r) = OK
  BY AllPass DEF JsVerify, Fail
<1> QED
  BY <1>1, <1>2, <1>3, <1>4, <1>5 DEF Acceptable, Attests

\* No sequence of two distinct keys repeats one of them.
LEMMA CanonicalHasNoDuplicate ==
  ASSUME NEW r, r.keys = CanonicalKeys
  PROVE  ~RustDuplicateKey(r)
BY DEF CanonicalKeys, RustDuplicateKey

\* The Rust client, which counts no keys but compares their names, accepts
\* exactly the same.
LEMMA RustAcceptsExactly ==
  ASSUME NEW r \in WireRecord, NEW t, PlainFraming(r.cose)
  PROVE  RustVerify(r, t) = OK <=> Acceptable(r, Resolve(t, RustKid(r.cose.hdr)))
<1> DEFINE key == Resolve(t, RustKid(r.cose.hdr))
<1>1. RustContainer(r) = OK <=>
        /\ r.container = "map" /\ r.keys = CanonicalKeys /\ r.head = "shortest"
        /\ ~r.trailing /\ r.typed /\ r.events # <<>>
  <2>1. r.head \in {"shortest", "wide", "indefinite"} /\ r.trailing \in BOOLEAN
    BY DEF WireRecord
  <2>2. RustContainer(r) = OK <=>
          /\ Fail(r.container # "map" \/ r.head = "indefinite" \/ RustDuplicateKey(r),
                  "record.decode") = OK
          /\ Fail(r.keys # CanonicalKeys, "record.non_canonical") = OK
          /\ Fail(r.head = "shortest" /\ r.trailing, "record.decode") = OK
          /\ Fail(r.head = "wide", "record.non_canonical") = OK
          /\ Fail(~r.typed, "record.decode") = OK
          /\ Fail(r.events = <<>>, "record.empty") = OK
    BY AllPass DEF RustContainer
  <2>3. RustContainer(r) = OK <=>
          /\ r.container = "map" /\ r.head # "indefinite" /\ ~RustDuplicateKey(r)
          /\ r.keys = CanonicalKeys /\ ~(r.head = "shortest" /\ r.trailing)
          /\ r.head # "wide" /\ r.typed /\ r.events # <<>>
    BY <2>2 DEF Fail, OK
  <2> QED
    BY <2>1, <2>3, CanonicalHasNoDuplicate
<1>2. RustCheckpoint(r.cose, t) = OK <=>
        /\ r.cose.frame = "ok" /\ r.cose.slot["payload"] = "bstr"
        /\ r.cose.hdr.shape = "map" /\ r.cose.hdr.ct = "checkpoint" /\ r.cose.hdr.alg = "-19"
        /\ r.cose.pay.form = "canonical" /\ key # NoKey
        /\ Verifies(r.cose.sig, key, r.cose.hdr, r.cose.pay)
  <2> DEFINE c == r.cose
  <2>1. RustCheckpoint(c, t) = OK <=>
          /\ Fail(~RustParses(c), "sign.signature_invalid") = OK
          /\ Fail(c.hdr.ct # "checkpoint", "sign.bad_content_type") = OK
          /\ Fail(key = NoKey, "sign.unknown_key") = OK
          /\ Fail(c.hdr.alg # "-19", "sign.signature_invalid") = OK
          /\ Fail(~RustSigned(c, key), "sign.signature_invalid") = OK
          /\ Fail(~RustDecodesPayload(c.pay), "sign.checkpoint_decode") = OK
    BY AllPass DEF RustCheckpoint
  <2>2. RustCheckpoint(c, t) = OK <=>
          /\ RustParses(c) /\ c.hdr.ct = "checkpoint" /\ key # NoKey /\ c.hdr.alg = "-19"
          /\ RustSigned(c, key) /\ RustDecodesPayload(c.pay)
    BY <2>1 DEF Fail, OK
  <2>3. c.frame \in {"ok", "bad"} /\ c.hdr \in Header /\ c.hdr.shape \in HeaderShape
    BY DEF WireRecord, Cose, Header
  <2>4. /\ c.slot["protected"] = "bstr" /\ c.slot["signature"] = "bstr"
        /\ c.slot["payload"] \in {"bstr", "nil"}
        /\ ~c.tail /\ c.unprot \in {"none", "typed"} /\ c.hdr.extra # "mistyped"
        /\ c.hdr.shape \notin {"dup", "trailed"} /\ c.hdr.alg # "-19.0"
        /\ c.hdr.kid \in (KeyId \cup {"none"}) \ {EmptyId}
    BY DEF PlainFraming, Slot
  <2>5. c.hdr.kid \notin {"nonbytes", EmptyId}
    BY <2>4, KeyAssumption
  <2>6. c.hdr.shape \in {"empty", "zero"} => c.hdr.ct # "checkpoint"
    BY <2>3 DEF Header, HasClaims, NoClaims
  <2> HIDE DEF c
  <2> QED
    BY <2>2, <2>3, <2>4, <2>5, <2>6
    DEF RustParses, RustSigned, RustDecodesPayload, HeaderShape, c
<1>3. RustRebuild(r) = OK <=>
        Len(r.events) = r.cose.pay.size /\ Root(r.events) = r.cose.pay.root
  BY AllPass DEF RustRebuild, RustRoot, Fail, OK
<1>5. RustVerify(r, t) = OK <=>
        RustContainer(r) = OK /\ RustCheckpoint(r.cose, t) = OK /\ RustRebuild(r) = OK
  BY AllPass DEF RustVerify
<1> QED
  BY <1>1, <1>2, <1>3, <1>5 DEF Acceptable, Attests

\* Under plain framing and trust, an absent kid resolves to no key of a ring for
\* every client, although the Rust client looks up the empty id.
LEMMA SameKey ==
  ASSUME NEW h, h.kid \in (KeyId \cup {"none"}) \ {EmptyId},
         NEW t \in Trust, PlainTrust(t)
  PROVE  Resolve(t, RustKid(h)) = Resolve(t, h.kid)
<1>1. CASE t.mode = "single" \/ h.kid # "none"
  BY <1>1 DEF Resolve, RustKid
<1>2. CASE t.mode # "single" /\ h.kid = "none"
  <2>1. t.mode = "ring" /\ t.ring \in Ring
    BY <1>2 DEF Trust
  <2>2. PICK ids \in SUBSET KeyId : t.ring \in [ids -> AnyKey]
    BY <2>1 DEF Ring
  <2>3. DOMAIN t.ring = ids
    BY <2>2
  <2>4. "none" \notin DOMAIN t.ring
    BY <2>3, KeyAssumption
  <2>5. EmptyId \notin DOMAIN t.ring
    BY <2>1 DEF PlainTrust
  <2> QED
    BY <1>2, <2>4, <2>5 DEF Resolve, RustKid
<1> QED
  BY <1>1, <1>2

\* Every trust argument is one key or a ring.
LEMMA TrustsTyped == IInv => Trusts \subseteq Trust
BY SystemAssumption DEF IInv, TypeOK, Trusts, Trust, Keyring, Single

\* One condition decides for every client.
LEMMA AcceptsExactly ==
  ASSUME NEW r \in WireRecord, NEW t \in Trust, PlainTrust(t), PlainFraming(r.cose),
         NEW client \in Client
  PROVE  Verdict(client, r, t) = OK <=> Acceptable(r, Resolve(t, r.cose.hdr.kid))
<1>1. WellFormed(t)
  BY DEF PlainTrust
<1>2. Resolve(t, RustKid(r.cose.hdr)) = Resolve(t, r.cose.hdr.kid)
  BY SameKey DEF PlainFraming
<1>3. CASE client = "python"
  BY <1>1, <1>3, PyAcceptsExactly DEF Verdict
<1>4. CASE client = "js"
  BY <1>1, <1>4, JsAcceptsExactly DEF Verdict
<1>5. CASE client = "rust"
  BY <1>2, <1>5, RustAcceptsExactly DEF Verdict
<1> QED
  BY <1>3, <1>4, <1>5 DEF Client

\* No client leaves its call without a code.
LEMMA NeverUncaught ==
  ASSUME NEW r \in WireRecord, NEW t, PlainFraming(r.cose), NEW client \in Client
  PROVE  Verdict(client, r, t) # Uncaught
<1>1. \A x, y : (x ?? y) = Uncaught => x = Uncaught \/ y = Uncaught
  BY DEF ??
<1>2. \A x, y : (x ?? y) = Uncaught /\ x # Uncaught => x = OK
  BY DEF ??
<1>3. \A d, code : Fail(d, code) = Uncaught => code = Uncaught
  BY DEF Fail, OK, Uncaught
<1>4. /\ r.cose.slot["protected"] = "bstr" /\ r.cose.slot["signature"] = "bstr"
      /\ r.cose.slot["payload"] \in {"bstr", "nil"}
  BY DEF PlainFraming, Slot
<1>5. CASE client = "python"
  <2>1. PyContainer(r) # Uncaught /\ PyRebuild(r) # Uncaught
    BY <1>1, <1>3 DEF PyContainer, PyRebuild, Uncaught
  <2>2. PyCheckpoint(r.cose, t) # Uncaught
    <3> DEFINE nil == Fail(r.cose.frame = "bad" \/ r.cose.slot.payload = "nil",
                           "sign.signature_invalid")
               raises == Fail(PyBytesRaises(r.cose), Uncaught)
    <3>1. nil # Uncaught
      BY <1>3 DEF Uncaught
    <3>2. nil = OK => r.cose.slot["payload"] = "bstr"
      BY <1>4 DEF Fail, OK
    <3>3. nil = OK => raises = OK
      BY <3>2, <1>4 DEF Fail, PyBytesRaises, Slot
    <3> HIDE DEF nil, raises
    <3>4. PyCheckpoint(r.cose, t) = Uncaught => nil = OK /\ raises = Uncaught
      BY <1>1, <1>2, <1>3, <3>1 DEF PyCheckpoint, Uncaught, nil, raises
    <3> QED
      BY <3>3, <3>4 DEF OK, Uncaught
  <2> QED
    BY <1>1, <1>3, <1>5, <2>1, <2>2 DEF Verdict, PyVerify, Uncaught
<1>6. CASE client = "js"
  <2>1. JsContainer(r) # Uncaught /\ JsRebuild(r) # Uncaught
    BY <1>1, <1>3 DEF JsContainer, JsRebuild, Uncaught
  <2>2. JsCheckpoint(r.cose, t) # Uncaught
    <3>1. Fail(r.cose.slot.signature \in {"num", "nil"}, Uncaught) # Uncaught
      BY <1>4 DEF Fail, OK, Uncaught
    <3> QED
      BY <1>1, <1>3, <3>1 DEF JsCheckpoint, Uncaught
  <2> QED
    BY <1>1, <1>3, <1>6, <2>1, <2>2 DEF Verdict, JsVerify, Uncaught
<1>7. CASE client = "rust"
  <2>1. RustContainer(r) # Uncaught /\ RustRebuild(r) # Uncaught
        /\ RustCheckpoint(r.cose, t) # Uncaught
    BY <1>1, <1>3 DEF RustContainer, RustRebuild, RustCheckpoint, Uncaught
  <2> QED
    BY <1>1, <1>7, <2>1 DEF Verdict, RustVerify
<1> QED
  BY <1>5, <1>6, <1>7 DEF Client

\* The three clients accept the same records and none leaves without a code.
THEOREM Agreement == Spec => []VerdictsAgree
<1>1. IInv => VerdictsAgree
  <2> SUFFICES ASSUME IInv, PlainFraming(wire.cose), NEW t \in Trusts, PlainTrust(t),
                      NEW c \in Client, NEW d \in Client
               PROVE  /\ Verdict(c, wire, t) # Uncaught
                      /\ Verdict(c, wire, t) = OK => Verdict(d, wire, t) = OK
    BY DEF VerdictsAgree
  <2>1. wire \in WireRecord /\ t \in Trust
    BY TrustsTyped DEF IInv, TypeOK
  <2> QED
    BY <2>1, NeverUncaught, AcceptsExactly
<1> QED
  BY <1>1, IInvAlways, PTL

\* Sealing frames a record as every client expects.
LEMMA SealedPlainly ==
  \A key, h, p, events :
    LET s == Sealed(key, h, p, events)
    IN  /\ s.container = "map" /\ s.keys = CanonicalKeys /\ s.head = "shortest"
        /\ ~s.trailing /\ s.typed
        /\ s.cose.frame = "ok" /\ ~s.cose.tail /\ s.cose.unprot = "none"
        /\ \A x \in Slot : s.cose.slot[x] = "bstr"
        /\ s.cose.slot["payload"] = "bstr"
BY DEF Sealed, Slot

\* A record sealed without fault is Acceptable, and so accepted by all clients.
THEOREM HonestAcceptance == Spec => []HonestAccepted
<1>1. IInv => HonestAccepted
  <2> SUFFICES ASSUME IInv, NEW s \in archive, NEW t \in Trusts, NEW c \in Client,
                      Conformant(s), s.events # <<>>, TrustsSigner(t, s)
               PROVE  Verdict(c, s, t) = OK
    BY DEF HonestAccepted
  <2>1. s \in WireRecord /\ SealedRecord(s) /\ t \in Trust
    BY TrustsTyped DEF IInv, TypeOK, ArchiveInv
  <2> DEFINE key == Resolve(t, s.cose.hdr.kid)
  <2>2. key = s.cose.sig.by /\ key = Signer[s.cose.pay.origin] /\ key \in Key /\ key # NoKey
    <3>1. key = s.cose.sig.by /\ s.cose.pay.origin \in Run
      BY <2>1 DEF TrustsSigner, WireRecord, Cose, Payload
    <3>2. Signer[s.cose.pay.origin] \in Key
      BY <3>1, SystemAssumption
    <3> HIDE DEF key
    <3> QED
      BY <2>1, <3>1, <3>2, SealedSignature, KeyAssumption
  <2>3. \A x : /\ HonestHeader(x).shape = "map" /\ HonestHeader(x).alg = "-19"
               /\ HonestHeader(x).ct = "checkpoint" /\ HonestHeader(x).kid = x
               /\ HonestHeader(x).extra = "none"
    BY DEF HonestHeader
  <2>4. /\ s.cose.hdr.shape = "map" /\ s.cose.hdr.alg = "-19"
        /\ s.cose.hdr.ct = "checkpoint" /\ s.cose.hdr.kid = KidOf[s.cose.sig.by]
        /\ s.cose.hdr.kid # EmptyId /\ s.cose.hdr.extra = "none"
    BY <2>3 DEF Conformant, WithoutFault
  <2>5. /\ s.container = "map" /\ s.keys = CanonicalKeys /\ s.head = "shortest"
        /\ ~s.trailing /\ s.typed
        /\ s.cose.frame = "ok" /\ ~s.cose.tail /\ s.cose.unprot = "none"
        /\ \A x \in Slot : s.cose.slot[x] = "bstr"
        /\ s.cose.slot["payload"] = "bstr"
    <3>1. s = Sealed(Signer[s.cose.pay.origin], s.cose.hdr, s.cose.pay, s.events)
      BY <2>1 DEF SealedRecord
    <3> QED
      BY <3>1, SealedPlainly
  <2>6. PlainFraming(s.cose)
    <3>1. s.cose.hdr.kid \in KeyId \ {EmptyId}
      <4> HIDE DEF key
      <4> QED
        BY <2>2, <2>4, SystemAssumption
    <3> QED
      BY <2>4, <2>5, <3>1 DEF PlainFraming
  <2>7. Acceptable(s, key)
    <3>1. Attests(s, key)
      <4> HIDE DEF key
      <4> QED
        BY <2>1, <2>2, SealedSignature DEF Attests, Verifies, SealedRecord
    <3> QED
      BY <2>4, <2>5, <3>1 DEF Acceptable, Conformant, WithoutFault
  <2> QED
    BY <2>1, <2>6, <2>7, AcceptsExactly DEF TrustsSigner
<1> QED
  BY <1>1, IInvAlways, PTL
===============================================================================
