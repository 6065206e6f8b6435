------------------------------ MODULE AnswerProofs -----------------------------
(***************************************************************************)
(* Beyond the agreement on what is accepted: which code each client gives  *)
(* a record with one defect or with several, and that the three command    *)
(* lines agree.                                                            *)
(***************************************************************************)
EXTENDS CommandLine, AgreementProofs
-------------------------------------------------------------------------------
(* The three stages of a call.                                             *)

Container(client, r) ==
  CASE client = "python" -> PyContainer(r)
    [] client = "js"     -> JsContainer(r)
    [] client = "rust"   -> RustContainer(r)

Checkpoint(client, c, t) ==
  CASE client = "python" -> PyCheckpoint(c, t)
    [] client = "js"     -> JsCheckpoint(c, t)
    [] client = "rust"   -> RustCheckpoint(c, t)

Rebuild(client, r) ==
  CASE client = "python" -> PyRebuild(r)
    [] client = "js"     -> JsRebuild(r)
    [] client = "rust"   -> RustRebuild(r)

\* Under keys of the right length the first stage that fails decides.
LEMMA Stages ==
  ASSUME NEW client \in Client, NEW r, NEW t, WellFormed(t)
  PROVE  Verdict(client, r, t) =
           IF Container(client, r) # OK THEN Container(client, r)
           ELSE IF Checkpoint(client, r.cose, t) # OK THEN Checkpoint(client, r.cose, t)
           ELSE Rebuild(client, r)
<1>1. CASE client = "python"
  BY <1>1 DEF Verdict, PyVerify, Container, Checkpoint, Rebuild, ??, Fail
<1>2. CASE client = "js"
  BY <1>2 DEF Verdict, JsVerify, Container, Checkpoint, Rebuild, ??, Fail
<1>3. CASE client = "rust"
  BY <1>3 DEF Verdict, RustVerify, Container, Checkpoint, Rebuild, ??
<1> QED
  BY <1>1, <1>2, <1>3 DEF Client
-------------------------------------------------------------------------------
(* The container.                                                          *)

\* How the fields before the events are encoded.
Framed(r, keys, head, trailing, typed) ==
  /\ r.container = "map" /\ r.keys = keys /\ r.head = head
  /\ r.trailing = trailing /\ r.typed = typed

\* What the three ways of looking at the keys find in those of the suite.
LEMMA KeyFacts ==
  ASSUME NEW r
  PROVE  /\ r.keys = CanonicalKeys =>
              /\ KeysOf(r) = Required /\ r.keys[1] = "events" /\ Len(r.keys) = 2
              /\ ~RustDuplicateKey(r)
         /\ r.keys = <<"events", "checkpoint", "checkpoint">> =>
              /\ KeysOf(r) = Required /\ r.keys[1] = "events" /\ Len(r.keys) = 3
              /\ RustDuplicateKey(r)
         /\ r.keys = <<"events", "checkpoint", "text">> =>
              /\ KeysOf(r) = Required \cup {"text"} /\ ~RustDuplicateKey(r)
              /\ r.keys # CanonicalKeys
         /\ r.keys = <<"checkpoint", "events">> =>
              /\ KeysOf(r) = Required /\ r.keys[1] # "events" /\ ~RustDuplicateKey(r)
              /\ r.keys # CanonicalKeys
<1>1. r.keys = CanonicalKeys =>
        /\ KeysOf(r) = Required /\ r.keys[1] = "events" /\ Len(r.keys) = 2
        /\ ~RustDuplicateKey(r)
  BY DEF CanonicalKeys, KeysOf, Required, RustDuplicateKey
<1>2. ASSUME r.keys = <<"events", "checkpoint", "checkpoint">>
      PROVE  /\ KeysOf(r) = Required /\ r.keys[1] = "events" /\ Len(r.keys) = 3
             /\ RustDuplicateKey(r)
  <2>1. /\ DOMAIN r.keys = 1..3 /\ Len(r.keys) = 3 /\ r.keys[1] = "events"
        /\ r.keys[2] = "checkpoint" /\ r.keys[3] = "checkpoint"
    BY <1>2
  <2>2. KeysOf(r) = {r.keys[1], r.keys[2], r.keys[3]}
    BY <2>1 DEF KeysOf
  <2>3. 2 \in DOMAIN r.keys /\ 3 \in DOMAIN r.keys /\ 2 # 3
    BY <2>1
  <2> QED
    BY <2>1, <2>2, <2>3 DEF Required, RustDuplicateKey
<1>3. ASSUME r.keys = <<"events", "checkpoint", "text">>
      PROVE  /\ KeysOf(r) = Required \cup {"text"} /\ ~RustDuplicateKey(r)
             /\ r.keys # CanonicalKeys
  <2>1. /\ DOMAIN r.keys = 1..3 /\ Len(r.keys) = 3 /\ r.keys[1] = "events"
        /\ r.keys[2] = "checkpoint" /\ r.keys[3] = "text"
    BY <1>3
  <2>2. KeysOf(r) = {r.keys[1], r.keys[2], r.keys[3]}
    BY <2>1 DEF KeysOf
  <2>3. ~RustDuplicateKey(r)
    BY <2>1 DEF RustDuplicateKey
  <2>4. Len(CanonicalKeys) = 2
    BY DEF CanonicalKeys
  <2> QED
    BY <2>1, <2>2, <2>3, <2>4 DEF Required
<1>4. r.keys = <<"checkpoint", "events">> =>
        /\ KeysOf(r) = Required /\ r.keys[1] # "events" /\ ~RustDuplicateKey(r)
        /\ r.keys # CanonicalKeys
  BY DEF CanonicalKeys, KeysOf, Required, RustDuplicateKey
<1> QED
  BY <1>1, <1>2, <1>3, <1>4

\* The code of each single defect of the container.
LEMMA ContainerCodes ==
  ASSUME NEW r, NEW client \in Client
  PROVE  /\ Framed(r, CanonicalKeys, "shortest", FALSE, TRUE) =>
              Container(client, r) = Fail(r.events = <<>>, "record.empty")
         /\ Framed(r, <<"events", "checkpoint", "checkpoint">>, "shortest", FALSE, TRUE) =>
              Container(client, r) = "record.decode"
         /\ (\/ Framed(r, <<"events", "checkpoint", "text">>, "shortest", FALSE, TRUE)
             \/ Framed(r, <<"checkpoint", "events">>, "shortest", FALSE, TRUE)
             \/ Framed(r, CanonicalKeys, "wide", FALSE, TRUE)) =>
              Container(client, r) = "record.non_canonical"
         /\ (\/ Framed(r, CanonicalKeys, "indefinite", FALSE, TRUE)
             \/ Framed(r, CanonicalKeys, "shortest", TRUE, TRUE)
             \/ Framed(r, CanonicalKeys, "shortest", FALSE, FALSE)) =>
              Container(client, r) = "record.decode"
<1> DEFINE Goal(x) ==
      /\ Framed(r, CanonicalKeys, "shortest", FALSE, TRUE) =>
           x = Fail(r.events = <<>>, "record.empty")
      /\ Framed(r, <<"events", "checkpoint", "checkpoint">>, "shortest", FALSE, TRUE) =>
           x = "record.decode"
      /\ (\/ Framed(r, <<"events", "checkpoint", "text">>, "shortest", FALSE, TRUE)
          \/ Framed(r, <<"checkpoint", "events">>, "shortest", FALSE, TRUE)
          \/ Framed(r, CanonicalKeys, "wide", FALSE, TRUE)) => x = "record.non_canonical"
      /\ (\/ Framed(r, CanonicalKeys, "indefinite", FALSE, TRUE)
          \/ Framed(r, CanonicalKeys, "shortest", TRUE, TRUE)
          \/ Framed(r, CanonicalKeys, "shortest", FALSE, FALSE)) => x = "record.decode"
<1> DEFINE found == Required \subseteq KeysOf(r) /\ "int" \notin KeysOf(r)
           exact == KeysOf(r) = Required /\ r.keys[1] = "events"
           many  == Len(r.keys) > 2
<1>1. /\ r.keys = CanonicalKeys => found /\ exact /\ ~many
      /\ r.keys = <<"events", "checkpoint", "checkpoint">> => found /\ exact /\ many
      /\ r.keys = <<"events", "checkpoint", "text">> => found /\ ~exact
      /\ r.keys = <<"checkpoint", "events">> => found /\ ~exact
  <2>1. /\ "int" \notin Required /\ Required \cup {"text"} # Required
        /\ "int" \notin Required \cup {"text"}
    BY DEF Required
  <2>2. ~(2 > 2) /\ 3 > 2
    OBVIOUS
  <2> QED
    BY <2>1, <2>2, KeyFacts
<1>2. Goal(PyContainer(r))
  <2> DEFINE lacking == r.container # "map" \/ ~(Required \subseteq KeysOf(r))
             untyped == ~r.typed \/ r.head = "indefinite" \/ many
             longer  == r.head = "shortest" /\ r.trailing
  <2>1. PyContainer(r) = IF lacking THEN "record.decode"
                         ELSE IF ~exact THEN "record.non_canonical"
                         ELSE IF untyped \/ longer THEN "record.decode"
                         ELSE IF r.head = "wide" THEN "record.non_canonical"
                         ELSE Fail(r.events = <<>>, "record.empty")
    BY DEF PyContainer, PyOvercounts, ??, Fail, OK
  <2>2. found => Required \subseteq KeysOf(r)
    OBVIOUS
  <2> HIDE DEF found, exact, many
  <2> QED
    BY <1>1, <2>1, <2>2 DEF Framed
<1>3. Goal(JsContainer(r))
  <2> DEFINE untyped == ~r.typed \/ r.head = "indefinite" \/ many
  <2>1. JsContainer(r) = IF r.container # "map" \/ r.trailing \/ ~found THEN "record.decode"
                         ELSE IF ~exact THEN "record.non_canonical"
                         ELSE IF untyped THEN "record.decode"
                         ELSE IF r.head = "wide" THEN "record.non_canonical"
                         ELSE Fail(r.events = <<>>, "record.empty")
    BY DEF JsContainer, JsFieldsFound, JsOvercounts, ??, Fail, OK
  <2> HIDE DEF found, exact, many
  <2> QED
    BY <1>1, <2>1 DEF Framed
<1>4. Goal(RustContainer(r))
  BY KeyFacts DEF Framed, RustContainer, ??, Fail, OK
<1>5. Container(client, r) \in {PyContainer(r), JsContainer(r), RustContainer(r)}
  BY DEF Container, Client
<1>6. Goal(Container(client, r))
  BY <1>2, <1>3, <1>4, <1>5
<1> QED
  BY <1>6
-------------------------------------------------------------------------------
(* The checkpoint.                                                         *)

\* A header that every client reads, whatever it says.
ReadableHeader(h) ==
  /\ h.shape = "map" /\ h.alg \notin {"-19.0", "malformed"} /\ h.ct # "malformed"
  /\ h.extra # "mistyped" /\ h.kid \in KeyId \ {EmptyId}

\* A checkpoint with such a header, in the framing that sealing gives it.
Readable(c) ==
  /\ c.frame = "ok" /\ ~c.tail /\ c.unprot = "none"
  /\ \A x \in Slot : c.slot[x] = "bstr"
  /\ ReadableHeader(c.hdr)

\* The checks that every client makes of such a checkpoint, in one order.
LEMMA CheckpointCodes ==
  ASSUME NEW c, Readable(c), NEW t, NEW client \in Client
  PROVE  LET key   == Resolve(t, c.hdr.kid)
             early == IF c.hdr.ct # "checkpoint" THEN "sign.bad_content_type"
                      ELSE IF key = NoKey THEN "sign.unknown_key"
                      ELSE IF c.hdr.alg # "-19" \/ ~Verifies(c.sig, key, c.hdr, c.pay)
                      THEN "sign.signature_invalid" ELSE OK
             code  == Checkpoint(client, c, t)
         IN  /\ early # OK => code = early
             /\ early = OK /\ c.pay.form = "canonical" => code = OK
             /\ early = OK /\ c.pay.form = "malformed" => code = "sign.checkpoint_decode"
<1> DEFINE key   == Resolve(t, c.hdr.kid)
           valid == Verifies(c.sig, key, c.hdr, c.pay)
           early == IF c.hdr.ct # "checkpoint" THEN "sign.bad_content_type"
                    ELSE IF key = NoKey THEN "sign.unknown_key"
                    ELSE IF c.hdr.alg # "-19" \/ ~valid
                    THEN "sign.signature_invalid" ELSE OK
           Goal(code) ==
             /\ early # OK => code = early
             /\ early = OK /\ c.pay.form = "canonical" => code = OK
             /\ early = OK /\ c.pay.form = "malformed" => code = "sign.checkpoint_decode"
<1>1. /\ c.slot["protected"] = "bstr" /\ c.slot["payload"] = "bstr"
      /\ c.slot["signature"] = "bstr" /\ ~PyBytesRaises(c)
  BY DEF Readable, Slot, PyBytesRaises
<1>2. c.hdr.kid \notin {"none", "nonbytes", EmptyId} /\ RustKid(c.hdr) = c.hdr.kid
  BY KeyAssumption DEF Readable, ReadableHeader, RustKid
<1>3. /\ PySigned(c, key) = valid /\ JsSigned(c, key) = valid /\ RustSigned(c, key) = valid
      /\ JsHeaderIsMap(c) /\ RustParses(c)
  BY <1>1, <1>2 DEF Readable, ReadableHeader, PySigned, JsSigned, RustSigned, JsHeaderIsMap, RustParses,
                    Verifies
<1>4. c.hdr.alg \in {"-19", "-19.0"} <=> c.hdr.alg = "-19"
  BY DEF Readable, ReadableHeader
<1> HIDE DEF key, valid
<1>5. Goal(PyCheckpoint(c, t))
  BY <1>1, <1>3, <1>4 DEF Readable, ReadableHeader, PyCheckpoint, ??, Fail, OK, key
<1>6. Goal(JsCheckpoint(c, t))
  BY <1>1, <1>3, <1>4 DEF Readable, ReadableHeader, JsCheckpoint, ??, Fail, OK, key
<1>7. Goal(RustCheckpoint(c, t))
  BY <1>1, <1>2, <1>3 DEF Readable, ReadableHeader, RustCheckpoint, RustDecodesPayload, ??,
     Fail, OK, key
<1>8. Checkpoint(client, c, t) \in {PyCheckpoint(c, t), JsCheckpoint(c, t), RustCheckpoint(c, t)}
  BY DEF Checkpoint, Client
<1>9. Goal(Checkpoint(client, c, t))
  BY <1>5, <1>6, <1>7, <1>8
<1> QED
  BY <1>9 DEF key, valid

\* Every client compares the size first, and then the head.
LEMMA RebuildCodes ==
  ASSUME NEW r, r.cose.pay.form = "canonical", NEW client \in Client
  PROVE  Rebuild(client, r) =
           IF Len(r.events) # r.cose.pay.size THEN "record.size_mismatch"
           ELSE Fail(Root(r.events) # r.cose.pay.root, "record.root_mismatch")
BY DEF Rebuild, Client, PyRebuild, JsRebuild, RustRebuild, PyRoot, JsRoot, RustRoot,
       ??, Fail, OK
-------------------------------------------------------------------------------
(* Records with one defect.                                                *)

\* What every sealed record is to the clients.
LEMMA SealedParts ==
  ASSUME IInv, NEW s \in archive
  PROVE  LET key == s.cose.sig.by
         IN  /\ s \in WireRecord /\ s.events \in EventSeq /\ key \in Key /\ key # NoKey
             /\ Framed(s, CanonicalKeys, "shortest", FALSE, TRUE)
             /\ s.cose.frame = "ok" /\ ~s.cose.tail /\ s.cose.unprot = "none"
             /\ \A x \in Slot : s.cose.slot[x] = "bstr"
             /\ Verifies(s.cose.sig, key, s.cose.hdr, s.cose.pay)
             /\ s.cose.pay.size = Len(s.events) /\ s.cose.pay.root = Root(s.events)
<1>1. s \in WireRecord /\ SealedRecord(s)
  BY DEF IInv, TypeOK, ArchiveInv
<1>2. s.cose.pay.origin \in Run /\ s.events \in EventSeq /\ s.trailing \in BOOLEAN /\ s.typed \in BOOLEAN
  BY <1>1 DEF WireRecord, Cose, Payload
<1>3. /\ s.cose.sig.by = Signer[s.cose.pay.origin]
      /\ s.cose.sig = [by |-> s.cose.sig.by, hdr |-> s.cose.hdr, pay |-> s.cose.pay]
  BY <1>1, SealedSignature
<1>4. Signer[s.cose.pay.origin] \in Key
  BY <1>2, SystemAssumption
<1>5. s.cose.sig.by \in Key /\ s.cose.sig.by # NoKey
  BY <1>3, <1>4, KeyAssumption
<1>6. /\ s.container = "map" /\ s.keys = CanonicalKeys /\ s.head = "shortest"
      /\ ~s.trailing /\ s.typed
      /\ s.cose.frame = "ok" /\ ~s.cose.tail /\ s.cose.unprot = "none"
      /\ \A x \in Slot : s.cose.slot[x] = "bstr"
  <2>1. s = Sealed(Signer[s.cose.pay.origin], s.cose.hdr, s.cose.pay, s.events)
    BY <1>1 DEF SealedRecord
  <2> QED
    BY <2>1, SealedPlainly
<1> QED
  BY <1>1, <1>2, <1>3, <1>5, <1>6 DEF SealedRecord, Verifies, Framed

\* The header that a producer without fault writes.
LEMMA HonestClaims ==
  \A kid : /\ HonestHeader(kid).shape = "map" /\ HonestHeader(kid).alg = "-19"
            /\ HonestHeader(kid).ct = "checkpoint" /\ HonestHeader(kid).kid = kid
            /\ HonestHeader(kid).extra = "none"
BY DEF HonestHeader

\* A conformant record whose signer is trusted passes all checks of its checkpoint.
LEMMA ConformantPasses ==
  ASSUME IInv, NEW s \in archive, NEW t, NEW client \in Client,
         Conformant(s), TrustsSigner(t, s)
  PROVE  /\ Readable(s.cose) /\ WellFormed(t) /\ Resolve(t, s.cose.hdr.kid) = s.cose.sig.by
         /\ s.cose.hdr.ct = "checkpoint" /\ s.cose.hdr.alg = "-19"
         /\ s.cose.pay.form = "canonical"
         /\ Checkpoint(client, s.cose, t) = OK
<1> DEFINE key == s.cose.sig.by
<1>1. /\ key \in Key /\ key # NoKey
      /\ s.cose.frame = "ok" /\ ~s.cose.tail /\ s.cose.unprot = "none"
      /\ \A x \in Slot : s.cose.slot[x] = "bstr"
      /\ Verifies(s.cose.sig, key, s.cose.hdr, s.cose.pay)
  BY SealedParts
<1>2. /\ s.cose.hdr.shape = "map" /\ s.cose.hdr.alg = "-19" /\ s.cose.hdr.ct = "checkpoint"
      /\ s.cose.hdr.kid = KidOf[key] /\ s.cose.hdr.kid # EmptyId
      /\ s.cose.hdr.extra = "none" /\ s.cose.pay.form = "canonical"
  <2>1. s.cose.hdr = HonestHeader(KidOf[key])
    BY DEF Conformant, WithoutFault
  <2> HIDE DEF key
  <2>2. /\ s.cose.hdr.shape = "map" /\ s.cose.hdr.alg = "-19"
        /\ s.cose.hdr.ct = "checkpoint" /\ s.cose.hdr.kid = KidOf[key]
        /\ s.cose.hdr.extra = "none"
    BY <2>1, HonestClaims
  <2> QED
    BY <2>2 DEF Conformant, WithoutFault
<1>3. KidOf[key] \in KeyId
  BY <1>1, SystemAssumption
<1>4. Readable(s.cose)
  BY <1>1, <1>2, <1>3 DEF Readable, ReadableHeader
<1>5. WellFormed(t) /\ Resolve(t, s.cose.hdr.kid) = key
  BY DEF TrustsSigner, PlainTrust
<1>6. Checkpoint(client, s.cose, t) = OK
  BY <1>1, <1>2, <1>4, <1>5, CheckpointCodes DEF OK
<1> QED
  BY <1>2, <1>4, <1>5, <1>6

\* The vectors of s whose defect is in the container.
IsContainerVector(v, s) ==
  \/ v = [wire |-> [s EXCEPT !.events = <<>>], code |-> "record.empty"]
  \/ v = [wire |-> [s EXCEPT !.keys = <<"events", "checkpoint", "checkpoint">>],
          code |-> "record.decode"]
  \/ v = [wire |-> [s EXCEPT !.keys = <<"events", "checkpoint", "text">>],
          code |-> "record.non_canonical"]
  \/ v = [wire |-> [s EXCEPT !.keys = <<"checkpoint", "events">>],
          code |-> "record.non_canonical"]
  \/ v = [wire |-> [s EXCEPT !.head = "indefinite"], code |-> "record.decode"]
  \/ v = [wire |-> [s EXCEPT !.head = "wide"], code |-> "record.non_canonical"]
  \/ v = [wire |-> [s EXCEPT !.trailing = TRUE], code |-> "record.decode"]
  \/ v = [wire |-> [s EXCEPT !.typed = FALSE], code |-> "record.decode"]

\* A record that differs from a sealed one in its container only.
LEMMA ContainerVectors ==
  ASSUME IInv, NEW s \in archive, NEW t, NEW client \in Client, WellFormed(t),
         NEW v, IsContainerVector(v, s)
  PROVE  Verdict(client, v.wire, t) = v.code
<1>1. s \in WireRecord /\ Framed(s, CanonicalKeys, "shortest", FALSE, TRUE)
  BY SealedParts
<1>2. Container(client, v.wire) = v.code => v.code = OK \/ Verdict(client, v.wire, t) = v.code
  BY Stages
<1>3. /\ "record.empty" # OK /\ "record.decode" # OK /\ "record.non_canonical" # OK
  BY DEF OK
<1>4. CASE v = [wire |-> [s EXCEPT !.events = <<>>], code |-> "record.empty"]
  <2>1. /\ Framed(v.wire, CanonicalKeys, "shortest", FALSE, TRUE)
        /\ v.wire.events = <<>> /\ v.code = "record.empty"
    BY <1>1, <1>4 DEF WireRecord, Framed
  <2> QED
    BY <1>2, <1>3, <2>1, ContainerCodes DEF Fail
<1>5. CASE v = [wire |-> [s EXCEPT !.keys = <<"events", "checkpoint", "checkpoint">>],
                code |-> "record.decode"]
  <2>1. /\ Framed(v.wire, <<"events", "checkpoint", "checkpoint">>, "shortest", FALSE, TRUE)
        /\ v.code = "record.decode"
    BY <1>1, <1>5 DEF WireRecord, Framed
  <2> QED
    BY <1>2, <1>3, <2>1, ContainerCodes
<1>6. CASE v = [wire |-> [s EXCEPT !.keys = <<"events", "checkpoint", "text">>],
                code |-> "record.non_canonical"]
  <2>1. /\ Framed(v.wire, <<"events", "checkpoint", "text">>, "shortest", FALSE, TRUE)
        /\ v.code = "record.non_canonical"
    BY <1>1, <1>6 DEF WireRecord, Framed
  <2> QED
    BY <1>2, <1>3, <2>1, ContainerCodes
<1>7. CASE v = [wire |-> [s EXCEPT !.keys = <<"checkpoint", "events">>],
                code |-> "record.non_canonical"]
  <2>1. /\ Framed(v.wire, <<"checkpoint", "events">>, "shortest", FALSE, TRUE)
        /\ v.code = "record.non_canonical"
    BY <1>1, <1>7 DEF WireRecord, Framed
  <2> QED
    BY <1>2, <1>3, <2>1, ContainerCodes
<1>8. CASE v = [wire |-> [s EXCEPT !.head = "indefinite"], code |-> "record.decode"]
  <2>1. Framed(v.wire, CanonicalKeys, "indefinite", FALSE, TRUE) /\ v.code = "record.decode"
    BY <1>1, <1>8 DEF WireRecord, Framed
  <2> QED
    BY <1>2, <1>3, <2>1, ContainerCodes
<1>9. CASE v = [wire |-> [s EXCEPT !.head = "wide"], code |-> "record.non_canonical"]
  <2>1. Framed(v.wire, CanonicalKeys, "wide", FALSE, TRUE) /\ v.code = "record.non_canonical"
    BY <1>1, <1>9 DEF WireRecord, Framed
  <2> QED
    BY <1>2, <1>3, <2>1, ContainerCodes
<1>10. CASE v = [wire |-> [s EXCEPT !.trailing = TRUE], code |-> "record.decode"]
  <2>1. Framed(v.wire, CanonicalKeys, "shortest", TRUE, TRUE) /\ v.code = "record.decode"
    BY <1>1, <1>10 DEF WireRecord, Framed
  <2> QED
    BY <1>2, <1>3, <2>1, ContainerCodes
<1>11. CASE v = [wire |-> [s EXCEPT !.typed = FALSE], code |-> "record.decode"]
  <2>1. Framed(v.wire, CanonicalKeys, "shortest", FALSE, FALSE) /\ v.code = "record.decode"
    BY <1>1, <1>11 DEF WireRecord, Framed
  <2> QED
    BY <1>2, <1>3, <2>1, ContainerCodes
<1> QED
  BY <1>4, <1>5, <1>6, <1>7, <1>8, <1>9, <1>10, <1>11 DEF IsContainerVector

\* In its checkpoint.
LEMMA CheckpointVectors ==
  ASSUME IInv, NEW s \in archive, NEW t, NEW client \in Client,
         Conformant(s), TrustsSigner(t, s), s.events # <<>>
  PROVE  /\ Verdict(client, [s EXCEPT !.cose.sig.by = NoKey], t) = "sign.signature_invalid"
         /\ Verdict(client, [s EXCEPT !.cose.hdr.ct = "other"], t) = "sign.bad_content_type"
         /\ Verdict(client, [s EXCEPT !.cose.hdr.ct = "none"], t) = "sign.bad_content_type"
         /\ Verdict(client, [s EXCEPT !.cose.hdr.alg = "-8"], t) = "sign.signature_invalid"
<1> DEFINE key == s.cose.sig.by
<1>1. /\ s \in WireRecord /\ key # NoKey /\ Framed(s, CanonicalKeys, "shortest", FALSE, TRUE)
      /\ s.cose \in Cose /\ s.cose.hdr \in Header /\ s.cose.sig \in Signature
  BY SealedParts DEF WireRecord, Cose
<1>2. /\ Readable(s.cose) /\ WellFormed(t) /\ Resolve(t, s.cose.hdr.kid) = key
      /\ s.cose.hdr.ct = "checkpoint" /\ s.cose.hdr.alg = "-19"
  BY ConformantPasses
<1>3. ASSUME NEW c, NEW code, code # OK, Checkpoint(client, c, t) = code
      PROVE  Verdict(client, [s EXCEPT !.cose = c], t) = code
  <2> DEFINE r == [s EXCEPT !.cose = c]
  <2>1. Framed(r, CanonicalKeys, "shortest", FALSE, TRUE) /\ r.events = s.events /\ r.cose = c
    BY <1>1 DEF WireRecord, Framed
  <2> HIDE DEF r
  <2>2. Container(client, r) = OK
    BY <2>1, ContainerCodes DEF Fail
  <2>3. Verdict(client, r, t) = code
    BY <1>2, <1>3, <2>1, <2>2, Stages
  <2> QED
    BY <2>3 DEF r
<1>4. "sign.signature_invalid" # OK /\ "sign.bad_content_type" # OK
  BY DEF OK
<1>5. Verdict(client, [s EXCEPT !.cose.sig.by = NoKey], t) = "sign.signature_invalid"
  <2> DEFINE c == [s.cose EXCEPT !.sig = [s.cose.sig EXCEPT !.by = NoKey]]
  <2>1. [s EXCEPT !.cose.sig.by = NoKey] = [s EXCEPT !.cose = c]
    BY <1>1 DEF WireRecord, Cose
  <2>2. /\ c.frame = s.cose.frame /\ c.tail = s.cose.tail /\ c.unprot = s.cose.unprot
        /\ c.slot = s.cose.slot /\ c.hdr = s.cose.hdr /\ c.sig.by = NoKey
    BY <1>1 DEF Cose, Signature
  <2> HIDE DEF c
  <2>3. Readable(c)
    BY <1>2, <2>2 DEF Readable
  <2>4. ~Verifies(c.sig, key, c.hdr, c.pay)
    BY <1>1, <2>2 DEF Verifies
  <2>5. Checkpoint(client, c, t) = "sign.signature_invalid"
    <3> HIDE DEF key
    <3> QED
      BY <1>1, <1>2, <1>4, <2>2, <2>3, <2>4, CheckpointCodes
  <2> QED
    BY <1>3, <1>4, <2>1, <2>5
<1>6. ASSUME NEW x \in {"other", "none"}
      PROVE  Verdict(client, [s EXCEPT !.cose.hdr.ct = x], t) = "sign.bad_content_type"
  <2> DEFINE c == [s.cose EXCEPT !.hdr = [s.cose.hdr EXCEPT !.ct = x]]
  <2>1. [s EXCEPT !.cose.hdr.ct = x] = [s EXCEPT !.cose = c]
    BY <1>1 DEF WireRecord, Cose
  <2>2. /\ c.frame = s.cose.frame /\ c.tail = s.cose.tail /\ c.unprot = s.cose.unprot
        /\ c.slot = s.cose.slot /\ c.hdr.shape = s.cose.hdr.shape /\ c.hdr.kid = s.cose.hdr.kid
        /\ c.hdr.alg = s.cose.hdr.alg /\ c.hdr.extra = s.cose.hdr.extra
        /\ c.hdr.ct \notin {"checkpoint", "malformed"}
    BY <1>1 DEF Cose, Header
  <2> HIDE DEF c
  <2>3. Readable(c)
    BY <1>2, <2>2 DEF Readable, ReadableHeader
  <2>4. Checkpoint(client, c, t) = "sign.bad_content_type"
    BY <1>4, <2>2, <2>3, CheckpointCodes
  <2> QED
    BY <1>3, <1>4, <2>1, <2>4
<1>7. Verdict(client, [s EXCEPT !.cose.hdr.alg = "-8"], t) = "sign.signature_invalid"
  <2> DEFINE c == [s.cose EXCEPT !.hdr = [s.cose.hdr EXCEPT !.alg = "-8"]]
  <2>1. [s EXCEPT !.cose.hdr.alg = "-8"] = [s EXCEPT !.cose = c]
    BY <1>1 DEF WireRecord, Cose
  <2>2. /\ c.frame = s.cose.frame /\ c.tail = s.cose.tail /\ c.unprot = s.cose.unprot
        /\ c.slot = s.cose.slot /\ c.hdr.shape = s.cose.hdr.shape /\ c.hdr.kid = s.cose.hdr.kid
        /\ c.hdr.ct = s.cose.hdr.ct /\ c.hdr.extra = s.cose.hdr.extra
        /\ c.hdr.alg = "-8"
    BY <1>1 DEF Cose, Header
  <2> HIDE DEF c
  <2>3. Readable(c)
    BY <1>2, <2>2 DEF Readable, ReadableHeader
  <2>4. Checkpoint(client, c, t) = "sign.signature_invalid"
    <3> HIDE DEF key
    <3> QED
      BY <1>1, <1>2, <1>4, <2>2, <2>3, CheckpointCodes
  <2> QED
    BY <1>3, <1>4, <2>1, <2>4
<1> QED
  BY <1>5, <1>6, <1>7

\* In the events it carries.
LEMMA EventVectors ==
  ASSUME IInv, NEW s \in archive, NEW t, NEW client \in Client,
         Conformant(s), TrustsSigner(t, s), s.events # <<>>,
         NEW x \in EventSeq, Len(x) # 0, x # s.events
  PROVE  Verdict(client, [s EXCEPT !.events = x], t) =
           IF Len(x) = Len(s.events) THEN "record.root_mismatch" ELSE "record.size_mismatch"
<1> DEFINE r == [s EXCEPT !.events = x]
<1>1. /\ s \in WireRecord /\ s.events \in EventSeq
      /\ Framed(s, CanonicalKeys, "shortest", FALSE, TRUE)
      /\ s.cose.pay.size = Len(s.events) /\ s.cose.pay.root = Root(s.events)
  BY SealedParts
<1>2. /\ WellFormed(t) /\ s.cose.pay.form = "canonical" /\ Checkpoint(client, s.cose, t) = OK
  BY ConformantPasses
<1>3. /\ Framed(r, CanonicalKeys, "shortest", FALSE, TRUE) /\ r.events = x /\ r.cose = s.cose
  BY <1>1 DEF WireRecord, Framed
<1>4. x # <<>>
  OBVIOUS
<1> HIDE DEF r
<1>5. Container(client, r) = OK
  BY <1>3, <1>4, ContainerCodes DEF Fail
<1>6. Verdict(client, r, t) = Rebuild(client, r)
  BY <1>2, <1>3, <1>5, Stages
<1>7. Len(x) = Len(s.events) => Root(x) # Root(s.events)
  BY <1>1, RootBinding
<1> QED
  BY <1>1, <1>2, <1>3, <1>6, <1>7, RebuildCodes DEF Fail, r

\* Every client gives the codes of the suite: the codes of the container do not
\* depend on trust, those of the checkpoint come before those of the events.
THEOREM DefectCodes == Spec => []SuiteCodes
<1>1. IInv => SuiteCodes
  <2> SUFFICES ASSUME IInv, NEW s \in archive, NEW t \in Trusts, NEW c \in Client,
                      Conformant(s), s.events # <<>>, TrustsSigner(t, s),
                      NEW v \in SuiteVectors(s)
               PROVE  Verdict(c, v.wire, t) = v.code
    BY DEF SuiteCodes
  <2>1. WellFormed(t)
    BY DEF TrustsSigner, PlainTrust
  <2>2. CASE IsContainerVector(v, s)
    BY <2>1, <2>2, ContainerVectors
  <2>3. CASE \/ v = [wire |-> [s EXCEPT !.cose.sig.by = NoKey], code |-> "sign.signature_invalid"]
             \/ v = [wire |-> [s EXCEPT !.cose.hdr.ct = "other"], code |-> "sign.bad_content_type"]
             \/ v = [wire |-> [s EXCEPT !.cose.hdr.ct = "none"], code |-> "sign.bad_content_type"]
             \/ v = [wire |-> [s EXCEPT !.cose.hdr.alg = "-8"], code |-> "sign.signature_invalid"]
    <3>1. /\ Verdict(c, [s EXCEPT !.cose.sig.by = NoKey], t) = "sign.signature_invalid"
          /\ Verdict(c, [s EXCEPT !.cose.hdr.ct = "other"], t) = "sign.bad_content_type"
          /\ Verdict(c, [s EXCEPT !.cose.hdr.ct = "none"], t) = "sign.bad_content_type"
          /\ Verdict(c, [s EXCEPT !.cose.hdr.alg = "-8"], t) = "sign.signature_invalid"
      BY CheckpointVectors
    <3>2. ASSUME NEW r, NEW code, v = [wire |-> r, code |-> code], Verdict(c, r, t) = code
          PROVE  Verdict(c, v.wire, t) = v.code
      BY <3>2
    <3> QED
      BY <2>3, <3>1, <3>2
  <2>4. CASE \E x \in EventSeq : /\ Len(x) = Len(s.events) /\ x # s.events
                                 /\ v = [wire |-> [s EXCEPT !.events = x],
                                         code |-> "record.root_mismatch"]
    <3>1. PICK x \in EventSeq : /\ Len(x) = Len(s.events) /\ x # s.events
                                /\ v = [wire |-> [s EXCEPT !.events = x],
                                        code |-> "record.root_mismatch"]
      BY <2>4
    <3>2. s.events \in Seq(Event)
      BY SealedParts, EventSeqFacts
    <3>3. Len(x) # 0
      BY <3>1, <3>2
    <3> QED
      BY <3>1, <3>3, EventVectors
  <2>5. CASE \E x \in EventSeq : /\ Len(x) \notin {0, Len(s.events)}
                                 /\ v = [wire |-> [s EXCEPT !.events = x],
                                         code |-> "record.size_mismatch"]
    <3>1. PICK x \in EventSeq : /\ Len(x) \notin {0, Len(s.events)}
                                /\ v = [wire |-> [s EXCEPT !.events = x],
                                        code |-> "record.size_mismatch"]
      BY <2>5
    <3> QED
      BY <3>1, EventVectors
  <2> QED
    BY <2>2, <2>3, <2>4, <2>5 DEF SuiteVectors, IsContainerVector
<1> QED
  BY <1>1, IInvAlways, PTL
-------------------------------------------------------------------------------
(* Records sealed by a producer with one fault.                            *)

\* FaultySealCodes needs to know of a sealed record that its header has one fault
\* at most: one with a wrong content type has no other.
HeadersInv ==
  \A s \in archive :
    LET h == HonestHeader(KidOf[s.cose.sig.by])
    IN  s.cose.hdr = h \/ s.cose.hdr \in FaultyHeaders(h)

\* Sealing under the honest header or a faulty one keeps it so.
LEMMA SealKeepsHeaders ==
  ASSUME HeadersInv, NEW run \in Run, NEW hdr, NEW p, SealAs(run, hdr, p),
         LET h == HonestHeader(KidOf[Signer[run]])
         IN  hdr = h \/ hdr \in FaultyHeaders(h)
  PROVE  HeadersInv'
<1> DEFINE new == Sealed(Signer[run], hdr, p, log[run])
<1>1. archive' = archive \cup {new}
  BY DEF SealAs
<1>2. new.cose.sig.by = Signer[run] /\ new.cose.hdr = hdr
  BY DEF Sealed
<1> HIDE DEF new
<1> QED
  BY <1>1, <1>2 DEF HeadersInv

LEMMA HeadersAlways == Spec => []HeadersInv
<1>1. Init => HeadersInv
  BY DEF Init, HeadersInv
<1>2. HeadersInv /\ [Next]_vars => HeadersInv'
  <2> SUFFICES ASSUME HeadersInv, [Next]_vars PROVE HeadersInv'
    OBVIOUS
  <2>1. ASSUME NEW run \in Run, Seal(run) \/ FaultySeal(run)
        PROVE  HeadersInv'
    <3> DEFINE h == HonestHeader(KidOf[Signer[run]])
    <3>1. \E hdr \in {h} \cup FaultyHeaders(h) : \E p : SealAs(run, hdr, p)
      BY <2>1 DEF Seal, FaultySeal
    <3> QED
      BY <3>1, SealKeepsHeaders
  <2>2. ASSUME NEW run \in Run, NEW e \in Event, LogEvent(run, e)
        PROVE  archive' = archive
    BY <2>2 DEF LogEvent
  <2>3. ASSUME \/ \E r \in archive : Present(r)
               \/ Edit
               \/ \E f \in Rings : Reconfigure(f)
               \/ \E client \in Client, t \in Trusts : Verify(client, t)
               \/ UNCHANGED vars
        PROVE  archive' = archive
    BY <2>3 DEF Present, Edit, Reconfigure, Verify, vars
  <2>4. archive' = archive => HeadersInv'
    BY DEF HeadersInv
  <2> QED
    BY <2>1, <2>2, <2>3, <2>4 DEF Next
<1> QED
  BY <1>1, <1>2, PTL DEF Spec

\* A faulty header with a wrong content type is honest in all other claims.
LEMMA WrongContentType ==
  ASSUME NEW kid, NEW hdr \in FaultyHeaders(HonestHeader(kid)),
         hdr.ct # "checkpoint", hdr.shape = "map"
  PROVE  hdr.alg = "-19" /\ hdr.kid = kid /\ hdr.extra = "none"
<1> DEFINE h == HonestHeader(kid)
<1>1. /\ h.shape = "map" /\ h.alg = "-19" /\ h.ct = "checkpoint" /\ h.kid = kid
      /\ h.extra = "none" /\ HasClaims(h)
  BY DEF HonestHeader, HasClaims
<1>2. /\ \A x : /\ [h EXCEPT !.alg = x].ct = "checkpoint" /\ [h EXCEPT !.kid = x].ct = "checkpoint"
                /\ [h EXCEPT !.ct = x].alg = "-19" /\ [h EXCEPT !.ct = x].kid = kid
                /\ [h EXCEPT !.ct = x].extra = "none" /\ [h EXCEPT !.extra = x].ct = "checkpoint"
                /\ [h EXCEPT !.shape = x].shape = x
  BY DEF HonestHeader
<1>3. hdr \in FaultyClaims(h) \/ \E x \in HeaderShape \ {"map", "dup", "trailed"} : hdr = NoClaims(x)
  BY <1>1 DEF FaultyHeaders
<1>4. hdr \in FaultyClaims(h) =>
        \/ \E x : hdr = [h EXCEPT !.alg = x] \/ hdr = [h EXCEPT !.kid = x] \/ hdr = [h EXCEPT !.ct = x]
        \/ \E x : hdr = [h EXCEPT !.extra = x]
        \/ \E x \in {"dup", "trailed"} : hdr = [h EXCEPT !.shape = x]
  <2> HIDE DEF h
  <2> QED
    BY DEF FaultyClaims
<1>5. ASSUME NEW x, hdr = [h EXCEPT !.alg = x] \/ hdr = [h EXCEPT !.kid = x] \/ hdr = [h EXCEPT !.ct = x]
      PROVE  hdr.alg = "-19" /\ hdr.kid = kid /\ hdr.extra = "none"
  <2>0. [h EXCEPT !.alg = x].ct = "checkpoint" /\ [h EXCEPT !.kid = x].ct = "checkpoint"
    BY <1>2
  <2>1. hdr # [h EXCEPT !.alg = x] /\ hdr # [h EXCEPT !.kid = x]
    <3> HIDE DEF h
    <3> QED
      BY <2>0
  <2>2. hdr = [h EXCEPT !.ct = x]
    BY <1>5, <2>1
  <2> QED
    BY <2>2 DEF HonestHeader
<1>6. /\ \A x : hdr # [h EXCEPT !.extra = x]
      /\ \A x \in {"dup", "trailed"} : hdr # [h EXCEPT !.shape = x]
  <2>1. \A x : [h EXCEPT !.extra = x].ct = "checkpoint" /\ [h EXCEPT !.shape = x].shape = x
    BY <1>2
  <2> HIDE DEF h
  <2> QED
    BY <2>1
<1>7. \A x \in HeaderShape \ {"map", "dup", "trailed"} : hdr # NoClaims(x)
  <2> SUFFICES ASSUME NEW x \in HeaderShape \ {"map", "dup", "trailed"}, hdr = NoClaims(x) PROVE FALSE
    OBVIOUS
  <2>1. hdr.shape = x
    BY DEF NoClaims
  <2> QED
    BY <2>1
<1> QED
  BY <1>3, <1>4, <1>5, <1>6, <1>7

\* What a sealed record gets is decided by its checkpoint, if its header is one
\* that every client reads.
LEMMA SealedVerdict ==
  ASSUME IInv, NEW s \in archive, s.events # <<>>, NEW t, PlainTrust(t), NEW client \in Client,
         ReadableHeader(s.cose.hdr)
  PROVE  LET key  == Resolve(t, s.cose.hdr.kid)
             code == Verdict(client, s, t)
         IN  /\ s.cose.hdr.ct # "checkpoint" => code = "sign.bad_content_type"
             /\ s.cose.hdr.ct = "checkpoint" /\ key = NoKey => code = "sign.unknown_key"
             /\ s.cose.hdr.ct = "checkpoint" /\ key # NoKey /\ s.cose.hdr.alg # "-19"
                  => code = "sign.signature_invalid"
             /\ /\ s.cose.hdr.ct = "checkpoint" /\ key = s.cose.sig.by
                /\ s.cose.hdr.alg = "-19" /\ s.cose.pay.form = "malformed"
                => code = "sign.checkpoint_decode"
<1> DEFINE key == Resolve(t, s.cose.hdr.kid)
           c   == s.cose
<1>1. /\ Framed(s, CanonicalKeys, "shortest", FALSE, TRUE)
      /\ c.sig.by # NoKey /\ Verifies(c.sig, c.sig.by, c.hdr, c.pay)
  BY SealedParts
<1>2. Readable(c)
  BY SealedParts DEF Readable
<1>3. Container(client, s) = OK
  BY <1>1, ContainerCodes DEF Fail
<1>4. Checkpoint(client, c, t) # OK => Verdict(client, s, t) = Checkpoint(client, c, t)
  BY <1>3, Stages DEF PlainTrust
<1>5. /\ "sign.bad_content_type" # OK /\ "sign.unknown_key" # OK
      /\ "sign.signature_invalid" # OK /\ "sign.checkpoint_decode" # OK
  BY DEF OK
<1> HIDE DEF c
<1>6. /\ c.hdr.ct # "checkpoint" => Checkpoint(client, c, t) = "sign.bad_content_type"
      /\ c.hdr.ct = "checkpoint" /\ Resolve(t, c.hdr.kid) = NoKey
           => Checkpoint(client, c, t) = "sign.unknown_key"
      /\ c.hdr.ct = "checkpoint" /\ Resolve(t, c.hdr.kid) # NoKey /\ c.hdr.alg # "-19"
           => Checkpoint(client, c, t) = "sign.signature_invalid"
      /\ /\ c.hdr.ct = "checkpoint" /\ Resolve(t, c.hdr.kid) = c.sig.by
         /\ c.hdr.alg = "-19" /\ c.pay.form = "malformed"
         => Checkpoint(client, c, t) = "sign.checkpoint_decode"
  BY <1>1, <1>2, <1>5, CheckpointCodes
<1> QED
  BY <1>4, <1>5, <1>6 DEF c

\* Every client gives the one fault of a signer the code pinned for it.
THEOREM SealedFaultCodes == Spec => []FaultySealCodes
<1>1. IInv /\ HeadersInv => FaultySealCodes
  <2> SUFFICES ASSUME IInv, HeadersInv, NEW s \in archive, NEW t \in Trusts, NEW c \in Client,
                      s.events # <<>>, PlainTrust(t),
                      HonestHeader(KidOf[s.cose.sig.by]).kid # EmptyId
               PROVE  LET h == HonestHeader(KidOf[s.cose.sig.by])
                          Gets(code) == Verdict(c, s, t) = code
                      IN  /\ s.cose.hdr = [h EXCEPT !.alg = "-8"] /\ TrustsSigner(t, s)
                               => Gets("sign.signature_invalid")
                          /\ s.cose.hdr.ct \in {"other", "none"} /\ s.cose.hdr.shape = "map"
                               => Gets("sign.bad_content_type")
                          /\ t.mode = "ring" /\ s.cose.hdr = [h EXCEPT !.kid = s.cose.hdr.kid]
                             /\ s.cose.hdr.kid \in KeyId \ ({EmptyId} \cup DOMAIN t.ring)
                               => Gets("sign.unknown_key")
                          /\ s.cose.hdr = h /\ s.cose.pay.form = "malformed" /\ TrustsSigner(t, s)
                               => Gets("sign.checkpoint_decode")
    BY DEF FaultySealCodes
  <2> DEFINE kid == KidOf[s.cose.sig.by]
             h   == HonestHeader(kid)
  <2>1. s.cose.sig.by \in Key /\ s.cose.sig.by # NoKey /\ kid \in KeyId \ {EmptyId}
    <3>1. s.cose.sig.by \in Key /\ s.cose.sig.by # NoKey
      BY SealedParts
    <3>2. kid # EmptyId
      BY HonestClaims
    <3> QED
      BY <3>1, <3>2, SystemAssumption
  <2>2. h.shape = "map" /\ h.alg = "-19" /\ h.ct = "checkpoint" /\ h.kid = kid /\ h.extra = "none"
    BY HonestClaims
  <2>3. /\ [h EXCEPT !.alg = "-8"].shape = "map" /\ [h EXCEPT !.alg = "-8"].alg = "-8"
        /\ [h EXCEPT !.alg = "-8"].ct = "checkpoint" /\ [h EXCEPT !.alg = "-8"].kid = kid
        /\ [h EXCEPT !.alg = "-8"].extra = "none"
    BY DEF HonestHeader
  <2>4. \A x : /\ [h EXCEPT !.kid = x].shape = "map" /\ [h EXCEPT !.kid = x].alg = "-19"
               /\ [h EXCEPT !.kid = x].ct = "checkpoint" /\ [h EXCEPT !.kid = x].kid = x
               /\ [h EXCEPT !.kid = x].extra = "none"
    BY DEF HonestHeader
  <2>5. s.cose.hdr = h \/ s.cose.hdr \in FaultyHeaders(h)
    BY DEF HeadersInv
  <2>6. "-8" # "-19.0" /\ "-19" # "-19.0" /\ "-8" # "-19"
    OBVIOUS
  <2>7. TrustsSigner(t, s) => Resolve(t, s.cose.hdr.kid) = s.cose.sig.by
    BY DEF TrustsSigner
  <2>8. s.cose.hdr.ct # "checkpoint" /\ s.cose.hdr.shape = "map"
          => s.cose.hdr.alg = "-19" /\ s.cose.hdr.kid = kid /\ s.cose.hdr.extra = "none"
    BY <2>2, <2>5, WrongContentType
  <2> DEFINE key   == Resolve(t, s.cose.hdr.kid)
             code  == Verdict(c, s, t)
  <2>13. ReadableHeader(s.cose.hdr) =>
          /\ s.cose.hdr.ct # "checkpoint" => code = "sign.bad_content_type"
          /\ s.cose.hdr.ct = "checkpoint" /\ key = NoKey => code = "sign.unknown_key"
          /\ s.cose.hdr.ct = "checkpoint" /\ key # NoKey /\ s.cose.hdr.alg # "-19"
               => code = "sign.signature_invalid"
          /\ /\ s.cose.hdr.ct = "checkpoint" /\ key = s.cose.sig.by
             /\ s.cose.hdr.alg = "-19" /\ s.cose.pay.form = "malformed"
             => code = "sign.checkpoint_decode"
    BY SealedVerdict
  <2> HIDE DEF h, kid, key, code
  <2>9. ASSUME s.cose.hdr = [h EXCEPT !.alg = "-8"], TrustsSigner(t, s)
        PROVE  code = "sign.signature_invalid"
    BY <2>1, <2>3, <2>6, <2>7, <2>9, <2>13 DEF key, ReadableHeader
  <2>10. ASSUME s.cose.hdr.ct \in {"other", "none"}, s.cose.hdr.shape = "map"
         PROVE  code = "sign.bad_content_type"
    BY <2>1, <2>6, <2>8, <2>10, <2>13 DEF ReadableHeader
  <2>11. ASSUME t.mode = "ring", s.cose.hdr = [h EXCEPT !.kid = s.cose.hdr.kid],
                s.cose.hdr.kid \in KeyId \ ({EmptyId} \cup DOMAIN t.ring)
         PROVE  code = "sign.unknown_key"
    <3>1. Resolve(t, s.cose.hdr.kid) = NoKey
      BY <2>11 DEF Resolve
    <3> DEFINE x == s.cose.hdr.kid
               g == [h EXCEPT !.kid = x]
    <3>2. g.shape = "map" /\ g.alg = "-19" /\ g.ct = "checkpoint" /\ g.extra = "none"
      BY <2>4
    <3>3. s.cose.hdr = g
      BY <2>11
    <3> HIDE DEF g
    <3>4. /\ s.cose.hdr.shape = "map" /\ s.cose.hdr.alg = "-19" /\ s.cose.hdr.ct = "checkpoint"
          /\ s.cose.hdr.extra = "none"
      BY <3>2, <3>3
    <3> QED
      BY <2>6, <2>11, <3>1, <3>4, <2>13 DEF key, ReadableHeader
  <2>12. ASSUME s.cose.hdr = h, s.cose.pay.form = "malformed", TrustsSigner(t, s)
         PROVE  code = "sign.checkpoint_decode"
    BY <2>1, <2>2, <2>6, <2>7, <2>12, <2>13 DEF key, ReadableHeader
  <2> QED
    BY <2>9, <2>10, <2>11, <2>12 DEF h, kid, code
<1> QED
  BY <1>1, IInvAlways, HeadersAlways, PTL
-------------------------------------------------------------------------------
(* Records with any number of defects.                                     *)

\* The one order in which the defects of a checkpoint decide its code.
Refusal(c, key) ==
  IF c.frame = "bad" \/ c.hdr.shape # "map" THEN "sign.signature_invalid"
  ELSE IF c.hdr.ct # "checkpoint" THEN "sign.bad_content_type"
  ELSE IF key = NoKey THEN "sign.unknown_key"
  ELSE IF c.hdr.alg # "-19" \/ ~Verifies(c.sig, key, c.hdr, c.pay) THEN "sign.signature_invalid"
  ELSE IF c.pay.form # "canonical" THEN "sign.checkpoint_decode" ELSE OK

\* All clients follow it where they name defects alike.
LEMMA RefusalCodes ==
  ASSUME NEW c \in Cose, PlainDefects(c), NEW t \in Trust, PlainTrust(t), NEW client \in Client
  PROVE  Checkpoint(client, c, t) = Refusal(c, Resolve(t, c.hdr.kid))
<1> DEFINE key   == Resolve(t, c.hdr.kid)
           valid == Verifies(c.sig, key, c.hdr, c.pay)
           known == c.frame = "ok" /\ c.hdr.shape = "map"
<1>1. /\ c.slot["protected"] = "bstr" /\ c.slot["payload"] = "bstr"
      /\ c.slot["signature"] = "bstr" /\ ~PyBytesRaises(c)
  BY DEF PlainDefects, PlainFraming, Slot, PyBytesRaises
<1>2. c.frame \in {"ok", "bad"} /\ c.hdr.shape \in {"map", "notmap", "undecodable"}
      /\ c.pay.form \in {"canonical", "malformed"} /\ ~c.tail
  BY DEF PlainDefects, PlainFraming, Cose, Header, HeaderShape, Payload
<1>3. Resolve(t, RustKid(c.hdr)) = key
  BY SameKey DEF PlainDefects, PlainFraming
<1>4. c.hdr.kid \notin {"nonbytes", EmptyId}
  BY KeyAssumption DEF PlainDefects, PlainFraming
<1>5. /\ PySigned(c, key) = valid /\ JsSigned(c, key) = valid /\ RustSigned(c, key) = valid
      /\ JsHeaderIsMap(c) <=> c.hdr.shape = "map"
  BY <1>1, <1>2 DEF PySigned, JsSigned, RustSigned, JsHeaderIsMap, Verifies
<1>6. RustParses(c) <=> known
  BY <1>1, <1>2, <1>4 DEF PlainDefects, PlainFraming, RustParses
<1>7. c.hdr.alg \in {"-19", "-19.0"} <=> c.hdr.alg = "-19"
  BY DEF PlainDefects, PlainFraming
<1> HIDE DEF key, valid
<1>8. PyCheckpoint(c, t) = Refusal(c, key)
  BY <1>1, <1>2, <1>5, <1>7 DEF PyCheckpoint, Refusal, ??, Fail, OK, Uncaught, key, valid
<1>9. JsCheckpoint(c, t) = Refusal(c, key)
  BY <1>1, <1>2, <1>5, <1>7 DEF JsCheckpoint, Refusal, ??, Fail, OK, Uncaught, key, valid
<1>10. RustCheckpoint(c, t) = Refusal(c, key)
  BY <1>2, <1>3, <1>5, <1>6 DEF RustCheckpoint, RustDecodesPayload, Refusal, ??, Fail, OK, valid
<1>11. Checkpoint(client, c, t) \in {PyCheckpoint(c, t), JsCheckpoint(c, t), RustCheckpoint(c, t)}
  BY DEF Checkpoint, Client
<1> QED
  BY <1>8, <1>9, <1>10, <1>11 DEF key

\* The clients name the same defect of a record that has several.
THEOREM SameCodes == Spec => []CodesAgree
<1>1. IInv => CodesAgree
  <2> SUFFICES ASSUME IInv, PlainContainer(wire), PlainDefects(wire.cose),
                      NEW t \in Trusts, PlainTrust(t)
               PROVE  \A c, d \in Client : Verdict(c, wire, t) = Verdict(d, wire, t)
    BY DEF CodesAgree
  <2>1. wire \in WireRecord /\ wire.cose \in Cose /\ t \in Trust /\ WellFormed(t)
    BY TrustsTyped DEF IInv, TypeOK, WireRecord, PlainTrust
  <2> DEFINE empty   == Fail(wire.events = <<>>, "record.empty")
             refusal == Refusal(wire.cose, Resolve(t, wire.cose.hdr.kid))
             rebuilt == IF Len(wire.events) # wire.cose.pay.size THEN "record.size_mismatch"
                        ELSE Fail(Root(wire.events) # wire.cose.pay.root, "record.root_mismatch")
  <2>2. ASSUME NEW c \in Client
        PROVE  Verdict(c, wire, t) =
                 IF empty # OK THEN empty ELSE IF refusal # OK THEN refusal ELSE rebuilt
    <3>1. Framed(wire, CanonicalKeys, "shortest", FALSE, TRUE)
      BY <2>1 DEF PlainContainer, Framed, WireRecord
    <3>2. Container(c, wire) = empty
      BY <3>1, ContainerCodes
    <3>3. Checkpoint(c, wire.cose, t) = refusal
      BY <2>1, RefusalCodes
    <3>4. refusal = OK => wire.cose.pay.form = "canonical"
      BY DEF Refusal, OK
    <3>5. refusal = OK => Rebuild(c, wire) = rebuilt
      BY <3>4, RebuildCodes
    <3> HIDE DEF empty, refusal, rebuilt
    <3> QED
      BY <2>1, <3>2, <3>3, <3>5, Stages
  <2> HIDE DEF empty, refusal, rebuilt
  <2> QED
    BY <2>2
<1> QED
  BY <1>1, IInvAlways, PTL
-------------------------------------------------------------------------------
(* The command lines.                                                      *)

\* Answers are told apart only by who verified and who ended without a code.
LEMMA SameAnswer ==
  ASSUME NEW v, NEW w, v # Uncaught, w # Uncaught, v = OK <=> w = OK
  PROVE  Answer(v) = Answer(w)
BY DEF Answer

\* Every tool that gets to ask its client says what the answer tells it to.
LEMMA ToolAnswers ==
  ASSUME NEW client \in Client, NEW command \in Command
  PROVE  LET key == Reads(client, command.text)
             out == Tool(client, command)
         IN  /\ key \in {command.text.key, NoKey}
             /\ key = NoKey => out.says = "nothing"
             /\ key # NoKey => \/ out.says = "nothing"
                               \/ out = Answer(Verdict(client, wire, Single(key)))
<1>1. Reads(client, command.text) \in {command.text.key, NoKey}
  BY DEF Client, Reads, PyReads, JsReads, RustReads
<1> QED
  BY <1>1 DEF Tool, Output

\* The tools read a proper key alike, and only the Python tool reads a short one.
LEMMA ProperKey ==
  ASSUME NEW client \in Client, NEW text \in KeyText
  PROVE  /\ text.form = "hex" /\ text.key \in Key => Reads(client, text) = text.key
         /\ text.key \notin Key /\ client # "python" => Reads(client, text) = NoKey
BY DEF Client, Reads, PyReads, JsReads, RustReads

\* The agreement of the clients is that of the tools.
LEMMA AgreeingTools == VerdictsAgree => ToolsAgree
<1> SUFFICES ASSUME VerdictsAgree, PlainFraming(wire.cose), NEW command \in Command
             PROVE  LET outs == {Tool(x, command) : x \in Client}
                    IN  /\ ~ {"VERIFIED", "NOT VERIFIED"} \subseteq {out.says : out \in outs}
                        /\ /\ command.arguments = 2 /\ command.readable
                           /\ command.text.form = "hex" /\ command.text.key \in Key
                           => \E out \in outs : outs = {out}
  BY DEF ToolsAgree
<1>0. SUFFICES ASSUME NEW c \in Client, NEW d \in Client
               PROVE  /\ Tool(c, command).says = "VERIFIED"
                           => Tool(d, command).says # "NOT VERIFIED"
                      /\ command.arguments = 2 /\ command.readable
                         /\ command.text.form = "hex" /\ command.text.key \in Key
                           => Tool(c, command) = Tool(d, command)
  <2>1. "python" \in Client
    BY DEF Client
  <2> QED
    BY <2>1
<1> DEFINE text == command.text
           key == text.key
<1>1. text \in KeyText /\ key \in AnyKey
  BY DEF Command, KeyText
<1>2. CASE key \in Key
  <2>1. Single(key) \in Trusts /\ PlainTrust(Single(key))
    BY <1>2 DEF Trusts, AnyKey, PlainTrust, WellFormed, TrustedKeys, Single
  <2>2. \A x, y \in Client :
          Answer(Verdict(x, wire, Single(key))) = Answer(Verdict(y, wire, Single(key)))
    <3> SUFFICES ASSUME NEW x \in Client, NEW y \in Client
                 PROVE  Answer(Verdict(x, wire, Single(key))) = Answer(Verdict(y, wire, Single(key)))
      OBVIOUS
    <3>1. /\ Verdict(x, wire, Single(key)) # Uncaught /\ Verdict(y, wire, Single(key)) # Uncaught
          /\ Verdict(x, wire, Single(key)) = OK <=> Verdict(y, wire, Single(key)) = OK
      BY <2>1 DEF VerdictsAgree
    <3> QED
      BY <3>1, SameAnswer
  <2> DEFINE answer == Answer(Verdict(c, wire, Single(key)))
  <2>3. \A x \in Client : Tool(x, command).says = "nothing" \/ Tool(x, command) = answer
    <3> SUFFICES ASSUME NEW x \in Client
                 PROVE  Tool(x, command).says = "nothing" \/ Tool(x, command) = answer
      OBVIOUS
    <3>1. Answer(Verdict(x, wire, Single(key))) = answer
      BY <2>2
    <3> HIDE DEF answer
    <3> QED
      BY <3>1, ToolAnswers
  <2>4. ASSUME command.arguments = 2, command.readable, text.form = "hex", NEW x \in Client
        PROVE  Tool(x, command) = answer
    <3>1. Reads(x, text) = key /\ key # NoKey
      BY <1>1, <1>2, <2>4, ProperKey, KeyAssumption
    <3>2. Tool(x, command) = Answer(Verdict(x, wire, Single(key)))
      BY <2>4, <3>1 DEF Tool
    <3> QED
      BY <2>2, <3>2
  <2> HIDE DEF answer
  <2>5. Tool(c, command).says = "VERIFIED" => Tool(d, command).says # "NOT VERIFIED"
    BY <2>3
  <2> QED
    BY <2>4, <2>5
<1>3. CASE key \notin Key
  <2>1. \A x \in Client : x # "python" => Tool(x, command).says = "nothing"
    BY <1>1, <1>3, ProperKey, ToolAnswers
  <2> QED
    BY <1>3, <2>1
<1> QED
  BY <1>2, <1>3

\* However keys are spelled, no tool verifies what another refuses.
THEOREM Tools == Spec => []ToolsAgree
BY AgreeingTools, Agreement, PTL
===============================================================================
