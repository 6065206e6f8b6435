------------------------------- MODULE JsVerify -------------------------------
(***************************************************************************)
(* clients/npm/index.js: verifyRun and the functions it calls, as the      *)
(* chain of checks they make, in their order.                              *)
(***************************************************************************)
EXTENDS Wire

\* Lines 72-80.  decode() throws on trailing bytes, and a map with a key that is
\* no string decodes to a Map, in which `in` finds no field.
JsFieldsFound(r) ==
  /\ r.container = "map" /\ ~r.trailing
  /\ "int" \notin KeysOf(r) /\ Required \subseteq KeysOf(r)

\* Lines 105-111 and 142-153: the head claims more entries than there are keys.
JsOvercounts(r) == Len(r.keys) > 2

\* Mutant of JsContainer: a repeated key is left to the re-encoding comparison.
JsContainerUncounted(r) ==
     Fail(~JsFieldsFound(r), "record.decode")
  ?? Fail(KeysOf(r) # Required \/ r.keys[1] # "events", "record.non_canonical")
  ?? Fail(~r.typed \/ r.head = "indefinite", "record.decode")
  ?? Fail(r.head = "wide" \/ JsOvercounts(r), "record.non_canonical")
  ?? Fail(r.events = <<>>, "record.empty")

\* Lines 72-126.
JsContainer(r) ==
     Fail(~JsFieldsFound(r), "record.decode")
  ?? Fail(KeysOf(r) # Required \/ r.keys[1] # "events", "record.non_canonical")
  ?? Fail(~r.typed \/ r.head = "indefinite" \/ JsOvercounts(r), "record.decode")
  ?? Fail(r.head = "wide", "record.non_canonical")
  ?? Fail(r.events = <<>>, "record.empty")

\* Only a map with an integer label decodes to a Map: {} is a plain object.
JsHeaderIsMap(c) ==
  c.slot.protected \in {"bstr", "ints"} /\ c.hdr.shape \in {"map", "dup"}

\* Mutant of JsSigned: checked under the signer's own key, not the trusted one.
JsSignedByAnyone(c, key) == JsHeaderIsMap(c) /\ Verifies(c.sig, c.sig.by, c.hdr, c.pay)

\* Lines 203-219, over what Uint8Array.from and Buffer.from made of the slots.
JsSigned(c, key) ==
  /\ c.slot.payload \in {"bstr", "ints"} /\ c.slot.signature \in {"bstr", "ints"}
  /\ Verifies(c.sig, key, c.hdr, c.pay)

\* Mutant of JsCheckpoint: the key is looked up before the content type is read.
JsCheckpointKidFirst(c, t) ==
     Fail(c.frame = "bad" \/ c.tail \/ c.slot.payload = "nil", "sign.signature_invalid")
  ?? Fail(~JsHeaderIsMap(c), "sign.signature_invalid")
  ?? Fail(Resolve(t, c.hdr.kid) = NoKey, "sign.unknown_key")
  ?? Fail(c.hdr.ct # "checkpoint", "sign.bad_content_type")
  ?? Fail(c.hdr.alg \notin {"-19", "-19.0"}, "sign.signature_invalid")
  ?? Fail(c.slot.signature \in {"num", "nil"}, Uncaught)
  ?? Fail(~JsSigned(c, Resolve(t, c.hdr.kid)), "sign.signature_invalid")
  ?? Fail(c.pay.form = "malformed", "sign.checkpoint_decode")

\* Lines 156-252.  Buffer.from of a number or of null throws a TypeError.
JsCheckpoint(c, t) ==
     Fail(c.frame = "bad" \/ c.tail \/ c.slot.payload = "nil", "sign.signature_invalid")
  ?? Fail(~JsHeaderIsMap(c), "sign.signature_invalid")
  ?? Fail(c.hdr.ct # "checkpoint", "sign.bad_content_type")
  ?? Fail(Resolve(t, c.hdr.kid) = NoKey, "sign.unknown_key")
  ?? Fail(c.hdr.alg \notin {"-19", "-19.0"}, "sign.signature_invalid")
  ?? Fail(c.slot.signature \in {"num", "nil"}, Uncaught)
  ?? Fail(~JsSigned(c, Resolve(t, c.hdr.kid)), "sign.signature_invalid")
  ?? Fail(c.pay.form = "malformed", "sign.checkpoint_decode")

\* Mutant of JsRebuild: the events are counted but not hashed.
JsRebuildSizeOnly(r) ==
  Fail(r.cose.pay.form = "bignum" \/ Len(r.events) # r.cose.pay.size,
       "record.size_mismatch")

\* Lines 254-282: leafHash, nodeHash and merkleRoot are those of Merkle.
JsRoot(events) == Root(events)

\* Lines 131-139; BigInt(size) keeps a size beyond 2^53 exact.
JsRebuild(r) ==
     Fail(r.cose.pay.form = "bignum" \/ Len(r.events) # r.cose.pay.size,
          "record.size_mismatch")
  ?? Fail(JsRoot(r.events) # r.cose.pay.root, "record.root_mismatch")

JsVerify(r, t) ==
     Fail(~WellFormed(t), "sign.bad_key")
  ?? JsContainer(r) ?? JsCheckpoint(r.cose, t) ?? JsRebuild(r)
===============================================================================
