------------------------------ MODULE RustVerify ------------------------------
(***************************************************************************)
(* clients/rust/src/lib.rs: verify_run_inner and the functions it calls.   *)
(* The type [u8; 32] leaves no trust argument with a short key, so the     *)
(* verdict is meant for WellFormed(t) only.                                *)
(***************************************************************************)
EXTENDS Wire

\* Two keys that as_text maps to the same value: a repeated name, or two keys
\* that are no text at all.
RustDuplicateKey(r) ==
  \E i, j \in DOMAIN r.keys : i # j /\ r.keys[i] = r.keys[j]

\* Lines 235-291 and 130-132.
RustContainer(r) ==
     Fail(r.container # "map" \/ r.head = "indefinite" \/ RustDuplicateKey(r),
          "record.decode")
  ?? Fail(r.keys # CanonicalKeys, "record.non_canonical")
  ?? Fail(r.head = "shortest" /\ r.trailing, "record.decode")
  ?? Fail(r.head = "wide", "record.non_canonical")
  ?? Fail(~r.typed, "record.decode")
  ?? Fail(r.events = <<>>, "record.empty")

\* CoseSign1::from_tagged_slice (coset): one complete item, three byte strings
\* (or a nil payload), and two header maps in which every claim has a label of its
\* own and the type, range and form that RFC 9052 gives it, whoever asks for it.
RustParses(c) ==
  /\ c.frame = "ok" /\ ~c.tail /\ c.unprot \in {"none", "typed"}
  /\ c.slot.protected = "bstr" /\ c.slot.signature = "bstr"
  /\ c.slot.payload \in {"bstr", "nil"}
  /\ c.hdr.shape \in {"map", "empty", "zero"}
  /\ c.hdr.alg \notin {"-19.0", "malformed"} /\ c.hdr.kid \notin {"nonbytes", EmptyId}
  /\ c.hdr.ct # "malformed" /\ c.hdr.extra # "mistyped"

\* Mutant of RustKid: the key id is read from a header that has none.
RustKidUnread(hdr) == EmptyId

\* Line 147: a header without a kid has the empty key id.
RustKid(hdr) == IF hdr.kid = "none" THEN EmptyId ELSE hdr.kid

\* Lines 156-164: verify_signature fails on a nil payload before line 164 does.
RustSigned(c, key) == c.slot.payload = "bstr" /\ Verifies(c.sig, key, c.hdr, c.pay)

\* Mutant of RustDecodesPayload: a size beyond 64 bits is truncated, not refused.
RustDecodesPayloadWrapped(p) == p.form # "malformed"

\* Lines 182-226: the closed canonical map, with a size that fits 64 bits.
RustDecodesPayload(p) == p.form = "canonical"

\* Lines 134-165.
RustCheckpoint(c, t) ==
     Fail(~RustParses(c), "sign.signature_invalid")
  ?? Fail(c.hdr.ct # "checkpoint", "sign.bad_content_type")
  ?? Fail(Resolve(t, RustKid(c.hdr)) = NoKey, "sign.unknown_key")
  ?? Fail(c.hdr.alg # "-19", "sign.signature_invalid")
  ?? Fail(~RustSigned(c, Resolve(t, RustKid(c.hdr))), "sign.signature_invalid")
  ?? Fail(~RustDecodesPayload(c.pay), "sign.checkpoint_decode")

\* Mutant of RustRebuild: the events are counted but not hashed.
RustRebuildSizeOnly(r) == Fail(Len(r.events) # r.cose.pay.size, "record.size_mismatch")

\* Lines 293-325: leaf_hash, node_hash and merkle_root are those of Merkle.
RustRoot(events) == Root(events)

\* Lines 167-175.
RustRebuild(r) ==
     Fail(Len(r.events) # r.cose.pay.size, "record.size_mismatch")
  ?? Fail(RustRoot(r.events) # r.cose.pay.root, "record.root_mismatch")

RustVerify(r, t) ==
  RustContainer(r) ?? RustCheckpoint(r.cose, t) ?? RustRebuild(r)
===============================================================================
