------------------------------- MODULE PyVerify -------------------------------
(***************************************************************************)
(* clients/python/src/provetrail/verify.py: verify_run and the functions   *)
(* it calls, as the chain of checks they make, in their order.             *)
(***************************************************************************)
EXTENDS Wire

\* Lines 96-101 and 121-132: the head claims more entries than there are keys.
PyOvercounts(r) == Len(r.keys) > 2

\* Mutant of PyContainer: without the comparison with the canonical re-encoding.
PyContainerLenient(r) ==
     Fail(r.container # "map" \/ ~(Required \subseteq KeysOf(r)), "record.decode")
  ?? Fail(KeysOf(r) # Required \/ r.keys[1] # "events", "record.non_canonical")
  ?? Fail(~r.typed \/ r.head = "indefinite" \/ PyOvercounts(r), "record.decode")
  ?? Fail(r.events = <<>>, "record.empty")

\* Lines 72-109.  cbor2.loads keeps the first position of a repeated key and
\* ignores trailing bytes; the head and the re-encoding comparison catch both.
PyContainer(r) ==
     Fail(r.container # "map" \/ ~(Required \subseteq KeysOf(r)), "record.decode")
  ?? Fail(KeysOf(r) # Required \/ r.keys[1] # "events", "record.non_canonical")
  ?? Fail(~r.typed \/ r.head = "indefinite" \/ PyOvercounts(r), "record.decode")
  ?? Fail(r.head = "shortest" /\ r.trailing, "record.decode")
  ?? Fail(r.head = "wide", "record.non_canonical")
  ?? Fail(r.events = <<>>, "record.empty")

\* bytes(x) of an element of the COSE array: a byte string and a list of byte
\* values give bytes, a number that many zero bytes, text and None a TypeError.
PyBytesRaises(c) == \E s \in Slot : c.slot[s] \in {"text", "nil"}

\* The signature check (lines 178-182), over what bytes() made of the slots.
PySigned(c, key) ==
  /\ c.slot.payload # "num" /\ c.slot.signature # "num"
  /\ Verifies(c.sig, key, c.hdr, c.pay)

\* Mutant of PyCheckpoint: a kid that does not resolve is not a failure.
PyCheckpointAnyKid(c, t) ==
     Fail(c.frame = "bad" \/ c.slot.payload = "nil", "sign.signature_invalid")
  ?? Fail(c.hdr.ct # "checkpoint", "sign.bad_content_type")
  ?? Fail(c.hdr.alg # "-19", "sign.signature_invalid")
  ?? Fail(~PySigned(c, Resolve(t, c.hdr.kid)), "sign.signature_invalid")

\* Lines 135-207: the size and root it returns are the payload's.
PyCheckpoint(c, t) ==
     Fail(c.frame = "bad" \/ c.slot.payload = "nil", "sign.signature_invalid")
  ?? Fail(PyBytesRaises(c), Uncaught)
  ?? Fail(c.slot.protected = "num" \/ c.hdr.shape \in {"zero", "notmap", "undecodable"},
          "sign.signature_invalid")
  ?? Fail(c.hdr.ct # "checkpoint", "sign.bad_content_type")
  ?? Fail(Resolve(t, c.hdr.kid) = NoKey, "sign.unknown_key")
  ?? Fail(c.hdr.alg \notin {"-19", "-19.0"}, "sign.signature_invalid")
  ?? Fail(~PySigned(c, Resolve(t, c.hdr.kid)), "sign.signature_invalid")
  ?? Fail(c.pay.form = "malformed", "sign.checkpoint_decode")

\* Lines 210-238: _leaf_hash, _node_hash and _merkle_root are those of Merkle.
PyRoot(events) == Root(events)

\* Lines 113-118.
PyRebuild(r) ==
     Fail(r.cose.pay.form = "bignum" \/ Len(r.events) # r.cose.pay.size,
          "record.size_mismatch")
  ?? Fail(PyRoot(r.events) # r.cose.pay.root, "record.root_mismatch")

\* Mutant of PyVerify: the head is compared before its signature is checked.
PyVerifyRebuildFirst(r, t) ==
     Fail(~WellFormed(t), "sign.bad_key")
  ?? PyContainer(r) ?? PyRebuild(r) ?? PyCheckpoint(r.cose, t)

PyVerify(r, t) ==
     Fail(~WellFormed(t), "sign.bad_key")
  ?? PyContainer(r) ?? PyCheckpoint(r.cose, t) ?? PyRebuild(r)
===============================================================================
