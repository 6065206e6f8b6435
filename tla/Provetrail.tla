------------------------------ MODULE Provetrail ------------------------------
(***************************************************************************)
(* Sealed run records from the producer to the three verifiers.  Runs log  *)
(* events and are sealed, by a producer that is not in this repository and *)
(* is modelled from SPEC.md 8.4-8.5 as the verifiers rely on it.  Sealed   *)
(* records are kept for ever, and any of them, however old, can be         *)
(* presented.  On the way it can be re-encoded, edited, or spliced with    *)
(* another sealed record.  What arrives is verified by each client under   *)
(* whatever key or keyring its operator has configured at that moment.     *)
(***************************************************************************)
EXTENDS PyVerify, JsVerify, RustVerify, FiniteSets, SequencesExt

CONSTANTS
  Signer,     \* the key that signs each run
  KidOf,      \* the key id each key is published under
  SeqNo,      \* each event's seq field
  Faulty,     \* runs whose producer may encode wrongly
  Misnumbered, \* runs whose producer may number events wrongly
  Rings,      \* the keyrings the operator ever installs
  EditKinds,  \* the kinds of edit that happen on the way
  MaxSealed,  \* bound: records ever sealed
  MaxEdits    \* bound: edits to the record on the wire, its producer's fault being one

ASSUME SystemAssumption ==
  /\ Run # {}
  /\ Signer \in [Run -> Key] /\ KidOf \in [Key -> KeyId] /\ SeqNo \in [Event -> Nat]
  /\ Faulty \subseteq Run /\ Misnumbered \subseteq Run /\ Rings \subseteq Ring /\ Rings # {}
  /\ MaxSealed \in Nat /\ MaxEdits \in Nat

VARIABLES
  log,      \* each run's events so far
  archive,  \* every record ever sealed, with the signature it was sealed under
  wire,     \* the record in front of the verifiers
  edits,    \* faults of its producer, and edits since it was presented
  ring,     \* the operator's current keyring
  accepted  \* what calls verified: [key, origin, events], a history of calls that only
            \* properties read; the code returns the events, not whose they are

vars == <<log, archive, wire, edits, ring, accepted>>
-------------------------------------------------------------------------------
(* The producer.                                                           *)

\* A header in which one claim is not what the profile pins, or one is given
\* twice, and the headers without claims.
FaultyClaims(h) ==
       {[h EXCEPT !.alg = x] : x \in {"-19.0", "-8", "malformed", "none"}}
  \cup {[h EXCEPT !.ct = x] : x \in {"other", "malformed", "none"}}
  \cup {[h EXCEPT !.kid = x] : x \in (KeyId \cup {"nonbytes", "none"}) \ {h.kid}}
  \cup {[h EXCEPT !.extra = x] : x \in Extra \ {"none"}}
  \cup {[h EXCEPT !.shape = x] : x \in {"dup", "trailed"}}

FaultyHeaders(h) ==
       (IF HasClaims(h) THEN FaultyClaims(h) ELSE {})
  \cup {NoClaims(x) : x \in HeaderShape \ {"map", "dup", "trailed"}}

\* A payload whose encoding is not the closed canonical map, or whose size no
\* log can have.
FaultyPayloads(p) == {[p EXCEPT !.form = x] : x \in {"malformed", "bignum"}}

\* A producer without fault numbers a run's events upwards, gaps permitted.
InOrder(run, e) == \A i \in DOMAIN log[run] : SeqNo[log[run][i]] < SeqNo[e]

LogEvent(run, e) ==
  /\ Len(log[run]) < MaxLog
  /\ run \notin Misnumbered => InOrder(run, e)
  /\ log' = [log EXCEPT ![run] = Append(@, e)]
  /\ UNCHANGED <<archive, wire, edits, ring, accepted>>

\* Sign the log's head under header h and payload p, and carry its events.
SealAs(run, h, p) ==
  /\ Cardinality(archive) < MaxSealed
  /\ archive' = archive \cup {Sealed(Signer[run], h, p, log[run])}
  /\ UNCHANGED <<log, wire, edits, ring, accepted>>

Seal(run) == SealAs(run, HonestHeader(KidOf[Signer[run]]), HonestPayload(run, log[run]))

\* The same by a producer with one encoding fault, as the suite's generator
\* produces its reject vectors (CONFORMANCE.md section 7).
FaultySeal(run) ==
  LET h == HonestHeader(KidOf[Signer[run]])
      p == HonestPayload(run, log[run])
  IN  /\ run \in Faulty
      /\ \/ \E bad \in FaultyHeaders(h) : SealAs(run, bad, p)
         \/ \E bad \in FaultyPayloads(p) : SealAs(run, h, bad)
-------------------------------------------------------------------------------
(* The way to the verifier.                                                *)

\* A sealed record without any fault of its producer.
WithoutFault(s) ==
  s.cose.hdr = HonestHeader(KidOf[s.cose.sig.by]) /\ s.cose.pay.form = "canonical"

\* Any record ever sealed can be presented: first, late or again.
Present(r) ==
  /\ wire' = r
  /\ edits' = (IF WithoutFault(r) THEN 0 ELSE 1) /\ edits' <= MaxEdits
  /\ UNCHANGED <<log, archive, ring, accepted>>

\* One field of the container's map repeated, foreign, missing or moved.
KeyFaults(keys) ==
       {InsertAt(keys, i, f) : i \in 1..(Len(keys) + 1), f \in Field}
  \cup {RemoveAt(keys, i) : i \in 1..Len(keys)}
  \cup {Reverse(keys)}

ContainerEdits(r) ==
       {[r EXCEPT !.container = x] : x \in {"notmap", "undecodable"}}
  \cup {[r EXCEPT !.keys = x] : x \in KeyFaults(r.keys)}
  \cup {[r EXCEPT !.head = x] : x \in {"wide", "indefinite"}}
  \cup {[r EXCEPT !.trailing = TRUE], [r EXCEPT !.typed = FALSE]}

EventEdits(r) == {[r EXCEPT !.events = s] : s \in EventSeq}

CoseEdits(r) ==
       {[r EXCEPT !.cose.frame = "bad"], [r EXCEPT !.cose.tail = TRUE]}
  \cup {[r EXCEPT !.cose.unprot = x] : x \in {"typed", "mistyped", "notmap"}}
  \cup {[r EXCEPT !.cose.slot[s] = x] : s \in Slot, x \in SlotType}

SignedEdits(r) ==
       {[r EXCEPT !.cose.hdr = h] : h \in FaultyHeaders(r.cose.hdr)}
  \cup {[r EXCEPT !.cose.pay = p] : p \in FaultyPayloads(r.cose.pay)}
  \cup {[r EXCEPT !.cose.pay.size = n] : n \in 0..(MaxLog + 1)}
  \cup {[r EXCEPT !.cose.pay.root = Root(s)] : s \in EventSeq}
  \cup {[r EXCEPT !.cose.pay.origin = run] : run \in Run}
  \cup {[r EXCEPT !.cose.sig.by = NoKey]}

\* The checkpoint, or only its signature, taken from another sealed record.
Splices(r) ==
       {[r EXCEPT !.cose = q.cose] : q \in archive}
  \cup {[r EXCEPT !.cose.sig = q.cose.sig] : q \in archive}

EditedRecords(r) ==
       (IF "container" \in EditKinds THEN ContainerEdits(r) ELSE {})
  \cup (IF "events" \in EditKinds THEN EventEdits(r) ELSE {})
  \cup (IF "cose" \in EditKinds THEN CoseEdits(r) ELSE {})
  \cup (IF "signed" \in EditKinds THEN SignedEdits(r) ELSE {})
  \cup (IF "splice" \in EditKinds THEN Splices(r) ELSE {})

Edit == /\ edits < MaxEdits
        /\ \E r \in EditedRecords(wire) : wire' = r
        /\ edits' = edits + 1
        /\ UNCHANGED <<log, archive, ring, accepted>>
-------------------------------------------------------------------------------
(* The verifiers.                                                          *)

Client == {"python", "js", "rust"}

\* The operator installs another keyring: a key added, replaced or dropped.
Reconfigure(f) ==
  /\ ring' = f
  /\ UNCHANGED <<log, archive, wire, edits, accepted>>

Verdict(client, r, t) ==
  CASE client = "python" -> PyVerify(r, t)
    [] client = "js"     -> JsVerify(r, t)
    [] client = "rust"   -> RustVerify(r, t)

\* The key a client checks the signature under.
KeyUsed(client, r, t) ==
  Resolve(t, IF client = "rust" THEN RustKid(r.cose.hdr) ELSE r.cose.hdr.kid)

\* Trust arguments a call can be made with now: the keyring, or any one key.
Trusts == {Keyring(ring)} \cup {Single(k) : k \in AnyKey}

\* One call.  It reads its two arguments and touches nothing else, so it is one
\* step; the Rust client cannot be given a key of another length.
Verify(client, t) ==
  /\ client = "rust" => WellFormed(t)
  /\ Verdict(client, wire, t) = OK
  /\ accepted' = accepted \cup
       {[key |-> KeyUsed(client, wire, t),
         origin |-> wire.cose.pay.origin, events |-> wire.events]}
  /\ UNCHANGED <<log, archive, wire, edits, ring>>
-------------------------------------------------------------------------------
\* Before anything arrives: an empty file.
NoRecord ==
  LET h == NoClaims("undecodable")
      p == [form |-> "malformed", origin |-> CHOOSE run \in Run : TRUE,
            size |-> 0, root |-> Root(<<>>)]
  IN  [Sealed(NoKey, h, p, <<>>) EXCEPT !.container = "undecodable"]

Init ==
  /\ log = [run \in Run |-> <<>>]
  /\ archive = {}
  /\ wire = NoRecord
  /\ edits = 0
  /\ ring \in Rings
  /\ accepted = {}

Next ==
  \/ \E run \in Run : \/ \E e \in Event : LogEvent(run, e)
                      \/ Seal(run)
                      \/ FaultySeal(run)
  \/ \E r \in archive : Present(r)
  \/ Edit
  \/ \E f \in Rings : Reconfigure(f)
  \/ \E client \in Client, t \in Trusts : Verify(client, t)

Spec == Init /\ [][Next]_vars
-------------------------------------------------------------------------------
(* Vocabulary of the properties.                                           *)

\* A sealed record that every client can read: the Rust client's COSE decoder
\* refuses an empty key id.
Conformant(s) == WithoutFault(s) /\ s.cose.hdr.kid # EmptyId

\* The checkpoint profile as far as all three clients read it alike: what lies
\* outside is where the COSE decoders of the three languages part ways.
PlainFraming(c) ==
  /\ ~c.tail /\ c.unprot \in {"none", "typed"} /\ c.hdr.extra # "mistyped"
  /\ \A s \in Slot : c.slot[s] = "bstr" \/ (s = "payload" /\ c.slot[s] = "nil")
  /\ c.hdr.shape \notin {"dup", "trailed"} /\ c.hdr.alg # "-19.0"
  /\ c.hdr.kid \in (KeyId \cup {"none"}) \ {EmptyId}

\* The checkpoint profile as far as the clients also name its defects alike: not a
\* header without claims, not a payload that is nil or counts beyond 64 bits, not an
\* algorithm or a content type that coset refuses before anyone compares it.
PlainDefects(c) ==
  /\ PlainFraming(c) /\ c.slot["payload"] = "bstr" /\ c.pay.form # "bignum"
  /\ c.hdr.shape \notin {"empty", "zero"} /\ "malformed" \notin {c.hdr.alg, c.hdr.ct}

\* The encoding of the container that every client accepts.
PlainContainer(r) ==
  /\ r.container = "map" /\ r.keys = CanonicalKeys /\ r.head = "shortest"
  /\ ~r.trailing /\ r.typed

\* Trust that every client can be given and reads alike.
PlainTrust(t) ==
  WellFormed(t) /\ (t.mode = "ring" => EmptyId \notin DOMAIN t.ring)

\* Trust under which the signer of s is who its kid names.
TrustsSigner(t, s) == PlainTrust(t) /\ Resolve(t, s.cose.hdr.kid) = s.cose.sig.by

\* One mutation of a valid record and the code its vector pins
\* (vectors/crypto/manifest.json, the vectors of kind run).
SuiteVectors(s) ==
  LET Vector(r, code) == [wire |-> r, code |-> code]
  IN  {Vector([s EXCEPT !.events = <<>>], "record.empty"),
       Vector([s EXCEPT !.keys = <<"events", "checkpoint", "checkpoint">>], "record.decode"),
       Vector([s EXCEPT !.keys = <<"events", "checkpoint", "text">>], "record.non_canonical"),
       Vector([s EXCEPT !.keys = <<"checkpoint", "events">>], "record.non_canonical"),
       Vector([s EXCEPT !.head = "indefinite"], "record.decode"),
       Vector([s EXCEPT !.head = "wide"], "record.non_canonical"),
       Vector([s EXCEPT !.trailing = TRUE], "record.decode"),
       Vector([s EXCEPT !.typed = FALSE], "record.decode"),
       Vector([s EXCEPT !.cose.sig.by = NoKey], "sign.signature_invalid"),
       Vector([s EXCEPT !.cose.hdr.ct = "other"], "sign.bad_content_type"),
       Vector([s EXCEPT !.cose.hdr.ct = "none"], "sign.bad_content_type"),
       Vector([s EXCEPT !.cose.hdr.alg = "-8"], "sign.signature_invalid")}
  \cup {Vector([s EXCEPT !.events = x], "record.root_mismatch") :
          x \in {y \in EventSeq : Len(y) = Len(s.events) /\ y # s.events}}
  \cup {Vector([s EXCEPT !.events = x], "record.size_mismatch") :
          x \in {y \in EventSeq : Len(y) \notin {0, Len(s.events)}}}
-------------------------------------------------------------------------------
(* Type invariant.                                                         *)

\* Every record keeps the shape Wire gives it, and only 32-byte keys are ever
\* the key of an accepted record (verify.py:64-70, 167-171).
TypeOK ==
  /\ log \in [Run -> EventSeq]
  /\ archive \subseteq WireRecord
  /\ wire \in WireRecord
  /\ edits \in 0..MaxEdits
  /\ ring \in Rings
  /\ accepted \subseteq [key : Key, origin : Run, events : EventSeq]
-------------------------------------------------------------------------------
(* Safety.                                                                 *)

\* Whatever was replayed, edited or spliced on the way and however the keyring
\* changed, the events a client returned are exactly those that the holder of
\* the trusted key sealed for the origin the checkpoint names.
Authentic ==
  \A a \in accepted : \E s \in archive :
    s.cose.sig.by = a.key /\ s.cose.pay.origin = a.origin /\ s.events = a.events

\* The three clients accept the same records, and none ends without a code, on
\* whatever arrives, as long as its COSE framing is one they all read alike.
VerdictsAgree ==
  PlainFraming(wire.cose) =>
    \A t \in Trusts : PlainTrust(t) =>
      /\ \A c \in Client : Verdict(c, wire, t) # Uncaught
      /\ \A c, d \in Client : Verdict(c, wire, t) = OK => Verdict(d, wire, t) = OK

\* The three clients refuse a record with one and the same code, however many
\* defects its checkpoint and its events have at once and wherever each stops.
CodesAgree ==
  PlainContainer(wire) /\ PlainDefects(wire.cose) =>
    \A t \in Trusts : PlainTrust(t) =>
      \A c, d \in Client : Verdict(c, wire, t) = Verdict(d, wire, t)

\* A mismatch between carried events and signed head is reported only about a
\* head the trusted key signed: no client compares with an unauthenticated one.
MismatchIsAuthenticated ==
  \A c \in Client, t \in Trusts :
    Verdict(c, wire, t) \in {"record.size_mismatch", "record.root_mismatch"} =>
      \E s \in archive : /\ s.cose.sig.by = KeyUsed(c, wire, t)
                         /\ s.cose.pay = wire.cose.pay

\* A record sealed without fault is accepted by every client whenever its
\* signer is trusted, however old it is and whatever was sealed since.
HonestAccepted ==
  \A s \in archive, t \in Trusts, c \in Client :
    Conformant(s) /\ s.events # <<>> /\ TrustsSigner(t, s) => Verdict(c, s, t) = OK

\* Every client gives each single mutation of a valid record the code that the
\* suite pins for it.
SuiteCodes ==
  \A s \in archive, t \in Trusts :
    Conformant(s) /\ s.events # <<>> /\ TrustsSigner(t, s) =>
      \A v \in SuiteVectors(s), c \in Client : Verdict(c, v.wire, t) = v.code

\* A record whose signer made one encoding fault is given the code pinned for
\* that fault, under the signature that covers it (vectors of both kinds), if
\* its key is published under an id that every client can read.  A content type
\* that is none at all is left out: the Rust client cannot decode it.
FaultySealCodes ==
  \A s \in archive, t \in Trusts, c \in Client :
    LET h == HonestHeader(KidOf[s.cose.sig.by])
        Gets(code) == Verdict(c, s, t) = code
    IN  s.events # <<>> /\ PlainTrust(t) /\ h.kid # EmptyId =>
          /\ s.cose.hdr = [h EXCEPT !.alg = "-8"] /\ TrustsSigner(t, s)
               => Gets("sign.signature_invalid")
          /\ s.cose.hdr.ct \in {"other", "none"} /\ s.cose.hdr.shape = "map"
               => Gets("sign.bad_content_type")
          /\ t.mode = "ring" /\ s.cose.hdr = [h EXCEPT !.kid = s.cose.hdr.kid]
             /\ s.cose.hdr.kid \in KeyId \ ({EmptyId} \cup DOMAIN t.ring)
               => Gets("sign.unknown_key")
          /\ s.cose.hdr = h /\ s.cose.pay.form = "malformed" /\ TrustsSigner(t, s)
               => Gets("sign.checkpoint_decode")
-------------------------------------------------------------------------------
(* Statements of the documentation that the code does not meet.            *)

\* clients/README.md:9: the clients "agree, byte for byte, with each other ...
\* on the same records".  Here on any record whatever, under any one key.
ClientsAgree ==
  \A k \in Key, c, d \in Client :
    Verdict(c, wire, Single(k)) = OK => Verdict(d, wire, Single(k)) = OK

\* clients/python/README.md:43: verify_run "fails closed with a registered
\* failure code on every defect".
AlwaysRegistered ==
  \A t \in Trusts : Verdict("python", wire, t) # Uncaught

\* clients/python/README.md:54: the client "verifies the integrity tiers
\* (L1-L3)"; L1 includes "seq monotonicity" (CONFORMANCE.md:76), and a verifier
\* MUST reject "seq that repeats or decreases" (SPEC.md:56).
AcceptedInOrder ==
  \A x \in accepted : \A i, j \in DOMAIN x.events :
    i < j => SeqNo[x.events[i]] < SeqNo[x.events[j]]
-------------------------------------------------------------------------------
(* The promise this implements.                                            *)

Abs == INSTANCE Attestation WITH
  attested <- [run \in Run |->
                 {s.events : s \in {q \in archive : q.cose.pay.origin = run}}],
  believed <- accepted

\* Sealing attests the log as it is, a verifying call adds at most one attested
\* content to what is believed, and nothing else that happens to records or
\* keyrings is seen at all.
ImplementsAttestation == Abs!Spec

\* Two records accepted for one run, by any clients at any times, never
\* contradict each other: one lists the other's events and perhaps more.
AcceptedChain == Abs!BelievedChain
===============================================================================
