--------------------------- MODULE ProvetrailProofs ---------------------------
(***************************************************************************)
(* What holds of Provetrail for every number of runs, keys, events and     *)
(* edits, and every keyring.                                               *)
(***************************************************************************)
EXTENDS Provetrail, TLAPS
-------------------------------------------------------------------------------
(* What a verdict of OK means.                                             *)

\* A chain of checks passes exactly when each check does.
LEMMA AllPass ==
  \A x, y : (x ?? y) = OK <=> x = OK /\ y = OK
BY DEF ??

\* A check with a code that is not OK passes exactly when there is no defect.
LEMMA CheckPasses ==
  \A defect \in BOOLEAN : \A code : code # OK /\ Fail(defect, code) = OK => ~defect
BY DEF Fail

\* The record carries what the key signed: the checks every client must make.
Attests(r, key) ==
  /\ key # NoKey
  /\ Verifies(r.cose.sig, key, r.cose.hdr, r.cose.pay)
  /\ Len(r.events) = r.cose.pay.size
  /\ Root(r.events) = r.cose.pay.root

\* The Python client accepts only records its trusted key attests.
LEMMA PyAccepts ==
  ASSUME NEW r, NEW t, PyVerify(r, t) = OK
  PROVE  Attests(r, Resolve(t, r.cose.hdr.kid))
<1> DEFINE key == Resolve(t, r.cose.hdr.kid)
<1>1. PyCheckpoint(r.cose, t) = OK /\ PyRebuild(r) = OK
  BY AllPass DEF PyVerify
<1>2. Fail(key = NoKey, "sign.unknown_key") = OK
      /\ Fail(~PySigned(r.cose, key), "sign.signature_invalid") = OK
  BY <1>1, AllPass DEF PyCheckpoint
<1>3. key # NoKey /\ PySigned(r.cose, key)
  BY <1>2 DEF Fail, OK
<1>4. Len(r.events) = r.cose.pay.size /\ Root(r.events) = r.cose.pay.root
  BY <1>1, AllPass DEF PyRebuild, PyRoot, Fail, OK
<1> QED
  BY <1>3, <1>4 DEF Attests, PySigned

\* So does the JavaScript client,
LEMMA JsAccepts ==
  ASSUME NEW r, NEW t, JsVerify(r, t) = OK
  PROVE  Attests(r, Resolve(t, r.cose.hdr.kid))
<1> DEFINE key == Resolve(t, r.cose.hdr.kid)
<1>1. JsCheckpoint(r.cose, t) = OK /\ JsRebuild(r) = OK
  BY AllPass DEF JsVerify
<1>2. Fail(key = NoKey, "sign.unknown_key") = OK
      /\ Fail(~JsSigned(r.cose, key), "sign.signature_invalid") = OK
  BY <1>1, AllPass DEF JsCheckpoint
<1>3. key # NoKey /\ JsSigned(r.cose, key)
  BY <1>2 DEF Fail, OK
<1>4. Len(r.events) = r.cose.pay.size /\ Root(r.events) = r.cose.pay.root
  BY <1>1, AllPass DEF JsRebuild, JsRoot, Fail, OK
<1> QED
  BY <1>3, <1>4 DEF Attests, JsSigned

\* and the Rust client, which reads an absent kid as the empty one.
LEMMA RustAccepts ==
  ASSUME NEW r, NEW t, RustVerify(r, t) = OK
  PROVE  Attests(r, Resolve(t, RustKid(r.cose.hdr)))
<1> DEFINE key == Resolve(t, RustKid(r.cose.hdr))
<1>1. RustCheckpoint(r.cose, t) = OK /\ RustRebuild(r) = OK
  BY AllPass DEF RustVerify
<1>2. Fail(key = NoKey, "sign.unknown_key") = OK
      /\ Fail(~RustSigned(r.cose, key), "sign.signature_invalid") = OK
  BY <1>1, AllPass DEF RustCheckpoint
<1>3. key # NoKey /\ RustSigned(r.cose, key)
  BY <1>2 DEF Fail, OK
<1>4. Len(r.events) = r.cose.pay.size /\ Root(r.events) = r.cose.pay.root
  BY <1>1, AllPass DEF RustRebuild, RustRoot, Fail, OK
<1> QED
  BY <1>3, <1>4 DEF Attests, RustSigned

\* Whatever client is called, it accepts only what the key it used attests.
LEMMA Accepts ==
  ASSUME NEW client \in Client, NEW r, NEW t, Verdict(client, r, t) = OK
  PROVE  Attests(r, KeyUsed(client, r, t))
<1>1. CASE client = "python"
  BY <1>1, PyAccepts DEF Verdict, KeyUsed
<1>2. CASE client = "js"
  BY <1>2, JsAccepts DEF Verdict, KeyUsed
<1>3. CASE client = "rust"
  BY <1>3, RustAccepts DEF Verdict, KeyUsed
<1> QED
  BY <1>1, <1>2, <1>3 DEF Client
-------------------------------------------------------------------------------
(* Edits keep the shape of a record and never make a signature.            *)

\* A sequence of map keys stays one when a key is repeated, added, dropped or
\* moved.
LEMMA KeyFaultsTyped ==
  ASSUME NEW keys \in Seq(Field)
  PROVE  KeyFaults(keys) \subseteq Seq(Field)
<1>1. ASSUME NEW i \in 1..(Len(keys) + 1), NEW f \in Field
      PROVE  InsertAt(keys, i, f) \in Seq(Field)
  BY <1>1 DEF InsertAt
<1>2. ASSUME NEW i \in 1..Len(keys)
      PROVE  RemoveAt(keys, i) \in Seq(Field)
  BY <1>2 DEF RemoveAt
<1>3. Reverse(keys) \in Seq(Field)
  BY DEF Reverse
<1> QED
  BY <1>1, <1>2, <1>3 DEF KeyFaults

\* The empty log is a log, and the log stays one while it is below the bound.
LEMMA EventSeqFacts ==
  /\ <<>> \in EventSeq
  /\ \A s \in EventSeq : s \in Seq(Event) /\ Len(s) \in 0..MaxLog
  /\ \A s \in EventSeq, e \in Event : Len(s) < MaxLog => Append(s, e) \in EventSeq
<1>1. <<>> \in EventSeq
  <2>1. <<>> \in [1..0 -> Event] /\ 0 \in 0..MaxLog
    BY BoundAssumption
  <2> QED
    BY <2>1 DEF EventSeq
<1>2. ASSUME NEW s \in EventSeq
      PROVE  s \in Seq(Event) /\ Len(s) \in 0..MaxLog
  <2>1. PICK n \in 0..MaxLog : s \in [1..n -> Event]
    BY DEF EventSeq
  <2>2. n \in Nat
    BY <2>1, BoundAssumption
  <2> QED
    BY <2>1, <2>2
<1>3. ASSUME NEW s \in EventSeq, NEW e \in Event, Len(s) < MaxLog
      PROVE  Append(s, e) \in EventSeq
  <2>1. Len(s) + 1 \in 0..MaxLog
    BY <1>2, <1>3, BoundAssumption
  <2>2. Append(s, e) \in Seq(Event) /\ Len(Append(s, e)) = Len(s) + 1
    BY <1>2
  <2>3. \A q \in Seq(Event) : q \in [1..Len(q) -> Event]
    OBVIOUS
  <2> QED
    BY <2>1, <2>2, <2>3 DEF EventSeq
<1> QED
  BY <1>1, <1>2, <1>3

\* A header that differs in one claim is a header, and so is one without claims.
LEMMA FaultyHeadersTyped ==
  ASSUME NEW h \in Header
  PROVE  FaultyHeaders(h) \subseteq Header
<1>1. ASSUME HasClaims(h), NEW q \in FaultyClaims(h)
      PROVE  q \in Header
  <2>1. ASSUME NEW x \in {"-19.0", "-8", "malformed", "none"}
        PROVE  [h EXCEPT !.alg = x] \in Header
    BY <1>1, <2>1 DEF Header, HasClaims
  <2>2. ASSUME NEW x \in {"other", "malformed", "none"}
        PROVE  [h EXCEPT !.ct = x] \in Header
    BY <1>1, <2>2 DEF Header, HasClaims
  <2>3. ASSUME NEW x \in (KeyId \cup {"nonbytes", "none"}) \ {h.kid}
        PROVE  [h EXCEPT !.kid = x] \in Header
    BY <1>1, <2>3 DEF Header, HasClaims
  <2>4. ASSUME NEW x \in Extra \ {"none"}
        PROVE  [h EXCEPT !.extra = x] \in Header
    BY <1>1, <2>4 DEF Header, HasClaims
  <2>5. ASSUME NEW x \in {"dup", "trailed"}
        PROVE  [h EXCEPT !.shape = x] \in Header
    BY <1>1, <2>5 DEF Header, HasClaims, HeaderShape
  <2> QED
    BY <1>1, <2>1, <2>2, <2>3, <2>4, <2>5 DEF FaultyClaims
<1>2. ASSUME NEW x \in HeaderShape
      PROVE  NoClaims(x) \in Header
  BY DEF Header, NoClaims, Extra
<1> QED
  BY <1>1, <1>2 DEF FaultyHeaders

\* A payload of another form is a payload.
LEMMA FaultyPayloadsTyped ==
  ASSUME NEW p \in Payload
  PROVE  FaultyPayloads(p) \subseteq Payload
BY DEF FaultyPayloads, Payload

\* The signature on a record is a garbage one or one made by sealing.
Issued(sig) == sig.by = NoKey \/ \E s \in archive : sig = s.cose.sig

\* Re-encoding the container leaves a record, with the checkpoint as it was.
LEMMA ContainerEditsTyped ==
  ASSUME NEW r \in WireRecord, NEW q \in ContainerEdits(r)
  PROVE  q \in WireRecord /\ q.cose.sig = r.cose.sig
<1>1. CASE \E x \in {"notmap", "undecodable"} : q = [r EXCEPT !.container = x]
  BY <1>1 DEF WireRecord
<1>2. CASE \E x \in KeyFaults(r.keys) : q = [r EXCEPT !.keys = x]
  <2>1. r.keys \in Seq(Field)
    BY DEF WireRecord
  <2>2. PICK x \in Seq(Field) : q = [r EXCEPT !.keys = x]
    BY <1>2, <2>1, KeyFaultsTyped
  <2> QED
    BY <2>2 DEF WireRecord
<1>3. CASE \E x \in {"wide", "indefinite"} : q = [r EXCEPT !.head = x]
  BY <1>3 DEF WireRecord
<1>4. CASE q = [r EXCEPT !.trailing = TRUE] \/ q = [r EXCEPT !.typed = FALSE]
  BY <1>4 DEF WireRecord
<1> QED
  BY <1>1, <1>2, <1>3, <1>4 DEF ContainerEdits

\* So does changing the carried events.
LEMMA EventEditsTyped ==
  ASSUME NEW r \in WireRecord, NEW q \in EventEdits(r)
  PROVE  q \in WireRecord /\ q.cose.sig = r.cose.sig
BY DEF EventEdits, WireRecord

\* A record keeps its shape when its checkpoint is replaced by another one.
LEMMA WithCose ==
  ASSUME NEW r \in WireRecord, NEW c \in Cose
  PROVE  [r EXCEPT !.cose = c] \in WireRecord /\ [r EXCEPT !.cose = c].cose = c
BY DEF WireRecord

\* Damaging the COSE structure leaves a checkpoint with the same signature.
LEMMA CoseEditsTyped ==
  ASSUME NEW r \in WireRecord, NEW q \in CoseEdits(r)
  PROVE  q \in WireRecord /\ q.cose.sig = r.cose.sig
<1> r.cose \in Cose
  BY DEF WireRecord
<1>1. CASE q = [r EXCEPT !.cose.frame = "bad"] \/ q = [r EXCEPT !.cose.tail = TRUE]
  <2>1. CASE q = [r EXCEPT !.cose.frame = "bad"]
    <3>1. [r.cose EXCEPT !.frame = "bad"] \in Cose
      BY DEF Cose
    <3> QED
      BY <2>1, <3>1 DEF WireRecord, Cose
  <2>2. CASE q = [r EXCEPT !.cose.tail = TRUE]
    <3>1. [r.cose EXCEPT !.tail = TRUE] \in Cose
      BY DEF Cose
    <3> QED
      BY <2>2, <3>1 DEF WireRecord, Cose
  <2> QED
    BY <1>1, <2>1, <2>2
<1>2. CASE \E x \in {"typed", "mistyped", "notmap"} : q = [r EXCEPT !.cose.unprot = x]
  BY <1>2 DEF WireRecord, Cose, Extra
<1>3. CASE \E s \in Slot, x \in SlotType : q = [r EXCEPT !.cose.slot[s] = x]
  <2>1. PICK s \in Slot, x \in SlotType : q = [r EXCEPT !.cose.slot[s] = x]
    BY <1>3
  <2>2. [r.cose.slot EXCEPT ![s] = x] \in [Slot -> SlotType]
    BY DEF Cose
  <2>3. [r.cose EXCEPT !.slot = [r.cose.slot EXCEPT ![s] = x]] \in Cose
    BY <2>2 DEF Cose
  <2>4. q = [r EXCEPT !.cose = [r.cose EXCEPT !.slot = [r.cose.slot EXCEPT ![s] = x]]]
    BY <2>1 DEF WireRecord, Cose
  <2> QED
    BY <2>3, <2>4, WithCose DEF Cose
<1> QED
  BY <1>1, <1>2, <1>3 DEF CoseEdits

\* Editing what is signed leaves the signature, or makes it a garbage one.
LEMMA SignedEditsTyped ==
  ASSUME NEW r \in WireRecord, NEW q \in SignedEdits(r)
  PROVE  /\ q \in WireRecord
         /\ q.cose.sig = r.cose.sig \/ q.cose.sig.by = NoKey
<1>1. CASE \E h \in FaultyHeaders(r.cose.hdr) : q = [r EXCEPT !.cose.hdr = h]
  <2>1. r.cose.hdr \in Header
    BY DEF WireRecord, Cose
  <2>2. PICK h \in Header : q = [r EXCEPT !.cose.hdr = h]
    BY <1>1, <2>1, FaultyHeadersTyped
  <2> QED
    BY <2>2 DEF WireRecord, Cose
<1>2. CASE \E p \in FaultyPayloads(r.cose.pay) : q = [r EXCEPT !.cose.pay = p]
  <2>1. r.cose.pay \in Payload
    BY DEF WireRecord, Cose
  <2>2. PICK p \in Payload : q = [r EXCEPT !.cose.pay = p]
    BY <1>2, <2>1, FaultyPayloadsTyped
  <2> QED
    BY <2>2 DEF WireRecord, Cose
<1>3. CASE \E n \in 0..(MaxLog + 1) : q = [r EXCEPT !.cose.pay.size = n]
  BY <1>3 DEF WireRecord, Cose, Payload
<1>4. CASE \E s \in EventSeq : q = [r EXCEPT !.cose.pay.root = Root(s)]
  BY <1>4 DEF WireRecord, Cose, Payload
<1>5. CASE \E run \in Run : q = [r EXCEPT !.cose.pay.origin = run]
  BY <1>5 DEF WireRecord, Cose, Payload
<1>6. CASE q = [r EXCEPT !.cose.sig.by = NoKey]
  BY <1>6 DEF WireRecord, Cose, Signature
<1> QED
  BY <1>1, <1>2, <1>3, <1>4, <1>5, <1>6 DEF SignedEdits

\* Splicing takes its signature from a sealed record.
LEMMA SplicesTyped ==
  ASSUME NEW r \in WireRecord, archive \subseteq WireRecord, NEW q \in Splices(r)
  PROVE  q \in WireRecord /\ Issued(q.cose.sig)
<1>1. PICK s \in archive : q = [r EXCEPT !.cose = s.cose] \/ q = [r EXCEPT !.cose.sig = s.cose.sig]
  BY DEF Splices
<1>2. s.cose \in Cose /\ s.cose.sig \in Signature
  BY DEF WireRecord, Cose
<1>3. q \in WireRecord /\ q.cose.sig = s.cose.sig
  <2>1. CASE q = [r EXCEPT !.cose = s.cose]
    BY <1>2, <2>1, WithCose
  <2>2. CASE q = [r EXCEPT !.cose.sig = s.cose.sig]
    <3>1. [r.cose EXCEPT !.sig = s.cose.sig] \in Cose
      BY <1>2 DEF WireRecord, Cose
    <3> QED
      BY <2>2, <3>1 DEF WireRecord, Cose
  <2> QED
    BY <1>1, <2>1, <2>2
<1> QED
  BY <1>3 DEF Issued

\* Whatever an edit does, it makes no signature under any key.
LEMMA EditsTyped ==
  ASSUME NEW r \in WireRecord, archive \subseteq WireRecord, Issued(r.cose.sig),
         NEW q \in EditedRecords(r)
  PROVE  q \in WireRecord /\ Issued(q.cose.sig)
<1>1. \/ q \in ContainerEdits(r) \/ q \in EventEdits(r) \/ q \in CoseEdits(r)
      \/ q \in SignedEdits(r) \/ q \in Splices(r)
  BY DEF EditedRecords
<1> QED
  BY <1>1, ContainerEditsTyped, EventEditsTyped, CoseEditsTyped, SignedEditsTyped,
     SplicesTyped DEF Issued

-------------------------------------------------------------------------------
(* The inductive invariant.                                                *)

\* What a sealed record is: its origin's signer has sealed its header and
\* payload, and the payload is the head of the events it carries.
SealedRecord(s) ==
  /\ s = Sealed(Signer[s.cose.pay.origin], s.cose.hdr, s.cose.pay, s.events)
  /\ s.cose.pay.size = Len(s.events)
  /\ s.cose.pay.root = Root(s.events)

ArchiveInv == \A s \in archive : SealedRecord(s)

\* Authentic alone is not inductive: that a call accepts only authentic events
\* needs to know that no signature on the wire is made up.
IInv == TypeOK /\ ArchiveInv /\ Issued(wire.cose.sig) /\ Authentic

\* The signature of a sealed record covers its header and payload.
LEMMA SealedSignature ==
  ASSUME NEW s, SealedRecord(s)
  PROVE  /\ s.cose.sig = [by |-> Signer[s.cose.pay.origin], hdr |-> s.cose.hdr, pay |-> s.cose.pay]
         /\ s.cose.sig.by = Signer[s.cose.pay.origin]
         /\ s.cose.sig.hdr = s.cose.hdr /\ s.cose.sig.pay = s.cose.pay
<1> DEFINE key == Signer[s.cose.pay.origin]
<1>1. s = Sealed(key, s.cose.hdr, s.cose.pay, s.events)
  BY DEF SealedRecord
<1>2. \A k, h, p, events :
        LET sig == Sealed(k, h, p, events).cose.sig
        IN  sig = [by |-> k, hdr |-> h, pay |-> p] /\ sig.by = k /\ sig.hdr = h /\ sig.pay = p
  BY DEF Sealed
<1> HIDE DEF key
<1>3. s.cose.sig = [by |-> key, hdr |-> s.cose.hdr, pay |-> s.cose.pay]
  BY <1>1, <1>2
<1>4. s.cose.sig.by = key /\ s.cose.sig.hdr = s.cose.hdr /\ s.cose.sig.pay = s.cose.pay
  BY <1>3
<1> QED
  BY <1>3, <1>4 DEF key

\* Signing anything of the right types, or nobody signing it, makes a record.
LEMMA SealedShape ==
  ASSUME NEW key \in Key \cup {NoKey}, NEW h \in Header, NEW p \in Payload, NEW s \in EventSeq
  PROVE  /\ Sealed(key, h, p, s) \in WireRecord
         /\ Sealed(key, h, p, s).cose.sig.by = key
<1>1. CanonicalKeys \in Seq(Field)
  BY DEF CanonicalKeys, Field
<1>2. [by |-> key, hdr |-> h, pay |-> p] \in Signature
  BY DEF Signature
<1>3. [x \in Slot |-> "bstr"] \in [Slot -> SlotType]
  BY DEF SlotType
<1>4. [frame |-> "ok", tail |-> FALSE, unprot |-> "none",
       slot |-> [x \in Slot |-> "bstr"], hdr |-> h, pay |-> p,
       sig |-> [by |-> key, hdr |-> h, pay |-> p]] \in Cose
  BY <1>2, <1>3 DEF Cose, Extra
<1> QED
  BY <1>1, <1>4 DEF Sealed, WireRecord

\* Sealing a log, the payload naming its origin and head, makes a sealed record.
LEMMA SealedTyped ==
  ASSUME NEW run \in Run, NEW h \in Header, NEW p \in Payload, NEW s \in EventSeq,
         p.origin = run, p.size = Len(s), p.root = Root(s)
  PROVE  /\ Sealed(Signer[run], h, p, s) \in WireRecord
         /\ SealedRecord(Sealed(Signer[run], h, p, s))
<1>1. Signer[run] \in Key
  BY SystemAssumption
<1> QED
  BY <1>1, SealedShape DEF Sealed, SealedRecord

\* A record a client accepts now is one that was sealed, with the same events.
LEMMA AcceptedIsSealed ==
  ASSUME IInv, NEW client \in Client, NEW t, Verdict(client, wire, t) = OK
  PROVE  LET key == KeyUsed(client, wire, t)
         IN  /\ key \in Key
             /\ \E s \in archive : /\ s.cose.sig.by = key
                                   /\ s.cose.pay.origin = wire.cose.pay.origin
                                   /\ s.events = wire.events
<1> DEFINE key == KeyUsed(client, wire, t)
<1>1. Attests(wire, key)
  BY Accepts
<1>2. wire.cose.sig = [by |-> key, hdr |-> wire.cose.hdr, pay |-> wire.cose.pay] /\ key # NoKey
  BY <1>1 DEF Attests, Verifies
<1>3. PICK s \in archive : wire.cose.sig = s.cose.sig
  BY <1>2 DEF IInv, Issued
<1>4. SealedRecord(s) /\ s \in WireRecord /\ wire \in WireRecord
  BY DEF IInv, TypeOK, ArchiveInv
<1>5. s.cose.pay = wire.cose.pay /\ s.cose.sig.by = key
  <2>1. wire.cose.sig.by = key /\ wire.cose.sig.pay = wire.cose.pay
    BY <1>2
  <2>2. s.cose.sig.pay = s.cose.pay
    BY <1>4, SealedSignature
  <2> QED
    BY <2>1, <2>2, <1>3
<1>6. s.events \in EventSeq /\ wire.events \in EventSeq
  BY <1>4 DEF WireRecord
<1>7. Len(s.events) = Len(wire.events) /\ Root(s.events) = Root(wire.events)
  BY <1>1, <1>4, <1>5 DEF SealedRecord, Attests
<1>8. s.events = wire.events
  BY <1>6, <1>7, RootBinding
<1>9. key \in Key
  <2>1. s.cose.pay.origin \in Run
    BY <1>4 DEF WireRecord, Cose, Payload
  <2>2. s.cose.sig.by = Signer[s.cose.pay.origin]
    BY <1>4, SealedSignature
  <2> QED
    BY <2>1, <2>2, <1>5, SystemAssumption
<1> QED
  BY <1>5, <1>8, <1>9

\* The empty file is a record, of no one.
LEMMA NoRecordTyped ==
  NoRecord \in WireRecord /\ NoRecord.cose.sig.by = NoKey
<1> DEFINE h == NoClaims("undecodable")
           p == [form |-> "malformed", origin |-> CHOOSE run \in Run : TRUE,
                 size |-> 0, root |-> Root(<<>>)]
           empty == Sealed(NoKey, h, p, <<>>)
<1>1. h \in Header
  BY DEF Header, NoClaims, HeaderShape, Extra
<1>2. p \in Payload
  <2>1. (CHOOSE run \in Run : TRUE) \in Run
    BY SystemAssumption
  <2>2. 0 \in 0..(MaxLog + 1)
    BY BoundAssumption
  <2> QED
    BY <2>1, <2>2, EventSeqFacts DEF Payload
<1>3. NoRecord = [empty EXCEPT !.container = "undecodable"]
  BY DEF NoRecord
<1> HIDE DEF h, p
<1>4. empty \in WireRecord /\ empty.cose.sig.by = NoKey
  BY <1>1, <1>2, SealedShape, EventSeqFacts
<1> HIDE DEF empty
<1> QED
  BY <1>3, <1>4 DEF WireRecord

\* The invariant holds when nothing has happened yet.
LEMMA IInvInit == Init => IInv
<1> SUFFICES ASSUME Init PROVE IInv
  OBVIOUS
<1>1. log \in [Run -> EventSeq]
  BY EventSeqFacts DEF Init
<1>2. wire \in WireRecord /\ Issued(wire.cose.sig)
  BY NoRecordTyped DEF Init, Issued
<1>3. edits \in 0..MaxEdits
  BY SystemAssumption DEF Init
<1> QED
  BY <1>1, <1>2, <1>3 DEF Init, IInv, TypeOK, ArchiveInv, Authentic

\* Sealing adds one sealed record and keeps all others.
LEMMA SealAsKeeps ==
  ASSUME IInv, NEW run \in Run, NEW h \in Header, NEW p \in Payload, SealAs(run, h, p),
         p.origin = run, p.size = Len(log[run]), p.root = Root(log[run])
  PROVE  IInv'
<1> DEFINE new == Sealed(Signer[run], h, p, log[run])
<1>1. archive' = archive \cup {new} /\ UNCHANGED <<log, wire, edits, ring, accepted>>
  BY DEF SealAs
<1>2. log[run] \in EventSeq
  BY DEF IInv, TypeOK
<1>3. new \in WireRecord /\ SealedRecord(new)
  BY <1>2, SealedTyped
<1> HIDE DEF new
<1>4. TypeOK'
  BY <1>1, <1>3 DEF IInv, TypeOK
<1>5. ArchiveInv'
  BY <1>1, <1>3 DEF IInv, ArchiveInv, SealedRecord
<1>6. Issued(wire.cose.sig)'
  BY <1>1 DEF IInv, Issued
<1>7. Authentic'
  BY <1>1 DEF IInv, Authentic
<1> QED
  BY <1>4, <1>5, <1>6, <1>7 DEF IInv

\* The header and the payload of a producer without fault.
LEMMA HonestTyped ==
  ASSUME NEW run \in Run, NEW s \in EventSeq
  PROVE  /\ HonestHeader(KidOf[Signer[run]]) \in Header
         /\ HonestPayload(run, s) \in Payload
<1>1. KidOf[Signer[run]] \in KeyId
  BY SystemAssumption
<1>2. Len(s) \in 0..(MaxLog + 1)
  BY EventSeqFacts, BoundAssumption
<1> QED
  BY <1>1, <1>2 DEF HonestHeader, Header, HasClaims, HeaderShape, Extra, HonestPayload, Payload

\* No step breaks the invariant.
LEMMA IInvStep == IInv /\ [Next]_vars => IInv'
<1> SUFFICES ASSUME IInv, [Next]_vars PROVE IInv'
  OBVIOUS
<1>1. ASSUME NEW run \in Run, NEW e \in Event, LogEvent(run, e)
      PROVE  IInv'
  <2>1. log' \in [Run -> EventSeq]
    BY <1>1, EventSeqFacts DEF LogEvent, IInv, TypeOK
  <2> QED
    BY <1>1, <2>1 DEF LogEvent, IInv, TypeOK, ArchiveInv, SealedRecord, Issued, Authentic
<1>2. ASSUME NEW run \in Run, Seal(run)
      PROVE  IInv'
  <2>1. log[run] \in EventSeq
    BY DEF IInv, TypeOK
  <2> QED
    BY <1>2, <2>1, HonestTyped, SealAsKeeps DEF Seal, HonestPayload
<1>3. ASSUME NEW run \in Run, FaultySeal(run)
      PROVE  IInv'
  <2> DEFINE h == HonestHeader(KidOf[Signer[run]])
             p == HonestPayload(run, log[run])
  <2>1. log[run] \in EventSeq
    BY DEF IInv, TypeOK
  <2>2. h \in Header /\ p \in Payload
    BY <2>1, HonestTyped
  <2>3. p.origin = run /\ p.size = Len(log[run]) /\ p.root = Root(log[run])
    BY DEF HonestPayload
  <2>4. CASE \E bad \in FaultyHeaders(h) : SealAs(run, bad, p)
    <3>1. PICK bad \in Header : SealAs(run, bad, p)
      BY <2>2, <2>4, FaultyHeadersTyped
    <3> HIDE DEF p
    <3> QED
      BY <2>2, <2>3, <3>1, SealAsKeeps
  <2>5. CASE \E bad \in FaultyPayloads(p) : SealAs(run, h, bad)
    <3>1. PICK bad \in FaultyPayloads(p) : SealAs(run, h, bad)
      BY <2>5
    <3>2. bad \in Payload
      BY <2>2, <3>1, FaultyPayloadsTyped
    <3>3. bad.origin = p.origin /\ bad.size = p.size /\ bad.root = p.root
      BY <2>2 DEF FaultyPayloads, Payload
    <3> HIDE DEF p, h
    <3> QED
      BY <2>2, <2>3, <3>1, <3>2, <3>3, SealAsKeeps
  <2> QED
    BY <1>3, <2>4, <2>5 DEF FaultySeal
<1>4. ASSUME NEW r \in archive, Present(r)
      PROVE  IInv'
  <2>1. r \in WireRecord
    BY DEF IInv, TypeOK
  <2>2. edits' \in 0..MaxEdits
    BY <1>4, SystemAssumption DEF Present
  <2> QED
    BY <1>4, <2>1, <2>2 DEF Present, IInv, TypeOK, ArchiveInv, SealedRecord, Issued, Authentic
<1>5. ASSUME Edit
      PROVE  IInv'
  <2>1. PICK r \in EditedRecords(wire) : wire' = r
    BY <1>5 DEF Edit
  <2>2. r \in WireRecord /\ Issued(r.cose.sig)
    BY EditsTyped DEF IInv, TypeOK
  <2>3. edits' \in 0..MaxEdits
    BY <1>5, SystemAssumption DEF Edit, IInv, TypeOK
  <2>4. UNCHANGED <<log, archive, ring, accepted>>
    BY <1>5 DEF Edit
  <2> QED
    BY <2>1, <2>2, <2>3, <2>4 DEF IInv, TypeOK, ArchiveInv, SealedRecord, Issued, Authentic
<1>6. ASSUME NEW f \in Rings, Reconfigure(f)
      PROVE  IInv'
  BY <1>6 DEF Reconfigure, IInv, TypeOK, ArchiveInv, SealedRecord, Issued, Authentic
<1>7. ASSUME NEW client \in Client, NEW t \in Trusts, Verify(client, t)
      PROVE  IInv'
  <2> DEFINE key == KeyUsed(client, wire, t)
             new == [key |-> key, origin |-> wire.cose.pay.origin, events |-> wire.events]
  <2>1. accepted' = accepted \cup {new} /\ UNCHANGED <<log, archive, wire, edits, ring>>
    BY <1>7 DEF Verify
  <2>2. /\ key \in Key
        /\ \E s \in archive : /\ s.cose.sig.by = key
                              /\ s.cose.pay.origin = wire.cose.pay.origin
                              /\ s.events = wire.events
    BY <1>7, AcceptedIsSealed DEF Verify
  <2>3. new \in [key : Key, origin : Run, events : EventSeq]
    BY <2>2 DEF IInv, TypeOK, WireRecord, Cose, Payload
  <2>4. TypeOK'
    BY <2>1, <2>3 DEF IInv, TypeOK
  <2>5. Authentic'
    BY <2>1, <2>2 DEF IInv, Authentic
  <2> QED
    BY <2>1, <2>4, <2>5 DEF IInv, ArchiveInv, SealedRecord, Issued
<1>8. CASE UNCHANGED vars
  BY <1>8 DEF vars, IInv, TypeOK, ArchiveInv, SealedRecord, Issued, Authentic
<1> QED
  BY <1>1, <1>2, <1>3, <1>4, <1>5, <1>6, <1>7, <1>8 DEF Next

\* The invariant holds always.
LEMMA IInvAlways == Spec => []IInv
BY IInvInit, IInvStep, PTL DEF Spec
-------------------------------------------------------------------------------
(* Theorems.                                                               *)

\* Records keep their shape and only real keys are ever accepted under.
THEOREM Typing == Spec => []TypeOK
<1>1. IInv => TypeOK
  BY DEF IInv
<1> QED
  BY <1>1, IInvAlways, PTL

\* Every accepted record is one its trusted key's holder sealed, unchanged.
THEOREM Authenticity == Spec => []Authentic
<1>1. IInv => Authentic
  BY DEF IInv
<1> QED
  BY <1>1, IInvAlways, PTL

\* A mismatch is only ever reported about a head that the trusted key signed.
LEMMA MismatchMeansSigned ==
  ASSUME NEW c \in Client, NEW t,
         Verdict(c, wire, t) \in {"record.size_mismatch", "record.root_mismatch"}
  PROVE  LET key == KeyUsed(c, wire, t)
         IN  key # NoKey /\ Verifies(wire.cose.sig, key, wire.cose.hdr, wire.cose.pay)
<1> DEFINE key == KeyUsed(c, wire, t)
           Mismatch == {"record.size_mismatch", "record.root_mismatch"}
<1>1. \A x, y : (x ?? y) \in Mismatch => x \in Mismatch \/ (x = OK /\ y \in Mismatch)
  BY DEF ??
<1>2. \A d, code : Fail(d, code) \in Mismatch => code \in Mismatch
  BY DEF Fail, OK
<1>3. CASE c = "python"
  <2>1. PyVerify(wire, t) \in Mismatch
    BY <1>3 DEF Verdict
  <2>2. PyContainer(wire) \notin Mismatch
    BY <1>1, <1>2 DEF PyContainer
  <2>3. PyCheckpoint(wire.cose, t) \notin Mismatch
    BY <1>1, <1>2 DEF PyCheckpoint, Uncaught
  <2>4. PyCheckpoint(wire.cose, t) = OK
    BY <2>1, <2>2, <2>3, <1>1, <1>2, AllPass DEF PyVerify
  <2>5. Fail(key = NoKey, "sign.unknown_key") = OK
        /\ Fail(~PySigned(wire.cose, key), "sign.signature_invalid") = OK
    BY <1>3, <2>4, AllPass DEF PyCheckpoint, KeyUsed
  <2> QED
    BY <2>5 DEF Fail, OK, PySigned
<1>4. CASE c = "js"
  <2>1. JsVerify(wire, t) \in Mismatch
    BY <1>4 DEF Verdict
  <2>2. JsContainer(wire) \notin Mismatch
    BY <1>1, <1>2 DEF JsContainer
  <2>3. JsCheckpoint(wire.cose, t) \notin Mismatch
    BY <1>1, <1>2 DEF JsCheckpoint, Uncaught
  <2>4. JsCheckpoint(wire.cose, t) = OK
    BY <2>1, <2>2, <2>3, <1>1, <1>2, AllPass DEF JsVerify
  <2>5. Fail(key = NoKey, "sign.unknown_key") = OK
        /\ Fail(~JsSigned(wire.cose, key), "sign.signature_invalid") = OK
    BY <1>4, <2>4, AllPass DEF JsCheckpoint, KeyUsed
  <2> QED
    BY <2>5 DEF Fail, OK, JsSigned
<1>5. CASE c = "rust"
  <2>1. RustVerify(wire, t) \in Mismatch
    BY <1>5 DEF Verdict
  <2>2. RustContainer(wire) \notin Mismatch
    BY <1>1, <1>2 DEF RustContainer
  <2>3. RustCheckpoint(wire.cose, t) \notin Mismatch
    BY <1>1, <1>2 DEF RustCheckpoint
  <2>4. RustCheckpoint(wire.cose, t) = OK
    BY <2>1, <2>2, <2>3, <1>1, <1>2, AllPass DEF RustVerify
  <2>5. Fail(key = NoKey, "sign.unknown_key") = OK
        /\ Fail(~RustSigned(wire.cose, key), "sign.signature_invalid") = OK
    BY <1>5, <2>4, AllPass DEF RustCheckpoint, KeyUsed
  <2> QED
    BY <2>5 DEF Fail, OK, RustSigned
<1> QED
  BY <1>3, <1>4, <1>5 DEF Client

\* No client compares the events with a head the trusted key did not sign.
THEOREM MismatchAuthenticity == Spec => []MismatchIsAuthenticated
<1>1. IInv => MismatchIsAuthenticated
  <2> SUFFICES ASSUME IInv, NEW c \in Client, NEW t \in Trusts,
                      Verdict(c, wire, t) \in {"record.size_mismatch", "record.root_mismatch"}
               PROVE  \E s \in archive : /\ s.cose.sig.by = KeyUsed(c, wire, t)
                                         /\ s.cose.pay = wire.cose.pay
    BY DEF MismatchIsAuthenticated
  <2> DEFINE key == KeyUsed(c, wire, t)
  <2>1. key # NoKey
        /\ wire.cose.sig = [by |-> key, hdr |-> wire.cose.hdr, pay |-> wire.cose.pay]
    BY MismatchMeansSigned DEF Verifies
  <2>2. PICK s \in archive : wire.cose.sig = s.cose.sig
    BY <2>1 DEF IInv, Issued
  <2>3. s.cose.sig = [by |-> Signer[s.cose.pay.origin], hdr |-> s.cose.hdr, pay |-> s.cose.pay]
    BY <2>2, SealedSignature DEF IInv, ArchiveInv
  <2>4. s.cose.pay = wire.cose.pay /\ s.cose.sig.by = key
    BY <2>1, <2>2, <2>3
  <2> QED
    BY <2>4
<1> QED
  BY <1>1, IInvAlways, PTL
-------------------------------------------------------------------------------
(* Provetrail implements Attestation, whose chain of believed contents it  *)
(* therefore keeps.                                                        *)

\* The contents signed for each run, as the refinement mapping reads them.
AttestedOf == [run \in Run |->
                 {s.events : s \in {q \in archive : q.cose.pay.origin = run}}]

\* Initially nothing is attested.
LEMMA InitMaps == Init => Abs!Init
<1> SUFFICES ASSUME Init PROVE Abs!Init
  OBVIOUS
<1>1. AttestedOf = [run \in Run |-> {}]
  BY DEF AttestedOf, Init
<1> QED
  BY <1>1 DEF Abs!Init, AttestedOf, Init

\* What is attested changes only with the archive.
LEMMA AttestedKept == UNCHANGED archive => UNCHANGED AttestedOf
BY DEF AttestedOf

\* A step that leaves logs, archive and acceptances alone is not seen at all.
LEMMA Unseen == UNCHANGED <<log, archive, accepted>> => UNCHANGED Abs!vars
BY AttestedKept DEF Abs!vars, AttestedOf

\* Sealing attests the log of the run that the payload names.
LEMMA SealAttests ==
  ASSUME IInv, NEW run \in Run, NEW h \in Header, NEW p \in Payload,
         SealAs(run, h, p), p.origin = run
  PROVE  Abs!Attest(run)
<1> DEFINE new == Sealed(Signer[run], h, p, log[run])
<1>1. archive' = archive \cup {new} /\ UNCHANGED <<log, accepted>>
  BY DEF SealAs
<1>2. new.events = log[run] /\ new.cose.pay = p
  BY DEF Sealed
<1> HIDE DEF new
<1>3. ASSUME NEW r \in Run
      PROVE  AttestedOf'[r] = IF r = run THEN AttestedOf[r] \cup {log[run]} ELSE AttestedOf[r]
  BY <1>1, <1>2 DEF AttestedOf
<1>4. AttestedOf' = [AttestedOf EXCEPT ![run] = @ \cup {log[run]}]
  <2>1. /\ AttestedOf = [r \in Run |-> AttestedOf[r]]
        /\ AttestedOf' = [r \in Run |-> AttestedOf'[r]]
    BY DEF AttestedOf
  <2> QED
    BY <1>3, <2>1
<1> QED
  BY <1>1, <1>4 DEF Abs!Attest, AttestedOf

\* A call that accepts adds one attested content to what is believed.
LEMMA VerifyBelieves ==
  ASSUME IInv, NEW client \in Client, NEW t \in Trusts, Verify(client, t)
  PROVE  Abs!Believe(wire.cose.pay.origin)
<1> DEFINE run == wire.cose.pay.origin
           key == KeyUsed(client, wire, t)
<1>1. /\ accepted' = accepted \cup {[key |-> key, origin |-> run, events |-> wire.events]}
      /\ UNCHANGED <<log, archive>>
      /\ Verdict(client, wire, t) = OK
  BY DEF Verify
<1>2. PICK s \in archive : s.cose.sig.by = key /\ s.cose.pay.origin = run /\ s.events = wire.events
  BY <1>1, AcceptedIsSealed
<1>3. run \in Run
  BY DEF IInv, TypeOK, WireRecord, Cose, Payload
<1>4. key = Signer[run]
  BY <1>2, SealedSignature DEF IInv, ArchiveInv
<1>5. wire.events \in AttestedOf[run]
  BY <1>2, <1>3 DEF AttestedOf
<1>6. UNCHANGED AttestedOf
  BY <1>1, AttestedKept
<1> HIDE DEF run, key
<1> QED
  BY <1>1, <1>4, <1>5, <1>6 DEF Abs!Believe, AttestedOf, run

\* Every step is a step of Attestation or none.
LEMMA StepMaps == IInv /\ [Next]_vars => [Abs!Next]_Abs!vars
<1> SUFFICES ASSUME IInv, [Next]_vars PROVE [Abs!Next]_Abs!vars
  OBVIOUS
<1>1. ASSUME NEW run \in Run, NEW e \in Event, LogEvent(run, e)
      PROVE  Abs!Next
  <2>1. Abs!Extend(run, e)
    BY <1>1, AttestedKept DEF LogEvent, Abs!Extend, AttestedOf
  <2> QED
    BY <2>1 DEF Abs!Next
<1>2. ASSUME NEW run \in Run, Seal(run)
      PROVE  Abs!Next
  <2>1. log[run] \in EventSeq
    BY DEF IInv, TypeOK
  <2>2. Abs!Attest(run)
    BY <1>2, <2>1, HonestTyped, SealAttests DEF Seal, HonestPayload
  <2> QED
    BY <2>2 DEF Abs!Next
<1>3. ASSUME NEW run \in Run, FaultySeal(run)
      PROVE  Abs!Next
  <2> DEFINE h == HonestHeader(KidOf[Signer[run]])
             p == HonestPayload(run, log[run])
  <2>1. log[run] \in EventSeq
    BY DEF IInv, TypeOK
  <2>2. h \in Header /\ p \in Payload /\ p.origin = run
    BY <2>1, HonestTyped DEF HonestPayload
  <2>3. CASE \E bad \in FaultyHeaders(h) : SealAs(run, bad, p)
    <3>1. PICK bad \in Header : SealAs(run, bad, p)
      BY <2>2, <2>3, FaultyHeadersTyped
    <3> HIDE DEF p
    <3>2. Abs!Attest(run)
      BY <2>2, <3>1, SealAttests
    <3> QED
      BY <3>2 DEF Abs!Next
  <2>4. CASE \E bad \in FaultyPayloads(p) : SealAs(run, h, bad)
    <3>1. PICK bad \in FaultyPayloads(p) : SealAs(run, h, bad)
      BY <2>4
    <3>2. bad \in Payload /\ bad.origin = run
      BY <2>2, <3>1, FaultyPayloadsTyped DEF FaultyPayloads, Payload
    <3> HIDE DEF h, p
    <3>3. Abs!Attest(run)
      BY <2>2, <3>1, <3>2, SealAttests
    <3> QED
      BY <3>3 DEF Abs!Next
  <2> QED
    BY <1>3, <2>3, <2>4 DEF FaultySeal
<1>4. ASSUME \/ \E r \in archive : Present(r)
             \/ Edit
             \/ \E f \in Rings : Reconfigure(f)
             \/ UNCHANGED vars
      PROVE  UNCHANGED Abs!vars
  <2>1. UNCHANGED <<log, archive, accepted>>
    BY <1>4 DEF Present, Edit, Reconfigure, vars
  <2> QED
    BY <2>1, Unseen
<1>5. ASSUME NEW client \in Client, NEW t \in Trusts, Verify(client, t)
      PROVE  Abs!Next
  <2>1. wire.cose.pay.origin \in Run
    BY DEF IInv, TypeOK, WireRecord, Cose, Payload
  <2> QED
    BY <1>5, <2>1, VerifyBelieves DEF Abs!Next
<1> QED
  BY <1>1, <1>2, <1>3, <1>4, <1>5 DEF Next

\* Sealing, sending and verifying records implements attesting and believing.
THEOREM Refinement == Spec => ImplementsAttestation
<1>1. IInv /\ [Next]_vars => [Abs!Next]_Abs!vars
  BY StepMaps
<1> QED
  BY <1>1, InitMaps, IInvAlways, PTL DEF Spec, ImplementsAttestation, Abs!Spec

AP == INSTANCE AttestationProofs WITH attested <- AttestedOf, believed <- accepted

\* So two records accepted for one run never contradict each other.
THEOREM Chain == Spec => []AcceptedChain
<1>1. Abs!Init => AP!Init
  BY DEF Abs!Init, AP!Init, AttestedOf
<1>2. [Abs!Next]_Abs!vars => [AP!Next]_AP!vars
  BY DEF Abs!Next, AP!Next, Abs!vars, AP!vars, Abs!Extend, AP!Extend, Abs!Attest,
         AP!Attest, Abs!Believe, AP!Believe, AttestedOf
<1>3. Spec => AP!Spec
  BY <1>1, <1>2, Refinement, PTL DEF ImplementsAttestation, Abs!Spec, AP!Spec
<1>4. AP!BelievedChain => AcceptedChain
  BY DEF AP!BelievedChain, AcceptedChain, Abs!BelievedChain, AP!Earlier, Abs!Earlier
<1>5. AP!Spec => []AP!BelievedChain
  BY AP!AttestationChain
<1> QED
  BY <1>3, <1>4, <1>5, PTL
===============================================================================
