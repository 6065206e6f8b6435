# A verification model of Provetrail

Provetrail is a standard for sealed run records, three *clients* (verifiers of
the integrity tiers, in Python, JavaScript and Rust), a conformance suite, and
the workflows that check and publish them.  This directory holds TLA+ models of the
parts that carry the program's own logic, configurations that TLC checks them
with, and proofs for TLAPS.

Paths below are relative to the repository.  Line numbers beside a definition
are in the comment above it or, for every definition, in `PROJECT.json` under
`map`.

## 1. The system and its components

**A sealed run record** is a canonical CBOR map of two fields: `events`, the
bytes of each event, and `checkpoint`, a COSE_Sign1 over a payload
`{root, size, origin}`.  A *producer* logs events of a run and signs
the head (size and Merkle root) of the log; a *verifier* is given the record's
bytes and either one public key or a keyring, and answers with the verified
events or with a registered failure code.

| component | state it keeps | operations | talks to |
|---|---|---|---|
| Producer (another repository) | a log per run | log an event, seal | writes records |
| Python client `clients/python/.../verify.py` | none | `verify_run(bytes, key or ring)` | reads a record and a keyring |
| JavaScript client `clients/npm/index.js` | none | `verifyRun` | the same |
| Rust client `clients/rust/src/lib.rs` | none | `verify_run`, `verify_run_keyring` | the same |
| RFC 6962 tree (in each client) | none | leaf, node, root | called by each client |
| Operator's keyring | key id -> key | add, replace, drop | passed to each call |
| Release plan `scripts/release_plan.py` | none; reads manifest and registry | decide whether to publish | registry's read side |
| Release workflows `release-{npm,pypi,crate}.yml` | GitHub's runs, one running and one waiting | plan, gate, publish, tag, re-run | registry, git tags, gate |
| Conformance gate `conformance.yml` | results of its jobs | pass or fail | called by pull requests and releases |
| Suite check `scripts/check_suite.py` | none | judge manifests, files, registry, schema, versions | a tree of the repository |
| CDDL check `scripts/check_cddl.py` | none | validate the vectors to accept | a tree, the cddl tool |
| Client tests and scope `conformance-scope.json` | none | route a vector to accept, reject with code, or skip | clients, a tree |
| Vectors `vectors/` and registry `registry.json` | files | - | the three above |
| Pull requests (GitHub) | main; per proposal a base, a tip, what it was checked with | commit, check, merge | the gate |
| Drift check `check_vector_drift.py`, `external.yml` | GitHub's runs | check out twice, compare | this repository and the generator's |
| Command lines (`__main__.py`, `cli.js`, `main.rs`) | none | read a file and a key, verify, exit code | clients |
| Surface check `check_external_surfaces.py` | none | request URLs, report | network |
| Governance, ground-truth and proof tiers | - | prose only | - |

**What is hard here.**

* *Three implementations of one function.*  Each client is a chain of about
  fifteen checks whose order decides the code, over decoders (cbor2, cbor-x,
  ciborium and coset) that are lenient in different ways: they drop duplicated
  keys, ignore trailing bytes, coerce element types, refuse wide integers.  Tests
  pin one defect per record; nothing tests two defects together, and nothing
  compares the clients with each other.
* *Records outlive everything else.*  A record can be presented late, again, with
  another record's checkpoint or signature, under a keyring in which its key id
  has since been moved to another key, dropped, or given a malformed key.
* *A head must be authentic before it is believed or even compared with.*
* *The release is a distributed program.*  Three parties (GitHub, the registry,
  git) keep state; a job can end after its effect and before it is seen; the
  registry's read side lags; a waiting run is cancelled by the next; a re-run
  starts from the plan or, with the plan's old outputs, from the job that failed.
* *The gate judges trees, and nobody merges the tree that was judged.*  A proposal
  is checked merged with the main of that moment and merged into a later one; two
  proposals may each be green and together red.  What the gate demands spans files
  that merge apart: vectors, two manifests, the registry, documents, the scope.
* *Two copies in two repositories.*  The drift job reads the one of the commit that
  triggered it and, later, the other one as it then is.

**What makes each part correct.**

* Tree: the head is that of RFC 6962 and binds the log.
* Clients: accept only what a trusted key signed, for the origin it signed it
  for; agree with each other; accept every honest record; give the pinned code.
* Records and clients together: what is ever accepted of one run is a chain of
  prefixes of one log.
* Release: nothing red is published; a tag names the source of the artifact;
  versions are published in order; a version that stays at the head of main is
  published in the end.
* Gate: what is released has every vector on disk as a demand on every client, with
  a registered code, and one version everywhere, however proposals overtook each
  other.
* Drift: a green run compared equal copies; a red run saw a real drift; a drift that
  stays is reported.
* Command lines: none verifies what another refuses, however the key is spelled.

`PROJECT.json` lists the hazards behind these, each at its line of code.

## 2. The modules

```
 Merkle  <---- MerkleLog <---- MCMerkleLog, MerkleProofs
   ^
   |        Wire <--- PyVerify, JsVerify, RustVerify
   |                        ^
   |                        |
 MCProvetrail ---------> Provetrail ----- INSTANCE ---> Attestation
                            ^                              ^
                     ProvetrailProofs -- INSTANCE -> AttestationProofs
                            ^
                     AgreementProofs
                            ^
 CommandLine <-------- AnswerProofs

 (CommandLine extends Provetrail, MCProvetrail both)

 MCRelease ------------> Release <---- ReleaseProofs
 MCSuite --------------> Suite   <---- SuiteProofs
 MCDrift --------------> Drift   <---- DriftProofs
```

**Merkle, MerkleLog.**  `_leaf_hash`, `_node_hash` and `_merkle_root`.  A digest is
the term it was computed from, so equal digests mean equal preimages; the domain
tags (0x00, 0x01) are kept as the term's constructor.  The recursion is a
recursive function over slices.  `MerkleLog` lets a log grow and compares the
head with a construction that shares nothing with the code: neighbours paired
level by level, an odd last node carried up.

**Wire.** A record is not bytes here but every distinction between byte strings that
some check of some client makes, up to the encodings section 6 names. Each field of
`WireRecord` is a way of being, or of not being, canonical: the keys in wire order with
duplicates, the form of the map head, trailing bytes, the types of the elements, the
shape of the protected header and what follows it, each claim, the form of the payload.
Claims that no client asks for, in either header, are none, of the types RFC 9052 asks
for, or not. A signature is ideal: it names the key that made it and the header and
payload it covers. `Root` is a parameter with the assumption that it binds logs of one
length; the instances give it `Merkle!MerkleRoot`.

**PyVerify, JsVerify, RustVerify.** One module per client, one operator per function,
each a chain `check ?? check ?? ...` in the order of the code, ending with the first
code that fails, with `ok`, or with `uncaught` where the code lets an exception escape
that is no `VerifyError`. They follow what the language's decoder hands to the check: in
Python `bytes()` of a number is that many zero bytes and of text a `TypeError`; in
JavaScript a map with a non-string key is a `Map` in which `in` finds nothing, and an
empty header map is a plain object; in Rust coset decodes the whole COSE structure, both
headers with every claim in them, into types before the first check.

**Provetrail.**  The system: runs that log and seal, an archive of everything ever
sealed, the record now in front of the verifiers, the operator's keyring, and
what calls returned.  A call reads its arguments and nothing else, so it is one
step (`Verify`).  `Edit` takes one of a set of edits: a container fault, other
events, a COSE fault, other signed fields, or the checkpoint or signature of
another archived record.  `FaultySeal` is a producer with one encoding fault, as
the generator of the reject vectors has; such a fault counts as the first of the
`MaxEdits` defects of a presented record.  A run in `Misnumbered` may number its
events wrongly.  `accepted` is an auxiliary variable: it keeps, of each call that verified,
the key, the events and the origin that the checkpoint names, which no client returns.

**CommandLine.**  What each of the three tools does with its arguments, with a file
that cannot be read, and with a key in hex: `bytes.fromhex` skips spaces and keeps
any length, `Buffer.from` drops what follows the first character that is no digit,
`hex::decode` accepts neither.  Each prints and exits by the verdict of its client
on the record on the wire.

**Attestation.**  The promise, without records: logs grow, some contents are
attested by the run's signer, and whoever trusts the signer believes attested
contents.  `ImplementsAttestation` maps `attested` to the contents of the archive
by origin and `believed` to `accepted`.

**Release.** One package's pipeline. The three share no state and differ in the upload
command and in the plan's question: npm is asked for the package and its list of
versions, the other registries for the version itself (`Registry`). `commits` are those
of main and of other branches, `head` is main's. A merge starts a run of the new head; a
dispatch by hand takes main or, with `AnyRef`, any branch or tag, as the workflows have
no guard on it. The workflow files at another ref are taken to be these. `active` and
`pending` are the concurrency group with `cancel-in-progress: false`; `past` is what can
be re-run. The jobs are one action each, with every way they can end: `Plan` with any
answer of the registry, `Gate` with any results of its jobs, an upload that is seen,
unseen or refused, a tag that is created or not. The registry's read side may answer
`stale` for any version at any time, which allows more than a lag of minutes does. A
re-run starts over (`all`) or keeps the plan's outputs (`failed`).

**Suite.** A tree is a function from *surfaces*, the parts that a merge treats apart (a
vector file, a manifest, a registry entry, a document's version header, the client scope
...), to contents. Two kinds of documents are told apart, those that the version check
reads by name, which must exist, and the predicates it globs for, which need not. The
scripts are predicates on a tree: `SuiteOK`, `CodesRegistered`, `SchemaOK`,
`RegistryOK`, `VersionsOK` (`check_suite.py`), `CheckCddl` (`check_cddl.py`) and
`TestClient` (the clients' tests); `Gate` is all of them. A vector's bytes are what the
clients answer to them (`Judged`) and the CDDL types they match (`Matches`). Around the
gate, authors commit to proposals, a proposal is checked merged with main (`Check`),
merged into whatever main then is (`Merge`), and a release runs the gate again on main
(`Release`). The merge is git's, surface by surface; two changes of one surface
conflict.

**Drift.**  Two repositories whose vectors change on their own, and runs of the drift
job, each with the commit it was triggered on and the upstream it found later.
A push of vectors here triggers a run, a change upstream does not; the schedule or a
dispatch does; a run may die at any point.  `differed` is an auxiliary field: whether
the heads were different at any moment while the run had not looked upstream yet.

## 3. What is checked

Every passing run also has, per property, a mutant of the code that breaks it
(`PROJECT.json`, `mutants`; the mutated operators are beside the originals).

| run | instance | states | shows |
|---|---|---|---|
| `tree` | 2 events, logs up to 6 | 127 | the clients' tree is RFC 6962's, binds the log, splits at the largest power of two, and an append keeps the complete left half |
| `defects` | 1 run, logs up to 2, 3 key ids (one empty), every pair of defects, the first by the producer or on the way; every spelling of a key | 315,000 | the clients accept the same records, name the same one of several defects, and never compare with a head that is not authenticated; a fault of the signer gets its code; the command lines agree |
| `history` | 2 runs, 2 signers publishing under one key id, 4 keyrings, splices | 108,000 | acceptance is authentic through rotation and replay, honest records stay accepted, every single mutation of one gets the code that the suite pins, `Attestation` is implemented |
| `release` | npm, 2 commits on main or elsewhere, 2 versions, 1 gate job, every answer, dispatches of any commit, both re-runs | 2,099,000 | nothing red is served; tags name sources |
| `heal` | PyPI, 2 merges, 2 versions, 2 gate jobs, dispatches of main, no re-runs by hand | 122,000 | versions are served in order, and one that stays at the head is served in the end |
| `suite` | 2 authors, 3 commits out of 23, 1 structural and up to 3 crypto vectors, 3 clients, 3 codes, 3 documents | 120,000 | whatever overtakes whatever, a released tree has every vector as a demand and one version; the gate answers the same with the entries of both manifests turned around; main turns red by stale checks only |
| `drift` | 2 runs at once, 2 files, 2 digests, 2 suites, 2 changes | 64,000 | green means equal, an alarm is real, a drift that stays is reported |

**Why the bounds are enough.** Logs of up to two events have an empty, a one-leaf and a
two-leaf tree, a shorter, a longer and an equally long wrong log, and a signed size
outside all of them; deeper trees are the business of `tree`, whose length 6 has
complete, odd and doubly odd halves. Two edits reach every pair of
defects, which is what decides the order of checks and what one defect can hide of
another.  In `history`
two sealed records, two signers and one key id are the least that a rotation or a splice
needs, and the theorems of section 5 remove the bound. In `release` two commits give a
run that is overtaken, a version declared by two commits, a red and a green commit of
one version, and an older version on another branch. In `suite` the commits of `MCSuite`
are one for each way a surface can go wrong (a content one client refuses, a missing
file, an entry without its code, a second entry with the first one's id, another order,
a wrong kind, a stale or misplaced `pinned_by`, a missing header, a missing document, a
bump of one document) and one for each change that stays green (a new code, a code above
the clients' tier, a second vector of a code, the same under another spelling of a
file's name, a new version); three commits of two authors make a proposal of two and one
that overtakes it. The two authors are symmetric, as no other constant mentions them; in
the other runs the configurations name their values in functions and no symmetry is
used. In `drift` one suite starts with one file and one with two, so that a change can
empty a suite, and two runs overlap every change.

**Deadlock** is not an error in any run: the bounds end the logs, the merges and
the edits, and a real system may have nothing to do.

**Fairness** is assumed in the `FairSpec` of `Release` and of `Drift`, and only there
is liveness checked.  In `Release`:

* `WF(DispatchMain)`: somebody pushes to main or dispatches it again.  RELEASING.md says a missed
  release heals "on the next push"; with the number of merges bounded, a dispatch
  by hand stands for that push.
* `WF` of each failing end (`PlanFails`, `PublishRefused`, `TagFails`, a failed
  `Gate`): GitHub ends a job that hangs, so no job keeps the group for ever.
* `SF` of each successful end (`Plan("current")`, a green `Gate`, `Publish`, `Tag`):
  an outage, a flaky job or a refused upload may happen any finite number of
  times but not at every attempt.  `Gate` with success is enabled only when the
  commit breaks no job, so this promises nothing about a red commit.

`heal` leaves out re-runs by hand and dispatches of other refs.  `ServedInOrder` is stated
without them, because the workflows do publish an older version late that way; and somebody who
starts such runs for ever cancels every waiting run of the head, so nothing is promised then.

In `Drift`:

* `WF(Trigger)` of some slot: the schedule of `external.yml` comes round every Monday.
  GitHub turns a schedule off after sixty days without activity; from then on the
  assumption is that somebody dispatches the workflow or pushes.
* `WF(Checkout)` and `WF(Compare)` of each slot: GitHub runs every job to its end,
  one way or the other.  A run that fails without comparing counts as reported,
  because the workflow is red.

## 4. Where documentation and code part

Each row is a run whose one property is the sentence quoted, violated by what the
code does.

| run | sentence | what happens |
|---|---|---|
| `divergence` | clients/README.md:9, clients agree on the same records | one edit of the COSE framing (unprotected header not a map or with a value of the wrong type, bytes after the item, an element that is an array of bytes): accepted by some clients, refused by others |
| `uncaught` | clients/python/README.md:43, a registered code on every defect | a text element in the COSE array ends `verify_run` with a `TypeError` |
| `ordering` | clients/python/README.md:54 and CONFORMANCE.md:76, L1 includes `seq` monotonicity | the clients never read `seq` |
| `untagged` | RELEASING.md:28, publishes and tags | a job that ends between the two leaves a version that no later run tags |
| `pins` | check_suite.py:168, no entry that is not pinned has a `pinned_by` | an `operational` entry that lists a vector passes the gate: the branch that would compare the two does nothing |

Smaller differences met while reading, which the models contain and no run is
devoted to:

* SPEC.md:229 has a protected header of exactly three claims; the clients accept a
  signed header with a further claim, or without a kid under a single key;
* RELEASING.md:33 says that the version check keeps a re-run from publishing an
  existing version; running the failed jobs of a run again keeps the plan's outputs,
  so an upload that went unseen is attempted again, and refused by the registry;
* re-running an old run whose version was never published, or dispatching another branch or
  tag that declares one, publishes it after newer ones, and npm's `latest` follows
  (`ServedInOrder` excludes both);
* a second entry may claim a file that another claims under another spelling of its
  name (`valid/./a.cbor`): the claims are compared as text.  A commit of `suite`
  does so; `ReleasedDemands` holds because it speaks of the listed name;
* `registry.json` without `registry_version` passes, and no suite is tied to its shape
  of entry by the schema;
* the client tests are skipped, not failed, where `vectors/crypto` does not exist;
  then the suite check is red;
* a file that cannot be read exits with 1 from the Python and JavaScript tools, as a
  record that is not verified does, and with 2 from the Rust tool;
* the JavaScript tool accepts a key followed by anything, the Python tool a key with
  spaces in it;
* the surface check reports "repository is ahead" for every difference, the opposite
  one and an unavailable registry included, and does not catch a network error;
* a container without one of its two fields is `record.decode` in Python and
  JavaScript and `record.non_canonical` in Rust;
* `alg` as the float -19.0 equals -19 in Python and JavaScript; coset refuses it;
* coset decodes every claim, asked for or not: in the unprotected header, and in the claims of
  the protected one beyond the three, a value that is empty or of the wrong type, a label twice,
  or a label that is no integer or text is refused by the Rust client only;
* a protected header with a label twice is refused by coset only; one followed by further bytes
  is refused in JavaScript and Rust and accepted in Python;
* a content type that is not `type/subtype`, or an algorithm or content type that is an
  integer nobody assigned, is `sign.signature_invalid` in Rust and in the others the code of the
  check that compares it;
* a nil payload and a size beyond 64 bits, together with another defect, are noticed at
  different places of the three chains;
* an empty header map is `sign.signature_invalid` in JavaScript and
  `sign.bad_content_type` in the others;
* an empty key id is refused by coset and is what a missing key id reads as, so a
  keyring holding the empty id would trust records without one, in Rust only;
* a key of the wrong length is `sign.bad_key` in Python and JavaScript, a code that
  CONFORMANCE.md:186 lists as the producer's.

`VerdictsAgree` is stated over the framing (`PlainFraming`) and trust (`PlainTrust`)
that exclude those of these differences, and of the `divergence` run's, that change
what is accepted; of the distinctions `Wire` makes these are all.  `CodesAgree` asks for
more, the same verdict in every case, and excludes also the differences in codes: an empty
header, a nil payload, a bignum, a malformed algorithm or content type (`PlainDefects`), and a
container that is not canonical (`PlainContainer`).

## 5. What is proved

For every value of the constants, from the named assumptions of the modules:
`BoundAssumption`, `KeyAssumption`, `LogAssumption`, `SystemAssumption`,
`ReleaseAssumption`, `SuiteAssumption`, `DriftAssumption` (shapes of the constants),
`ManifestAssumption` (every manifest that main starts from or a commit writes is
Absent or a list of entries whose paths and codes are among `Path` and `Code`) and
`RootBinding` (two logs of one length with one head are equal).  The last is no
assumption about the tree: `MerkleProofs!TreeBinding` proves it of the clients' tree, for
logs of every length, from symbolic hashing alone, that is, from SHA-256 being
collision-free.  Signatures are ideal by construction of `Wire`.

| theorem | says |
|---|---|
| `ProvetrailProofs!Typing` | `TypeOK` |
| `ProvetrailProofs!Authenticity` | `Authentic` |
| `ProvetrailProofs!MismatchAuthenticity` | `MismatchIsAuthenticated` |
| `AgreementProofs!Agreement` | `VerdictsAgree` |
| `AgreementProofs!HonestAcceptance` | `HonestAccepted` |
| `AttestationProofs!AttestationChain` | `BelievedChain`, of the abstract promise |
| `ProvetrailProofs!Refinement` | `ImplementsAttestation` |
| `ProvetrailProofs!Chain` | `AcceptedChain`, from the two before |
| `AnswerProofs!DefectCodes` | `SuiteCodes` |
| `AnswerProofs!SealedFaultCodes` | `FaultySealCodes` |
| `AnswerProofs!SameCodes` | `CodesAgree` |
| `AnswerProofs!Tools` | `ToolsAgree` |
| `MerkleProofs!Construction` | `RootIsRFC6962` |
| `MerkleProofs!Binding` | `RootBindsLog` |
| `MerkleProofs!TreeBinding` | the assumption `RootBinding`, of the clients' tree |
| `MerkleProofs!Splitting` | `SplitIsLargestPowerOfTwo` |
| `MerkleProofs!AppendKeeps` | `AppendKeepsLeftHalf` |
| `ReleaseProofs!Typing` | `TypeOK` |
| `ReleaseProofs!Conformance` | `ServedIsConformant` |
| `ReleaseProofs!Provenance` | `TagNamesSource` |
| `ReleaseProofs!Order` | `ServedInOrder` |
| `SuiteProofs!ReleaseDemands` | `ReleasedDemands` |
| `SuiteProofs!OneVersion` | `ReleasedOneVersion` |
| `SuiteProofs!FreshMerges` | `FreshMergeIsGreen` |
| `SuiteProofs!Order` | `OrderIsIrrelevant` |
| `DriftProofs!GreenSound` | `GreenMeansEqual` |
| `DriftProofs!AlarmSound` | `AlarmIsReal` |

**Records.**  `Authentic` alone is not inductive: a call can accept what is on the
wire, so the invariant must say where signatures on the wire come from.
`IInv` adds `ArchiveInv` (each sealed record is the record of its own signature,
with the size and root of its events) and `Issued` (a signature on the wire that
names a key is one in the archive).  Edits may alter every field but can only move
signatures, never make them.  A verdict of `ok` gives, for each client by its own
lemma (`PyAccepts`, `JsAccepts`, `RustAccepts`), a key that signed this header and
payload, and a payload whose size and root are those of the events; with
`RootBinding` the events are the sealed ones.

**Agreement.**  For each client a lemma characterises exactly what it accepts under
plain framing and trust; the three characterisations coincide.  The key point is
`CanonicalByCount`: two clients count keys, one compares names, and both amount to
the canonical key sequence.

**Refinement.**  Sealing attests, a verifying call believes, everything else
stutters; the chain property is proved of `Attestation`, which has three actions
and no records, and carried over.

**Release.** A run past the gate is of a commit that breaks nothing (`RunsOK`), and the
tag stage is reached only right after this run's own upload (`TagFollowsUpload`);
neither property is inductive without the two. For the order of versions, with
dispatches of main only and no re-runs, `Upwards` adds that main never goes back, that
nothing newer than the running run is served, and that a run waits only for one that is
not newer.

**Tree.** The library's induction theorems take an operator and cannot be used here, so
induction over lengths is over a set: the lengths for which a claim holds, whose
complement would have a least element (`Least`, from the theorem on well-founded
minima). The code's recursions are recursive functions, that is, chosen ones, and each
must first be shown to exist (`DoublingExists`, `MthExists`, `LevelsExist`): a function
that is right below an argument is extended to it. Then `SplitFacts` and `SplitIsUnique`
say that the loop stops at the one power of two between n/2 and n. *Binding*: two heads
of slices are equal only if the slices are, by strong induction on their length
(`HeadBinds`); a leaf is no node, so the lengths need not be known to agree.
*Construction*: `NodeAt(p, i)` is the head of the i-th group of p leaves, the last group
cut short; every level of the pairing is a row of these for a power p (`PairLevel`),
because two neighbours are exactly what the split makes of their union. *Append*: the
split point of n + 1 is that of n, or n itself when n is a power of two.

**Codes.** `Stages` says that the first stage of a call that fails decides: container,
checkpoint, rebuild. `DefectCodes` takes the vectors by the stage they are meant for; a
vector for a later stage needs that the earlier ones pass it (`ConformantPasses`,
`SealedParts`), and that is what a test of one vector never isolates. For
`SealedFaultCodes` `IInv` does not suffice: it knows where signatures come from but not
how many faults a signer makes, so `HeadersInv` adds that the header of every sealed
record is the honest one or has exactly one fault. The proof found the property stated
too strongly: a signer whose key is published under the empty id, and a foreign key id
together with a second fault, get other codes than those claimed, and the property now
says so (`h.kid # EmptyId`, and the whole header in the clause on unknown keys).
`SameCodes` is about any number of defects: `RefusalCodes` gives one chain, `Refusal`,
and shows of each client that it refuses a plain record with the code of that chain, so
that they agree on what comes first.

**Command lines.**  A tool that gets as far as a verdict asked its client about the
same key as the others did, or is the only one to get so far.

**Suite.**  A tree is released only by `Release`, which asks for `Gate(main)`; so the
released tree is green, and the two properties follow from `Gate` alone, by finite
reasoning about manifests: every file on disk is claimed under its listed name
(`OnDisk`), by one entry (distinct names of claims), which the client tests and the
registry check then bind to its code.  Here no strengthening of the histories of
proposals is needed: that is what gating the release again buys.  `FreshMerges` needs
one, that what was checked green with a main is green merged with that main.
`Order` relates two trees that differ in that both manifests are turned around (`Twin`, a symmetric
relation, so that one direction suffices) and shows predicate by predicate that a
green tree has a green twin: claims move to the opposite place (`TwinClaims`), and the
bijection between a registry entry and the vectors it lists is composed with the one
between the places (`TwinIds`).  It needs that main and every open proposal are trees whose
manifests are lists (`TreesInv`, an invariant since a merge takes each manifest whole
from one side), and two facts that the gate itself provides: the CDDL check and the
clients read the first file of an entry, which the schema makes the only one.

**Drift.**  Every verdict is that of the two copies that the run holds; for
`AlarmIsReal` the invariant says of each run that if the copies in its hands differ,
then the heads differed at some moment since it started.

**Only model-checked.**  Liveness: `HeadIsServed` and `DriftIsReported` (fairness and
ENABLED are outside the prover).  Every other property of a passing run is a theorem.

## 6. What is not modelled

* Bytes: CBOR heads, the domain tag and length in a leaf, the Sig_structure.  The
  models keep what the checks distinguish, and the vectors pin the bytes.  Not told apart within
  the COSE structure are encodings that one decoder may read in a way of its own: CBOR tags
  around values, labels in floats, strings of indefinite length.
* Cryptography: hashes are collision-free, signatures unforgeable.  A 32-byte key
  that is no point of the curve is like any key that verifies nothing; only the
  Rust client names it (`sign.bad_key`).
* The producer is in another repository and is modelled as the verifiers rely on
  it (marked external in the map), as are storage and transport, GitHub's queue
  and re-runs, and the registry.
* The event envelope, the standalone proofs, governance and ground truth: no code
  here decodes them.
* The surface check: requests and a report, no state and nothing to compare it with
  but the network.
* The cddl tool and the JSON Schema library: which contents match which type is a
  constant, and of the schema the models keep what it says of verdicts, kinds,
  artifacts and the two shapes of entries.
* The unit tests of the clients, linters, formatting and toolchains.
* Which version the Python package's two files carry: nothing in the repository
  compares them, so there is no code to model.

## 7. Plan

Done, in this order: the tree; wire format and the three clients; the system with
its history; the abstract promise and the refinement; the release pipeline; the
gate, its three kinds of checks and the proposals around it; the drift of the two
copies; the command lines; the proofs of each.

Next:

1. `Wire`: keys that are no point of the curve, tags and floats within the headers.
2. `Release` and `Suite` composed: the release's gate job deciding on a tree, so that
   a version bump is a change of surfaces and not a number.
3. Proofs: the safety that the liveness of `Release` rests on (a run of the
   head that is not cancelled is never refused for good).
