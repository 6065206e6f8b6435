------------------------------ MODULE SuiteProofs ------------------------------
(***************************************************************************)
(* What the gate makes of a tree, and what merges and releases keep of it,  *)
(* for every tree, every commit and any number of authors.                 *)
(***************************************************************************)
EXTENDS Suite, TLAPS

\* What a green gate says of one tree: the body of ReleasedDemands.
Demands(t) ==
  \A f \in File : t[<<"file", "crypto", f>>] # Absent =>
    \E v \in Vectors(t, "crypto") :
      /\ {w \in Vectors(t, "crypto") : NameOf[f] \in Range(Artifacts(w))} = {v}
      /\ v \in Supported(t) =>
           \A client \in Client :
             Judged[client][t[<<"file", "crypto", f>>]] = Expected(t, v)
      /\ v.expect = "reject" =>
           /\ t[<<"mention", v.code>>]
           /\ v.id \in Range(t[<<"code", v.code>>].pinned_by)

\* A place where the manifest names a file belongs to one of its entries.
LEMMA ClaimOfEntry ==
  ASSUME NEW t, NEW s, NEW v \in Vectors(t, s), NEW path \in Range(Artifacts(v))
  PROVE  \E c \in Claims(t, s) : Entries(t, s)[c[1]] = v /\ Named(t, s, c) = path
<1>1. PICK i \in DOMAIN Entries(t, s) : Entries(t, s)[i] = v
  BY DEF Vectors, Range
<1>2. PICK k \in DOMAIN Artifacts(v) : Artifacts(v)[k] = path
  BY DEF Range
<1> DEFINE c == <<i, k>>
<1>3. c \in Claims(t, s) /\ c[1] = i /\ c[2] = k
  BY <1>1, <1>2 DEF Claims
<1> HIDE DEF c
<1> QED
  BY <1>1, <1>2, <1>3 DEF Named

\* And each such place names a file of an entry.
LEMMA EntryOfClaim ==
  ASSUME NEW t, NEW s, NEW c \in Claims(t, s)
  PROVE  /\ Entries(t, s)[c[1]] \in Vectors(t, s)
         /\ Named(t, s, c) \in Range(Artifacts(Entries(t, s)[c[1]]))
<1>1. PICK i \in DOMAIN Entries(t, s) : c \in {<<i, k>> : k \in DOMAIN Artifacts(Entries(t, s)[i])}
  BY DEF Claims
<1>2. PICK k \in DOMAIN Artifacts(Entries(t, s)[i]) : c = <<i, k>>
  BY <1>1
<1>3. c[1] = i /\ c[2] = k
  BY <1>2
<1> QED
  BY <1>1, <1>2, <1>3 DEF Vectors, Named, Range

\* No two entries of a checked manifest name one file alike.
LEMMA OneClaimant ==
  ASSUME NEW t, NEW s, SuiteOK(t, s), NEW v \in Vectors(t, s), NEW w \in Vectors(t, s),
         NEW path \in Range(Artifacts(v)), path \in Range(Artifacts(w))
  PROVE  v = w
<1>1. PICK c \in Claims(t, s) : Entries(t, s)[c[1]] = v /\ Named(t, s, c) = path
  BY ClaimOfEntry
<1>2. PICK d \in Claims(t, s) : Entries(t, s)[d[1]] = w /\ Named(t, s, d) = path
  BY ClaimOfEntry
<1>3. c = d
  BY <1>1, <1>2 DEF SuiteOK
<1> QED
  BY <1>1, <1>2, <1>3

\* A file on disk is named by an entry.
LEMMA Claimed ==
  ASSUME NEW t, NEW s, SuiteOK(t, s), NEW f \in File, t[<<"file", s, f>>] # Absent
  PROVE  \E v \in Vectors(t, s) : NameOf[f] \in Range(Artifacts(v))
<1>1. NameOf[f] \in OnDisk(t, s)
  BY DEF OnDisk
<1>2. PICK c \in Claims(t, s) : Named(t, s, c) = NameOf[f]
  BY <1>1 DEF SuiteOK
<1> QED
  BY <1>2, EntryOfClaim

\* A supported entry names one file, and each client answers to it as pinned.
LEMMA ClientsAnswer ==
  ASSUME NEW t, SchemaOK(t), HasManifest(t, "crypto"), NEW client \in Client,
         TestClient(t, client), NEW v \in Supported(t), NEW f \in File,
         NameOf[f] \in Range(Artifacts(v))
  PROVE  Judged[client][t[<<"file", "crypto", f>>]] = Expected(t, v)
<1>1. v \in Vectors(t, "crypto") /\ v.kind # None /\ v.files # None
  BY DEF Supported, TestClient
<1>2. PICK path \in Path : v.files = <<path>>
  BY <1>1 DEF SchemaOK, Suites
<1>3. v.files[1] = path /\ Range(Artifacts(v)) = {path}
  BY <1>1, <1>2 DEF Artifacts, Range
<1>4. NameOf[f] = path /\ FileOf[path] = f
  BY <1>3, SuiteAssumption
<1> QED
  BY <1>3, <1>4 DEF TestClient

\* A vector that pins a code is among those the registry's entry lists.
LEMMA RegistryLists ==
  ASSUME NEW t, RegistryOK(t), NEW s \in Suites, NEW v \in Vectors(t, s), v.code # None
  PROVE  v.id \in Range(t[<<"code", v.code>>].pinned_by)
<1> DEFINE ids == t[<<"code", v.code>>].pinned_by
<1>1. PICK i \in DOMAIN Entries(t, s) : Entries(t, s)[i] = v
  BY DEF Vectors, Range
<1> DEFINE x == <<s, i, v>>
<1>2. x \in Listed(t) /\ x[3] = v
  BY <1>1 DEF Listed
<1> HIDE DEF x
<1>3. x \in Pinning(t, v.code) /\ v.code \in PinnedCodes(t)
  BY <1>2 DEF Pinning, PinnedCodes
<1>4. SameIds(ids, Pinning(t, v.code))
  BY <1>3 DEF RegistryOK
<1> HIDE DEF ids
<1>5. PICK b \in Bijection(DOMAIN ids, Pinning(t, v.code)) :
        \A k \in DOMAIN ids : ids[k] = b[k][3].id
  BY <1>4 DEF SameIds
<1>6. PICK k \in DOMAIN ids : b[k] = x
  BY <1>3, <1>5 DEF Bijection, Surjection
<1>7. ids[k] = v.id
  BY <1>2, <1>5, <1>6
<1>8. v.id \in Range(ids)
  BY <1>6, <1>7 DEF Range
<1> QED
  BY <1>8 DEF ids

\* A green gate makes every crypto vector file a demand.
LEMMA GateDemands == \A t : Gate(t) => Demands(t)
<1> SUFFICES ASSUME NEW t, Gate(t), NEW f \in File, t[<<"file", "crypto", f>>] # Absent
             PROVE  \E v \in Vectors(t, "crypto") :
                      /\ {w \in Vectors(t, "crypto") : NameOf[f] \in Range(Artifacts(w))} = {v}
                      /\ v \in Supported(t) =>
                           \A client \in Client :
                             Judged[client][t[<<"file", "crypto", f>>]] = Expected(t, v)
                      /\ v.expect = "reject" =>
                           /\ t[<<"mention", v.code>>]
                           /\ v.id \in Range(t[<<"code", v.code>>].pinned_by)
  BY DEF Demands
<1>1. /\ "crypto" \in Suites
      /\ SuiteOK(t, "crypto") /\ CodesRegistered(t) /\ SchemaOK(t) /\ RegistryOK(t)
      /\ CheckCddl(t) /\ \A client \in Client : TestClient(t, client)
  BY DEF Gate, CheckSuite, Suites
<1>2. HasManifest(t, "crypto")
  BY <1>1 DEF CheckCddl
<1>3. PICK v \in Vectors(t, "crypto") : NameOf[f] \in Range(Artifacts(v))
  BY <1>1, Claimed
<1>4. \A w \in Vectors(t, "crypto") : NameOf[f] \in Range(Artifacts(w)) => w = v
  BY <1>1, <1>3, OneClaimant
<1>5. v \in Supported(t) =>
        \A client \in Client : Judged[client][t[<<"file", "crypto", f>>]] = Expected(t, v)
  BY <1>1, <1>2, <1>3, ClientsAnswer
<1>6. v.expect = "reject" =>
        t[<<"mention", v.code>>] /\ v.id \in Range(t[<<"code", v.code>>].pinned_by)
  <2> SUFFICES ASSUME v.expect = "reject"
               PROVE  t[<<"mention", v.code>>] /\ v.id \in Range(t[<<"code", v.code>>].pinned_by)
    OBVIOUS
  <2>1. v.code # None
    BY <1>1, <1>3 DEF SuiteOK, VerdictOK
  <2>2. t[<<"mention", v.code>>]
    BY <1>1, <1>3, <2>1 DEF CodesRegistered
  <2> QED
    BY <1>1, <1>3, <2>1, <2>2, RegistryLists
<1>7. {w \in Vectors(t, "crypto") : NameOf[f] \in Range(Artifacts(w))} = {v}
  BY <1>3, <1>4
<1> QED
  BY <1>3, <1>5, <1>6, <1>7
-------------------------------------------------------------------------------
\* Only a tree that the gate has passed is released, and a recorded check passed
\* on the merge of the proposal with the main it records.
ReleasedIsGreen == released # None => Gate(released)

CheckedIsGreen ==
  \A a \in Author : proposal[a].checked # None =>
    Gate(Merged(proposal[a], proposal[a].checked))

IInv == /\ DOMAIN proposal = Author
        /\ proposal = [a \in Author |-> proposal[a]]
        /\ ReleasedIsGreen /\ CheckedIsGreen

LEMMA IInvInit == Init => IInv
BY DEF Init, IInv, ReleasedIsGreen, CheckedIsGreen, NoProposal, Proposal

\* Merging looks at a proposal's base and tip only.
LEMMA MergedOf ==
  ASSUME NEW p, NEW q, NEW onto, p.base = q.base, p.tip = q.tip
  PROVE  Merged(p, onto) = Merged(q, onto)
BY DEF Merged

LEMMA IInvStep == IInv /\ [Next]_vars => IInv'
<1> SUFFICES ASSUME IInv, [Next]_vars PROVE IInv'
  OBVIOUS
<1>1. ASSUME NEW a \in Author, NEW p, proposal' = [proposal EXCEPT ![a] = p],
             p.checked # None => Gate(Merged(p, p.checked)), UNCHANGED released
      PROVE  IInv'
  <2>1. /\ DOMAIN proposal' = Author /\ proposal' = [b \in Author |-> proposal'[b]]
        /\ \A b \in Author : proposal'[b] = IF b = a THEN p ELSE proposal[b]
    BY <1>1 DEF IInv
  <2> QED
    BY <1>1, <2>1 DEF IInv, ReleasedIsGreen, CheckedIsGreen
<1>2. ASSUME NEW a \in Author, NEW change \in Changes, Commit(a, change)
      PROVE  IInv'
  <2>1. PICK base, tip : proposal' = [proposal EXCEPT ![a] = Proposal(base, tip, None)]
    BY <1>2 DEF Commit
  <2>2. Proposal(base, tip, None).checked = None
    BY DEF Proposal
  <2> QED
    BY <1>1, <1>2, <2>1, <2>2 DEF Commit
<1>3. ASSUME NEW a \in Author, Check(a)
      PROVE  IInv'
  <2> DEFINE p == proposal[a]
             q == Proposal(p.base, p.tip, IF Gate(Tested(p, main)) THEN main ELSE None)
  <2>1. proposal' = [proposal EXCEPT ![a] = q] /\ UNCHANGED released
    BY <1>3 DEF Check
  <2>2. q.base = p.base /\ q.tip = p.tip
        /\ q.checked = IF Gate(Tested(p, main)) THEN main ELSE None
    BY DEF Proposal
  <2>3. Merged(q, main) = Tested(p, main)
    BY <2>2, MergedOf DEF Tested
  <2> HIDE DEF q
  <2>4. q.checked # None => Gate(Merged(q, q.checked))
    BY <2>2, <2>3
  <2> QED
    BY <1>1, <2>1, <2>4
<1>4. ASSUME NEW a \in Author, Merge(a)
      PROVE  IInv'
  <2>1. NoProposal.checked = None
    BY DEF NoProposal, Proposal
  <2> QED
    BY <1>1, <1>4, <2>1 DEF Merge
<1>5. ASSUME Release
      PROVE  IInv'
  BY <1>5 DEF Release, IInv, ReleasedIsGreen, CheckedIsGreen
<1>6. CASE UNCHANGED vars
  BY <1>6 DEF vars, IInv, ReleasedIsGreen, CheckedIsGreen
<1> QED
  BY <1>2, <1>3, <1>4, <1>5, <1>6 DEF Next

LEMMA IInvAlways == Spec => []IInv
BY IInvInit, IInvStep, PTL DEF Spec

\* Every crypto vector file of a released tree is a demand on every client that
\* supports its kind, and backed by the registry.
THEOREM ReleaseDemands == Spec => []ReleasedDemands
<1>1. IInv => ReleasedDemands
  <2>1. Demands(released) => ReleasedDemands
    BY DEF Demands, ReleasedDemands
  <2> QED
    BY <2>1, GateDemands DEF IInv, ReleasedIsGreen, ReleasedDemands
<1> QED
  BY <1>1, IInvAlways, PTL

\* Every surface of a released tree carries one version.
THEOREM OneVersion == Spec => []ReleasedOneVersion
<1>1. ASSUME IInv, released # None
      PROVE  ReleasedOneVersion
  <2> DEFINE version == released[<<"suite_version", "crypto">>]
  <2>1. VersionsOK(released) /\ RegistryOK(released)
    BY <1>1 DEF IInv, ReleasedIsGreen, Gate, CheckSuite
  <2>2. version \in Versions(released) \ {None}
    BY <2>1 DEF VersionsOK, Versions, Suites
  <2>3. released[<<"suite_version", "structural">>] \in Versions(released) \ {None}
    BY <2>1 DEF VersionsOK, Versions, Suites
  <2>4. \A d \in Doc : released[<<"header", d>>] # Absent =>
          released[<<"header", d>>] \in Versions(released) \ {None}
    BY <2>1 DEF VersionsOK, Versions
  <2>5. released[<<"registry">>] # None => released[<<"registry">>] \in Versions(released) \ {None}
    BY <2>1 DEF RegistryOK, Versions
  <2>6. \A x, y \in Versions(released) \ {None} : x = y
    BY <2>1 DEF VersionsOK
  <2>7. \A d \in Doc : released[<<"header", d>>] = Absent => d \in Predicate
    BY <2>1 DEF VersionsOK
  <2> QED
    BY <2>2, <2>3, <2>4, <2>5, <2>6, <2>7 DEF ReleasedOneVersion
<1>2. IInv => ReleasedOneVersion
  BY <1>1 DEF ReleasedOneVersion
<1> QED
  BY <1>2, IInvAlways, PTL

\* Main only turns red by proposals that overtook each other.
THEOREM FreshMerges == Spec => FreshMergeIsGreen
<1>1. ASSUME IInv, [Next]_vars
      PROVE  [\A a \in Open : main' # main /\ proposal'[a] = NoProposal /\ proposal[a].checked = main
                => Gate(main')]_vars
  <2> SUFFICES ASSUME Next, NEW a \in Open, main' # main, proposal'[a] = NoProposal,
                      proposal[a].checked = main
               PROVE  Gate(main')
    BY <1>1
  <2>1. PICK b \in Author : Merge(b)
    BY DEF Next, Commit, Check, Release
  <2>2. a \in Author /\ proposal[a] # NoProposal
    BY DEF Open
  <2>3. a = b
    BY <1>1, <2>1, <2>2 DEF Merge, IInv
  <2> QED
    BY <1>1, <2>1, <2>2, <2>3 DEF Merge, IInv, CheckedIsGreen
<1> QED
  BY <1>1, IInvAlways, PTL DEF Spec, FreshMergeIsGreen
-------------------------------------------------------------------------------
\* Two trees that differ in the order of their manifests' entries: u lists those
\* of t from last to first.
Mirrored(m, w) ==
  /\ Len(w) = Len(m) /\ \A i \in 1 .. Len(m) : w[i] = m[Len(m) - i + 1]

Twin(t, u) ==
  /\ \A s \in Surface : s[1] # "manifest" => u[s] = t[s]
  /\ \A s \in Suites :
       /\ HasManifest(u, s) <=> HasManifest(t, s)
       /\ HasManifest(t, s) => IsManifest(t[<<"manifest", s>>]) /\ IsManifest(u[<<"manifest", s>>])
       /\ Mirrored(Entries(t, s), Entries(u, s))

\* The entry at a place of one manifest stands at the opposite place of the other.
LEMMA MirrorEntries ==
  ASSUME NEW t, NEW u, Twin(t, u), NEW s \in Suites
  PROVE  /\ Len(Entries(t, s)) \in Nat
         /\ Entries(t, s) \in Seq(Range(Entries(t, s)))
         /\ Entries(u, s) \in Seq(Range(Entries(u, s)))
         /\ DOMAIN Entries(t, s) = 1 .. Len(Entries(t, s))
         /\ DOMAIN Entries(u, s) = 1 .. Len(Entries(t, s))
         /\ \A i \in 1 .. Len(Entries(t, s)) :
              /\ Entries(u, s)[i] = Entries(t, s)[Len(Entries(t, s)) - i + 1]
              /\ Entries(t, s)[i] = Entries(u, s)[Len(Entries(t, s)) - i + 1]
<1>1. Mirrored(Entries(t, s), Entries(u, s))
  BY DEF Twin
<1>2. /\ Entries(t, s) \in Seq(Range(Entries(t, s)))
      /\ Entries(u, s) \in Seq(Range(Entries(u, s)))
  <2>1. CASE HasManifest(t, s)
    BY <2>1 DEF Twin, IsManifest, Entries
  <2>2. CASE ~HasManifest(t, s)
    <3>1. Entries(t, s) = <<>> /\ Entries(u, s) = <<>>
      BY <2>2 DEF Twin, Entries
    <3>2. <<>> \in Seq(Range(<<>>))
      OBVIOUS
    <3> QED
      BY <3>1, <3>2
  <2> QED
    BY <2>1, <2>2
<1> DEFINE m == Entries(t, s)
           w == Entries(u, s)
<1> HIDE DEF m, w
<1>3. /\ m \in Seq(Range(m)) /\ w \in Seq(Range(w)) /\ Mirrored(m, w)
  BY <1>1, <1>2 DEF m, w
<1>4. /\ Len(m) \in Nat /\ DOMAIN m = 1 .. Len(m) /\ DOMAIN w = 1 .. Len(m)
  BY <1>3 DEF Mirrored
<1>5. ASSUME NEW i \in 1 .. Len(m)
      PROVE  w[i] = m[Len(m) - i + 1] /\ m[i] = w[Len(m) - i + 1]
  <2>1. /\ Len(m) - i + 1 \in 1 .. Len(m)
        /\ Len(m) - (Len(m) - i + 1) + 1 = i
    BY <1>4
  <2> QED
    BY <1>3, <2>1 DEF Mirrored
<1> QED
  BY <1>3, <1>4, <1>5 DEF m, w

LEMMA TwinSymmetric ==
  ASSUME NEW t, NEW u, Twin(t, u)
  PROVE  Twin(u, t)
<1>1. ASSUME NEW s \in Suites
      PROVE  Mirrored(Entries(u, s), Entries(t, s))
  <2>1. Len(Entries(u, s)) = Len(Entries(t, s))
    BY DEF Twin, Mirrored
  <2> QED
    BY <2>1, MirrorEntries DEF Mirrored
<1> QED
  BY <1>1 DEF Twin

\* Both list the same vectors, and those name files and codes of the tree.
LEMMA TwinVectors ==
  ASSUME NEW t, NEW u, Twin(t, u), NEW s \in Suites
  PROVE  /\ Vectors(u, s) = Vectors(t, s)
         /\ \A v \in Vectors(t, s) : Range(Artifacts(v)) \subseteq Path /\ v.code \in Code \cup {None}
<1> DEFINE n == Len(Entries(t, s))
<1>1. /\ n \in Nat /\ DOMAIN Entries(t, s) = 1 .. n /\ DOMAIN Entries(u, s) = 1 .. n
      /\ \A i \in 1 .. n : /\ Entries(u, s)[i] = Entries(t, s)[n - i + 1]
                           /\ Entries(t, s)[i] = Entries(u, s)[n - i + 1]
  BY MirrorEntries
<1> HIDE DEF n
<1>2. \A i \in 1 .. n : n - i + 1 \in 1 .. n
  BY <1>1
<1>3. Vectors(u, s) = Vectors(t, s)
  BY <1>1, <1>2 DEF Vectors, Range
<1>4. ASSUME NEW v \in Vectors(t, s)
      PROVE  Range(Artifacts(v)) \subseteq Path /\ v.code \in Code \cup {None}
  <2>1. CASE HasManifest(t, s)
    BY <2>1, <1>4 DEF Twin, IsManifest, Vectors, Entries
  <2>2. CASE ~HasManifest(t, s)
    BY <2>2, <1>4 DEF Vectors, Entries, Range
  <2> QED
    BY <2>1, <2>2
<1> QED
  BY <1>3, <1>4

\* Everything but the manifests is the same in both.
LEMMA TwinSurfaces ==
  ASSUME NEW t, NEW u, Twin(t, u)
  PROVE  /\ \A s \in Suites, f \in File : u[<<"file", s, f>>] = t[<<"file", s, f>>]
         /\ \A s \in Suites : u[<<"suite_version", s>>] = t[<<"suite_version", s>>]
         /\ \A c \in Code : u[<<"code", c>>] = t[<<"code", c>>]
         /\ \A c \in Code : u[<<"mention", c>>] = t[<<"mention", c>>]
         /\ \A d \in Doc : u[<<"header", d>>] = t[<<"header", d>>]
         /\ u[<<"registry">>] = t[<<"registry">>]
         /\ u[<<"scope">>] = t[<<"scope">>]
         /\ u[<<"schema">>] = t[<<"schema">>]
<1>1. ASSUME NEW s \in Suites, NEW f \in File
      PROVE  u[<<"file", s, f>>] = t[<<"file", s, f>>]
  <2>1. <<"file", s, f>> \in Surface /\ <<"file", s, f>>[1] # "manifest"
    BY DEF Surface
  <2> QED
    BY <2>1 DEF Twin
<1>2. ASSUME NEW s \in Suites
      PROVE  u[<<"suite_version", s>>] = t[<<"suite_version", s>>]
  <2>1. <<"suite_version", s>> \in Surface /\ <<"suite_version", s>>[1] # "manifest"
    BY DEF Surface
  <2> QED
    BY <2>1 DEF Twin
<1>3. ASSUME NEW k \in {"code", "mention"}, NEW c \in Code
      PROVE  u[<<k, c>>] = t[<<k, c>>]
  <2>1. <<k, c>> \in Surface /\ <<k, c>>[1] # "manifest"
    BY DEF Surface
  <2> QED
    BY <2>1 DEF Twin
<1>4. ASSUME NEW d \in Doc
      PROVE  u[<<"header", d>>] = t[<<"header", d>>]
  <2>1. <<"header", d>> \in Surface /\ <<"header", d>>[1] # "manifest"
    BY DEF Surface
  <2> QED
    BY <2>1 DEF Twin
<1>5. ASSUME NEW k \in {"registry", "scope", "schema"}
      PROVE  u[<<k>>] = t[<<k>>]
  <2>1. <<k>> \in Surface /\ <<k>>[1] # "manifest"
    BY DEF Surface
  <2> QED
    BY <2>1 DEF Twin
<1> QED
  BY <1>1, <1>2, <1>3, <1>4, <1>5

LEMMA TwinFiles ==
  ASSUME NEW t, NEW u, Twin(t, u), NEW s \in Suites
  PROVE  /\ OnDisk(u, s) = OnDisk(t, s)
         /\ \A path \in Path :
              /\ u[<<"file", s, FileOf[path]>>] = t[<<"file", s, FileOf[path]>>]
              /\ HasFile(u, s, path) <=> HasFile(t, s, path)
<1>1. \A path \in Path : FileOf[path] \in File
  BY SuiteAssumption
<1>2. \A f \in File : u[<<"file", s, f>>] = t[<<"file", s, f>>]
  BY TwinSurfaces
<1> QED
  BY <1>1, <1>2 DEF OnDisk, HasFile

\* A claim of one manifest is made at the opposite place of the other.
Opposite(t, s, c) == <<Len(Entries(t, s)) - c[1] + 1, c[2]>>

LEMMA TwinClaims ==
  ASSUME NEW t, NEW u, Twin(t, u), NEW s \in Suites
  PROVE  /\ \A c \in Claims(u, s) :
              /\ Opposite(t, s, c) \in Claims(t, s)
              /\ Named(t, s, Opposite(t, s, c)) = Named(u, s, c)
         /\ \A c, d \in Claims(u, s) : Opposite(t, s, c) = Opposite(t, s, d) => c = d
<1> DEFINE n == Len(Entries(t, s))
<1>1. /\ n \in Nat /\ DOMAIN Entries(t, s) = 1 .. n /\ DOMAIN Entries(u, s) = 1 .. n
      /\ \A i \in 1 .. n : Entries(u, s)[i] = Entries(t, s)[n - i + 1]
  BY MirrorEntries
<1>2. ASSUME NEW c \in Claims(u, s)
      PROVE  /\ c = <<c[1], c[2]>> /\ c[1] \in 1 .. n
             /\ c[2] \in DOMAIN Artifacts(Entries(u, s)[c[1]])
  <2> HIDE DEF n
  <2>1. PICK i \in DOMAIN Entries(u, s) : c \in {<<i, k>> : k \in DOMAIN Artifacts(Entries(u, s)[i])}
    BY DEF Claims
  <2>2. PICK k \in DOMAIN Artifacts(Entries(u, s)[i]) : c = <<i, k>>
    BY <2>1
  <2> QED
    BY <1>1, <2>2
<1>3. ASSUME NEW c \in Claims(u, s)
      PROVE  /\ Opposite(t, s, c) \in Claims(t, s)
             /\ Named(t, s, Opposite(t, s, c)) = Named(u, s, c)
  <2> DEFINE j == n - c[1] + 1
             d == <<j, c[2]>>
  <2>1. d = Opposite(t, s, c)
    BY DEF Opposite
  <2>2. j \in 1 .. n /\ Entries(u, s)[c[1]] = Entries(t, s)[j]
    <3> HIDE DEF n
    <3> QED
      BY <1>1, <1>2
  <2>3. d[1] = j /\ d[2] = c[2]
    OBVIOUS
  <2> HIDE DEF j
  <2>4. j \in DOMAIN Entries(t, s) /\ c[2] \in DOMAIN Artifacts(Entries(t, s)[j])
    BY <1>1, <1>2, <2>2
  <2>5. d \in Claims(t, s)
    BY <2>4 DEF Claims
  <2> HIDE DEF d
  <2>6. Named(t, s, d) = Named(u, s, c)
    BY <2>2, <2>3 DEF Named
  <2> QED
    BY <2>1, <2>5, <2>6
<1>4. ASSUME NEW c \in Claims(u, s), NEW d \in Claims(u, s), Opposite(t, s, c) = Opposite(t, s, d)
      PROVE  c = d
  <2>1. n - c[1] + 1 = n - d[1] + 1 /\ c[2] = d[2]
    BY <1>4 DEF Opposite
  <2>2. c[1] \in 1 .. n /\ d[1] \in 1 .. n /\ c = <<c[1], c[2]>> /\ d = <<d[1], d[2]>>
    BY <1>2
  <2> HIDE DEF n
  <2>3. c[1] = d[1]
    BY <1>1, <2>1, <2>2
  <2> QED
    BY <2>1, <2>2, <2>3
<1> QED
  BY <1>3, <1>4

\* The conditions on one suite do not depend on the order of its entries.
LEMMA TwinSuiteOK ==
  ASSUME NEW t, NEW u, Twin(t, u), NEW s \in Suites, SuiteOK(t, s)
  PROVE  SuiteOK(u, s)
<1> DEFINE n == Len(Entries(t, s))
<1>1. /\ n \in Nat /\ DOMAIN Entries(t, s) = 1 .. n /\ DOMAIN Entries(u, s) = 1 .. n
      /\ Entries(t, s) \in Seq(Range(Entries(t, s)))
      /\ \A i \in 1 .. n : Entries(u, s)[i] = Entries(t, s)[n - i + 1]
  BY MirrorEntries
<1>2. Entries(u, s) # <<>>
  <2>1. Entries(t, s) # <<>>
    BY DEF SuiteOK
  <2>2. n # 0
    BY <1>1, <2>1
  <2>3. 1 \in DOMAIN Entries(u, s)
    BY <1>1, <2>2
  <2> QED
    BY <2>3
<1>3. ASSUME NEW i \in DOMAIN Entries(u, s), NEW j \in DOMAIN Entries(u, s), i # j
      PROVE  Entries(u, s)[i].id # Entries(u, s)[j].id
  <2> HIDE DEF n
  <2>1. /\ n - i + 1 \in DOMAIN Entries(t, s) /\ n - j + 1 \in DOMAIN Entries(t, s)
        /\ n - i + 1 # n - j + 1
    BY <1>1, <1>3
  <2>2. Entries(t, s)[n - i + 1].id # Entries(t, s)[n - j + 1].id
    BY <2>1 DEF SuiteOK
  <2> QED
    BY <1>1, <2>2
<1>4. \A v \in Vectors(u, s) : VerdictOK(v) /\ v.files # None
  BY TwinVectors DEF SuiteOK
<1>5. ASSUME NEW c \in Claims(u, s)
      PROVE  HasFile(u, s, Named(u, s, c))
  <2>1. Entries(u, s)[c[1]] \in Vectors(u, s)
        /\ Named(u, s, c) \in Range(Artifacts(Entries(u, s)[c[1]]))
    BY EntryOfClaim
  <2>2. Named(u, s, c) \in Path
    BY <2>1, TwinVectors
  <2>3. HasFile(t, s, Named(u, s, c))
    BY TwinClaims DEF SuiteOK
  <2> QED
    BY <2>2, <2>3, TwinFiles
<1>6. ASSUME NEW c \in Claims(u, s), NEW d \in Claims(u, s), c # d
      PROVE  Named(u, s, c) # Named(u, s, d)
  BY <1>6, TwinClaims DEF SuiteOK
<1>7. OnDisk(u, s) \subseteq {Named(u, s, c) : c \in Claims(u, s)}
  <2> SUFFICES ASSUME NEW path \in OnDisk(u, s)
               PROVE  \E c \in Claims(u, s) : Named(u, s, c) = path
    OBVIOUS
  <2>1. path \in OnDisk(t, s)
    BY TwinFiles
  <2>2. PICK c \in Claims(t, s) : Named(t, s, c) = path
    BY <2>1 DEF SuiteOK
  <2>3. Twin(u, t)
    BY TwinSymmetric
  <2>4. /\ Opposite(u, s, c) \in Claims(u, s)
        /\ Named(u, s, Opposite(u, s, c)) = path
    BY <2>2, <2>3, TwinClaims
  <2> QED
    BY <2>4
<1> QED
  BY <1>2, <1>3, <1>4, <1>5, <1>6, <1>7 DEF SuiteOK

LEMMA TwinCodes ==
  ASSUME NEW t, NEW u, Twin(t, u), CodesRegistered(t)
  PROVE  CodesRegistered(u)
<1> SUFFICES ASSUME NEW s \in Suites, NEW v \in Vectors(u, s), v.code # None
             PROVE  u[<<"mention", v.code>>]
  BY DEF CodesRegistered
<1>1. v \in Vectors(t, s) /\ v.code \in Code
  BY TwinVectors
<1>2. t[<<"mention", v.code>>]
  BY <1>1 DEF CodesRegistered
<1> QED
  BY <1>1, <1>2, TwinSurfaces

LEMMA TwinSchema ==
  ASSUME NEW t, NEW u, Twin(t, u), SchemaOK(t), \A s \in Suites : SuiteOK(t, s)
  PROVE  SchemaOK(u)
<1>1. u[<<"schema">>] # Absent
  BY TwinSurfaces DEF SchemaOK
<1>2. ASSUME NEW s \in Suites, HasManifest(u, s)
      PROVE  /\ u[<<"suite_version", s>>] # None /\ Entries(u, s) # <<>>
             /\ \A v \in Vectors(u, s) : VerdictOK(v) /\ v.files # None
             /\ \/ \A v \in Vectors(u, s) : v.kind = None
                \/ \A v \in Vectors(u, s) :
                     v.kind \in DOMAIN KindToRoot /\ \E path \in Path : v.files = <<path>>
  <2>1. HasManifest(t, s)
    BY <1>2 DEF Twin
  <2>2. u[<<"suite_version", s>>] # None
    BY <2>1, TwinSurfaces DEF SchemaOK
  <2>3. Entries(u, s) # <<>>
    BY TwinSuiteOK DEF SuiteOK
  <2> QED
    BY <2>1, <2>2, <2>3, TwinVectors DEF SchemaOK
<1> QED
  BY <1>1, <1>2 DEF SchemaOK

LEMMA TwinVersions ==
  ASSUME NEW t, NEW u, Twin(t, u), VersionsOK(t)
  PROVE  VersionsOK(u)
<1>1. Versions(u) = Versions(t)
  <2>1. /\ u[<<"registry">>] = t[<<"registry">>]
        /\ \A d \in Doc : u[<<"header", d>>] = t[<<"header", d>>]
        /\ \A s \in Suites : u[<<"suite_version", s>>] = t[<<"suite_version", s>>]
    BY TwinSurfaces
  <2>2. /\ {u[<<"header", d>>] : d \in Doc} = {t[<<"header", d>>] : d \in Doc}
        /\ {u[<<"suite_version", s>>] : s \in Suites} = {t[<<"suite_version", s>>] : s \in Suites}
    BY <2>1
  <2> QED
    BY <2>1, <2>2 DEF Versions
<1>2. ASSUME NEW s \in Suites
      PROVE  HasManifest(u, s) /\ u[<<"suite_version", s>>] # None
  <2>1. HasManifest(t, s) /\ t[<<"suite_version", s>>] # None
    BY DEF VersionsOK
  <2>2. u[<<"suite_version", s>>] = t[<<"suite_version", s>>]
    BY TwinSurfaces
  <2> QED
    BY <2>1, <2>2 DEF Twin
<1>3. ASSUME NEW d \in Doc
      PROVE  u[<<"header", d>>] # None /\ (d \in Predicate \/ u[<<"header", d>>] # Absent)
  <2>1. t[<<"header", d>>] # None /\ (d \in Predicate \/ t[<<"header", d>>] # Absent)
    BY DEF VersionsOK
  <2>2. u[<<"header", d>>] = t[<<"header", d>>]
    BY TwinSurfaces
  <2> QED
    BY <2>1, <2>2
<1> QED
  BY <1>1, <1>2, <1>3 DEF VersionsOK

\* A listed vector at its opposite place.
Flip(t, x) == <<x[1], Len(Entries(t, x[1])) - x[2] + 1, x[3]>>

LEMMA TwinListed ==
  ASSUME NEW t, NEW u, Twin(t, u)
  PROVE  \A x \in Listed(t) :
           /\ Flip(t, x) \in Listed(u) /\ Flip(t, x)[3] = x[3]
           /\ Flip(u, Flip(t, x)) = x
<1> SUFFICES ASSUME NEW x \in Listed(t)
             PROVE  /\ Flip(t, x) \in Listed(u) /\ Flip(t, x)[3] = x[3]
                    /\ Flip(u, Flip(t, x)) = x
  OBVIOUS
<1>1. PICK s \in Suites : x \in {<<s, i, Entries(t, s)[i]>> : i \in DOMAIN Entries(t, s)}
  BY DEF Listed
<1>2. PICK i \in DOMAIN Entries(t, s) : x = <<s, i, Entries(t, s)[i]>>
  BY <1>1
<1> DEFINE n == Len(Entries(t, s))
           v == Entries(t, s)[i]
           j == n - i + 1
<1>3. Flip(t, x) = <<s, j, v>>
  BY <1>2 DEF Flip
<1>4. Len(Entries(u, s)) = n
  BY DEF Twin, Mirrored
<1>5. Flip(u, Flip(t, x)) = <<s, n - j + 1, v>>
  BY <1>3, <1>4 DEF Flip
<1>6. /\ n \in Nat /\ DOMAIN Entries(t, s) = 1 .. n /\ DOMAIN Entries(u, s) = 1 .. n
      /\ \A k \in 1 .. n : Entries(t, s)[k] = Entries(u, s)[n - k + 1]
  BY MirrorEntries
<1> HIDE DEF n
<1>7. n - j + 1 = i /\ j \in 1 .. n /\ v = Entries(u, s)[j]
  BY <1>6
<1> HIDE DEF j, v
<1>8. <<s, j, v>> \in Listed(u)
  BY <1>6, <1>7 DEF Listed
<1>9. x = <<s, i, v>>
  BY <1>2 DEF v
<1> QED
  BY <1>3, <1>5, <1>7, <1>8, <1>9

\* A registry entry that lists the vectors of one order lists those of the other.
LEMMA TwinIds ==
  ASSUME NEW t, NEW u, Twin(t, u), NEW code, NEW ids, SameIds(ids, Pinning(t, code))
  PROVE  SameIds(ids, Pinning(u, code))
<1>1. PICK b \in Bijection(DOMAIN ids, Pinning(t, code)) :
        \A k \in DOMAIN ids : ids[k] = b[k][3].id
  BY DEF SameIds
<1>2. /\ b \in [DOMAIN ids -> Pinning(t, code)]
      /\ \A k, l \in DOMAIN ids : b[k] = b[l] => k = l
      /\ \A x \in Pinning(t, code) : \E k \in DOMAIN ids : b[k] = x
  BY DEF Bijection, Injection, Surjection, IsInjective
<1>3. Twin(u, t)
  BY TwinSymmetric
<1>4. /\ \A x \in Pinning(t, code) :
           Flip(t, x) \in Pinning(u, code) /\ Flip(t, x)[3] = x[3] /\ Flip(u, Flip(t, x)) = x
      /\ \A x \in Pinning(u, code) :
           Flip(u, x) \in Pinning(t, code) /\ Flip(t, Flip(u, x)) = x
  BY <1>3, TwinListed DEF Pinning
<1> DEFINE c == [k \in DOMAIN ids |-> Flip(t, b[k])]
<1>5. c \in [DOMAIN ids -> Pinning(u, code)]
  BY <1>2, <1>4
<1>6. \A k, l \in DOMAIN ids : c[k] = c[l] => k = l
  <2> SUFFICES ASSUME NEW k \in DOMAIN ids, NEW l \in DOMAIN ids, c[k] = c[l] PROVE k = l
    OBVIOUS
  <2>1. Flip(u, Flip(t, b[k])) = Flip(u, Flip(t, b[l]))
    OBVIOUS
  <2>2. b[k] \in Pinning(t, code) /\ b[l] \in Pinning(t, code)
    BY <1>2
  <2>3. b[k] = b[l]
    BY <1>4, <2>1, <2>2
  <2> QED
    BY <1>2, <2>3
<1>7. ASSUME NEW x \in Pinning(u, code)
      PROVE  \E k \in DOMAIN ids : c[k] = x
  <2>1. PICK k \in DOMAIN ids : b[k] = Flip(u, x)
    BY <1>2, <1>4
  <2>2. c[k] = x
    BY <1>4, <2>1
  <2> QED
    BY <2>2
<1>8. \A k \in DOMAIN ids : ids[k] = c[k][3].id
  BY <1>1, <1>2, <1>4
<1> HIDE DEF c
<1>9. c \in Bijection(DOMAIN ids, Pinning(u, code))
  BY <1>5, <1>6, <1>7 DEF Bijection, Injection, Surjection, IsInjective
<1> QED
  BY <1>8, <1>9 DEF SameIds

LEMMA TwinRegistry ==
  ASSUME NEW t, NEW u, Twin(t, u), RegistryOK(t)
  PROVE  RegistryOK(u)
<1>1. Twin(u, t)
  BY TwinSymmetric
<1>2. u[<<"registry">>] # Absent
  BY TwinSurfaces DEF RegistryOK
<1>3. ASSUME NEW code \in PinnedCodes(u)
      PROVE  /\ u[<<"code", code>>] # Absent /\ u[<<"code", code>>].status = "pinned"
             /\ SameIds(u[<<"code", code>>].pinned_by, Pinning(u, code))
  <2>1. code # None /\ \E x \in Listed(u) : x[3].code = code
    BY DEF PinnedCodes
  <2>2. PICK x \in Listed(t) : x[3].code = code
    BY <1>1, <2>1, TwinListed
  <2>3. code \in PinnedCodes(t)
    BY <2>1, <2>2 DEF PinnedCodes
  <2>4. PICK s \in Suites : x \in {<<s, i, Entries(t, s)[i]>> : i \in DOMAIN Entries(t, s)}
    BY DEF Listed
  <2>5. x[3] \in Vectors(t, s)
    BY <2>4 DEF Vectors, Range
  <2>6. code \in Code
    BY <2>1, <2>2, <2>5, TwinVectors
  <2>7. u[<<"code", code>>] = t[<<"code", code>>]
    BY <2>6, TwinSurfaces
  <2>8. /\ t[<<"code", code>>] # Absent /\ t[<<"code", code>>].status = "pinned"
        /\ SameIds(t[<<"code", code>>].pinned_by, Pinning(t, code))
    BY <2>3 DEF RegistryOK
  <2> QED
    BY <2>7, <2>8, TwinIds
<1>4. ASSUME NEW code \in Code, u[<<"code", code>>] # Absent
      PROVE  LET entry == u[<<"code", code>>]
             IN  /\ u[<<"mention", code>>]
                 /\ entry.status = "pinned" => entry.pinned_by # <<>>
                 /\ entry.status \in {"pinned", "operational", "producer", "deferred"}
  BY <1>4, TwinSurfaces DEF RegistryOK
<1> QED
  BY <1>2, <1>3, <1>4 DEF RegistryOK

LEMMA TwinCddl ==
  ASSUME NEW t, NEW u, Twin(t, u), CheckCddl(t), SchemaOK(t)
  PROVE  CheckCddl(u)
<1>0. "crypto" \in Suites /\ "structural" \in Suites
  BY DEF Suites
<1>1. \A s \in Suites : HasManifest(t, s) /\ HasManifest(u, s)
  BY DEF CheckCddl, Twin
<1>2. ASSUME NEW s \in Suites, NEW path \in Path, NEW root, Validates(t, s, path, root)
      PROVE  Validates(u, s, path, root)
  BY <1>2, TwinFiles DEF Validates
<1>3. ASSUME NEW v \in Vectors(u, "crypto"), v.expect = "accept"
      PROVE  /\ v.kind \in DOMAIN KindToRoot /\ v.files # None
             /\ Validates(u, "crypto", v.files[1], KindToRoot[v.kind])
  <2>1. v \in Vectors(t, "crypto")
    BY <1>0, TwinVectors
  <2>2. /\ v.kind \in DOMAIN KindToRoot /\ v.files # None
        /\ Validates(t, "crypto", v.files[1], KindToRoot[v.kind])
    BY <1>3, <2>1 DEF CheckCddl
  <2>3. v.kind # None
    BY <2>2, ManifestAssumption
  <2>4. PICK path \in Path : v.files = <<path>>
    BY <1>0, <1>1, <2>1, <2>3 DEF SchemaOK
  <2>5. v.files[1] \in Path
    BY <2>4
  <2> QED
    BY <1>0, <1>2, <2>2, <2>5
<1>4. ASSUME NEW v \in Vectors(u, "structural"), v.expect = "accept"
      PROVE  /\ v.kind = None /\ v.files # None
             /\ \A path \in Range(v.files) : Validates(u, "structural", path, "event")
  <2>1. v \in Vectors(t, "structural") /\ Range(Artifacts(v)) \subseteq Path
    BY <1>0, TwinVectors
  <2>2. /\ v.kind = None /\ v.files # None
        /\ \A path \in Range(v.files) : Validates(t, "structural", path, "event")
    BY <1>4, <2>1 DEF CheckCddl
  <2>3. Range(v.files) \subseteq Path
    BY <2>1, <2>2 DEF Artifacts
  <2> QED
    BY <1>0, <1>2, <2>2, <2>3
<1> QED
  BY <1>1, <1>3, <1>4 DEF CheckCddl

LEMMA TwinTest ==
  ASSUME NEW t, NEW u, Twin(t, u), SchemaOK(t), NEW client \in Client, TestClient(t, client)
  PROVE  TestClient(u, client)
<1>0. "crypto" \in Suites
  BY DEF Suites
<1>1. CASE ~HasManifest(t, "crypto") /\ OnDisk(t, "crypto") = {}
  BY <1>0, <1>1, TwinFiles DEF TestClient, Twin
<1>2. CASE /\ HasManifest(t, "crypto") /\ Supported(t) # {}
           /\ \A v \in Vectors(t, "crypto") :
                v.kind # None /\ v.kind \in t[<<"scope">>].supported \cup t[<<"scope">>].unsupported
           /\ \A v \in Supported(t) :
                /\ v.files # None /\ HasFile(t, "crypto", v.files[1])
                /\ Judged[client][t[<<"file", "crypto", FileOf[v.files[1]]>>]] = Expected(t, v)
  <2>1. HasManifest(u, "crypto")
    BY <1>0, <1>2 DEF Twin
  <2>2. Vectors(u, "crypto") = Vectors(t, "crypto") /\ u[<<"scope">>] = t[<<"scope">>]
    BY <1>0, TwinVectors, TwinSurfaces
  <2>3. Supported(u) = Supported(t) /\ \A v : Expected(u, v) = Expected(t, v)
    BY <2>2 DEF Supported, Expected
  <2>4. ASSUME NEW v \in Supported(t)
        PROVE  v.files[1] \in Path
    <3>1. v \in Vectors(t, "crypto") /\ v.kind # None
      BY <1>2 DEF Supported
    <3>2. PICK path \in Path : v.files = <<path>>
      BY <1>0, <1>2, <3>1 DEF SchemaOK
    <3> QED
      BY <3>2
  <2>5. ASSUME NEW v \in Supported(u)
        PROVE  /\ v.files # None /\ HasFile(u, "crypto", v.files[1])
               /\ Judged[client][u[<<"file", "crypto", FileOf[v.files[1]]>>]] = Expected(u, v)
    <3>1. v \in Supported(t) /\ v.files[1] \in Path
      BY <2>3, <2>4
    <3>2. /\ u[<<"file", "crypto", FileOf[v.files[1]]>>] = t[<<"file", "crypto", FileOf[v.files[1]]>>]
          /\ HasFile(u, "crypto", v.files[1]) <=> HasFile(t, "crypto", v.files[1])
      BY <1>0, <3>1, TwinFiles
    <3> QED
      BY <1>2, <2>3, <3>1, <3>2
  <2>6. \A v \in Vectors(u, "crypto") :
          v.kind # None /\ v.kind \in u[<<"scope">>].supported \cup u[<<"scope">>].unsupported
    BY <1>2, <2>2
  <2> QED
    BY <1>2, <2>1, <2>3, <2>5, <2>6 DEF TestClient
<1> QED
  BY <1>1, <1>2 DEF TestClient

LEMMA TwinGate ==
  ASSUME NEW t, NEW u, Twin(t, u), Gate(t)
  PROVE  Gate(u)
<1>1. /\ \A s \in Suites : SuiteOK(t, s)
      /\ CodesRegistered(t) /\ SchemaOK(t) /\ RegistryOK(t) /\ VersionsOK(t)
      /\ CheckCddl(t) /\ \A client \in Client : TestClient(t, client)
  BY DEF Gate, CheckSuite
<1>2. \A s \in Suites : SuiteOK(u, s)
  BY <1>1, TwinSuiteOK
<1>3. CodesRegistered(u) /\ SchemaOK(u) /\ RegistryOK(u) /\ VersionsOK(u) /\ CheckCddl(u)
  BY <1>1, TwinCodes, TwinSchema, TwinRegistry, TwinVersions, TwinCddl
<1>4. \A client \in Client : TestClient(u, client)
  BY <1>1, TwinTest
<1> QED
  BY <1>2, <1>3, <1>4 DEF Gate, CheckSuite
-------------------------------------------------------------------------------
\* The trees that main and proposals hold: every manifest is Absent or a list.
WellFormed(t) ==
  \A s \in {"manifest"} \X Suites : t[s] # Absent => IsManifest(t[s])

\* Reversing the manifests of such a tree makes its twin.
LEMMA ReorderedIsTwin ==
  ASSUME NEW t, WellFormed(t)
  PROVE  Twin(t, Reordered(t))
<1> DEFINE u == Reordered(t)
<1>1. \A s \in Surface : s[1] # "manifest" => u[s] = t[s]
  BY DEF Reordered
<1>2. ASSUME NEW s \in Suites
      PROVE  /\ HasManifest(u, s) <=> HasManifest(t, s)
             /\ HasManifest(t, s) =>
                  IsManifest(t[<<"manifest", s>>]) /\ IsManifest(u[<<"manifest", s>>])
             /\ Mirrored(Entries(t, s), Entries(u, s))
  <2> DEFINE m == t[<<"manifest", s>>]
  <2>1. <<"manifest", s>> \in Surface /\ <<"manifest", s>>[1] = "manifest"
        /\ <<"manifest", s>> \in {"manifest"} \X Suites
    BY DEF Surface
  <2>2. u[<<"manifest", s>>] = IF m # Absent THEN Reverse(m) ELSE m
    BY <2>1 DEF Reordered
  <2>3. m # Absent => IsManifest(m)
    BY <2>1 DEF WellFormed
  <2>4. CASE m = Absent
    BY <2>2, <2>4 DEF HasManifest, Entries, Mirrored
  <2>5. CASE m # Absent
    <3> DEFINE w == Reverse(m)
               n == Len(m)
    <3> HIDE DEF m, n
    <3>1. /\ m \in Seq(Range(m)) /\ w # Absent
          /\ \A v \in Range(m) : Range(Artifacts(v)) \subseteq Path /\ v.code \in Code \cup {None}
      BY <2>3, <2>5 DEF IsManifest
    <3>2. n \in Nat /\ DOMAIN m = 1 .. n /\ m = [i \in 1 .. n |-> m[i]]
      BY <3>1 DEF n
    <3>3. w = [i \in 1 .. n |-> m[n - i + 1]]
      BY DEF Reverse, n
    <3> HIDE DEF w
    <3>4. \A i \in 1 .. n : n - i + 1 \in 1 .. n /\ n - (n - i + 1) + 1 = i
      BY <3>2
    <3>5. Range(w) = Range(m)
      <4>1. Range(w) \subseteq Range(m)
        BY <3>2, <3>3, <3>4 DEF Range
      <4>2. ASSUME NEW i \in 1 .. n
            PROVE  m[i] \in Range(w)
        <5>1. n - i + 1 \in DOMAIN w /\ w[n - i + 1] = m[i]
          BY <3>3, <3>4
        <5> QED
          BY <5>1 DEF Range
      <4> QED
        BY <3>2, <4>1, <4>2 DEF Range
    <3>6. w \in Seq(Range(w)) /\ Len(w) = n
      <4>1. w \in [1 .. n -> Range(w)]
        BY <3>3 DEF Range
      <4> QED
        BY <3>2, <4>1
    <3>7. Reverse(w) = m
      <4>1. Reverse(w) = [i \in 1 .. n |-> w[n - i + 1]]
        BY <3>6 DEF Reverse
      <4>2. \A i \in 1 .. n : w[n - i + 1] = m[i]
        BY <3>3, <3>4
      <4> QED
        BY <3>2, <4>1, <4>2
    <3>8. IsManifest(w)
      BY <2>5, <3>1, <3>5, <3>6, <3>7 DEF IsManifest
    <3>9. Mirrored(m, w)
      BY <3>3, <3>6 DEF Mirrored, n
    <3>10. t[<<"manifest", s>>] = m /\ u[<<"manifest", s>>] = w
      BY <2>2, <2>5 DEF m, w
    <3> QED
      BY <2>3, <2>5, <3>1, <3>8, <3>9, <3>10 DEF HasManifest, Entries
  <2> QED
    BY <2>4, <2>5
<1> QED
  BY <1>1, <1>2 DEF Twin

\* Turning the manifests around does not change the gate's answer.
LEMMA GateIgnoresOrder ==
  ASSUME NEW t, WellFormed(t)
  PROVE  Gate(Reordered(t)) <=> Gate(t)
<1>1. Twin(t, Reordered(t)) /\ Twin(Reordered(t), t)
  BY ReorderedIsTwin, TwinSymmetric
<1> QED
  BY <1>1, TwinGate

\* Commits and merges only ever make such trees.
TreesInv ==
  /\ proposal = [a \in Author |-> proposal[a]]
  /\ WellFormed(main)
  /\ \A a \in Open : WellFormed(proposal[a].base) /\ WellFormed(proposal[a].tip)

LEMMA ManifestIsSurface == {"manifest"} \X Suites \subseteq Surface
BY DEF Surface

LEMMA MergedWellFormed ==
  ASSUME NEW p, NEW onto, WellFormed(p.tip), WellFormed(onto)
  PROVE  WellFormed(Merged(p, onto))
BY ManifestIsSurface DEF WellFormed, Merged

LEMMA TreesInvStep == TreesInv /\ [Next]_vars => TreesInv'
<1> SUFFICES ASSUME TreesInv, [Next]_vars PROVE TreesInv'
  OBVIOUS
<1>1. ASSUME NEW a \in Author, NEW p, proposal' = [proposal EXCEPT ![a] = p], WellFormed(main'),
             p # NoProposal => WellFormed(p.base) /\ WellFormed(p.tip)
      PROVE  TreesInv'
  <2>1. /\ proposal' = [b \in Author |-> proposal'[b]]
        /\ \A b \in Author : proposal'[b] = IF b = a THEN p ELSE proposal[b]
    BY <1>1 DEF TreesInv
  <2> QED
    BY <1>1, <2>1 DEF TreesInv, Open
<1>2. ASSUME NEW a \in Author, NEW change \in Changes, Commit(a, change)
      PROVE  TreesInv'
  <2> DEFINE base == IF a \in Open THEN proposal[a].base ELSE main
             last == IF a \in Open THEN proposal[a].tip ELSE main
             tip == [s \in Surface |-> IF s \in DOMAIN change THEN change[s] ELSE last[s]]
             p == Proposal(base, tip, None)
  <2>1. WellFormed(base) /\ WellFormed(last)
    BY DEF TreesInv
  <2>2. proposal' = [proposal EXCEPT ![a] = p] /\ main' = main
    BY <1>2 DEF Commit
  <2> HIDE DEF base, last
  <2>3. WellFormed(tip)
    BY <2>1, ManifestIsSurface, ManifestAssumption DEF WellFormed
  <2> HIDE DEF tip
  <2>4. p.base = base /\ p.tip = tip
    BY DEF Proposal
  <2> HIDE DEF p
  <2>5. WellFormed(main')
    BY <2>2 DEF TreesInv
  <2> QED
    BY <1>1, <2>1, <2>2, <2>3, <2>4, <2>5
<1>3. ASSUME NEW a \in Author, Check(a)
      PROVE  TreesInv'
  <2> DEFINE p == proposal[a]
             q == Proposal(p.base, p.tip, IF Gate(Tested(p, main)) THEN main ELSE None)
  <2>1. proposal' = [proposal EXCEPT ![a] = q] /\ main' = main /\ a \in Open
    BY <1>3 DEF Check
  <2>2. q.base = p.base /\ q.tip = p.tip
    BY DEF Proposal
  <2> HIDE DEF q
  <2>3. WellFormed(main')
    BY <2>1 DEF TreesInv
  <2>4. WellFormed(q.base) /\ WellFormed(q.tip)
    BY <2>1, <2>2 DEF TreesInv
  <2> QED
    BY <1>1, <2>1, <2>3, <2>4
<1>4. ASSUME NEW a \in Author, Merge(a)
      PROVE  TreesInv'
  <2>1. WellFormed(proposal[a].tip) /\ WellFormed(main)
    BY <1>4 DEF Merge, TreesInv
  <2>2. WellFormed(main')
    BY <1>4, <2>1, MergedWellFormed DEF Merge
  <2> QED
    BY <1>1, <1>4, <2>2 DEF Merge
<1>5. ASSUME Release \/ UNCHANGED vars
      PROVE  TreesInv'
  BY <1>5 DEF Release, vars, TreesInv, Open
<1> QED
  BY <1>2, <1>3, <1>4, <1>5 DEF Next

\* The gate answers the same to a proposal when both its manifests are turned around.
THEOREM Order == Spec => []OrderIsIrrelevant
<1>1. Init => TreesInv
  BY ManifestAssumption DEF Init, TreesInv, WellFormed, Open
<1>2. TreesInv => OrderIsIrrelevant
  BY GateIgnoresOrder DEF TreesInv, OrderIsIrrelevant
<1> QED
  BY <1>1, <1>2, TreesInvStep, PTL DEF Spec
===============================================================================
