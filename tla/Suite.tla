--------------------------------- MODULE Suite ---------------------------------
(***************************************************************************)
(* The conformance gate and the tree it judges: scripts/check_suite.py,    *)
(* scripts/check_cddl.py and the clients' conformance tests, run on the    *)
(* merge of every proposal with main and again before a release.  A tree   *)
(* is a function from surfaces, the parts that a merge treats apart, to    *)
(* their contents.  A vector file is told apart only by what the clients   *)
(* answer to it and which CDDL types it matches.                           *)
(***************************************************************************)
EXTENDS Naturals, SequencesExt

CONSTANTS
  File,       \* vector files a suite can have
  Path,       \* spellings the schema admits for a file's name
  FileOf,     \* the file each spelling names
  NameOf,     \* the spelling a directory listing gives each file
  Client,     \* the clients
  Judged,     \* the answer of each client to each content: "ok" or a code
  Matches,    \* pairs of a content and a CDDL type it matches
  Code,       \* failure codes
  Doc,        \* documents with a version header, and CITATION.cff
  Predicate,  \* those of them that are globbed for, the others being read by name
  Absent,     \* no such file
  None,       \* no such field
  First,      \* the tree that main starts from
  Changes,    \* what a commit can do: new contents of some surfaces
  Author,     \* authors of proposals
  MaxCommits  \* bound: commits to proposals

\* A directory lists a file under a name of that file.
ASSUME SuiteAssumption ==
  /\ Predicate \subseteq Doc
  /\ NameOf \in [File -> Path] /\ FileOf \in [Path -> File]
  /\ \A f \in File : FileOf[NameOf[f]] = f

Suites == {"structural", "crypto"}

\* KIND_TO_ROOT, whose kinds are those of the schema.
KindToRoot ==
  [checkpoint |-> "signed-checkpoint", run |-> "sealed-run", governance |-> "sealed-run",
   ground_truth |-> "sealed-run", event_proof |-> "event-proof",
   consistency |-> "consistency-proof"]

Surface ==
       ({"file"} \X Suites \X File)
  \cup ({"manifest", "suite_version"} \X Suites)
  \cup ({"code", "mention"} \X Code)
  \cup ({"header"} \X Doc)
  \cup {<<"registry">>, <<"scope">>, <<"schema">>}

VARIABLES
  main,      \* the tree at the head of main
  proposal,  \* each author's open proposal: its base, its tip, the main it was checked with
  commits,   \* commits made to proposals so far
  released   \* the tree released last

vars == <<main, proposal, commits, released>>
-------------------------------------------------------------------------------
(* scripts/check_suite.py.  Each predicate holds when its function records  *)
(* no failure.                                                             *)

\* A manifest, registry.json or predicate that is Absent, and a header or
\* version that is None, are found as such by the functions that read them.
HasManifest(t, s) == t[<<"manifest", s>>] # Absent
Entries(t, s) == IF HasManifest(t, s) THEN t[<<"manifest", s>>] ELSE <<>>
Vectors(t, s) == Range(Entries(t, s))
HasFile(t, s, path) == t[<<"file", s, FileOf[path]>>] # Absent

Artifacts(v) == IF v.files = None THEN <<>> ELSE v.files

\* Every place where a manifest names a file.
Claims(t, s) ==
  UNION {{<<i, k>> : k \in DOMAIN Artifacts(Entries(t, s)[i])} : i \in DOMAIN Entries(t, s)}
Named(t, s, c) == Artifacts(Entries(t, s)[c[1]])[c[2]]

\* Mutant of OnDisk: glob for rglob, and every vector is in a subdirectory.
OnDiskShallow(t, s) == {}

OnDisk(t, s) == {NameOf[f] : f \in {g \in File : t[<<"file", s, g>>] # Absent}}

\* What the constants can make a manifest: a list, whose reverse is one too, of
\* entries that name files by admitted spellings and pin codes there are.
IsManifest(m) ==
  /\ m \in Seq(Range(m)) /\ Reverse(m) # Absent
  /\ \A v \in Range(m) : Range(Artifacts(v)) \subseteq Path /\ v.code \in Code \cup {None}

\* Every manifest is Absent or a list; a kind that is not given is no kind.
ASSUME ManifestAssumption ==
  /\ None \notin DOMAIN KindToRoot
  /\ \A s \in {"manifest"} \X Suites :
       /\ First[s] # Absent => IsManifest(First[s])
       /\ \A change \in Changes :
            s \in DOMAIN change /\ change[s] # Absent => IsManifest(change[s])

\* What the script and the schema both say of expect and failure_code.
VerdictOK(v) ==
  /\ v.expect \in {"accept", "reject"}
  /\ v.expect = "reject" <=> v.code # None

SuiteOK(t, s) ==
  /\ Entries(t, s) # <<>>
  /\ \A i, j \in DOMAIN Entries(t, s) : i # j => Entries(t, s)[i].id # Entries(t, s)[j].id
  /\ \A v \in Vectors(t, s) : VerdictOK(v) /\ v.files # None
  /\ \A c \in Claims(t, s) : HasFile(t, s, Named(t, s, c))
  /\ \A c, d \in Claims(t, s) : c # d => Named(t, s, c) # Named(t, s, d)
  /\ OnDisk(t, s) \subseteq {Named(t, s, c) : c \in Claims(t, s)}

CodesRegistered(t) ==
  \A s \in Suites : \A v \in Vectors(t, s) : v.code # None => t[<<"mention", v.code>>]

\* An entry of the structural or of the crypto shape.  Nothing ties a shape to
\* the suite whose manifest has it.
SchemaOK(t) ==
  /\ t[<<"schema">>] # Absent
  /\ \A s \in Suites : HasManifest(t, s) =>
       /\ t[<<"suite_version", s>>] # None /\ Entries(t, s) # <<>>
       /\ \A v \in Vectors(t, s) : VerdictOK(v) /\ v.files # None
       /\ \/ \A v \in Vectors(t, s) : v.kind = None
          \/ \A v \in Vectors(t, s) :
               v.kind \in DOMAIN KindToRoot /\ \E path \in Path : v.files = <<path>>

\* The vectors of both manifests that pin a code, each with its place there.
Listed(t) ==
  UNION {{<<s, i, Entries(t, s)[i]>> : i \in DOMAIN Entries(t, s)} : s \in Suites}
PinnedCodes(t) == {x[3].code : x \in Listed(t)} \ {None}
Pinning(t, code) == {x \in Listed(t) : x[3].code = code}

\* Mutant of SameIds: the two lists are compared unsorted.
SameIdsUnsorted(ids, pinning) ==
  LET own == SetToSeq(pinning) IN ids = [i \in DOMAIN own |-> own[i][3].id]

\* Sorted, the two lists are equal.
SameIds(ids, pinning) ==
  \E b \in Bijection(DOMAIN ids, pinning) : \A i \in DOMAIN ids : ids[i] = b[i][3].id

RegistryOK(t) ==
  /\ t[<<"registry">>] # Absent
  /\ \A code \in PinnedCodes(t) :
       LET entry == t[<<"code", code>>]
       IN  /\ entry # Absent /\ entry.status = "pinned"
           /\ SameIds(entry.pinned_by, Pinning(t, code))
  /\ \A code \in {c \in Code : t[<<"code", c>>] # Absent} :
       LET entry == t[<<"code", code>>]
       IN  /\ t[<<"mention", code>>]
           /\ entry.status = "pinned" => entry.pinned_by # <<>>
           /\ entry.status \in {"pinned", "operational", "producer", "deferred"}

\* What each surface that exists declares; None is nothing.
Versions(t) ==
  (({t[<<"registry">>]} \cup {t[<<"header", d>>] : d \in Doc}) \ {Absent})
    \cup {t[<<"suite_version", s>>] : s \in Suites}

\* A document that is read by name and is not there ends the script.
VersionsOK(t) ==
  /\ \A d \in Doc : t[<<"header", d>>] # None /\ (d \in Predicate \/ t[<<"header", d>>] # Absent)
  /\ \A s \in Suites : HasManifest(t, s) /\ t[<<"suite_version", s>>] # None
  /\ \A x, y \in Versions(t) \ {None} : x = y

CheckSuite(t) ==
  /\ \A s \in Suites : SuiteOK(t, s)
  /\ CodesRegistered(t) /\ SchemaOK(t) /\ RegistryOK(t) /\ VersionsOK(t)
-------------------------------------------------------------------------------
(* scripts/check_cddl.py: the vectors to accept match the type that their   *)
(* kind selects, or that of an event.  A field or file it misses ends it.   *)

Validates(t, s, path, root) ==
  HasFile(t, s, path) /\ <<t[<<"file", s, FileOf[path]>>], root>> \in Matches

CheckCddl(t) ==
  /\ \A s \in Suites : HasManifest(t, s)
  /\ \A v \in Vectors(t, "crypto") : v.expect = "accept" =>
       /\ v.kind \in DOMAIN KindToRoot /\ v.files # None
       /\ Validates(t, "crypto", v.files[1], KindToRoot[v.kind])
  /\ \A v \in Vectors(t, "structural") : v.expect = "accept" =>
       /\ v.kind = None /\ v.files # None
       /\ \A path \in Range(v.files) : Validates(t, "structural", path, "event")
-------------------------------------------------------------------------------
(* The clients' conformance tests, which are skipped where there is no      *)
(* vectors/crypto directory.                                                *)

Supported(t) == {v \in Vectors(t, "crypto") : v.kind \in t[<<"scope">>].supported}

\* An answer above the integrity tier is not a client's to give.
Expected(t, v) ==
  IF v.expect = "accept" \/ v.code \in t[<<"scope">>].outside THEN "ok" ELSE v.code

TestClient(t, client) ==
  \/ ~HasManifest(t, "crypto") /\ OnDisk(t, "crypto") = {}
  \/ /\ HasManifest(t, "crypto") /\ Supported(t) # {}
     /\ \A v \in Vectors(t, "crypto") :
          v.kind # None /\ v.kind \in t[<<"scope">>].supported \cup t[<<"scope">>].unsupported
     /\ \A v \in Supported(t) :
          /\ v.files # None /\ HasFile(t, "crypto", v.files[1])
          /\ Judged[client][t[<<"file", "crypto", FileOf[v.files[1]]>>]] = Expected(t, v)
-------------------------------------------------------------------------------
(* conformance.yml: the gate, a job per check.                              *)

Gate(t) == CheckSuite(t) /\ CheckCddl(t) /\ \A client \in Client : TestClient(t, client)
-------------------------------------------------------------------------------
(* Proposals, merges and releases (ci.yml, release-*.yml).                  *)

Proposal(base, tip, checked) == [base |-> base, tip |-> tip, checked |-> checked]
NoProposal == Proposal(None, None, None)
Open == {a \in Author : proposal[a] # NoProposal}

\* A commit to a proposal, which the first one opens on the present main.  What
\* was checked before it is checked again.
Commit(a, change) ==
  /\ commits < MaxCommits /\ commits' = commits + 1
  /\ LET base == IF a \in Open THEN proposal[a].base ELSE main
         last == IF a \in Open THEN proposal[a].tip ELSE main
         tip == [s \in Surface |-> IF s \in DOMAIN change THEN change[s] ELSE last[s]]
     IN  /\ tip # last
         /\ proposal' = [proposal EXCEPT ![a] = Proposal(base, tip, None)]
  /\ UNCHANGED <<main, released>>

\* The merge of a proposal with main: of each surface the side that changed it.
Merged(p, onto) == [s \in Surface |-> IF p.tip[s] = p.base[s] THEN onto[s] ELSE p.tip[s]]
Conflict(p) ==
  \E s \in Surface : p.tip[s] # p.base[s] /\ main[s] # p.base[s] /\ p.tip[s] # main[s]

\* Mutant of Tested: the branch is checked out, and not its merge with main.
TestedBranch(p, onto) == p.tip

\* What a pull request's run checks out.
Tested(p, onto) == Merged(p, onto)

Check(a) ==
  /\ a \in Open /\ ~Conflict(proposal[a])
  /\ LET p == proposal[a]
     IN  proposal' = [proposal EXCEPT ![a] =
           Proposal(p.base, p.tip, IF Gate(Tested(p, main)) THEN main ELSE None)]
  /\ UNCHANGED <<main, commits, released>>

\* Branch protection asks for a green gate, and not for one on this main.
Merge(a) ==
  /\ a \in Open /\ proposal[a].checked # None /\ ~Conflict(proposal[a])
  /\ main' = Merged(proposal[a], main)
  /\ proposal' = [proposal EXCEPT ![a] = NoProposal]
  /\ UNCHANGED <<commits, released>>

\* Mutant of Release: what was merged has passed the checks of its proposal.
ReleaseUngated ==
  /\ released' = main
  /\ UNCHANGED <<main, proposal, commits>>

\* A release runs the gate again, on the commit it releases.
Release ==
  /\ Gate(main)
  /\ released' = main
  /\ UNCHANGED <<main, proposal, commits>>

Init ==
  /\ main = First /\ released = None
  /\ proposal = [a \in Author |-> NoProposal]
  /\ commits = 0

Next ==
  \/ \E a \in Author : (\E change \in Changes : Commit(a, change)) \/ Check(a) \/ Merge(a)
  \/ Release

Spec == Init /\ [][Next]_vars
-------------------------------------------------------------------------------
(* Properties.                                                             *)

\* In a released tree every crypto vector file is a demand: one entry, and no
\* other, claims it by the name it has; each client gives it the answer that
\* entry pins, if its kind is one the clients support; and a code that it pins is
\* in CONFORMANCE.md and backed by that entry's id in registry.json.
ReleasedDemands ==
  released # None =>
    \A f \in File : released[<<"file", "crypto", f>>] # Absent =>
      \E v \in Vectors(released, "crypto") :
        /\ {w \in Vectors(released, "crypto") : NameOf[f] \in Range(Artifacts(w))} = {v}
        /\ v \in Supported(released) =>
             \A client \in Client :
               Judged[client][released[<<"file", "crypto", f>>]] = Expected(released, v)
        /\ v.expect = "reject" =>
             /\ released[<<"mention", v.code>>]
             /\ v.id \in Range(released[<<"code", v.code>>].pinned_by)

\* However proposals are checked, overtaken and merged, both manifests, every
\* document and every predicate that a released tree has carry one version, and so
\* does registry.json unless it carries none.
ReleasedOneVersion ==
  released # None =>
    LET version == released[<<"suite_version", "crypto">>]
    IN  /\ released[<<"suite_version", "structural">>] = version
        /\ \A d \in Doc : \/ released[<<"header", d>>] = version
                          \/ d \in Predicate /\ released[<<"header", d>>] = Absent
        /\ released[<<"registry">>] \in {version, None}

\* A proposal merged into the main it was checked with leaves main green: main
\* can only turn red by proposals that overtook each other.
FreshMergeIsGreen ==
  [][\A a \in Open : main' # main /\ proposal'[a] = NoProposal /\ proposal[a].checked = main
       => Gate(main')]_vars

\* Turning both manifests around, the last vector first, never changes the gate's
\* answer to a proposal: no list that it gathers from them is compared in their order.
Reordered(t) ==
  [s \in Surface |-> IF s[1] = "manifest" /\ t[s] # Absent THEN Reverse(t[s]) ELSE t[s]]

OrderIsIrrelevant ==
  \A a \in Open : Gate(Reordered(proposal[a].tip)) <=> Gate(proposal[a].tip)
-------------------------------------------------------------------------------
(* A statement of the documentation that the code does not meet.           *)

\* check_suite.py:183: "a 'pinned' entry must not have an empty pinned_by nor a
\* non-pinned entry a non-empty one".
PinsAreExact ==
  released # None =>
    \A code \in Code :
      LET entry == released[<<"code", code>>]
      IN  entry # Absent => (entry.status = "pinned" <=> entry.pinned_by # <<>>)
===============================================================================
