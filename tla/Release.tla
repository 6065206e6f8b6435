-------------------------------- MODULE Release --------------------------------
(***************************************************************************)
(* The release of one client package: scripts/release_plan.py and the      *)
(* release-npm, release-pypi and release-crate workflows, which share no   *)
(* state and differ in their upload command and in what the plan asks the  *)
(* registry.  A merge to main, or a dispatch by hand of any branch or tag, *)
(* starts a run: plan, gate, publish, tag.  Its concurrency group has one  *)
(* run running and one pending, and what ended can be run again, whole or  *)
(* from the job that failed.                                               *)
(***************************************************************************)
EXTENDS Integers, Sequences

CONSTANTS
  Registry,   \* the registry the package is published on
  Job,        \* the conformance jobs of the gate
  Answers,    \* how the registry's read side may answer the plan
  RerunKinds, \* ways to run an ended run again
  AnyRef,     \* whether branches and tags other than main are dispatched by hand
  MaxCommit,  \* bound: commits, on main and on other branches
  MaxVersion  \* bound: version bumps

ASSUME ReleaseAssumption ==
  /\ Registry \in {"npm", "pypi", "crate"}
  /\ Answers \subseteq {"current", "stale", "unreachable"}
  /\ RerunKinds \subseteq {"all", "failed"} /\ AnyRef \in BOOLEAN
  /\ MaxCommit \in Nat /\ MaxVersion \in Nat

VARIABLES
  commits,  \* commits pushed: the manifest's version, and the jobs they break
  head,     \* which of them main's head is
  served,   \* what the registry serves, in publication order: version, commit
  tags,     \* version tags pushed, each with the commit it names
  active,   \* the run that runs
  pending,  \* the run that waits for the group
  past      \* runs that ended, with the stage they reached

vars == <<commits, head, served, tags, active, pending, past>>

Version == 1..(MaxVersion + 1)
Commit == [version : Version, breaks : SUBSET Job]
Stage == {"plan", "gate", "publish", "tag", "done"}
Run == [commit : 1..MaxCommit, stage : Stage, version : Version]
NoRun == [commit |-> 0, stage |-> "none", version |-> 0]

\* Versions on the registry, and versions tagged.
Served == {served[i].version : i \in DOMAIN served}
Tagged == {tag.version : tag \in tags}

\* A new run for the i-th commit reads the manifest that commit has.
Fresh(i) == [commit |-> i, stage |-> "plan", version |-> commits[i].version]
-------------------------------------------------------------------------------
(* The concurrency group: cancel-in-progress is false, so a run that       *)
(* arrives waits, and cancels the one already waiting.                     *)

Ended(r) == IF r = NoRun THEN {} ELSE {r}

\* Mutant of Enqueue: the waiting run is taken to be cancelled when none waits.
EnqueueCancels(r) ==
  IF active = NoRun
  THEN active' = r /\ UNCHANGED <<pending, past>>
  ELSE pending' = r /\ past' = past \cup {pending} /\ UNCHANGED active

\* Mutant of Enqueue: what arrives last runs first, and what ran goes on after it.
EnqueuePreempts(r) ==
  IF active = NoRun
  THEN active' = r /\ UNCHANGED <<pending, past>>
  ELSE active' = r /\ pending' = active /\ past' = past \cup Ended(pending)

Enqueue(r) ==
  IF active = NoRun
  THEN active' = r /\ UNCHANGED <<pending, past>>
  ELSE pending' = r /\ past' = past \cup Ended(pending) /\ UNCHANGED active

\* The running run ends at this stage and the waiting one starts.
End(stage) ==
  /\ active' = pending /\ pending' = NoRun
  /\ past' = past \cup {[active EXCEPT !.stage = stage]}

\* A job fails, is cancelled, or loses its runner; its dependents are skipped.
Fails == End(active.stage)

Advance(stage) ==
  active' = [active EXCEPT !.stage = stage] /\ UNCHANGED <<pending, past>>
-------------------------------------------------------------------------------
(* What starts a run.                                                      *)

HeadCommit == commits[head]

\* A merge: it keeps the version or bumps it, and may break some jobs.
Push(bump, breaks) ==
  /\ Len(commits) < MaxCommit
  /\ LET last == IF head = 0 THEN 1 ELSE HeadCommit.version
         c == [version |-> last + bump, breaks |-> breaks]
     IN  /\ c.version \in Version
         /\ commits' = Append(commits, c)
         /\ head' = Len(commits) + 1
         /\ Enqueue([commit |-> head', stage |-> "plan", version |-> c.version])
  /\ UNCHANGED <<served, tags>>

\* A push to another branch starts nothing; its manifest may have any version.
PushOther(c) ==
  /\ AnyRef /\ Len(commits) < MaxCommit
  /\ commits' = Append(commits, c)
  /\ UNCHANGED <<head, served, tags, active, pending, past>>

\* A dispatch takes main unless it names another branch, or a tag.
Dispatch(i) ==
  /\ i = head \/ AnyRef
  /\ Enqueue(Fresh(i))
  /\ UNCHANGED <<commits, head, served, tags>>

DispatchMain == head # 0 /\ Dispatch(head)

\* Running a whole run again starts at the plan; running its failed jobs again
\* keeps the plan's outputs, and a publish job that failed starts over.
Rerun(kind, r) ==
  /\ kind = "failed" => r.stage # "done"
  /\ Enqueue(IF kind = "all" \/ r.stage = "plan" THEN Fresh(r.commit)
             ELSE [r EXCEPT !.stage = IF @ = "gate" THEN "gate" ELSE "publish"])
  /\ UNCHANGED <<commits, head, served, tags>>
-------------------------------------------------------------------------------
(* The jobs of a run.                                                      *)

\* fetch, by what the read side has seen; 0 stands for every failure to get an
\* answer.  npm is asked for the package and lists its versions, the other two
\* are asked for the version itself.
Reply(answer, version) ==
  LET seen == IF answer = "stale" THEN Served \ {version} ELSE Served
      known == IF Registry = "npm" THEN seen # {} ELSE version \in seen
  IN  IF answer = "unreachable" THEN [status |-> 0, versions |-> {}]
      ELSE [status |-> IF known THEN 200 ELSE 404, versions |-> seen]

\* Mutant of Published: a 404 counts as an answer that says nothing.
PublishedUnknown(reply, version) == IF reply.status = 200 THEN "yes" ELSE "unknown"

\* published_npm, published_pypi, published_crate: only npm's reads the body.
Published(reply, version) ==
  CASE reply.status = 404 -> "no"
    [] reply.status \notin {200, 404} -> "unknown"
    [] reply.status = 200 ->
         IF Registry = "npm" /\ version \notin reply.versions THEN "no" ELSE "yes"

\* The plan job; an unreachable registry counts as having the version.
Plan(answer) ==
  /\ active.stage = "plan"
  /\ IF Published(Reply(answer, active.version), active.version) = "no"
     THEN Advance("gate") ELSE End("done")
  /\ UNCHANGED <<commits, head, served, tags>>

PlanFails ==
  /\ active.stage = "plan"
  /\ Fails
  /\ UNCHANGED <<commits, head, served, tags>>

\* Mutant of GatePasses: only a failure is refused, a cancelled job is not.
GateTolerates(results) == \A j \in Job : results[j] # "failure"

GatePasses(results) == \A j \in Job : results[j] = "success"

\* The gate job: a job that the commit breaks never succeeds, and any job can
\* fail or be cancelled for reasons of its own.
Gate(results) ==
  /\ active.stage = "gate"
  /\ \A j \in commits[active.commit].breaks : results[j] # "success"
  /\ IF GatePasses(results) THEN Advance("publish") ELSE Fails
  /\ UNCHANGED <<commits, head, served, tags>>

\* Mutant of Publish: a version already there counts as published by this run.
PublishIdempotent ==
  /\ active.stage = "publish"
  /\ served' = IF active.version \in Served THEN served
               ELSE Append(served, [version |-> active.version, commit |-> active.commit])
  /\ Advance("tag")
  /\ UNCHANGED <<commits, head, tags>>

\* The upload succeeds and the job sees it.
Publish ==
  /\ active.stage = "publish" /\ active.version \notin Served
  /\ served' = Append(served, [version |-> active.version, commit |-> active.commit])
  /\ Advance("tag")
  /\ UNCHANGED <<commits, head, tags>>

\* It succeeds, but the job ends without seeing it.
PublishUnseen ==
  /\ active.stage = "publish" /\ active.version \notin Served
  /\ served' = Append(served, [version |-> active.version, commit |-> active.commit])
  /\ Fails
  /\ UNCHANGED <<commits, head, tags>>

\* The build fails, or the registry refuses the upload, as it does a duplicate.
PublishRefused ==
  /\ active.stage = "publish"
  /\ Fails
  /\ UNCHANGED <<commits, head, served, tags>>

\* The tag step names the run's commit; creating a tag that exists is refused.
\* The job may end without having seen that it was created.
Tag ==
  /\ active.stage = "tag" /\ active.version \notin Tagged
  /\ tags' = tags \cup {[version |-> active.version, commit |-> active.commit]}
  /\ \E stage \in {"tag", "done"} : End(stage)
  /\ UNCHANGED <<commits, head, served>>

TagFails ==
  /\ active.stage = "tag"
  /\ Fails
  /\ UNCHANGED <<commits, head, served, tags>>
-------------------------------------------------------------------------------
Init ==
  /\ commits = <<>> /\ head = 0 /\ served = <<>> /\ tags = {}
  /\ active = NoRun /\ pending = NoRun /\ past = {}

Result == {"success", "failure", "cancelled"}

Next ==
  \/ \E bump \in {0, 1}, breaks \in SUBSET Job : Push(bump, breaks)
  \/ \E c \in Commit : PushOther(c)
  \/ \E i \in DOMAIN commits : Dispatch(i)
  \/ \E kind \in RerunKinds, r \in past : Rerun(kind, r)
  \/ \E answer \in Answers : Plan(answer)
  \/ PlanFails
  \/ \E results \in [Job -> Result] : Gate(results)
  \/ Publish \/ PublishUnseen \/ PublishRefused
  \/ Tag \/ TagFails

Spec == Init /\ [][Next]_vars

\* Someone pushes to main or dispatches it again; a job that hangs is ended by GitHub's time
\* limit; and no outage, flaky check or refusal comes back every time for ever.
Fairness ==
  /\ WF_vars(DispatchMain)
  /\ WF_vars(PlanFails) /\ SF_vars(Plan("current"))
  /\ WF_vars(Gate([j \in Job |-> "failure"])) /\ SF_vars(Gate([j \in Job |-> "success"]))
  /\ WF_vars(PublishRefused) /\ SF_vars(Publish)
  /\ WF_vars(TagFails) /\ SF_vars(Tag)

FairSpec == Spec /\ Fairness
-------------------------------------------------------------------------------
(* Properties.                                                             *)

\* At most one run runs and one waits, and only runs are ever run again: the
\* empty place of the concurrency group never counts as one that ended.
TypeOK ==
  /\ commits \in Seq(Commit) /\ Len(commits) <= MaxCommit /\ head \in 0..Len(commits)
  /\ served \in Seq([version : Version, commit : 1..MaxCommit])
  /\ tags \subseteq [version : Version, commit : 1..MaxCommit]
  /\ active \in Run \cup {NoRun} /\ pending \in Run \cup {NoRun} /\ past \subseteq Run

\* A red gate publishes nothing: whatever was run again from wherever, what the
\* registry serves was built from a commit that breaks no conformance job.
ServedIsConformant ==
  \A i \in DOMAIN served : commits[served[i].commit].breaks = {}

\* A tag names the commit that the published artifact of its version was built
\* from, and that commit's manifest declares the version.
TagNamesSource ==
  \A tag \in tags : /\ \E i \in DOMAIN served : served[i] = tag
                    /\ commits[tag.commit].version = tag.version

\* As long as nobody runs an ended run again, nor dispatches anything but main,
\* versions reach the registry in the order in which main declared them, whatever
\* waits, fails or is overtaken: npm's latest, which is what was uploaded last, is
\* the newest.
ServedInOrder ==
  RerunKinds = {} /\ ~AnyRef =>
    \A i, j \in DOMAIN served : i < j => served[i].version < served[j].version

\* A version that main's head declares and keeps declaring is published in the
\* end, if its commit breaks nothing: a release missed in an outage heals.
HeadIsServed ==
  \A c \in Commit :
    (c.breaks = {} /\ <>[](head # 0 /\ HeadCommit = c)) => <>(c.version \in Served)
-------------------------------------------------------------------------------
(* Statements of the documentation that the workflows do not meet.         *)

\* RELEASING.md:28: a release run "publishes, and tags the commit".
ServedIsTagged ==
  \A v \in Version : v \in Served ~> v \in Tagged
================================================================================
