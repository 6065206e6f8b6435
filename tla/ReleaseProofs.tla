----------------------------- MODULE ReleaseProofs -----------------------------
(***************************************************************************)
(* What is published and tagged, for every number of commits, versions and *)
(* conformance jobs, and every history of dispatches and re-runs.          *)
(***************************************************************************)
EXTENDS Release, TLAPS

\* A run past the gate is of a conformant commit, and carries its version.
RunOK(r) ==
  r # NoRun =>
    /\ r.commit \in 1..Len(commits)
    /\ r.version = commits[r.commit].version
    /\ r.stage \in {"publish", "tag"} => commits[r.commit].breaks = {}

RunsOK == RunOK(active) /\ RunOK(pending) /\ \A r \in past : RunOK(r)

\* The tag step runs only right after this run's own upload.
TagFollowsUpload ==
  /\ pending.stage # "tag"
  /\ active.stage = "tag" =>
       \E i \in DOMAIN served : served[i] = [version |-> active.version, commit |-> active.commit]

\* Only commits that were pushed are published or tagged.
Known ==
  /\ \A i \in DOMAIN served : served[i].commit \in 1..Len(commits)
  /\ \A tag \in tags : tag.commit \in 1..Len(commits)

IInv == TypeOK /\ RunsOK /\ TagFollowsUpload /\ Known /\ ServedIsConformant /\ TagNamesSource

\* No run has the stage of NoRun.
LEMMA RunIsSome == \A r \in Run : r # NoRun /\ r.stage # "none"
BY DEF Run, Stage, NoRun

\* A commit stays where it is when another is pushed.
LEMMA AppendKeeps ==
  ASSUME NEW s, s \in Seq(Commit), NEW c \in Commit
  PROVE  /\ Append(s, c) \in Seq(Commit) /\ Len(Append(s, c)) = Len(s) + 1
         /\ \A i \in 1..Len(s) : Append(s, c)[i] = s[i]
         /\ Append(s, c)[Len(s) + 1] = c
OBVIOUS

\* A commit has a version and the jobs that it breaks.
LEMMA FreshTyped ==
  ASSUME TypeOK, NEW i \in 1..Len(commits)
  PROVE  Fresh(i) \in Run /\ RunOK(Fresh(i)) /\ Fresh(i).stage = "plan"
<1>1. commits[i] \in Commit /\ i \in 1..MaxCommit
  BY ReleaseAssumption DEF TypeOK
<1> QED
  BY <1>1 DEF Fresh, Run, Stage, RunOK, Commit

\* Starting or queueing a good run keeps the runs good.
LEMMA EnqueueKeeps ==
  ASSUME IInv, NEW r \in Run, RunOK(r), r.stage # "tag", Enqueue(r),
         UNCHANGED <<commits, head, served, tags>>
  PROVE  IInv'
<1>1. CASE active = NoRun
  <2>1. active' = r /\ UNCHANGED <<pending, past>>
    BY <1>1 DEF Enqueue
  <2> QED
    BY <2>1 DEF IInv, TypeOK, RunsOK, RunOK, TagFollowsUpload, Known, ServedIsConformant,
                TagNamesSource
<1>2. CASE active # NoRun
  <2>1. pending' = r /\ past' = past \cup Ended(pending) /\ UNCHANGED active
    BY <1>2 DEF Enqueue
  <2>2. Ended(pending) \subseteq {pending} \cap Run
    BY DEF Ended, IInv, TypeOK
  <2> QED
    BY <2>1, <2>2 DEF IInv, TypeOK, RunsOK, RunOK, TagFollowsUpload, Known,
                      ServedIsConformant, TagNamesSource
<1> QED
  BY <1>1, <1>2

\* So does ending the active one, whatever it has just published or tagged.
LEMMA EndKeepsRuns ==
  ASSUME IInv, active \in Run, NEW stage \in {active.stage, "done"}, End(stage), UNCHANGED commits
  PROVE  /\ active' \in Run \cup {NoRun} /\ pending' \in Run \cup {NoRun} /\ past' \subseteq Run
         /\ RunsOK' /\ active'.stage # "tag" /\ pending'.stage # "tag"
<1> DEFINE ended == [active EXCEPT !.stage = stage]
<1>1. active' = pending /\ pending' = NoRun /\ past' = past \cup {ended}
  BY DEF End
<1>2. ended \in Run /\ active # NoRun
  BY RunIsSome DEF Run, Stage
<1>3. /\ ended.commit = active.commit /\ ended.version = active.version
      /\ ended.stage \in {active.stage, "done"}
  BY DEF Run
<1>4. RunOK(ended)
  BY <1>2, <1>3 DEF IInv, RunsOK, RunOK
<1> HIDE DEF ended
<1>5. RunsOK'
  BY <1>1, <1>4 DEF IInv, RunsOK, RunOK
<1>6. NoRun.stage # "tag"
  BY DEF NoRun
<1> QED
  BY <1>1, <1>2, <1>5, <1>6 DEF IInv, TypeOK, TagFollowsUpload

\* Ending a run without publishing or tagging keeps the invariant.
LEMMA EndKeeps ==
  ASSUME IInv, active \in Run, NEW stage \in {active.stage, "done"}, End(stage),
         UNCHANGED <<commits, head, served, tags>>
  PROVE  IInv'
BY EndKeepsRuns DEF IInv, TypeOK, TagFollowsUpload, Known, ServedIsConformant, TagNamesSource

\* A run goes on to the next job when the commit may have it.
LEMMA AdvanceKeeps ==
  ASSUME IInv, active \in Run, NEW stage \in {"gate", "publish"}, Advance(stage),
         stage = "publish" => commits[active.commit].breaks = {},
         UNCHANGED <<commits, head, served, tags>>
  PROVE  IInv'
<1> DEFINE next == [active EXCEPT !.stage = stage]
<1>1. active' = next /\ UNCHANGED <<pending, past>>
  BY DEF Advance
<1>2. /\ next \in Run /\ next.stage = stage
      /\ next.commit = active.commit /\ next.version = active.version
  BY DEF Run, Stage
<1>3. RunOK(next)
  BY <1>2, RunIsSome DEF IInv, RunsOK, RunOK
<1> HIDE DEF next
<1> QED
  BY <1>1, <1>2, <1>3 DEF IInv, TypeOK, RunsOK, RunOK, TagFollowsUpload, Known,
                          ServedIsConformant, TagNamesSource

\* Publishing from a conformant commit keeps what is served conformant.
LEMMA UploadKeeps ==
  ASSUME IInv, active \in Run, active.stage = "publish", UNCHANGED <<commits, head, tags>>,
         served' = Append(served, [version |-> active.version, commit |-> active.commit])
  PROVE  /\ served' \in Seq([version : Version, commit : 1..MaxCommit])
         /\ Known' /\ ServedIsConformant' /\ TagNamesSource'
         /\ \E i \in DOMAIN served' :
              served'[i] = [version |-> active.version, commit |-> active.commit]
<1> DEFINE new == [version |-> active.version, commit |-> active.commit]
           Artifact == [version : Version, commit : 1..MaxCommit]
<1>1. new \in Artifact /\ new.commit = active.commit
  BY DEF Run
<1>2. active.commit \in 1..Len(commits) /\ commits[active.commit].breaks = {}
  BY RunIsSome DEF IInv, RunsOK, RunOK
<1>3. served \in Seq(Artifact)
  BY DEF IInv, TypeOK
<1> HIDE DEF new, Artifact
<1>4. /\ served' \in Seq(Artifact) /\ DOMAIN served' = 1..(Len(served) + 1)
      /\ DOMAIN served = 1..Len(served) /\ Len(served) \in Nat
      /\ \A i \in DOMAIN served : served'[i] = served[i]
      /\ served'[Len(served) + 1] = new
  BY <1>1, <1>3 DEF new
<1>5. \A i \in DOMAIN served' : i \in DOMAIN served \/ served'[i] = new
  BY <1>4
<1>6. DOMAIN served \subseteq DOMAIN served' /\ Len(served) + 1 \in DOMAIN served'
  BY <1>4
<1>7. Known' /\ ServedIsConformant'
  BY <1>1, <1>2, <1>4, <1>5 DEF IInv, Known, ServedIsConformant
<1>8. TagNamesSource'
  BY <1>4, <1>6 DEF IInv, TagNamesSource
<1> QED
  BY <1>4, <1>6, <1>7, <1>8 DEF new, Artifact

LEMMA IInvInit == Init => IInv
<1>1. <<>> \in Seq(Commit) /\ <<>> \in Seq([version : Version, commit : 1..MaxCommit])
      /\ Len(<<>>) = 0 /\ DOMAIN <<>> = {}
  OBVIOUS
<1> QED
  BY <1>1, ReleaseAssumption DEF Init, IInv, TypeOK, RunsOK, RunOK, TagFollowsUpload, Known,
     ServedIsConformant, TagNamesSource, NoRun

\* No step breaks the invariant.
LEMMA IInvStep == IInv /\ [Next]_vars => IInv'
<1> SUFFICES ASSUME IInv, [Next]_vars PROVE IInv'
  OBVIOUS
<1>1. ASSUME NEW bump \in {0, 1}, NEW breaks \in SUBSET Job, Push(bump, breaks)
      PROVE  IInv'
  <2>1. Len(commits) < MaxCommit /\ UNCHANGED <<served, tags>>
    BY <1>1 DEF Push
  <2>2. PICK c \in Commit : commits' = Append(commits, c) /\ c.version \in Version
          /\ head' = Len(commits) + 1
          /\ Enqueue([commit |-> head', stage |-> "plan", version |-> c.version])
    BY <1>1 DEF Push, Commit
  <2>3. PICK r : r = [commit |-> head', stage |-> "plan", version |-> c.version]
    OBVIOUS
  <2>4. /\ r \in Run /\ Enqueue(r)
        /\ r.stage = "plan" /\ r.commit = Len(commits) + 1 /\ r.version = c.version
    BY <2>1, <2>2, <2>3, ReleaseAssumption DEF Run, Stage, IInv, TypeOK
  <2>5. /\ commits' \in Seq(Commit) /\ Len(commits') = Len(commits) + 1 /\ Len(commits) \in Nat
        /\ \A i \in 1..Len(commits) : commits'[i] = commits[i]
        /\ commits'[Len(commits) + 1] = c
    BY <2>2, AppendKeeps DEF IInv, TypeOK
  <2>6. Len(commits') <= MaxCommit /\ head' \in 0..Len(commits')
    BY <2>1, <2>2, <2>5, ReleaseAssumption
  <2>7. \A q : RunOK(q) => RunOK(q)'
    BY <2>5 DEF RunOK
  <2>8. RunOK(r)'
    BY <2>4, <2>5 DEF RunOK
  <2>9. Known' /\ ServedIsConformant' /\ TagNamesSource'
    BY <2>1, <2>5 DEF IInv, Known, ServedIsConformant, TagNamesSource
  <2>10. CASE active = NoRun
    <3>1. active' = r /\ UNCHANGED <<pending, past>>
      BY <2>4, <2>10 DEF Enqueue
    <3> QED
      BY <2>1, <2>4, <2>5, <2>6, <2>7, <2>8, <2>9, <3>1
      DEF IInv, TypeOK, RunsOK, TagFollowsUpload
  <2>11. CASE active # NoRun
    <3>1. pending' = r /\ past' = past \cup Ended(pending) /\ UNCHANGED active
      BY <2>4, <2>11 DEF Enqueue
    <3>2. Ended(pending) \subseteq {pending} \cap Run
      BY DEF Ended, IInv, TypeOK
    <3> QED
      BY <2>1, <2>4, <2>5, <2>6, <2>7, <2>8, <2>9, <3>1, <3>2
      DEF IInv, TypeOK, RunsOK, TagFollowsUpload
  <2> QED
    BY <2>10, <2>11
<1>2. ASSUME NEW i \in DOMAIN commits, Dispatch(i)
      PROVE  IInv'
  <2>1. i \in 1..Len(commits)
    BY DEF IInv, TypeOK
  <2> QED
    BY <1>2, <2>1, FreshTyped, EnqueueKeeps DEF Dispatch, IInv
<1>2a. ASSUME NEW c \in Commit, PushOther(c)
       PROVE  IInv'
  <2>1. /\ Len(commits) < MaxCommit /\ commits' = Append(commits, c)
        /\ UNCHANGED <<head, served, tags, active, pending, past>>
    BY <1>2a DEF PushOther
  <2>2. /\ commits' \in Seq(Commit) /\ Len(commits') = Len(commits) + 1 /\ Len(commits) \in Nat
        /\ \A i \in 1..Len(commits) : commits'[i] = commits[i]
    BY <2>1, AppendKeeps DEF IInv, TypeOK
  <2>3. Len(commits') <= MaxCommit /\ head' \in 0..Len(commits')
    BY <2>1, <2>2, ReleaseAssumption DEF IInv, TypeOK
  <2>4. \A q : RunOK(q) => RunOK(q)'
    BY <2>2 DEF RunOK
  <2>5. Known' /\ ServedIsConformant' /\ TagNamesSource'
    BY <2>1, <2>2 DEF IInv, Known, ServedIsConformant, TagNamesSource
  <2> QED
    BY <2>1, <2>2, <2>3, <2>4, <2>5 DEF IInv, TypeOK, RunsOK, TagFollowsUpload
<1>3. ASSUME NEW kind \in RerunKinds, NEW q \in past, Rerun(kind, q)
      PROVE  IInv'
  <2> DEFINE again == [q EXCEPT !.stage = IF @ = "gate" THEN "gate" ELSE "publish"]
  <2>1. q \in Run /\ RunOK(q) /\ q # NoRun /\ q.commit \in 1..Len(commits)
    BY RunIsSome DEF IInv, TypeOK, RunsOK, RunOK
  <2>2. CASE kind = "all" \/ q.stage = "plan"
    <3>1. Enqueue(Fresh(q.commit)) /\ UNCHANGED <<commits, head, served, tags>>
      BY <1>3, <2>2 DEF Rerun
    <3> QED
      BY <2>1, <3>1, FreshTyped, EnqueueKeeps DEF IInv
  <2>3. CASE ~(kind = "all" \/ q.stage = "plan")
    <3>1. Enqueue(again) /\ UNCHANGED <<commits, head, served, tags>>
      BY <1>3, <2>3 DEF Rerun
    <3>2. q.stage \in {"gate", "publish", "tag"}
      BY <1>3, <2>1, <2>3, ReleaseAssumption DEF Rerun, Run, Stage
    <3>3. /\ again \in Run /\ again.commit = q.commit /\ again.version = q.version
          /\ again.stage \in {"gate", "publish"} /\ (q.stage = "gate" => again.stage = "gate")
      BY <2>1, <3>2 DEF Run, Stage
    <3> HIDE DEF again
    <3>4. RunOK(again)
      BY <2>1, <3>2, <3>3 DEF RunOK
    <3> QED
      BY <3>1, <3>3, <3>4, EnqueueKeeps
  <2> QED
    BY <2>2, <2>3
<1>4. ASSUME NEW stage \in {"plan", "gate", "publish", "tag"}, active.stage = stage
      PROVE  active \in Run
  BY <1>4 DEF IInv, TypeOK, NoRun
<1>5. ASSUME NEW answer \in Answers, Plan(answer)
      PROVE  IInv'
  <2>1. active \in Run /\ UNCHANGED <<commits, head, served, tags>>
    BY <1>4, <1>5 DEF Plan
  <2>2. Advance("gate") \/ End("done")
    BY <1>5 DEF Plan
  <2> QED
    BY <2>1, <2>2, AdvanceKeeps, EndKeeps
<1>6. ASSUME PlanFails
      PROVE  IInv'
  BY <1>4, <1>6, EndKeeps DEF PlanFails, Fails
<1>7. ASSUME NEW results \in [Job -> Result], Gate(results)
      PROVE  IInv'
  <2>1. active \in Run /\ UNCHANGED <<commits, head, served, tags>>
    BY <1>4, <1>7 DEF Gate
  <2>2. CASE GatePasses(results)
    <3>1. active.commit \in 1..Len(commits)
      BY <2>1, RunIsSome DEF IInv, RunsOK, RunOK
    <3>2. commits[active.commit].breaks \subseteq Job
      <4>1. commits[active.commit] \in Commit
        BY <3>1 DEF IInv, TypeOK
      <4> QED
        BY <4>1 DEF Commit
    <3>3. commits[active.commit].breaks = {}
      BY <1>7, <2>2, <3>2 DEF Gate, GatePasses
    <3>4. Advance("publish")
      BY <1>7, <2>2 DEF Gate
    <3> QED
      BY <2>1, <3>3, <3>4, AdvanceKeeps
  <2>3. CASE ~GatePasses(results)
    BY <1>7, <2>1, <2>3, EndKeeps DEF Gate, Fails
  <2> QED
    BY <2>2, <2>3
<1>8. ASSUME Publish
      PROVE  IInv'
  <2> DEFINE next == [active EXCEPT !.stage = "tag"]
  <2>1. /\ active \in Run /\ active.stage = "publish" /\ UNCHANGED <<commits, head, tags, pending, past>>
        /\ served' = Append(served, [version |-> active.version, commit |-> active.commit])
        /\ active' = next
    BY <1>4, <1>8 DEF Publish, Advance
  <2>2. /\ next \in Run /\ next.stage = "tag"
        /\ next.commit = active.commit /\ next.version = active.version
    BY <2>1 DEF Run, Stage
  <2> HIDE DEF next
  <2>3. RunsOK'
    BY <2>1, <2>2, RunIsSome DEF IInv, RunsOK, RunOK
  <2> QED
    BY <2>1, <2>2, <2>3, UploadKeeps DEF IInv, TypeOK, TagFollowsUpload
<1>9. ASSUME PublishUnseen
      PROVE  IInv'
  <2>1. /\ active \in Run /\ active.stage = "publish" /\ UNCHANGED <<commits, head, tags>>
        /\ served' = Append(served, [version |-> active.version, commit |-> active.commit])
        /\ End(active.stage)
    BY <1>4, <1>9 DEF PublishUnseen, Fails
  <2> QED
    BY <2>1, UploadKeeps, EndKeepsRuns DEF IInv, TypeOK, TagFollowsUpload
<1>10. ASSUME PublishRefused
       PROVE  IInv'
  BY <1>4, <1>10, EndKeeps DEF PublishRefused, Fails
<1>11. ASSUME Tag
       PROVE  IInv'
  <2> DEFINE new == [version |-> active.version, commit |-> active.commit]
  <2>1. /\ active \in Run /\ active.stage = "tag" /\ UNCHANGED <<commits, head, served>>
        /\ tags' = tags \cup {new} /\ \E stage \in {active.stage, "done"} : End(stage)
    BY <1>4, <1>11 DEF Tag
  <2>2. \E i \in DOMAIN served : served[i] = new
    BY <2>1 DEF IInv, TagFollowsUpload
  <2>3. /\ active.commit \in 1..Len(commits) /\ active.version = commits[active.commit].version
        /\ new \in [version : Version, commit : 1..MaxCommit]
        /\ new.commit = active.commit /\ new.version = active.version
    BY <2>1, RunIsSome DEF IInv, RunsOK, RunOK, Run
  <2> HIDE DEF new
  <2>4. TagNamesSource' /\ Known' /\ ServedIsConformant'
    BY <2>1, <2>2, <2>3 DEF IInv, TagNamesSource, Known, ServedIsConformant
  <2> QED
    BY <2>1, <2>3, <2>4, EndKeepsRuns DEF IInv, TypeOK, TagFollowsUpload
<1>12. ASSUME TagFails
       PROVE  IInv'
  BY <1>4, <1>12, EndKeeps DEF TagFails, Fails
<1>13. CASE UNCHANGED vars
  BY <1>13 DEF vars, IInv, TypeOK, RunsOK, RunOK, TagFollowsUpload, Known,
     ServedIsConformant, TagNamesSource
<1> QED
  BY <1>1, <1>2, <1>3, <1>5, <1>6, <1>7, <1>8, <1>9, <1>10, <1>11, <1>12, <1>13, <1>2a DEF Next

LEMMA IInvAlways == Spec => []IInv
BY IInvInit, IInvStep, PTL DEF Spec

\* Whatever is served was built from a commit that breaks no conformance job.
THEOREM Conformance == Spec => []ServedIsConformant
<1>1. IInv => ServedIsConformant
  BY DEF IInv
<1> QED
  BY <1>1, IInvAlways, PTL

\* Every tag names the commit that its version was published from.
THEOREM Provenance == Spec => []TagNamesSource
<1>1. IInv => TagNamesSource
  BY DEF IInv
<1> QED
  BY <1>1, IInvAlways, PTL

\* The concurrency group holds one run that runs and one that waits, each for a
\* declared version, and no stage is lost or made up.
THEOREM Typing == Spec => []TypeOK
<1>1. IInv => TypeOK
  BY DEF IInv
<1> QED
  BY <1>1, IInvAlways, PTL
-------------------------------------------------------------------------------
(* The order of versions, as long as nobody runs an ended run again, nor    *)
(* dispatches anything but main.                                           *)

\* Nothing newer than main's head is served or waits, nothing newer than a run is
\* served before it ends, and a run waits only for one that is not newer.
Upwards ==
  /\ served # <<>> \/ active # NoRun => head # 0
  /\ \A i \in DOMAIN served : served[i].version <= commits[head].version
  /\ active # NoRun => /\ active.version <= commits[head].version
                       /\ \A i \in DOMAIN served : served[i].version <= active.version
  /\ pending # NoRun => /\ active # NoRun /\ active.version <= pending.version
                        /\ pending.version <= commits[head].version
  /\ \A i, j \in DOMAIN served : i < j => served[i].version < served[j].version

\* The group goes on: the same run in a later stage, or the one that waited.
GoesOn ==
  \/ active' # NoRun /\ active'.version = active.version /\ pending' = pending
  \/ active' = pending /\ pending' = NoRun

\* Versions, of runs, commits and of what is served, are numbers.
LEMMA VersionsAreNumbers ==
  ASSUME TypeOK
  PROVE  /\ Len(commits) \in Nat /\ DOMAIN commits = 1..Len(commits)
         /\ \A i \in 1..Len(commits) : commits[i].version \in Int
         /\ head # 0 => head \in 1..Len(commits)
         /\ \A i \in DOMAIN served : served[i].version \in Int
         /\ active.version \in Int /\ pending.version \in Int
<1>1. Version \subseteq Int
  BY ReleaseAssumption DEF Version
<1>2. commits \in Seq(Commit) /\ served \in Seq([version : Version, commit : 1..MaxCommit])
  BY DEF TypeOK
<1>3. /\ Len(commits) \in Nat /\ DOMAIN commits = 1..Len(commits)
      /\ \A i \in 1..Len(commits) : commits[i] \in Commit
      /\ head # 0 => head \in 1..Len(commits)
  BY <1>2 DEF TypeOK
<1>4. \A i \in DOMAIN served : served[i] \in [version : Version, commit : 1..MaxCommit]
  <2> DEFINE Artifact == [version : Version, commit : 1..MaxCommit]
  <2>1. served \in Seq(Artifact)
    BY <1>2
  <2> HIDE DEF Artifact
  <2>2. \A i \in DOMAIN served : served[i] \in Artifact
    BY <2>1
  <2> QED
    BY <2>2 DEF Artifact
<1>5. \A r \in Run : r.version \in Int
  BY <1>1 DEF Run
<1>6. NoRun.version \in Int
  BY DEF NoRun
<1> QED
  BY <1>1, <1>3, <1>4, <1>5, <1>6 DEF TypeOK, Commit

\* A step of the running run that publishes nothing.
LEMMA GoingOnKeeps ==
  ASSUME IInv, Upwards, active # NoRun, GoesOn, UNCHANGED <<commits, head, served>>
  PROVE  Upwards'
<1>1. TypeOK
  BY DEF IInv
<1>2. pending # NoRun => \A i \in DOMAIN served : served[i].version <= pending.version
  BY <1>1, VersionsAreNumbers DEF Upwards
<1> QED
  BY <1>2 DEF Upwards, GoesOn

\* A step of the running run that publishes its version, which is not served yet.
LEMMA PublishingKeeps ==
  ASSUME IInv, Upwards, active # NoRun, GoesOn, UNCHANGED <<commits, head>>,
         active.version \notin Served,
         served' = Append(served, [version |-> active.version, commit |-> active.commit])
  PROVE  Upwards'
<1> DEFINE new == [version |-> active.version, commit |-> active.commit]
<1>1. TypeOK /\ served \in Seq([version : Version, commit : 1..MaxCommit])
  BY DEF IInv, TypeOK
<1>2. head \in 1..Len(commits)
  BY <1>1, VersionsAreNumbers DEF Upwards
<1>3. new.version = active.version
  OBVIOUS
<1> HIDE DEF new
<1>4. /\ DOMAIN served' = 1..(Len(served) + 1) /\ DOMAIN served = 1..Len(served)
      /\ Len(served) \in Nat /\ served'[Len(served) + 1] = new
      /\ \A i \in DOMAIN served : served'[i] = served[i]
  BY <1>1 DEF new
<1>5. \A i \in DOMAIN served : served[i].version < active.version
  BY <1>1, VersionsAreNumbers DEF Upwards, Served
<1>6. active.version <= commits[head].version
  BY <1>1, <1>2, VersionsAreNumbers DEF Upwards
<1>7. \A i \in DOMAIN served' : served'[i].version <= active.version
  BY <1>1, <1>3, <1>4, <1>5, VersionsAreNumbers
<1>8. \A i, j \in DOMAIN served' : i < j => served'[i].version < served'[j].version
  <2> SUFFICES ASSUME NEW i \in DOMAIN served', NEW j \in DOMAIN served', i < j
               PROVE  served'[i].version < served'[j].version
    OBVIOUS
  <2>1. i \in DOMAIN served
    BY <1>4
  <2>2. CASE j \in DOMAIN served
    BY <1>4, <2>1, <2>2 DEF Upwards
  <2>3. CASE j = Len(served) + 1
    BY <1>3, <1>4, <1>5, <2>1, <2>3
  <2> QED
    BY <1>4, <2>2, <2>3
<1>9. \A i \in DOMAIN served' : served'[i].version <= commits[head].version
  <2> SUFFICES ASSUME NEW i \in DOMAIN served'
               PROVE  served'[i].version <= commits[head].version
    OBVIOUS
  <2>1. CASE i \in DOMAIN served
    BY <1>4, <2>1 DEF Upwards
  <2>2. CASE i = Len(served) + 1
    BY <1>3, <1>4, <1>6, <2>2
  <2> QED
    BY <1>4, <2>1, <2>2
<1>10. pending # NoRun => \A i \in DOMAIN served' : served'[i].version <= pending.version
  <2> SUFFICES ASSUME pending # NoRun, NEW i \in DOMAIN served'
               PROVE  served'[i].version <= pending.version
    OBVIOUS
  <2>1. served'[i].version \in Int
    <3>1. CASE i \in DOMAIN served
      BY <1>1, <1>4, <3>1, VersionsAreNumbers
    <3>2. CASE i = Len(served) + 1
      BY <1>1, <1>3, <1>4, <3>2, VersionsAreNumbers
    <3> QED
      BY <1>4, <3>1, <3>2
  <2> QED
    BY <1>1, <1>7, <2>1, VersionsAreNumbers DEF Upwards
<1> QED
  BY <1>7, <1>8, <1>9, <1>10 DEF Upwards, GoesOn

\* A run of main's head is queued.
LEMMA QueueingKeeps ==
  ASSUME IInv, Upwards, NEW r \in Run, Enqueue(r), UNCHANGED served, head' # 0,
         r.version = commits'[head'].version, TypeOK',
         head # 0 => commits[head].version <= r.version
  PROVE  Upwards'
<1>1. TypeOK /\ r # NoRun /\ r.version \in Int
  BY RunIsSome, ReleaseAssumption DEF IInv, Run, Version
<1>2. \A i \in DOMAIN served : served[i].version <= r.version
  <2> SUFFICES ASSUME NEW i \in DOMAIN served
               PROVE  served[i].version <= r.version
    OBVIOUS
  <2>1. head # 0
    BY <1>1 DEF Upwards, TypeOK
  <2> QED
    BY <1>1, <2>1, VersionsAreNumbers DEF Upwards
<1>3. CASE active = NoRun
  <2>1. active' = r /\ pending' = pending
    BY <1>3 DEF Enqueue
  <2> QED
    BY <1>1, <1>2, <1>3, <2>1 DEF Upwards
<1>4. CASE active # NoRun
  <2>1. active' = active /\ pending' = r
    BY <1>4 DEF Enqueue
  <2>2. active.version <= r.version
    BY <1>1, <1>4, VersionsAreNumbers DEF Upwards
  <2> QED
    BY <1>1, <1>2, <1>4, <2>1, <2>2 DEF Upwards
<1> QED
  BY <1>3, <1>4

\* No step breaks the order, in a group in which nothing but main ever runs, once.
LEMMA UpwardsStep ==
  ASSUME RerunKinds = {}, ~AnyRef, IInv, IInv', Upwards, [Next]_vars
  PROVE  Upwards'
<1>1. ASSUME NEW bump \in {0, 1}, NEW breaks \in SUBSET Job, Push(bump, breaks)
      PROVE  Upwards'
  <2> DEFINE last == IF head = 0 THEN 1 ELSE commits[head].version
  <2>1. PICK c \in Commit :
          /\ commits' = Append(commits, c) /\ c.version = last + bump
          /\ head' = Len(commits) + 1
          /\ Enqueue([commit |-> head', stage |-> "plan", version |-> c.version])
    BY <1>1 DEF Push, Commit, HeadCommit
  <2>2. PICK r : r = [commit |-> head', stage |-> "plan", version |-> c.version]
    OBVIOUS
  <2>3. r \in Run /\ Enqueue(r) /\ r.version = c.version /\ UNCHANGED served
    <3>1. Len(commits) < MaxCommit /\ c.version \in Version /\ UNCHANGED served
      BY <1>1, <2>1 DEF Push, Commit
    <3>2. Len(commits) + 1 \in 1..MaxCommit
      BY <3>1, ReleaseAssumption, VersionsAreNumbers DEF IInv
    <3> QED
      BY <2>1, <2>2, <3>1, <3>2 DEF Run, Stage
  <2>4. commits'[head'] = c /\ head' # 0
    BY <2>1, AppendKeeps DEF IInv, TypeOK
  <2>5. head # 0 => commits[head].version <= c.version
    BY <2>1, VersionsAreNumbers DEF IInv
  <2> QED
    BY <2>3, <2>4, <2>5, QueueingKeeps DEF IInv
<1>2. ASSUME NEW i \in DOMAIN commits, Dispatch(i)
      PROVE  Upwards'
  <2>1. i \in 1..Len(commits) /\ i = head /\ head # 0
    BY <1>2, VersionsAreNumbers DEF Dispatch, IInv, TypeOK
  <2>2. Fresh(head) \in Run /\ Fresh(head).version = commits[head].version
    BY <2>1, FreshTyped DEF IInv, Fresh
  <2>3. commits[head].version <= Fresh(head).version
    BY <2>1, <2>2, VersionsAreNumbers DEF IInv
  <2> QED
    BY <1>2, <2>1, <2>2, <2>3, QueueingKeeps DEF Dispatch, IInv, Upwards
<1>3. ASSUME NEW stage \in Stage, active.stage = stage
      PROVE  active # NoRun /\ active \in Run
  BY <1>3 DEF IInv, TypeOK, NoRun, Stage
<1>4. ASSUME active # NoRun, NEW stage \in Stage, End(stage) \/ Advance(stage)
      PROVE  GoesOn
  <2>1. active \in Run
    BY <1>4 DEF IInv, TypeOK
  <2>2. CASE Advance(stage)
    <3> DEFINE next == [active EXCEPT !.stage = stage]
    <3>1. next \in Run /\ next.version = active.version
      BY <2>1 DEF Run
    <3>2. active' = next /\ pending' = pending
      BY <2>2 DEF Advance
    <3> HIDE DEF next
    <3> QED
      BY <3>1, <3>2, RunIsSome DEF GoesOn
  <2> QED
    BY <1>4, <2>2 DEF End, GoesOn
<1>5. ASSUME \/ \E answer \in Answers : Plan(answer)
             \/ PlanFails \/ \E results \in [Job -> Result] : Gate(results)
             \/ PublishRefused \/ Tag \/ TagFails
      PROVE  Upwards'
  <2>1. active.stage \in Stage /\ UNCHANGED <<commits, head, served>>
    BY <1>5 DEF Plan, PlanFails, Gate, PublishRefused, Tag, TagFails, Stage
  <2>2. \E stage \in Stage : End(stage) \/ Advance(stage)
    BY <1>5, <2>1 DEF Plan, PlanFails, Gate, PublishRefused, Tag, TagFails, Fails, Stage
  <2> QED
    BY <1>3, <1>4, <2>1, <2>2, GoingOnKeeps
<1>6. ASSUME Publish \/ PublishUnseen
      PROVE  Upwards'
  <2>1. /\ active.stage \in Stage /\ UNCHANGED <<commits, head>> /\ active.version \notin Served
        /\ served' = Append(served, [version |-> active.version, commit |-> active.commit])
    BY <1>6 DEF Publish, PublishUnseen, Stage
  <2>2. \E stage \in Stage : End(stage) \/ Advance(stage)
    BY <1>6, <2>1 DEF Publish, PublishUnseen, Fails, Stage
  <2> QED
    BY <1>3, <1>4, <2>1, <2>2, PublishingKeeps
<1>7. CASE UNCHANGED vars
  BY <1>7 DEF vars, Upwards
<1> QED
  BY <1>1, <1>2, <1>5, <1>6, <1>7 DEF Next, PushOther

\* Unless an ended run is run again or another ref is dispatched, versions reach
\* the registry in the order in which main declared them.
THEOREM Order == Spec => []ServedInOrder
<1> DEFINE Ordered == RerunKinds = {} /\ ~AnyRef => Upwards
<1>1. Init => Ordered
  BY DEF Init, Upwards, NoRun
<1>2. IInv /\ IInv' /\ Ordered /\ [Next]_vars => Ordered'
  BY UpwardsStep
<1>3. Ordered => ServedInOrder
  BY DEF ServedInOrder, Upwards
<1> HIDE DEF Ordered
<1> QED
  BY <1>1, <1>2, <1>3, IInvAlways, PTL DEF Spec
===============================================================================
