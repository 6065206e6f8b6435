--------------------------------- MODULE Drift ---------------------------------
(***************************************************************************)
(* The vectors exist twice, published here and generated upstream, in two  *)
(* repositories that change on their own.  The drift job of external.yml   *)
(* runs scripts/check_vector_drift.py on the commit that triggered it and  *)
(* on the upstream it finds when it gets to check it out.                  *)
(***************************************************************************)
EXTENDS Naturals

CONSTANTS
  File,       \* names of files in a suite's directory
  Digest,     \* SHA-256 of their bytes
  Absent,     \* no such file
  None,       \* not checked out yet
  Starts,     \* vectors that both sides may start from
  Slot,       \* bound: runs of the workflow at once
  MaxChanges  \* bound: commits to the vectors, here and upstream

Suites == {"structural", "crypto"}

\* One side's vectors; a directory without files does not exist in a checkout.
Copy == [Suites -> [File -> Digest \cup {Absent}]]

ASSUME DriftAssumption == Starts \subseteq Copy /\ MaxChanges \in Nat

VARIABLES
  here,     \* the vectors at the head of main
  there,    \* those at the head of the reference implementation
  run,      \* the run in each slot
  last,     \* the run that ended last, with its verdict
  changes   \* commits to the vectors so far

vars == <<here, there, run, last, changes>>

\* A run: the commit it was triggered on, the upstream it checked out, and
\* whether the two heads differed at any moment from the one to the other.
Run(at, seen, differed) == [at |-> at, seen |-> seen, differed |-> differed]
Idle == Run(None, None, FALSE)
-------------------------------------------------------------------------------
(* scripts/check_vector_drift.py.                                          *)

Digests(dir) == {f \in File : dir[f] # Absent}

\* Mutant of SuitePairs: a suite is compared with the other one's directory.
SuitePairsCrossed == {<<"structural", "crypto">>, <<"crypto", "structural">>}

SuitePairs == {<<"structural", "structural">>, <<"crypto", "crypto">>}

\* Mutant of Agrees: what is present upstream only is not looked for.
AgreesOneWay(published, upstream) ==
  /\ Digests(published) # {} /\ Digests(upstream) # {}
  /\ \A f \in Digests(published) : published[f] = upstream[f]

\* Mutant of Agrees: the names are compared, and not the digests.
AgreesByName(published, upstream) ==
  /\ Digests(published) # {} /\ Digests(upstream) # {}
  /\ Digests(published) = Digests(upstream)

\* Both directories exist, list the same files, and each has one digest.
Agrees(published, upstream) ==
  /\ Digests(published) # {} /\ Digests(upstream) # {}
  /\ Digests(published) \ Digests(upstream) = {}
  /\ Digests(upstream) \ Digests(published) = {}
  /\ \A f \in Digests(published) \cap Digests(upstream) : published[f] = upstream[f]

Verdict(published, upstream) ==
  IF \A pair \in SuitePairs : Agrees(published[pair[1]], upstream[pair[2]])
  THEN "green" ELSE "red"
-------------------------------------------------------------------------------
(* external.yml.                                                           *)

\* The heads change: a run that has not looked upstream yet goes through it.
Through(differ) ==
  [i \in Slot |-> IF run[i] # Idle /\ run[i].seen = None
                  THEN [run[i] EXCEPT !.differed = @ \/ differ] ELSE run[i]]

\* A push under vectors/** triggers a run.
Publish(i, new) ==
  /\ run[i] = Idle /\ changes < MaxChanges /\ new # here
  /\ here' = new /\ changes' = changes + 1
  /\ run' = [Through(new # there) EXCEPT ![i] = Run(new, None, new # there)]
  /\ UNCHANGED <<there, last>>

\* The generator's repository changes, which triggers nothing here.
Regenerate(new) ==
  /\ changes < MaxChanges /\ new # there
  /\ there' = new /\ changes' = changes + 1
  /\ run' = Through(here # new)
  /\ UNCHANGED <<here, last>>

\* The weekly schedule, or a dispatch by hand.
Trigger(i) ==
  /\ run[i] = Idle
  /\ run' = [run EXCEPT ![i] = Run(here, None, here # there)]
  /\ UNCHANGED <<here, there, last, changes>>

Checkout(i) ==
  /\ run[i] # Idle /\ run[i].seen = None
  /\ run' = [run EXCEPT ![i] = Run(@.at, there, @.differed)]
  /\ UNCHANGED <<here, there, last, changes>>

End(i, verdict) ==
  /\ run' = [run EXCEPT ![i] = Idle]
  /\ last' = [verdict |-> verdict, run |-> run[i]]
  /\ UNCHANGED <<here, there, changes>>

\* No token for upstream, or a job that dies before it compares: it fails loudly.
Fails(i) == run[i] # Idle /\ End(i, "failed")

Compare(i) == /\ run[i] # Idle /\ run[i].seen # None
              /\ End(i, Verdict(run[i].at, run[i].seen))

\* One file of one suite changes, comes or goes.
Changed(copy) ==
  {[copy EXCEPT ![s][f] = d] : s \in Suites, f \in File, d \in Digest \cup {Absent}}

Init ==
  /\ here \in Starts /\ there = here
  /\ run = [i \in Slot |-> Idle]
  /\ last = [verdict |-> "none", run |-> Idle]
  /\ changes = 0

Next ==
  \/ \E i \in Slot : \/ \E new \in Changed(here) : Publish(i, new)
                     \/ Trigger(i) \/ Checkout(i) \/ Fails(i) \/ Compare(i)
  \/ \E new \in Changed(there) : Regenerate(new)

Spec == Init /\ [][Next]_vars

\* The schedule comes round, and GitHub ends every job, one way or the other.
Fairness ==
  /\ WF_vars(\E i \in Slot : Trigger(i))
  /\ \A i \in Slot : WF_vars(Checkout(i)) /\ WF_vars(Compare(i))

FairSpec == Spec /\ Fairness
-------------------------------------------------------------------------------
(* Properties.                                                             *)

\* A run that reports no drift compared copies that are equal, file by file.
GreenMeansEqual == last.verdict = "green" => last.run.at = last.run.seen

\* A report of drift is never made up by the time between the two checkouts:
\* the heads did differ while the run looked, or a suite has no files at all.
AlarmIsReal ==
  last.verdict = "red" =>
    \/ last.run.differed
    \/ \E s \in Suites : Digests(last.run.at[s]) = {}

\* Copies that drift apart and stay apart are reported, by every run there is
\* from some moment on.
DriftIsReported ==
  <>[](here # there) => <>[](last.verdict \in {"red", "failed"})
===============================================================================
