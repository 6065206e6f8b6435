------------------------------ MODULE DriftProofs ------------------------------
(***************************************************************************)
(* What a verdict of the drift job says, for every number of runs at once,  *)
(* of files and of changes to the two repositories.                        *)
(***************************************************************************)
EXTENDS Drift, TLAPS

Runs == [at : Copy \cup {None}, seen : Copy \cup {None}, differed : BOOLEAN]

\* A run that saw no difference so far: the heads have not moved since it was
\* triggered, and it checks out, or has checked out, what it was triggered on.
Undisturbed(r) ==
  r # Idle /\ ~r.differed => IF r.seen = None THEN here = r.at /\ there = r.at ELSE r.seen = r.at

Typed ==
  /\ here \in Copy /\ there \in Copy
  /\ run \in [Slot -> Runs]
  /\ \A i \in Slot : run[i] # Idle => run[i].at \in Copy

IInv ==
  /\ Typed
  /\ \A i \in Slot : Undisturbed(run[i])
  /\ GreenMeansEqual /\ AlarmIsReal

LEMMA IdleRun == Idle \in Runs /\ Idle.seen = None /\ Idle.at = None /\ Idle.differed = FALSE
BY DEF Idle, Run, Runs

LEMMA RunOf ==
  ASSUME NEW at \in Copy \cup {None}, NEW seen \in Copy \cup {None}, NEW differed \in BOOLEAN
  PROVE  /\ Run(at, seen, differed) \in Runs
         /\ Run(at, seen, differed).at = at /\ Run(at, seen, differed).seen = seen
         /\ Run(at, seen, differed).differed = differed
BY DEF Run, Runs

LEMMA ChangedCopy == \A copy \in Copy : Changed(copy) \subseteq Copy
BY DEF Changed, Copy

\* Two copies that agree in both suites are equal.
LEMMA GreenIsEqual ==
  ASSUME NEW x \in Copy, NEW y \in Copy, Verdict(x, y) = "green"
  PROVE  x = y
<1>1. \A s \in Suites : Agrees(x[s], y[s])
  BY DEF Verdict, SuitePairs, Suites
<1>2. ASSUME NEW s \in Suites, NEW f \in File
      PROVE  x[s][f] = y[s][f]
  <2>1. f \in Digests(x[s]) <=> f \in Digests(y[s])
    BY <1>1 DEF Agrees
  <2>2. CASE f \in Digests(x[s])
    BY <1>1, <2>1, <2>2 DEF Agrees
  <2>3. CASE f \notin Digests(x[s])
    BY <2>1, <2>3 DEF Digests
  <2> QED
    BY <2>2, <2>3
<1>3. \A s \in Suites : x[s] \in [File -> Digest \cup {Absent}] /\ y[s] \in [File -> Digest \cup {Absent}]
  BY DEF Copy
<1>4. \A s \in Suites : x[s] = y[s]
  BY <1>2, <1>3
<1> QED
  BY <1>4 DEF Copy

\* A copy disagrees with itself only where a suite has no files.
LEMMA RedIsReal ==
  ASSUME NEW x, Verdict(x, x) # "green"
  PROVE  \E s \in Suites : Digests(x[s]) = {}
BY DEF Verdict, SuitePairs, Suites, Agrees

LEMMA IInvInit == Init => IInv
BY IdleRun, DriftAssumption
DEF Init, IInv, Typed, Undisturbed, GreenMeansEqual, AlarmIsReal

\* A head that changed to differ from the other disturbs the runs in between.
LEMMA ThroughKeeps ==
  ASSUME IInv, NEW differ \in BOOLEAN, NEW i \in Slot
  PROVE  LET r == Through(differ)[i]
         IN  /\ r \in Runs /\ (r # Idle => r.at \in Copy)
             /\ (run[i] = Idle => r = Idle)
             /\ r # Idle /\ ~r.differed =>
                  IF r.seen = None THEN ~differ /\ here = r.at /\ there = r.at ELSE r.seen = r.at
<1>1. run[i] \in Runs /\ (run[i] # Idle => run[i].at \in Copy) /\ Undisturbed(run[i])
  BY DEF IInv, Typed
<1>2. CASE run[i] # Idle /\ run[i].seen = None
  <2> DEFINE r == [run[i] EXCEPT !.differed = @ \/ differ]
  <2>1. /\ r \in Runs /\ r.at = run[i].at /\ r.seen = run[i].seen
        /\ r.differed = (run[i].differed \/ differ)
    BY <1>1 DEF Runs
  <2>2. Through(differ)[i] = r
    BY <1>2 DEF Through
  <2> HIDE DEF r
  <2> QED
    BY <1>1, <1>2, <2>1, <2>2 DEF Undisturbed
<1>3. CASE ~(run[i] # Idle /\ run[i].seen = None)
  BY <1>1, <1>3, IdleRun DEF Through, Undisturbed
<1> QED
  BY <1>2, <1>3

LEMMA IInvStep == IInv /\ [Next]_vars => IInv'
<1> SUFFICES ASSUME IInv, [Next]_vars PROVE IInv'
  OBVIOUS
<1>1. ASSUME NEW i \in Slot, NEW new \in Changed(here), Publish(i, new)
      PROVE  IInv'
  <2>0. PICK differ \in BOOLEAN : differ = (new # there)
    OBVIOUS
  <2> DEFINE r == Run(new, None, differ)
  <2>1. /\ new \in Copy /\ here' = new /\ UNCHANGED <<there, last>>
        /\ run' = [Through(differ) EXCEPT ![i] = r]
    BY <1>1, <2>0, ChangedCopy DEF Publish, IInv, Typed
  <2>2. r \in Runs /\ r.at = new /\ r.seen = None /\ r.differed = differ
    BY <2>1, RunOf
  <2>3. \A j \in Slot : run'[j] = IF j = i THEN r ELSE Through(differ)[j]
    BY <2>1 DEF Through
  <2>4. run' \in [Slot -> Runs]
    <3>1. \A j \in Slot : run'[j] \in Runs
      BY <2>2, <2>3, ThroughKeeps
    <3> QED
      BY <2>1, <3>1 DEF Through
  <2> HIDE DEF r
  <2>5. \A j \in Slot : (run'[j] # Idle => run'[j].at \in Copy) /\ Undisturbed(run[j])'
    <3> TAKE j \in Slot
    <3>1. CASE j = i
      BY <2>0, <2>1, <2>2, <2>3, <3>1 DEF Undisturbed
    <3>2. CASE j # i
      <4>1. here # new
        BY <1>1 DEF Publish
      <4> QED
        BY <2>0, <2>1, <2>3, <3>2, <4>1, ThroughKeeps DEF Undisturbed
    <3> QED
      BY <3>1, <3>2
  <2> QED
    BY <2>1, <2>4, <2>5 DEF IInv, Typed, GreenMeansEqual, AlarmIsReal
<1>2. ASSUME NEW new \in Changed(there), Regenerate(new)
      PROVE  IInv'
  <2> DEFINE differ == here # new
  <2>1. /\ new \in Copy /\ there' = new /\ there # new /\ UNCHANGED <<here, last>>
        /\ run' = Through(differ)
    BY <1>2, ChangedCopy DEF Regenerate, IInv, Typed
  <2>2. run' \in [Slot -> Runs]
    <3>1. \A j \in Slot : run'[j] \in Runs
      BY <2>1, ThroughKeeps
    <3> QED
      BY <2>1, <3>1 DEF Through
  <2>3. \A j \in Slot : (run'[j] # Idle => run'[j].at \in Copy) /\ Undisturbed(run[j])'
    <3> TAKE j \in Slot
    <3>1. ~differ => new = here
      OBVIOUS
    <3> HIDE DEF differ
    <3>2. differ \in BOOLEAN
      BY DEF differ
    <3> QED
      BY <2>1, <3>1, <3>2, ThroughKeeps DEF Undisturbed
  <2> QED
    BY <2>1, <2>2, <2>3 DEF IInv, Typed, GreenMeansEqual, AlarmIsReal
<1>3. ASSUME NEW i \in Slot, NEW r \in Runs, r # Idle => r.at \in Copy, Undisturbed(r),
             run' = [run EXCEPT ![i] = r], UNCHANGED <<here, there>>,
             GreenMeansEqual', AlarmIsReal'
      PROVE  IInv'
  <2>1. /\ run' \in [Slot -> Runs]
        /\ \A j \in Slot : run'[j] = IF j = i THEN r ELSE run[j]
    BY <1>3 DEF IInv, Typed
  <2> QED
    BY <1>3, <2>1 DEF IInv, Typed, Undisturbed
<1>4. ASSUME NEW i \in Slot, Trigger(i)
      PROVE  IInv'
  <2>1. /\ run' = [run EXCEPT ![i] = Run(here, None, here # there)]
        /\ UNCHANGED <<here, there, last>> /\ here \in Copy
    BY <1>4 DEF Trigger, IInv, Typed
  <2>2. PICK differ \in BOOLEAN : differ = (here # there)
    OBVIOUS
  <2> DEFINE r == Run(here, None, differ)
  <2>3. r \in Runs /\ r.at = here /\ r.seen = None /\ r.differed = differ
    BY <2>1, RunOf
  <2> HIDE DEF r
  <2>4. Undisturbed(r)
    BY <2>2, <2>3 DEF Undisturbed
  <2>5. GreenMeansEqual' /\ AlarmIsReal'
    BY <2>1 DEF IInv, GreenMeansEqual, AlarmIsReal
  <2>6. run' = [run EXCEPT ![i] = r]
    BY <2>1, <2>2 DEF r
  <2> QED
    BY <1>3, <2>1, <2>3, <2>4, <2>5, <2>6
<1>5. ASSUME NEW i \in Slot, Checkout(i)
      PROVE  IInv'
  <2>1. /\ run' = [run EXCEPT ![i] = Run(run[i].at, there, run[i].differed)]
        /\ run[i] # Idle /\ run[i].seen = None
        /\ UNCHANGED <<here, there, last>> /\ there \in Copy
        /\ run[i] \in Runs /\ run[i].at \in Copy /\ Undisturbed(run[i])
    BY <1>5 DEF Checkout, IInv, Typed
  <2>2. PICK r : r = Run(run[i].at, there, run[i].differed)
    OBVIOUS
  <2>3. r \in Runs /\ r.at = run[i].at /\ r.seen = there /\ r.differed = run[i].differed
    BY <2>1, <2>2, RunOf DEF Runs
  <2>4. Undisturbed(r)
    BY <2>1, <2>3 DEF Undisturbed
  <2>5. GreenMeansEqual' /\ AlarmIsReal'
    BY <2>1 DEF IInv, GreenMeansEqual, AlarmIsReal
  <2> QED
    BY <1>3, <2>1, <2>2, <2>3, <2>4, <2>5
<1>6. ASSUME NEW i \in Slot, run' = [run EXCEPT ![i] = Idle], UNCHANGED <<here, there>>,
             GreenMeansEqual', AlarmIsReal'
      PROVE  IInv'
  BY <1>3, <1>6, IdleRun DEF Undisturbed
<1>7. ASSUME NEW i \in Slot, Fails(i)
      PROVE  IInv'
  BY <1>6, <1>7 DEF Fails, End, GreenMeansEqual, AlarmIsReal
<1>8. ASSUME NEW i \in Slot, Compare(i)
      PROVE  IInv'
  <2>1. /\ run' = [run EXCEPT ![i] = Idle] /\ UNCHANGED <<here, there>>
        /\ last'.verdict = Verdict(run[i].at, run[i].seen) /\ last'.run = run[i]
    BY <1>8 DEF Compare, End
  <2>2. /\ run[i].at \in Copy /\ run[i].seen \in Copy
        /\ ~run[i].differed => run[i].seen = run[i].at
    BY <1>8 DEF Compare, IInv, Typed, Runs, Undisturbed
  <2>3. GreenMeansEqual'
    BY <2>1, <2>2, GreenIsEqual DEF GreenMeansEqual
  <2>4. AlarmIsReal'
    <3>1. CASE run[i].differed
      BY <2>1, <3>1 DEF AlarmIsReal
    <3>2. CASE ~run[i].differed
      BY <2>1, <2>2, <3>2, RedIsReal DEF AlarmIsReal
    <3> QED
      BY <3>1, <3>2
  <2> QED
    BY <1>6, <2>1, <2>3, <2>4
<1>9. CASE UNCHANGED vars
  BY <1>9 DEF vars, IInv, Typed, Undisturbed, GreenMeansEqual, AlarmIsReal
<1> QED
  BY <1>1, <1>2, <1>4, <1>5, <1>7, <1>8, <1>9 DEF Next

LEMMA IInvAlways == Spec => []IInv
BY IInvInit, IInvStep, PTL DEF Spec

\* A run without a report of drift compared equal copies.
THEOREM GreenSound == Spec => []GreenMeansEqual
<1>1. IInv => GreenMeansEqual
  BY DEF IInv
<1> QED
  BY <1>1, IInvAlways, PTL

\* A report of drift is about a moment at which the copies did differ.
THEOREM AlarmSound == Spec => []AlarmIsReal
<1>1. IInv => AlarmIsReal
  BY DEF IInv
<1> QED
  BY <1>1, IInvAlways, PTL
===============================================================================
