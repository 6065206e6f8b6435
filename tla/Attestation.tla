------------------------------ MODULE Attestation -----------------------------
(***************************************************************************)
(* What the record and its verifiers promise, with no record and no        *)
(* verifier in sight: a run's log only grows, its signer attests some of   *)
(* the log's successive contents, and whoever trusts the signer's key may  *)
(* come to believe exactly an attested content of an attested run.         *)
(* Provetrail is shown to implement this.                                  *)
(***************************************************************************)
EXTENDS Integers, Sequences

CONSTANTS
  Event,
  MaxLog,   \* bound: the longest log
  Run,
  Signer    \* the key that signs each run

VARIABLES
  log,      \* each run's events so far
  attested, \* each run's signed contents
  believed  \* what verifiers hold: [key, origin, events]

vars == <<log, attested, believed>>

Init == /\ log = [run \in Run |-> <<>>]
        /\ attested = [run \in Run |-> {}]
        /\ believed = {}

Extend(run, e) ==
  /\ Len(log[run]) < MaxLog
  /\ log' = [log EXCEPT ![run] = Append(@, e)]
  /\ UNCHANGED <<attested, believed>>

Attest(run) ==
  /\ attested' = [attested EXCEPT ![run] = @ \cup {log[run]}]
  /\ UNCHANGED <<log, believed>>

Believe(run) ==
  /\ \E s \in attested[run] :
       believed' = believed \cup {[key |-> Signer[run], origin |-> run, events |-> s]}
  /\ UNCHANGED <<log, attested>>

Next == \E run \in Run : \/ \E e \in Event : Extend(run, e)
                         \/ Attest(run)
                         \/ Believe(run)

Spec == Init /\ [][Next]_vars
-------------------------------------------------------------------------------
\* s is what t once was.
Earlier(s, t) == Len(s) <= Len(t) /\ \A i \in 1..Len(s) : s[i] = t[i]

\* Two contents believed of one run never contradict each other: one is what
\* the other once was.
BelievedChain ==
  \A x, y \in believed :
    x.origin = y.origin => Earlier(x.events, y.events) \/ Earlier(y.events, x.events)
===============================================================================
