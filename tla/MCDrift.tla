------------------------------- MODULE MCDrift -------------------------------
(* Instances of Drift: a suite of one file and a suite of two to start from. *)
EXTENDS Drift

Same == {[s \in Suites |-> [f \in File |-> IF s = "structural" /\ f = "g" THEN Absent ELSE "x"]]}
==============================================================================
