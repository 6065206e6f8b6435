------------------------------ MODULE MCRelease ------------------------------
(* Instances of Release: one package, two of the gate's conformance jobs.  *)
EXTENDS Release
CONSTANTS suite, client
===============================================================================
