----------------------------- MODULE MCProvetrail -----------------------------
(***************************************************************************)
(* Instances of Provetrail and CommandLine.  Root is the symbolic Merkle   *)
(* root.                                                                   *)
(***************************************************************************)
EXTENDS CommandLine, Merkle

CONSTANTS e1, e2, r1, r2, k1, k2, a, b, short, noKid

\* seq in the order of the names.
Numbered == (e1 :> 1 @@ e2 :> 2)

\* Two edits by anyone, or one by a producer and one on the way: one run, one
\* signer whose kid k1 the keyring holds, k2 being unknown.
OneSigner == [run \in Run |-> a]
OneKid == [k \in Key |-> k1]
OneRing == {k1 :> a}

\* Rotation: two signers publish their keys under the same kid, so the operator
\* moves it from one to the other, drops it, or installs a malformed key.
TwoSigners == (r1 :> a @@ r2 :> b)
RotatedRings == {k1 :> a, k1 :> b, k1 :> short, <<>>}
===============================================================================
