--------------------------- MODULE AttestationProofs --------------------------
(***************************************************************************)
(* Believed contents of one run never contradict each other.               *)
(***************************************************************************)
EXTENDS Attestation, TLAPS

Contents == Seq(Event)

\* The strengthening: whatever was attested is what the log once was, and only
\* attested contents are believed.
ChainInv ==
  /\ log \in [Run -> Contents]
  /\ attested \in [Run -> SUBSET Contents]
  /\ \A run \in Run : \A s \in attested[run] : Earlier(s, log[run])
  /\ \A x \in believed : x.origin \in Run /\ x.events \in attested[x.origin]

\* Any two earlier contents of one log are comparable.
LEMMA EarlierTotal ==
  ASSUME NEW l \in Contents, NEW s \in Contents, NEW t \in Contents,
         Earlier(s, l), Earlier(t, l)
  PROVE  Earlier(s, t) \/ Earlier(t, s)
<1>1. Len(s) \in Nat /\ Len(t) \in Nat /\ Len(l) \in Nat
  BY DEF Contents
<1>2. CASE Len(s) <= Len(t)
  BY <1>1, <1>2 DEF Earlier
<1>3. CASE Len(t) <= Len(s)
  BY <1>1, <1>3 DEF Earlier
<1> QED
  BY <1>1, <1>2, <1>3

\* What a log once was it still once was after the next event.
LEMMA EarlierGrows ==
  ASSUME NEW l \in Contents, NEW s \in Contents, NEW e \in Event, Earlier(s, l)
  PROVE  Earlier(s, Append(l, e))
<1>1. Len(Append(l, e)) = Len(l) + 1 /\ Len(s) \in Nat /\ Len(l) \in Nat
  BY DEF Contents
<1>2. \A i \in 1..Len(l) : Append(l, e)[i] = l[i]
  BY DEF Contents
<1> QED
  BY <1>1, <1>2 DEF Earlier

-------------------------------------------------------------------------------
\* ChainInv holds at the start and no step breaks it.
LEMMA ChainInductive ==
  /\ Init => ChainInv
  /\ ChainInv /\ [Next]_vars => ChainInv'
<1>1. Init => ChainInv
  BY DEF Init, ChainInv, Contents
<1>2. ASSUME ChainInv, [Next]_vars
      PROVE  ChainInv'
  <2>1. ASSUME NEW run \in Run, NEW e \in Event, Extend(run, e)
        PROVE  ChainInv'
    <3>1. log' = [log EXCEPT ![run] = Append(@, e)] /\ UNCHANGED <<attested, believed>>
      BY <2>1 DEF Extend
    <3>2. log' \in [Run -> Contents]
      BY <1>2, <3>1 DEF ChainInv, Contents
    <3>3. ASSUME NEW r \in Run, NEW s \in attested[r]
          PROVE  Earlier(s, log'[r])
      <4>1. s \in Contents /\ log[r] \in Contents /\ Earlier(s, log[r])
        BY <1>2 DEF ChainInv
      <4>2. CASE r = run
        BY <4>1, <4>2, <3>1, <1>2, EarlierGrows DEF ChainInv
      <4>3. CASE r # run
        BY <4>1, <4>3, <3>1, <1>2 DEF ChainInv
      <4> QED
        BY <4>2, <4>3
    <3> QED
      BY <1>2, <3>1, <3>2, <3>3 DEF ChainInv
  <2>2. ASSUME NEW run \in Run, Attest(run)
        PROVE  ChainInv'
    <3>1. attested' = [attested EXCEPT ![run] = @ \cup {log[run]}] /\ UNCHANGED <<log, believed>>
      BY <2>2 DEF Attest
    <3>2. Earlier(log[run], log[run]) /\ log[run] \in Contents
      BY <1>2 DEF ChainInv, Earlier, Contents
    <3>3. attested' \in [Run -> SUBSET Contents]
      BY <1>2, <3>1, <3>2 DEF ChainInv
    <3>4. \A r \in Run : attested[r] \subseteq attested'[r] /\ attested'[r] \subseteq attested[r] \cup {log[r]}
      BY <1>2, <3>1 DEF ChainInv
    <3>5. \A r \in Run : Earlier(log[r], log[r])
      BY <1>2 DEF ChainInv, Earlier, Contents
    <3> QED
      BY <1>2, <3>1, <3>3, <3>4, <3>5 DEF ChainInv
  <2>3. ASSUME NEW run \in Run, Believe(run)
        PROVE  ChainInv'
    BY <1>2, <2>3 DEF ChainInv, Believe
  <2>4. CASE UNCHANGED vars
    BY <1>2, <2>4 DEF ChainInv, vars
  <2> QED
    BY <1>2, <2>1, <2>2, <2>3, <2>4 DEF Next
<1> QED
  BY <1>1, <1>2

\* In every behaviour of the promise, what is believed of one run is a chain.
THEOREM AttestationChain == Spec => []BelievedChain
<1>1. ChainInv => BelievedChain
  <2> SUFFICES ASSUME ChainInv, NEW x \in believed, NEW y \in believed, x.origin = y.origin
               PROVE  Earlier(x.events, y.events) \/ Earlier(y.events, x.events)
    BY DEF BelievedChain
  <2>1. x.events \in attested[x.origin] /\ y.events \in attested[x.origin] /\ x.origin \in Run
    BY DEF ChainInv
  <2> QED
    BY <2>1, EarlierTotal DEF ChainInv
<1> QED
  BY <1>1, ChainInductive, PTL DEF Spec
===============================================================================
