--------------------------- MODULE ArbVoteProofs ---------------------------
(***************************************************************************)
(* Proofs about ArbVote for any set of Echos and any scores.               *)
(***************************************************************************)
EXTENDS ArbVote, TLAPS

\* What the order compares are numbers.
LEMMA Numbers == ASSUME Numbered, TypeOK, NEW e \in Echo PROVE mark[e] \in Nat /\ e \in Nat
<1>1. mark[e] \in Mark \cup {0}
  BY DEF TypeOK
<1>2. Mark \cup {0} \subseteq Nat /\ Echo \subseteq Nat
  BY DEF Numbered
<1> QED
  BY <1>1, <1>2

\* Every Echo's outcome and mark keep their types.
THEOREM TypeCorrect == Spec => []TypeOK
<1>1. Init => TypeOK
  BY DEF Init, TypeOK, Outcome
<1>2. TypeOK /\ [Next]_voteVars => TypeOK'
  BY DEF TypeOK, Outcome, Next, voteVars, Claim, Answer, GoQuiet, Unable
<1> QED
  BY <1>1, <1>2, PTL DEF Spec

\* The rounds' order is the same everywhere and has no cycles.
LEMMA BetterIsTransitive ==
  ASSUME Numbered, TypeOK, NEW e \in Echo, NEW f \in Echo, NEW g \in Echo, Better(g, f), Better(f, e)
  PROVE  Better(g, e)
<1>1. mark[e] \in Nat /\ mark[f] \in Nat /\ mark[g] \in Nat /\ e \in Nat /\ f \in Nat /\ g \in Nat
  BY Numbers
<1> QED
  BY <1>1 DEF Better

\* No wake word that was claimed goes unanswered because every Echo left it
\* to another, however many Echos claim it and in whatever order they decide.
THEOREM NoSilenceHolds == ASSUME Numbered PROVE Spec => []NoSilence
<1>1. Init => NoSilence
  BY DEF Init, NoSilence
<1>2. ASSUME TypeOK, NoSilence, [Next]_voteVars PROVE NoSilence'
  <2> USE <1>2 DEF TypeOK
  <2>1. ASSUME NEW e \in Echo, Claim(e) PROVE NoSilence'
    <3>1. \A f, g \in Echo : f # e /\ g # e /\ Better(f, g) => Better(f, g)'
      BY <2>1 DEF Claim, Better
    <3>2. out[e] = "none" /\ \A f \in Echo : f # e => out'[f] = out[f]
      BY <2>1 DEF Claim
    <3>3. out'[e] = "claimed"
      BY <2>1 DEF Claim
    <3>4. ASSUME NEW d \in Echo, out'[d] = "lost"
          PROVE  \E f \in Echo : out'[f] = "answered" \/ (out'[f] = "claimed" /\ Better(f, d)')
      <4>1. d # e /\ out[d] = "lost"
        BY <3>2, <3>3, <3>4
      <4>2. PICK f \in Echo : out[f] = "answered" \/ (out[f] = "claimed" /\ Better(f, d))
        BY <1>2, <4>1 DEF NoSilence
      <4>3. f # e /\ out'[f] = out[f]
        BY <3>2, <4>2
      <4> QED
        BY <3>1, <4>1, <4>2, <4>3
    <3> QED
      BY <3>4 DEF NoSilence
  <2>2. ASSUME NEW e \in Echo, Answer(e) PROVE NoSilence'
    <3>1. out'[e] = "answered"
      BY <2>2 DEF Answer
    <3> QED
      BY <3>1 DEF NoSilence
  <2>3. ASSUME NEW e \in Echo, GoQuiet(e) PROVE NoSilence'
    <3>1. /\ out[e] = "claimed" /\ out'[e] = "lost" /\ mark' = mark
          /\ \A f \in Echo : f # e => out'[f] = out[f]
      BY <2>3 DEF GoQuiet
    <3>2. \E g \in Echo : g # e /\ (out[g] = "answered" \/ (out[g] = "claimed" /\ Better(g, e)))
      <4>1. \A f \in Echo : Better(f, e) => f # e
        <5>1. mark[e] \in Nat /\ e \in Nat
          BY <1>2, Numbers
        <5> QED
          BY <5>1 DEF Better
      <4>2. PICK f \in Echo : out[f] = "answered" \/ (out[f] \in {"claimed", "lost"} /\ Better(f, e))
        BY <2>3 DEF GoQuiet
      <4>3. CASE out[f] = "lost" /\ Better(f, e)
        <5>1. PICK g \in Echo : out[g] = "answered" \/ (out[g] = "claimed" /\ Better(g, f))
          BY <1>2, <4>3 DEF NoSilence
        <5> QED
          BY <1>2, <3>1, <4>1, <4>3, <5>1, BetterIsTransitive
      <4> QED
        BY <3>1, <4>1, <4>2, <4>3
    <3>3. PICK g \in Echo : g # e /\ (out[g] = "answered" \/ (out[g] = "claimed" /\ Better(g, e)))
      BY <3>2
    <3>4. ASSUME NEW d \in Echo, out'[d] = "lost"
          PROVE  \E f \in Echo : out'[f] = "answered" \/ (out'[f] = "claimed" /\ Better(f, d))
      <4>1. CASE d = e
        BY <3>1, <3>3, <4>1
      <4>2. CASE d # e
        <5>1. PICK f \in Echo : out[f] = "answered" \/ (out[f] = "claimed" /\ Better(f, d))
          BY <1>2, <3>1, <3>4, <4>2 DEF NoSilence
        <5>2. CASE f = e
          BY <1>2, <3>1, <3>3, <5>1, <5>2, BetterIsTransitive
        <5> QED
          BY <3>1, <5>1, <5>2
      <4> QED
        BY <4>1, <4>2
    <3>5. \A f, d \in Echo : Better(f, d) => Better(f, d)'
      BY <3>1 DEF Better
    <3> QED
      BY <3>4, <3>5 DEF NoSilence
  <2>4. ASSUME NEW e \in Echo, Unable(e) PROVE NoSilence'
    <3>1. out[e] = "none" /\ out'[e] = "unable" /\ mark' = mark /\ \A f \in Echo : f # e => out'[f] = out[f]
      BY <2>4 DEF Unable
    <3> QED
      BY <1>2, <3>1 DEF NoSilence, Better
  <2>5. CASE UNCHANGED voteVars
    BY <1>2, <2>5 DEF voteVars, NoSilence, Better
  <2> QED
    BY <1>2, <2>1, <2>2, <2>3, <2>4, <2>5 DEF Next
<1> QED
  BY <1>1, <1>2, TypeCorrect, PTL DEF Spec

\* Nothing revokes a decision.
THEOREM DecisionsStayHolds == Spec => DecisionsStay
<1>1. TypeOK /\ [Next]_voteVars =>
        [\A e \in Echo : out[e] \in {"answered", "lost", "unable"} => out'[e] = out[e]]_voteVars
  BY DEF TypeOK, Next, voteVars, Claim, Answer, GoQuiet, Unable
<1> QED
  BY <1>1, TypeCorrect, PTL DEF Spec, DecisionsStay
=============================================================================
