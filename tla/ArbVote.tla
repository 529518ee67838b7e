------------------------------ MODULE ArbVote ------------------------------
(***************************************************************************)
(* What a wake word round promises, without time, packets or counters      *)
(* (the contract of arb_claim and arb_decide, src/src/hassmic/arb.h): of   *)
(* the Echos that claimed one wake word, one goes quiet only for another   *)
(* that answers or whose claim is better.  ArbRound implements it however  *)
(* the network behaves.                                                    *)
(***************************************************************************)
EXTENDS Naturals

CONSTANTS
  Echo,    \* ids, compared as numbers (memcmp of the public keys)
  Mark     \* what a claim is judged by: priority and score, as one number

\* What the order of claims needs.
Numbered == Echo \subseteq Nat /\ Mark \subseteq Nat

VARIABLES
  out,     \* what became of the wake word at each Echo
  mark     \* the mark of its claim

voteVars == <<out, mark>>

Outcome == {"none", "claimed", "answered", "lost", "unable"}

TypeOK == out \in [Echo -> Outcome] /\ mark \in [Echo -> Mark \cup {0}]

Init == out = [e \in Echo |-> "none"] /\ mark = [e \in Echo |-> 0]

\* The same order at every Echo: priority and score, the larger id on a tie.
Better(f, e) == mark[f] > mark[e] \/ (mark[f] = mark[e] /\ f > e)

Claim(e) ==
  /\ out[e] = "none"
  /\ out' = [out EXCEPT ![e] = "claimed"]
  /\ \E m \in Mark : mark' = [mark EXCEPT ![e] = m]

\* Without a round at once, or at its round's end.
Answer(e) ==
  /\ out[e] \in {"none", "claimed"}
  /\ out' = [out EXCEPT ![e] = "answered"]
  /\ UNCHANGED mark

\* Only for a reason: another answers, or claimed and was better.
GoQuiet(e) ==
  /\ out[e] = "claimed"
  /\ \E f \in Echo : \/ out[f] = "answered"
                     \/ out[f] \in {"claimed", "lost"} /\ Better(f, e)
  /\ out' = [out EXCEPT ![e] = "lost"]
  /\ UNCHANGED mark

\* Muted or without Home Assistant: no claim.
Unable(e) ==
  /\ out[e] = "none"
  /\ out' = [out EXCEPT ![e] = "unable"]
  /\ UNCHANGED mark

Next ==
  \E e \in Echo : Claim(e) \/ Answer(e) \/ GoQuiet(e) \/ Unable(e)

Spec == Init /\ [][Next]_voteVars

\* An Echo that went quiet did so for one that answers, or that may still
\* answer and is better: when every round has ended, somebody answered.
NoSilence ==
  \A e \in Echo : out[e] = "lost" =>
    \E f \in Echo : \/ out[f] = "answered"
                    \/ out[f] = "claimed" /\ Better(f, e)

\* A decision is final: who answered or went quiet does not do the other later.
DecisionsStay ==
  [][\A e \in Echo : out[e] \in {"answered", "lost", "unable"} => out'[e] = out[e]]_voteVars
=============================================================================
