-------------------------- MODULE ArbRoundProofs --------------------------
(***************************************************************************)
(* Proofs about ArbRound for any set of Echos, wake words, scores, windows *)
(* and delays.                                                             *)
(***************************************************************************)
EXTENDS ArbRound, FiniteSetTheorems, FunctionTheorems, TLAPS

(***************************************************************************)
(* The inductive invariant                                                 *)
(***************************************************************************)

\* Utterances that cannot be mixed up: there is one, or the next comes once the
\* last one's rounds and packets are over and its claims too old to count.
Spaced ==
  MaxSay <= 1 \/ \A w \in Windows \cup {0} : Spread + AFE_WAIT + w + MaxDelay + LOOKBACK < Gap

\* t is at most d after the last end a round of this utterance can have.
Within(t, d) == \E w \in Windows \cup {0} : t <= said.at + Spread + AFE_WAIT + w + d

\* The capture threads and what they made of the utterance.
Threads ==
  \A e \in Echo :
    /\ det[e] <= said.n
    /\ det[e] < said.n \/ said.n = 0 => phase[e] = "idle" /\ out[e] = "none"
    /\ phase[e] = "round" <=> out[e] = "claimed"
    /\ phase[e] = "score" => out[e] = "none"
    /\ det[e] = 0 => round[e] = NoRound
    /\ phase[e] = "score" /\ said.n <= 1 => round[e] = NoRound

\* What waits is of this utterance, and not overdue.
Punctual ==
  /\ said.at <= now
  /\ \A e \in Echo :
       /\ phase[e] = "score" => /\ pend[e].prio \in Prio
                                /\ now <= pend[e].due /\ pend[e].due <= said.at + Spread + AFE_WAIT
       /\ phase[e] = "round" => /\ now <= round[e].due /\ Within(round[e].due, 0)
                                /\ round[e].kw = said.kw /\ said.at <= round[e].at
                                /\ round[e].score \in Scores /\ round[e].prio \in Prio

\* k says of Echo f what f's own round says of this utterance.
Agrees(k, f) ==
  /\ out[f] \in {"claimed", "answered", "lost"}
  /\ k.score = round[f].score /\ k.prio = round[f].prio
  /\ k.won => out[f] = "answered"

AirTrue ==
  \A p \in air :
    /\ p.at <= now /\ now <= p.at + MaxDelay
    /\ p.type = "claim" => /\ p.score \in Scores /\ p.prio \in Prio
                           /\ Within(p.at, 0) /\ Agrees(p, p.from)

KeptTrue ==
  \A e \in Echo : \A k \in claims[e] :
    \/ Within(k.at, MaxDelay) /\ Agrees(k, k.id)
    \/ k.at + LOOKBACK < said.at

Finite == \A e \in Echo : IsFiniteSet(claims[e])

\* A wake word that waits and a claim on its way have a score and a priority.
Marked ==
  /\ \A e \in Echo : /\ phase[e] = "score" => pend[e].prio \in Prio
                     /\ phase[e] = "round" => round[e].score \in Scores /\ round[e].prio \in Prio
  /\ \A p \in air : p.type = "claim" => p.score \in Scores /\ p.prio \in Prio

IInv == TypeOK /\ Finite /\ Threads /\ Punctual /\ AirTrue /\ KeptTrue

(***************************************************************************)
(* Every claim in time                                                     *)
(***************************************************************************)

\* One utterance among Echos that know each other, no packet lost, a window that
\* outlasts the engines' spread and the network, room for every claim.
Timely ==
  /\ MaxSay <= 1 /\ Lossless /\ Acquainted /\ ~RivalsOn /\ Beacons = 0
  /\ IsFiniteSet(Echo) /\ NCLAIM >= 2 * Cardinality(Echo)
  /\ \A w \in Windows : w > Spread + AFE_WAIT + MaxDelay
  /\ LOOKBACK >= Spread + AFE_WAIT

Took(f) == out[f] \in {"claimed", "lost", "answered"}

\* What an Echo has sent, and when.
Sent ==
  \A f \in Echo :
    /\ counts[f] = Echo \ {f}
    /\ out[f] \in {"none", "unable"} => ctr[f] = 0
    /\ out[f] \in {"claimed", "lost"} => ctr[f] = 1
    /\ phase[f] = "round" => /\ round[f].want = counts[f] /\ round[f].waits = counts[f]
                             /\ round[f].due > said.at + Spread + AFE_WAIT + MaxDelay
    /\ Took(f) => /\ said.at <= round[f].at /\ round[f].at <= said.at + Spread + AFE_WAIT
                  /\ round[f].at <= now

\* A claim is in the air until every other Echo has it, or a later one, and then kept.
Arrives ==
  \A e \in Echo : \A f \in Echo \ {e} :
    /\ Took(f) => \/ \E p \in air : p.from = f /\ p.c = 1 /\ p.at = round[f].at
                  \/ round[f].at + MaxDelay < now
    /\ Took(f) /\ last[e][f] = 0 => now <= round[f].at + MaxDelay
    /\ last[e][f] # 0 => \E k \in claims[e] : k.id = f

\* The claims kept, at most two of each Echo.
Book ==
  /\ \A p \in air : p.type = "claim" /\ p.kw = said.kw /\ said.at <= p.at /\ p.c = (IF p.won THEN 2 ELSE 1)
  /\ \A e \in Echo : \A k \in claims[e] :
       /\ k.id # e /\ k.kw = said.kw /\ said.at <= k.at
       /\ last[e][k.id] >= (IF k.won THEN 2 ELSE 1)
       /\ \A j \in claims[e] : j.id = k.id /\ j.won = k.won => j = k

\* Whoever answers was told of everybody who claimed, and is the best.
Chosen ==
  \A e \in Echo : \A f \in Echo \ {e} : out[e] = "answered" =>
    \/ out[f] = "unable"
    \/ out[f] = "none" /\ phase[f] = "idle" /\ now > said.at + Spread
    \/ out[f] \in {"claimed", "lost"} /\ ~Better(f, e)

TInv == Sent /\ Arrives /\ Book /\ Chosen

(***************************************************************************)
(* Constants and types                                                     *)
(***************************************************************************)

LEMMA Numbers ==
  /\ LOOKBACK \in Nat /\ NCLAIM \in Nat /\ NCLAIM > 0 /\ AFE_WAIT \in Nat /\ Beacons \in Nat /\ MaxDelay \in Nat
  /\ Spread \in Nat /\ Gap \in Nat /\ MaxSay \in Nat /\ MaxTime \in Nat
  /\ Echo \subseteq Nat /\ Scores \subseteq Nat /\ Prio \subseteq Nat /\ Windows \subseteq Nat
BY ArbRoundAssumption

LEMMA NoneKw == None.kw \in Keyword
BY ArbRoundAssumption DEF None

LEMMA UnclaimedIsRound == ASSUME NEW t \in Nat, NEW kw \in Keyword PROVE Unclaimed(t, kw) \in Rounds
BY DEF Unclaimed, Rounds

\* What Keep leaves: at most NCLAIM claims, each an old one or the new one.
LEMMA KeepBounded ==
  ASSUME NEW old, NEW k, IsFiniteSet(old), Cardinality(old) <= NCLAIM, NEW kept \in Keep(old, k)
  PROVE  IsFiniteSet(kept) /\ Cardinality(kept) <= NCLAIM /\ kept \subseteq old \cup {k}
<1>1. NCLAIM \in Nat /\ Cardinality(old) \in Nat
  BY Numbers, FS_CardinalityType
<1>2. CASE Cardinality(old) < NCLAIM
  <2>1. kept = old \cup {k}
    BY <1>2 DEF Keep
  <2> QED
    BY <1>1, <1>2, <2>1, FS_AddElement
<1>3. CASE ~(Cardinality(old) < NCLAIM)
  <2>1. PICK o \in old : kept = (old \ {o}) \cup {k}
    BY <1>3 DEF Keep
  <2>2. IsFiniteSet(old \ {o}) /\ Cardinality(old \ {o}) = Cardinality(old) - 1
    BY <2>1, FS_RemoveElement
  <2>3. IsFiniteSet(kept) /\ Cardinality(kept) \in {Cardinality(old \ {o}), Cardinality(old \ {o}) + 1}
    BY <2>1, <2>2, FS_AddElement
  <2> QED
    BY <1>1, <2>1, <2>2, <2>3
<1> QED
  BY <1>2, <1>3

\* A claim without anybody to ask changes only the Echo's own round.
Alone(e) ==
  /\ counts[e] = {}
  /\ phase' = [phase EXCEPT ![e] = "idle"]
  /\ round' = [round EXCEPT ![e] = Unclaimed(now, said.kw)]
  /\ out' = [out EXCEPT ![e] = "answered"]
  /\ UNCHANGED <<ctr, air>>

\* The round q that a claim opens and the packet p that announces it.
Opens(e, score, prio, q, p) ==
  /\ counts[e] # {}
  /\ q \in Rounds /\ p \in Packet
  /\ q.at = now /\ q.kw = said.kw /\ q.score = score /\ q.prio = prio /\ q.want = counts[e] /\ ~q.won
  /\ RivalsOn \/ (q.waits = counts[e] /\ \E w \in Windows : q.due = now + w)
  /\ \E w \in Windows \cup {0} : q.due = now + w
  /\ p.from = e /\ p.c = ctr[e] + 1 /\ p.type = "claim" /\ p.kw = said.kw /\ p.score = score /\ p.prio = prio
  /\ ~p.won /\ p.at = now
  /\ round' = [round EXCEPT ![e] = q]
  /\ phase' = [phase EXCEPT ![e] = "round"]
  /\ out' = [out EXCEPT ![e] = "claimed"]
  /\ ctr' = [ctr EXCEPT ![e] = @ + 1]
  /\ air' = air \cup {p}

LEMMA ClaimCases ==
  ASSUME TypeOK, NEW e \in Echo, NEW s \in Scores, NEW r \in Prio, Claim(e, s, r)
  PROVE  Alone(e) \/ \E q \in Rounds, p \in Packet : Opens(e, s, r, q, p)
<1>1. CASE counts[e] = {}
  BY <1>1 DEF Claim, Alone
<1>2. CASE counts[e] # {}
  <2>1. PICK waits \in IF RivalsOn THEN SUBSET counts[e] ELSE {counts[e]} :
          \E w \in IF waits = {} THEN {0} ELSE Windows :
            round' = [round EXCEPT ![e] =
                        [at |-> now, kw |-> said.kw, score |-> s, prio |-> r,
                         want |-> counts[e], waits |-> waits, due |-> now + w, won |-> FALSE]]
    BY <1>2 DEF Claim
  <2>2. PICK w \in IF waits = {} THEN {0} ELSE Windows :
            round' = [round EXCEPT ![e] =
                        [at |-> now, kw |-> said.kw, score |-> s, prio |-> r,
                         want |-> counts[e], waits |-> waits, due |-> now + w, won |-> FALSE]]
    BY <2>1
  <2> DEFINE q == [at |-> now, kw |-> said.kw, score |-> s, prio |-> r,
                   want |-> counts[e], waits |-> waits, due |-> now + w, won |-> FALSE]
             p == [from |-> e, c |-> ctr[e] + 1, type |-> "claim", kw |-> said.kw, score |-> s,
                   prio |-> r, won |-> FALSE, at |-> now, n |-> said.n]
  <2>3. w \in Windows \cup {0} /\ w \in Nat
    BY Numbers
  <2>4. waits \in SUBSET Echo /\ counts[e] \in SUBSET Echo /\ now \in Nat /\ said.kw \in Keyword /\ said.n \in Nat
        /\ ctr[e] \in Nat
    BY DEF TypeOK
  <2>5. q \in Rounds
    BY <2>3, <2>4 DEF Rounds
  <2>6. p \in Packet
    BY <2>4 DEF Packet
  <2>7. RivalsOn \/ (waits = counts[e] /\ w \in Windows)
    BY <1>2
  <2>8. /\ phase' = [phase EXCEPT ![e] = "round"]
        /\ out' = [out EXCEPT ![e] = "claimed"]
        /\ ctr' = [ctr EXCEPT ![e] = @ + 1]
        /\ air' = air \cup {p}
    BY <1>2 DEF Claim, Broadcast
  <2>9. Opens(e, s, r, q, p)
    BY <1>2, <2>2, <2>3, <2>5, <2>6, <2>7, <2>8 DEF Opens
  <2> QED
    BY <2>5, <2>6, <2>9
<1> QED
  BY <1>1, <1>2


\* One round's end: e goes quiet, or answers and says so with the packet p.
Quiet(e) ==
  /\ beaten(e)
  /\ out' = [out EXCEPT ![e] = "lost"]
  /\ UNCHANGED <<round, ctr, air>>

Answers(e, p) ==
  /\ ~beaten(e)
  /\ p \in Packet
  /\ p.from = e /\ p.c = ctr[e] + 1 /\ p.type = "claim" /\ p.kw = round[e].kw /\ p.score = round[e].score
  /\ p.prio = round[e].prio /\ p.won /\ p.at = now
  /\ out' = [out EXCEPT ![e] = "answered"]
  /\ round' = [round EXCEPT ![e].won = TRUE]
  /\ ctr' = [ctr EXCEPT ![e] = @ + 1]
  /\ air' = air \cup {p}

LEMMA DecideCases ==
  ASSUME TypeOK, NEW e \in Echo, Decide(e)
  PROVE  Quiet(e) \/ \E p \in Packet : Answers(e, p)
<1>1. CASE beaten(e)
  BY <1>1 DEF Decide, Quiet
<1>2. CASE ~beaten(e)
  <2> DEFINE p == [from |-> e, c |-> ctr[e] + 1, type |-> "claim", kw |-> round[e].kw, score |-> round[e].score,
                   prio |-> round[e].prio, won |-> TRUE, at |-> now, n |-> said.n]
  <2>1. round[e] \in Rounds /\ ctr[e] \in Nat /\ now \in Nat /\ said.n \in Nat
    BY DEF TypeOK
  <2>2. p \in Packet
    BY <2>1 DEF Packet, Rounds
  <2>3. /\ out' = [out EXCEPT ![e] = "answered"]
        /\ round' = [round EXCEPT ![e].won = TRUE]
        /\ ctr' = [ctr EXCEPT ![e] = @ + 1]
        /\ air' = air \cup {p}
    BY <1>2 DEF Decide, Broadcast
  <2>4. Answers(e, p)
    BY <1>2, <2>2, <2>3 DEF Answers
  <2> QED
    BY <2>2, <2>4
<1> QED
  BY <1>1, <1>2

\* What every kind of state is made of, kept by every step.
LEMMA TypeStep == ASSUME TypeOK, Finite, Marked, [Next]_vars PROVE TypeOK' /\ Finite'
<1> USE Numbers
<1>0. TypeOK /\ Finite
  OBVIOUS
<1>1. ASSUME NEW kw \in Keyword, Say(kw) PROVE TypeOK' /\ Finite'
  <2>1. said' \in [n : 0 .. MaxSay, at : 0 .. MaxTime, kw : Keyword]
    BY <1>0, <1>1 DEF Say, TypeOK
  <2> QED
    BY <1>0, <1>1, <2>1 DEF Say, TypeOK, Finite
<1>2. ASSUME NEW e \in Echo, Hears(e) PROVE det' \in [Echo -> 0 .. MaxSay]
  BY <1>0, <1>2 DEF Hears, TypeOK
<1>3. ASSUME NEW e \in Echo, NEW s \in Scores, NEW r \in Prio, Claim(e, s, r)
      PROVE  /\ phase' \in [Echo -> {"idle", "score", "round"}]
             /\ round' \in [Echo -> Rounds]
             /\ ctr' \in [Echo -> Nat]
             /\ air' \subseteq Packet
             /\ out' \in [Echo -> {"none", "claimed", "answered", "lost", "unable"}]
  <2>1. CASE Alone(e)
    <3>1. now \in Nat /\ said.kw \in Keyword
      BY <1>0 DEF TypeOK
    <3>2. Unclaimed(now, said.kw) \in Rounds
      BY <3>1, UnclaimedIsRound
    <3> QED
      BY <1>0, <2>1, <3>2 DEF Alone, TypeOK
  <2>2. ASSUME NEW q \in Rounds, NEW p \in Packet, Opens(e, s, r, q, p)
        PROVE  /\ phase' \in [Echo -> {"idle", "score", "round"}]
               /\ round' \in [Echo -> Rounds]
               /\ ctr' \in [Echo -> Nat]
               /\ air' \subseteq Packet
               /\ out' \in [Echo -> {"none", "claimed", "answered", "lost", "unable"}]
    <3>1. round' \in [Echo -> Rounds] /\ air' \subseteq Packet
      BY <2>2 DEF Opens, TypeOK
    <3>2. ctr' \in [Echo -> Nat]
      BY <2>2 DEF Opens, TypeOK
    <3>3. /\ phase' \in [Echo -> {"idle", "score", "round"}]
          /\ out' \in [Echo -> {"none", "claimed", "answered", "lost", "unable"}]
      BY <2>2 DEF Opens, TypeOK
    <3> QED
      BY <3>1, <3>2, <3>3
  <2> QED
    BY <1>0, <1>3, <2>1, <2>2, ClaimCases
<1>4. ASSUME NEW e \in Echo, HeardUnable(e) PROVE TypeOK' /\ Finite'
  BY <1>0, <1>2, <1>4 DEF HeardUnable, TypeOK, Finite
<1>5. ASSUME NEW e \in Echo, NEW s \in Scores, NEW r \in Prio, HeardClaims(e, s, r) PROVE TypeOK' /\ Finite'
  <2>1. Hears(e) /\ Claim(e, s, r) /\ UNCHANGED <<now, said, pend, claims, counts, last, dropped>>
    BY <1>5 DEF HeardClaims
  <2>2. det' \in [Echo -> 0 .. MaxSay]
    BY <1>2, <2>1
  <2> QED
    BY <1>0, <1>3, <2>1, <2>2 DEF TypeOK, Finite
<1>6. ASSUME NEW e \in Echo, NEW r \in Prio, HeardScores(e, r) PROVE TypeOK' /\ Finite'
  <2>1. det' \in [Echo -> 0 .. MaxSay]
    BY <1>2, <1>6 DEF HeardScores
  <2>2. pend' \in [Echo -> [prio : Prio \cup {0}, due : Nat]]
    BY <1>0, <1>6 DEF HeardScores, TypeOK
  <2> QED
    BY <1>0, <1>6, <2>1, <2>2 DEF HeardScores, TypeOK, Finite
<1>7. ASSUME NEW e \in Echo, NEW s \in Scores, ScoreWait(e, s) PROVE TypeOK' /\ Finite'
  <2>1. pend[e].prio \in Prio
    BY <1>7 DEF Marked, ScoreWait
  <2>2. Claim(e, s, pend[e].prio) /\ UNCHANGED <<now, said, det, claims, counts, last, dropped>>
    BY <1>7 DEF ScoreWait
  <2>3. pend' \in [Echo -> [prio : Prio \cup {0}, due : Nat]]
    BY <1>0, <1>7 DEF ScoreWait, TypeOK
  <2> QED
    BY <1>0, <1>3, <2>1, <2>2, <2>3 DEF TypeOK, Finite
<1>8. ASSUME NEW e \in Echo, Decide(e) PROVE TypeOK' /\ Finite'
  <2>1. /\ phase' = [phase EXCEPT ![e] = "idle"]
        /\ UNCHANGED <<now, said, det, pend, claims, counts, last, dropped>>
    BY <1>8 DEF Decide
  <2>2. CASE Quiet(e)
    BY <1>0, <2>1, <2>2 DEF Quiet, TypeOK, Finite
  <2>3. ASSUME NEW p \in Packet, Answers(e, p) PROVE TypeOK' /\ Finite'
    <3>1. round' \in [Echo -> Rounds]
      <4>1. round[e] \in Rounds /\ round \in [Echo -> Rounds]
        BY <1>0 DEF TypeOK
      <4>2. [round[e] EXCEPT !.won = TRUE] \in Rounds
        BY <4>1 DEF Rounds
      <4>3. round' = [round EXCEPT ![e] = [round[e] EXCEPT !.won = TRUE]]
        BY <2>3 DEF Answers
      <4> QED
        BY <4>1, <4>2, <4>3
    <3> QED
      BY <1>0, <2>1, <2>3, <3>1 DEF Answers, TypeOK, Finite
  <2> QED
    BY <1>0, <1>8, <2>2, <2>3, DecideCases
<1>9. ASSUME NEW e \in Echo, Beacon(e) PROVE TypeOK' /\ Finite'
  <2>1. air' \subseteq Packet /\ ctr' \in [Echo -> Nat]
    <3> DEFINE p == [from |-> e, c |-> ctr[e] + 1, type |-> "beacon", kw |-> None.kw, score |-> 0,
                     prio |-> 0, won |-> FALSE, at |-> now, n |-> said.n]
    <3>1. ctr[e] \in Nat /\ now \in Nat /\ said.n \in Nat
      BY <1>0 DEF TypeOK
    <3>2. p \in Packet
      BY <3>1, NoneKw DEF Packet
    <3>3. air' = air \cup {p} /\ ctr' = [ctr EXCEPT ![e] = @ + 1]
      BY <1>9 DEF Beacon, Broadcast
    <3> HIDE DEF p
    <3> QED
      BY <1>0, <3>2, <3>3 DEF TypeOK
  <2> QED
    BY <1>0, <1>9, <2>1 DEF Beacon, TypeOK, Finite
<1>10. ASSUME NEW e \in Echo, NEW p \in air, Receive(e, p) PROVE TypeOK' /\ Finite'
  <2>1. p \in Packet
    BY <1>0 DEF TypeOK
  <2>2. last' \in [Echo -> [Echo -> Nat]] /\ counts' \in [Echo -> SUBSET Echo]
    BY <1>0, <1>10, <2>1 DEF Receive, TypeOK, Packet
  <2>3. /\ claims' \in [Echo -> SUBSET Claims]
        /\ \A f \in Echo : Cardinality(claims'[f]) <= NCLAIM /\ IsFiniteSet(claims'[f])
    <3>1. CASE UNCHANGED claims
      BY <1>0, <3>1 DEF TypeOK, Finite
    <3>2. CASE p.type = "claim" /\ ~UNCHANGED claims
      <4> DEFINE k == [id |-> p.from, kw |-> p.kw, score |-> p.score,
                       prio |-> p.prio, won |-> p.won, at |-> now, n |-> p.n]
      <4>1. p.score \in Scores /\ p.prio \in Prio
        BY <3>2 DEF Marked
      <4>2. k \in Claims
        BY <1>0, <2>1, <4>1 DEF TypeOK, Packet, Claims
      <4>3. PICK kept \in Keep(claims[e], k) : claims' = [claims EXCEPT ![e] = kept]
        BY <1>10, <3>2 DEF Receive
      <4>4. IsFiniteSet(claims[e]) /\ Cardinality(claims[e]) <= NCLAIM /\ claims[e] \subseteq Claims
        BY <1>0 DEF TypeOK, Finite
      <4>5. IsFiniteSet(kept) /\ Cardinality(kept) <= NCLAIM /\ kept \subseteq claims[e] \cup {k}
        BY <4>4, KeepBounded
      <4>6. kept \subseteq Claims
        BY <4>2, <4>4, <4>5
      <4>7. ASSUME NEW f \in Echo, f # e PROVE claims'[f] = claims[f]
        BY <4>3, <4>7
      <4> QED
        BY <1>0, <4>3, <4>5, <4>6, <4>7 DEF TypeOK, Finite
    <3> QED
      BY <1>10, <3>1, <3>2 DEF Receive
  <2> QED
    BY <1>0, <1>10, <2>2, <2>3 DEF Receive, TypeOK, Finite
<1>11. ASSUME NEW e \in Echo, NEW p \in air, Drop(e, p) PROVE TypeOK' /\ Finite'
  <2>1. <<e, p.from>> \in Echo \X Echo
    BY <1>0 DEF TypeOK, Packet
  <2> QED
    BY <1>0, <1>11, <2>1 DEF Drop, TypeOK, Finite
<1>12. CASE Tick
  BY <1>0, <1>12 DEF Tick, TypeOK, Finite
<1>13. CASE UNCHANGED vars
  BY <1>0, <1>13 DEF vars, TypeOK, Finite
<1> QED
  BY <1>1, <1>4, <1>5, <1>6, <1>7, <1>8, <1>9, <1>10, <1>11, <1>12, <1>13 DEF Next

LEMMA MarkedStep == ASSUME TypeOK, Marked, [Next]_vars PROVE Marked'
<1>1. ASSUME NEW e \in Echo, NEW s \in Scores, NEW r \in Prio, Claim(e, s, r),
             \A f \in Echo \ {e} : pend'[f] = pend[f]
      PROVE  Marked'
  <2>1. CASE Alone(e)
    <3>1. /\ phase'[e] = "idle" /\ air' = air
          /\ \A f \in Echo \ {e} : phase'[f] = phase[f] /\ round'[f] = round[f]
      BY <2>1 DEF Alone, TypeOK
    <3> QED
      BY <1>1, <3>1 DEF Marked
  <2>2. ASSUME NEW q \in Rounds, NEW p \in Packet, Opens(e, s, r, q, p) PROVE Marked'
    <3>1. /\ phase'[e] = "round" /\ round'[e] = q /\ q.score = s /\ q.prio = r
          /\ \A f \in Echo \ {e} : phase'[f] = phase[f] /\ round'[f] = round[f]
      BY <2>2 DEF Opens, TypeOK
    <3>2. air' = air \cup {p} /\ p.score = s /\ p.prio = r
      BY <2>2 DEF Opens
    <3> QED
      BY <1>1, <3>1, <3>2 DEF Marked
  <2> QED
    BY <1>1, <2>1, <2>2, ClaimCases
<1>2. ASSUME NEW e \in Echo, NEW s \in Scores, NEW r \in Prio, HeardClaims(e, s, r) PROVE Marked'
  BY <1>1, <1>2 DEF HeardClaims
<1>3. ASSUME NEW e \in Echo, NEW s \in Scores, ScoreWait(e, s) PROVE Marked'
  <2>1. pend[e].prio \in Prio /\ \A f \in Echo \ {e} : pend'[f] = pend[f]
    BY <1>3 DEF Marked, ScoreWait, TypeOK
  <2> QED
    BY <1>1, <1>3, <2>1 DEF ScoreWait
<1>4. ASSUME NEW e \in Echo, NEW r \in Prio, HeardScores(e, r) PROVE Marked'
  <2>1. /\ phase'[e] = "score" /\ pend'[e].prio = r /\ UNCHANGED <<air, round>>
        /\ \A f \in Echo \ {e} : phase'[f] = phase[f] /\ pend'[f] = pend[f]
    BY <1>4 DEF HeardScores, TypeOK
  <2> QED
    BY <2>1 DEF Marked
<1>5. ASSUME NEW e \in Echo, Decide(e) PROVE Marked'
  <2>1. phase[e] = "round" /\ phase' = [phase EXCEPT ![e] = "idle"] /\ UNCHANGED pend
    BY <1>5 DEF Decide
  <2>2. phase'[e] = "idle" /\ \A f \in Echo \ {e} : phase'[f] = phase[f]
    BY <2>1 DEF TypeOK
  <2>3. CASE Quiet(e)
    BY <2>1, <2>2, <2>3 DEF Quiet, Marked
  <2>4. ASSUME NEW p \in Packet, Answers(e, p) PROVE Marked'
    <3>1. \A f \in Echo \ {e} : round'[f] = round[f]
      BY <2>4 DEF Answers, TypeOK
    <3>2. air' = air \cup {p} /\ p.score \in Scores /\ p.prio \in Prio
      BY <2>1, <2>4 DEF Answers, Marked
    <3> QED
      BY <2>1, <2>2, <3>1, <3>2 DEF Marked
  <2> QED
    BY <1>5, <2>3, <2>4, DecideCases
<1>6. ASSUME NEW e \in Echo, Beacon(e) PROVE Marked'
  <2>1. PICK p : /\ p = [from |-> e, c |-> ctr[e] + 1, type |-> "beacon", kw |-> None.kw, score |-> 0,
                         prio |-> 0, won |-> FALSE, at |-> now, n |-> said.n]
                 /\ air' = air \cup {p}
    BY <1>6 DEF Beacon, Broadcast
  <2>2. UNCHANGED <<phase, pend, round>>
    BY <1>6 DEF Beacon
  <2>3. p.type = "beacon"
    BY <2>1
  <2> QED
    BY <2>1, <2>2, <2>3 DEF Marked
<1>7. CASE Tick
  BY <1>7 DEF Tick, Marked
<1>8. CASE UNCHANGED <<phase, pend, round, air>>
  BY <1>8 DEF Marked
<1> QED
  BY <1>2, <1>3, <1>4, <1>5, <1>6, <1>7, <1>8 DEF Next, Say, HeardUnable, Receive, Drop, vars

LEMMA IInvIsMarked == IInv => Marked
BY DEF IInv, Marked, Punctual, AirTrue

\* Types of every part of the rounds' state, the ring of claims within its size,
\* for every value of the constants.
THEOREM TypeCorrect == Spec => []TypeOK
<1>1. Init => TypeOK /\ Finite /\ Marked
  <2> SUFFICES ASSUME Init PROVE TypeOK /\ Finite /\ Marked
    OBVIOUS
  <2>1. None.kw \in Keyword /\ None \in [n : 0 .. MaxSay, at : 0 .. MaxTime, kw : Keyword]
    BY NoneKw, Numbers DEF None
  <2>2. NoRound \in Rounds
    BY <2>1, UnclaimedIsRound DEF NoRound
  <2>3. IsFiniteSet({}) /\ Cardinality({}) = 0
    BY FS_EmptySet
  <2>4. TypeOK
    BY <2>1, <2>2, <2>3, Numbers DEF Init, TypeOK
  <2> QED
    BY <2>3, <2>4 DEF Init, Finite, Marked
<1>2. TypeOK /\ Finite /\ Marked /\ [Next]_vars => TypeOK' /\ Finite' /\ Marked'
  BY TypeStep, MarkedStep
<1> QED
  BY <1>1, <1>2, PTL DEF Spec


(***************************************************************************)
(* The steps keep the invariant                                            *)
(***************************************************************************)

\* What the arithmetic of the steps is about.
LEMMA Times ==
  ASSUME TypeOK
  PROVE  /\ now \in Nat /\ said.at \in Nat /\ said.n \in Nat /\ said.n <= MaxSay
         /\ \A e \in Echo : /\ det[e] \in Nat /\ pend[e].due \in Nat
                            /\ round[e].at \in Nat /\ round[e].due \in Nat
                            /\ round[e].score \in Nat /\ round[e].prio \in Nat
                            /\ \A f \in Echo : last[e][f] \in Nat
                            /\ ctr[e] \in Nat
         /\ \A p \in air : p.from \in Echo /\ p.at \in Nat /\ p.c \in Nat
         /\ \A e \in Echo : \A k \in claims[e] : k.id \in Echo /\ k.at \in Nat
<1> USE Numbers
<1>1. ASSUME NEW e \in Echo
      PROVE  /\ det[e] \in Nat /\ pend[e].due \in Nat
             /\ \A f \in Echo : last[e][f] \in Nat
             /\ ctr[e] \in Nat
             /\ \A k \in claims[e] : k.id \in Echo /\ k.at \in Nat
  BY DEF TypeOK, Claims
<1>2. ASSUME NEW e \in Echo
      PROVE  /\ round[e].at \in Nat /\ round[e].due \in Nat
             /\ round[e].score \in Nat /\ round[e].prio \in Nat
  <2>1. round[e] \in Rounds
    BY DEF TypeOK
  <2>2. round[e].at \in Nat /\ round[e].due \in Nat
    BY <2>1 DEF Rounds
  <2>3. round[e].score \in Scores \cup {0}
    BY <2>1 DEF Rounds
  <2>4. round[e].prio \in Prio \cup {0}
    BY <2>1 DEF Rounds
  <2>5. Scores \cup {0} \subseteq Nat /\ Prio \cup {0} \subseteq Nat
    OBVIOUS
  <2>6. round[e].score \in Nat
    BY <2>3, <2>5, Zenon
  <2>7. round[e].prio \in Nat
    BY <2>4, <2>5, Zenon
  <2> QED
    BY <2>2, <2>6, <2>7
<1>3. now \in Nat /\ said.at \in Nat /\ said.n \in Nat /\ said.n <= MaxSay
  BY DEF TypeOK
<1>4. \A p \in air : p.from \in Echo /\ p.at \in Nat /\ p.c \in Nat
  BY DEF TypeOK, Packet
<1> QED
  BY <1>1, <1>2, <1>3, <1>4

\* When a wake word is said, nothing of the last one is under way any more.
LEMMA SayIsAlone ==
  ASSUME IInv, Spaced, NEW kw \in Keyword, Say(kw)
  PROVE  /\ \A e \in Echo : phase[e] = "idle"
         /\ \A p \in air : p.type # "claim"
         /\ \A e \in Echo : \A k \in claims[e] : k.at + LOOKBACK < now
<1> USE Numbers
<1>0. TypeOK /\ Threads /\ Punctual /\ AirTrue /\ KeptTrue
  BY DEF IInv
<1>1. CASE said.n = 0
  <2>1. \A e \in Echo : phase[e] = "idle" /\ out[e] = "none"
    BY <1>0, <1>1 DEF Threads
  <2>2. \A e \in Echo : \A k : ~Agrees(k, e)
    BY <2>1 DEF Agrees
  <2>3. \A p \in air : p.type # "claim"
    BY <1>0, <2>2, Times DEF AirTrue
  <2>4. ASSUME NEW e \in Echo, NEW k \in claims[e] PROVE k.at + LOOKBACK < now
    <3>1. k.at + LOOKBACK < said.at /\ k.id \in Echo
      BY <1>0, <2>2, <2>4, Times DEF KeptTrue
    <3> QED
      BY <1>0, <2>4, <3>1, Times DEF Punctual
  <2> QED
    BY <2>1, <2>3, <2>4
<1>2. CASE said.n # 0
  <2>1. /\ \A w \in Windows \cup {0} : Spread + AFE_WAIT + w + MaxDelay + LOOKBACK < Gap
        /\ now >= said.at + Gap
    BY <1>0, <1>2, Times DEF Say, Spaced
  <2>2. ASSUME NEW t \in Nat, Within(t, MaxDelay) PROVE t + LOOKBACK < now
    <3>1. PICK w \in Windows \cup {0} : t <= said.at + Spread + AFE_WAIT + w + MaxDelay
      BY <2>2 DEF Within
    <3>2. w \in Nat /\ now \in Nat /\ said.at \in Nat
      BY <1>0, Times
    <3> QED
      BY <2>1, <3>1, <3>2
  <2>3. ASSUME NEW t \in Nat, Within(t, 0) PROVE t + MaxDelay < now
    <3>1. PICK w \in Windows \cup {0} : t <= said.at + Spread + AFE_WAIT + w + 0
      BY <2>3 DEF Within
    <3>2. w \in Nat /\ now \in Nat /\ said.at \in Nat
      BY <1>0, Times
    <3> QED
      BY <2>1, <3>1, <3>2
  <2>4. ASSUME NEW e \in Echo PROVE phase[e] = "idle"
    <3>1. phase[e] # "round"
      BY <1>0, <2>3, Times DEF Punctual
    <3>2. phase[e] # "score"
      <4>1. 0 \in Windows \cup {0}
        OBVIOUS
      <4>2. Spread + AFE_WAIT + 0 + MaxDelay + LOOKBACK < Gap
        BY <2>1, <4>1
      <4> QED
        BY <1>0, <2>1, <4>2, Times DEF Punctual
    <3> QED
      BY <1>0, <3>1, <3>2 DEF TypeOK
  <2>5. ASSUME NEW p \in air, p.type = "claim" PROVE FALSE
    BY <1>0, <2>3, <2>5, Times DEF AirTrue
  <2>6. ASSUME NEW e \in Echo, NEW k \in claims[e] PROVE k.at + LOOKBACK < now
    BY <1>0, <2>1, <2>2, <2>6, Times DEF KeptTrue
  <2> QED
    BY <2>4, <2>5, <2>6
<1> QED
  BY <1>1, <1>2

\* A claim is the Echo's first of this utterance.
LEMMA ClaimIsFirst ==
  ASSUME IInv, NEW e \in Echo, Hears(e) \/ phase[e] = "score"
  PROVE  /\ out[e] = "none" /\ phase[e] # "round" /\ said.n # 0
         /\ \A k : ~Agrees(k, e)
         /\ now <= said.at + Spread + AFE_WAIT
<1> USE Numbers
<1>0. TypeOK /\ Threads /\ Punctual
  BY DEF IInv
<1>1. out[e] = "none" /\ phase[e] # "round" /\ said.n # 0
  BY <1>0, Times DEF Threads, Hears
<1>2. now <= said.at + Spread + AFE_WAIT
  BY <1>0, Times DEF Punctual, Hears
<1> QED
  BY <1>1, <1>2 DEF Agrees


\* What a claim does to the Echo that makes it, and that it leaves the others alone.
Effect(e, s, r) ==
  /\ \A f \in Echo \ {e} : phase'[f] = phase[f] /\ out'[f] = out[f] /\ round'[f] = round[f]
  /\ \/ phase'[e] = "idle" /\ out'[e] = "answered" /\ counts[e] = {} /\ air' = air
     \/ /\ phase'[e] = "round" /\ out'[e] = "claimed" /\ counts[e] # {}
        /\ round'[e].kw = said.kw /\ round'[e].at = now /\ now <= round'[e].due
        /\ round'[e].score = s /\ round'[e].prio = r
        /\ Within(round'[e].due, 0)
        /\ \E p \in Packet : /\ air' = air \cup {p} /\ p.from = e /\ p.type = "claim" /\ p.at = now
                             /\ p.score = s /\ p.prio = r /\ ~p.won

LEMMA ClaimStep ==
  ASSUME IInv, NEW e \in Echo, NEW s \in Scores, NEW r \in Prio, Claim(e, s, r), Hears(e) \/ phase[e] = "score"
  PROVE  Effect(e, s, r)
<1> USE Numbers
<1>0. TypeOK
  BY DEF IInv
<1>1. Alone(e) => /\ \A f \in Echo \ {e} : phase'[f] = phase[f] /\ out'[f] = out[f] /\ round'[f] = round[f]
                    /\ phase'[e] = "idle" /\ out'[e] = "answered"
  BY <1>0 DEF Alone, TypeOK
<1>2. ASSUME NEW q \in Rounds, NEW p \in Packet, Opens(e, s, r, q, p)
      PROVE  /\ \A f \in Echo \ {e} : phase'[f] = phase[f] /\ out'[f] = out[f] /\ round'[f] = round[f]
             /\ phase'[e] = "round" /\ out'[e] = "claimed" /\ counts[e] # {}
             /\ round'[e].kw = said.kw /\ round'[e].at = now /\ now <= round'[e].due
             /\ round'[e].score = s /\ round'[e].prio = r
             /\ Within(round'[e].due, 0)
             /\ air' = air \cup {p} /\ p.from = e /\ p.type = "claim" /\ p.at = now
             /\ p.score = s /\ p.prio = r /\ ~p.won
  <2>1. /\ \A f \in Echo \ {e} : phase'[f] = phase[f] /\ out'[f] = out[f] /\ round'[f] = round[f]
        /\ phase'[e] = "round" /\ out'[e] = "claimed" /\ round'[e] = q
    BY <1>0, <1>2 DEF Opens, TypeOK
  <2>2. PICK w \in Windows \cup {0} : q.due = now + w
    BY <1>2 DEF Opens
  <2>3. w \in Nat /\ now \in Nat /\ said.at \in Nat
    BY <1>0, Times
  <2>4. now <= said.at + Spread + AFE_WAIT
    BY ClaimIsFirst
  <2>5. Within(round'[e].due, 0) /\ now <= round'[e].due
    BY <2>1, <2>2, <2>3, <2>4 DEF Within
  <2> QED
    BY <1>2, <2>1, <2>5 DEF Opens
<1>3. CASE Alone(e)
  BY <1>0, <1>1, <1>3 DEF Effect, Alone, TypeOK
<1>4. ASSUME NEW q \in Rounds, NEW p \in Packet, Opens(e, s, r, q, p) PROVE Effect(e, s, r)
  BY <1>2, <1>4 DEF Effect
<1> QED
  BY <1>0, <1>3, <1>4, ClaimCases

LEMMA ThreadsStep == ASSUME IInv, Spaced, [Next]_vars PROVE Threads'
<1> USE Numbers
<1>0. TypeOK /\ Threads
  BY DEF IInv
<1>1. ASSUME NEW kw \in Keyword, Say(kw) PROVE Threads'
  <2>1. \A e \in Echo : phase[e] = "idle"
    BY <1>1, SayIsAlone
  <2>2. said'.n = said.n + 1 /\ (\A e \in Echo : out'[e] = "none") /\ UNCHANGED <<phase, det, round>>
    BY <1>1 DEF Say
  <2>3. ASSUME NEW e \in Echo PROVE det[e] \in Nat /\ said.n \in Nat /\ det[e] <= said.n
    BY <1>0, Times DEF Threads
  <2>4. ASSUME NEW e \in Echo PROVE Threads!(e)'
    BY <1>0, <2>1, <2>2, <2>3 DEF Threads
  <2> QED
    BY <2>4 DEF Threads
<1>2. ASSUME NEW e \in Echo, HeardUnable(e) PROVE Threads'
  BY <1>0, <1>2, Times DEF HeardUnable, Hears, Threads, TypeOK
<1>3. ASSUME NEW e \in Echo, NEW s \in Scores, NEW r \in Prio, Claim(e, s, r),
             Hears(e) \/ (phase[e] = "score" /\ det' = det), UNCHANGED said, now' = now
      PROVE  Threads'
  <2>1. /\ \A f \in Echo \ {e} : phase'[f] = phase[f] /\ out'[f] = out[f] /\ round'[f] = round[f]
        /\ (phase'[e] = "idle" /\ out'[e] = "answered") \/ (phase'[e] = "round" /\ out'[e] = "claimed")
    <3>1. Effect(e, s, r)
      BY <1>3, ClaimStep
    <3> QED
      BY <3>1 DEF Effect
  <2>2. out[e] = "none" /\ said.n # 0
    BY <1>3, ClaimIsFirst
  <2>3. det'[e] = said.n /\ \A f \in Echo \ {e} : det'[f] = det[f]
    BY <1>0, <1>3, <2>2, Times DEF Hears, TypeOK, Threads
  <2>4. ASSUME NEW f \in Echo PROVE Threads!(f)'
    BY <1>0, <1>3, <2>1, <2>2, <2>3, Times DEF Threads
  <2> QED
    BY <2>4 DEF Threads
<1>4. ASSUME NEW e \in Echo, NEW s \in Scores, NEW r \in Prio, HeardClaims(e, s, r) PROVE Threads'
  BY <1>3, <1>4 DEF HeardClaims
<1>5. ASSUME NEW e \in Echo, NEW s \in Scores, ScoreWait(e, s) PROVE Threads'
  <2>1. pend[e].prio \in Prio
    BY <1>5 DEF IInv, Punctual, ScoreWait
  <2> QED
    BY <1>3, <1>5, <2>1 DEF ScoreWait
<1>6. ASSUME NEW e \in Echo, NEW r \in Prio, HeardScores(e, r) PROVE Threads'
  BY <1>0, <1>6, Times DEF HeardScores, Hears, Threads, TypeOK
<1>7. ASSUME NEW e \in Echo, Decide(e) PROVE Threads'
  <2>1. /\ phase[e] = "round" /\ phase' = [phase EXCEPT ![e] = "idle"] /\ UNCHANGED <<said, det>>
    BY <1>7 DEF Decide
  <2>2. /\ out'[e] \in {"lost", "answered"} /\ (\A f \in Echo \ {e} : out'[f] = out[f] /\ round'[f] = round[f])
    BY <1>0, <1>7, DecideCases DEF Quiet, Answers, TypeOK
  <2>3. det[e] = said.n /\ said.n # 0
    BY <1>0, <2>1, Times DEF Threads
  <2> QED
    BY <1>0, <2>1, <2>2, <2>3, Times DEF Threads, TypeOK
<1>8. CASE UNCHANGED <<said, phase, det, out, round>>
  BY <1>0, <1>8 DEF Threads
<1> QED
  BY <1>1, <1>2, <1>4, <1>5, <1>6, <1>7, <1>8 DEF Next, Beacon, Receive, Drop, Tick, vars


LEMMA PunctualStep == ASSUME IInv, Spaced, [Next]_vars PROVE Punctual'
<1> USE Numbers
<1>0. TypeOK /\ Threads /\ Punctual
  BY DEF IInv
<1>1. ASSUME NEW kw \in Keyword, Say(kw) PROVE Punctual'
  <2>1. \A e \in Echo : phase[e] = "idle"
    BY <1>1, SayIsAlone
  <2>2. said'.at = now /\ UNCHANGED <<now, phase>>
    BY <1>1 DEF Say
  <2>3. now <= now
    BY <1>0, Times
  <2> QED
    BY <2>1, <2>2, <2>3 DEF Punctual
<1>2. ASSUME UNCHANGED <<now, said, phase, pend, round>> PROVE Punctual'
  BY <1>0, <1>2 DEF Punctual, Within
<1>3. ASSUME NEW e \in Echo, NEW s \in Scores, NEW r \in Prio, Claim(e, s, r),
             Hears(e) \/ phase[e] = "score", UNCHANGED <<now, said>>,
             \A f \in Echo \ {e} : pend'[f] = pend[f]
      PROVE  Punctual'
  <2>1. /\ \A f \in Echo \ {e} : phase'[f] = phase[f] /\ out'[f] = out[f] /\ round'[f] = round[f]
        /\ \/ phase'[e] = "idle"
           \/ /\ phase'[e] = "round"
              /\ round'[e].kw = said.kw /\ round'[e].at = now /\ now <= round'[e].due
              /\ round'[e].score = s /\ round'[e].prio = r
              /\ Within(round'[e].due, 0)
    <3>1. Effect(e, s, r)
      BY <1>3, ClaimStep
    <3> QED
      BY <3>1 DEF Effect
  <2>2. said.at <= now /\ said.at \in Nat /\ now \in Nat
    BY <1>0, Times DEF Punctual
  <2>3. \A x : Within(x, 0) <=> Within(x, 0)'
    BY <1>3 DEF Within
  <2>4. Within(round'[e].due, 0) => Within(round[e].due, 0)'
    BY <1>3 DEF Within
  <2>5. ASSUME NEW f \in Echo, f # e PROVE Punctual!2!(f)'
    <3>1. Within(round[f].due, 0) => Within(round[f].due, 0)'
      BY <1>3, <2>1, <2>5 DEF Within
    <3>2. /\ phase'[f] = phase[f] /\ round'[f] = round[f] /\ pend'[f] = pend[f] /\ now' = now /\ said' = said
      BY <1>3, <2>1, <2>5
    <3> QED
      BY <1>0, <3>1, <3>2 DEF Punctual
  <2>6. Punctual!2!(e)'
    BY <1>3, <2>1, <2>2, <2>4
  <2> QED
    BY <1>3, <2>2, <2>5, <2>6 DEF Punctual
<1>4. ASSUME NEW e \in Echo, NEW s \in Scores, NEW r \in Prio, HeardClaims(e, s, r) PROVE Punctual'
  BY <1>3, <1>4 DEF HeardClaims
<1>5. ASSUME NEW e \in Echo, NEW s \in Scores, ScoreWait(e, s) PROVE Punctual'
  <2>1. pend[e].prio \in Prio
    BY <1>0, <1>5 DEF Punctual, ScoreWait
  <2>2. \A f \in Echo \ {e} : pend'[f] = pend[f]
    BY <1>0, <1>5 DEF ScoreWait, TypeOK
  <2> QED
    BY <1>3, <1>5, <2>1, <2>2 DEF ScoreWait
<1>6. ASSUME NEW e \in Echo, NEW r \in Prio, HeardScores(e, r) PROVE Punctual'
  <2>1. now <= said.at + Spread /\ UNCHANGED <<now, said, round>>
    BY <1>6 DEF HeardScores, Hears
  <2>2. /\ phase'[e] = "score" /\ pend'[e].prio = r /\ pend'[e].due = now + AFE_WAIT
        /\ \A f \in Echo \ {e} : phase'[f] = phase[f] /\ pend'[f] = pend[f]
    BY <1>0, <1>6 DEF HeardScores, TypeOK
  <2>3. now \in Nat /\ said.at \in Nat
    BY <1>0, Times
  <2>4. now <= now + AFE_WAIT /\ now + AFE_WAIT <= said.at + Spread + AFE_WAIT
    BY <2>1, <2>3
  <2>5. ASSUME NEW f \in Echo, f # e PROVE Punctual!2!(f)'
    BY <1>0, <2>1, <2>2, <2>5 DEF Punctual, Within
  <2>6. Punctual!2!(e)'
    BY <2>1, <2>2, <2>4
  <2> QED
    BY <1>0, <2>1, <2>5, <2>6 DEF Punctual
<1>7. ASSUME NEW e \in Echo, Decide(e) PROVE Punctual'
  <2>1. phase' = [phase EXCEPT ![e] = "idle"] /\ UNCHANGED <<now, said, pend>>
    BY <1>7 DEF Decide
  <2>2. \A f \in Echo \ {e} : round'[f] = round[f] /\ phase'[f] = phase[f]
    BY <1>0, <1>7, <2>1, DecideCases DEF Quiet, Answers, TypeOK
  <2>3. phase'[e] = "idle"
    BY <1>0, <2>1 DEF TypeOK
  <2>4. ASSUME NEW f \in Echo, f # e PROVE Punctual!2!(f)'
    BY <1>0, <2>1, <2>2, <2>4 DEF Punctual, Within
  <2> QED
    BY <1>0, <2>1, <2>3, <2>4 DEF Punctual
<1>8. CASE Tick
  <2>1. /\ now' = now + 1 /\ UNCHANGED <<said, phase, pend, round>>
        /\ \A e \in Echo : /\ phase[e] = "score" => now < pend[e].due
                           /\ phase[e] = "round" => now < round[e].due
    BY <1>8 DEF Tick
  <2>2. now \in Nat /\ said.at \in Nat /\ \A e \in Echo : pend[e].due \in Nat /\ round[e].due \in Nat
    BY <1>0, Times
  <2>3. ASSUME NEW e \in Echo PROVE Punctual!2!(e)'
    BY <1>0, <2>1, <2>2 DEF Punctual, Within
  <2> QED
    BY <1>0, <2>1, <2>2, <2>3 DEF Punctual
<1> QED
  BY <1>1, <1>2, <1>4, <1>5, <1>6, <1>7, <1>8 DEF Next, HeardUnable, Beacon, Receive, Drop, vars


\* What was said of an Echo stays true of it until the next wake word.
LEMMA AgreesStays ==
  ASSUME IInv, [Next]_vars, UNCHANGED said, NEW f \in Echo, NEW k, Agrees(k, f)
  PROVE  Agrees(k, f)'
<1> USE Numbers
<1>0. TypeOK /\ Threads
  BY DEF IInv
<1>1. ASSUME NEW kw \in Keyword, Say(kw) PROVE FALSE
  <2>1. said'.n = said.n + 1 /\ said.n \in Nat
    BY <1>0, <1>1, Times DEF Say
  <2> QED
    BY <2>1
<1>2. ASSUME NEW e \in Echo, HeardUnable(e) PROVE Agrees(k, f)'
  <2>1. f # e
    BY <1>2, ClaimIsFirst DEF HeardUnable
  <2>2. out'[f] = out[f] /\ round' = round
    BY <1>0, <1>2, <2>1 DEF HeardUnable, TypeOK
  <2> QED
    BY <2>2 DEF Agrees
<1>3. ASSUME NEW e \in Echo, NEW s \in Scores, NEW r \in Prio, Claim(e, s, r), Hears(e) \/ phase[e] = "score"
      PROVE  Agrees(k, f)'
  <2>1. f # e
    BY <1>3, ClaimIsFirst
  <2>2. Effect(e, s, r)
    BY <1>3, ClaimStep
  <2>3. out'[f] = out[f] /\ round'[f] = round[f]
    BY <2>1, <2>2 DEF Effect
  <2> QED
    BY <2>3 DEF Agrees
<1>4. ASSUME NEW e \in Echo, NEW s \in Scores, NEW r \in Prio, HeardClaims(e, s, r) PROVE Agrees(k, f)'
  BY <1>3, <1>4 DEF HeardClaims
<1>5. ASSUME NEW e \in Echo, NEW s \in Scores, ScoreWait(e, s) PROVE Agrees(k, f)'
  <2>1. pend[e].prio \in Prio
    BY <1>5 DEF IInv, Punctual, ScoreWait
  <2> QED
    BY <1>3, <1>5, <2>1 DEF ScoreWait
<1>6. ASSUME NEW e \in Echo, Decide(e) PROVE Agrees(k, f)'
  <2>0. out[e] = "claimed"
    BY <1>0, <1>6 DEF Decide, Threads
  <2>1. CASE Quiet(e)
    BY <1>0, <2>0, <2>1 DEF Quiet, Agrees, TypeOK
  <2>2. ASSUME NEW p \in Packet, Answers(e, p) PROVE Agrees(k, f)'
    <3>1. round[e] \in Rounds /\ round \in [Echo -> Rounds]
      BY <1>0 DEF TypeOK
    <3>2. round' = [round EXCEPT ![e] = [round[e] EXCEPT !.won = TRUE]]
      BY <2>2 DEF Answers
    <3>3. round'[f].score = round[f].score /\ round'[f].prio = round[f].prio
      BY <3>1, <3>2 DEF Rounds
    <3>4. out'[e] = "answered" /\ \A g \in Echo \ {e} : out'[g] = out[g]
      BY <1>0, <2>2 DEF Answers, TypeOK
    <3> QED
      BY <2>0, <3>3, <3>4 DEF Agrees
  <2> QED
    BY <1>0, <1>6, <2>1, <2>2, DecideCases
<1>7. CASE UNCHANGED <<out, round>>
  BY <1>7 DEF Agrees
<1> QED
  BY <1>1, <1>2, <1>4, <1>5, <1>6, <1>7 DEF Next, HeardScores, Beacon, Receive, Drop, Tick, vars

LEMMA AirStep == ASSUME IInv, Spaced, [Next]_vars PROVE AirTrue'
<1> USE Numbers
<1>0. TypeOK /\ Threads /\ Punctual /\ AirTrue
  BY DEF IInv
<1>1. ASSUME NEW kw \in Keyword, Say(kw) PROVE AirTrue'
  <2>1. \A p \in air : p.type # "claim"
    BY <1>1, SayIsAlone
  <2>2. UNCHANGED <<now, air>>
    BY <1>1 DEF Say
  <2> QED
    BY <1>0, <2>1, <2>2 DEF AirTrue
\* A packet that was in the air stays good for as long as it stays.
<1>2. ASSUME NEW p \in air, UNCHANGED said, now' <= p.at + MaxDelay, now <= now' PROVE AirTrue!(p)'
  <2>1. p.from \in Echo /\ p.at \in Nat /\ now \in Nat
    BY <1>0, <1>2, Times
  <2>2. p.at <= now /\ (p.type = "claim" => /\ p.score \in Scores /\ p.prio \in Prio
                                            /\ Within(p.at, 0) /\ Agrees(p, p.from))
    BY <1>0, <1>2 DEF AirTrue
  <2>3. p.type = "claim" => Agrees(p, p.from)'
    BY <1>2, <2>1, <2>2, AgreesStays
  <2>4. p.type = "claim" => Within(p.at, 0)'
    BY <1>2, <2>2 DEF Within
  <2>5. TypeOK'
    BY TypeStep, IInvIsMarked DEF IInv
  <2>6. now' \in Nat
    BY <2>5, Numbers DEF TypeOK
  <2>7. p.at <= now'
    BY <1>2, <2>1, <2>2, <2>6
  <2> QED
    BY <1>2, <2>2, <2>3, <2>4, <2>7
\* A new one is good.
<1>3. ASSUME UNCHANGED <<now, said>>, NEW q \in Packet, air' = air \cup {q}, q.at = now,
             q.type = "claim" => q.score \in Scores /\ q.prio \in Prio /\ Within(now, 0) /\ Agrees(q, q.from)'
      PROVE  AirTrue'
  <2>1. now \in Nat
    BY <1>0, Times
  <2>2. AirTrue!(q)'
    <3>1. Within(now, 0) => Within(q.at, 0)'
      BY <1>3 DEF Within
    <3> QED
      BY <1>3, <2>1, <3>1
  <2>3. ASSUME NEW p \in air PROVE AirTrue!(p)'
    <3>1. now' <= p.at + MaxDelay /\ now <= now'
      BY <1>0, <1>3, <2>1, <2>3 DEF AirTrue
    <3> QED
      BY <1>2, <1>3, <3>1
  <2> QED
    BY <1>3, <2>2, <2>3 DEF AirTrue
<1>4. ASSUME UNCHANGED <<now, said, air>> PROVE AirTrue'
  <2>1. ASSUME NEW p \in air PROVE AirTrue!(p)'
    <3>1. now' <= p.at + MaxDelay /\ now <= now'
      BY <1>0, <1>4, <2>1, Times DEF AirTrue
    <3> QED
      BY <1>2, <1>4, <3>1
  <2> QED
    BY <1>4, <2>1 DEF AirTrue
<1>5. ASSUME NEW e \in Echo, NEW s \in Scores, NEW r \in Prio, Claim(e, s, r), Hears(e) \/ phase[e] = "score",
             UNCHANGED <<now, said>>
      PROVE  AirTrue'
  <2>1. Effect(e, s, r)
    BY <1>5, ClaimStep
  <2>2. CASE air' = air
    BY <1>4, <1>5, <2>2
  <2>3. ASSUME air' # air PROVE AirTrue'
    <3>1. out'[e] = "claimed" /\ round'[e].score = s /\ round'[e].prio = r
      BY <2>1, <2>3 DEF Effect
    <3>2. PICK p \in Packet : /\ air' = air \cup {p} /\ p.from = e /\ p.type = "claim" /\ p.at = now
                              /\ p.score = s /\ p.prio = r /\ ~p.won
      BY <2>1, <2>3 DEF Effect
    <3>3. Agrees(p, p.from)'
      BY <3>1, <3>2 DEF Agrees
    <3>4. now <= said.at + Spread + AFE_WAIT + 0 + 0 /\ 0 \in Windows \cup {0}
      BY <1>0, <1>5, ClaimIsFirst, Times
    <3>5. Within(now, 0)
      BY <3>4 DEF Within
    <3> QED
      BY <1>3, <1>5, <3>2, <3>3, <3>5
  <2> QED
    BY <2>2, <2>3
<1>6. ASSUME NEW e \in Echo, NEW s \in Scores, NEW r \in Prio, HeardClaims(e, s, r) PROVE AirTrue'
  BY <1>5, <1>6 DEF HeardClaims
<1>7. ASSUME NEW e \in Echo, NEW s \in Scores, ScoreWait(e, s) PROVE AirTrue'
  <2>1. pend[e].prio \in Prio
    BY <1>0, <1>7 DEF Punctual, ScoreWait
  <2> QED
    BY <1>5, <1>7, <2>1 DEF ScoreWait
<1>8. ASSUME NEW e \in Echo, Decide(e) PROVE AirTrue'
  <2>1. phase[e] = "round" /\ UNCHANGED <<now, said>>
    BY <1>8 DEF Decide
  <2>2. CASE Quiet(e)
    BY <1>4, <2>1, <2>2 DEF Quiet
  <2>3. ASSUME NEW p \in Packet, Answers(e, p) PROVE AirTrue'
    <3>1. /\ now <= round[e].due /\ Within(round[e].due, 0)
          /\ round[e].score \in Scores /\ round[e].prio \in Prio
      BY <1>0, <2>1 DEF Punctual
    <3>2. Within(now, 0)
      <4>1. PICK w \in Windows \cup {0} : round[e].due <= said.at + Spread + AFE_WAIT + w + 0
        BY <3>1 DEF Within
      <4>2. w \in Nat /\ now \in Nat /\ said.at \in Nat /\ round[e].due \in Nat
        BY <1>0, Times
      <4>3. now <= said.at + Spread + AFE_WAIT + w + 0
        BY <3>1, <4>1, <4>2
      <4> QED
        BY <4>3 DEF Within
    <3>3. round[e] \in Rounds /\ round \in [Echo -> Rounds]
      BY <1>0 DEF TypeOK
    <3>4. round' = [round EXCEPT ![e] = [round[e] EXCEPT !.won = TRUE]]
      BY <2>3 DEF Answers
    <3>5. round'[e].score = round[e].score /\ round'[e].prio = round[e].prio
      BY <3>3, <3>4 DEF Rounds
    <3>6. out'[e] = "answered"
      BY <1>0, <2>3 DEF Answers, TypeOK
    <3>7. Agrees(p, p.from)'
      BY <2>3, <3>5, <3>6 DEF Answers, Agrees
    <3> QED
      BY <1>3, <2>1, <2>3, <3>1, <3>2, <3>7 DEF Answers
  <2> QED
    BY <1>0, <1>8, <2>2, <2>3, DecideCases
<1>9. ASSUME NEW e \in Echo, Beacon(e) PROVE AirTrue'
  <2> DEFINE p == [from |-> e, c |-> ctr[e] + 1, type |-> "beacon", kw |-> None.kw, score |-> 0,
                   prio |-> 0, won |-> FALSE, at |-> now, n |-> said.n]
  <2>1. ctr[e] \in Nat /\ now \in Nat /\ said.n \in Nat
    BY <1>0 DEF TypeOK
  <2>2. p \in Packet /\ p.at = now /\ p.type # "claim"
    BY <2>1, NoneKw DEF Packet
  <2>3. air' = air \cup {p} /\ UNCHANGED <<now, said>>
    BY <1>9 DEF Beacon, Broadcast
  <2> HIDE DEF p
  <2> QED
    BY <1>3, <2>2, <2>3
<1>10. CASE Tick
  <2>1. now' = now + 1 /\ air' = {p \in air : p.at + MaxDelay > now} /\ UNCHANGED said
    BY <1>10 DEF Tick
  <2>2. now \in Nat /\ \A p \in air : p.at \in Nat
    BY <1>0, Times
  <2>3. ASSUME NEW p \in air' PROVE AirTrue!(p)'
    <3>1. p \in air /\ now' <= p.at + MaxDelay /\ now <= now'
      BY <2>1, <2>2, <2>3
    <3> QED
      BY <1>2, <2>1, <3>1
  <2> QED
    BY <2>3 DEF AirTrue
<1> QED
  BY <1>1, <1>4, <1>6, <1>7, <1>8, <1>9, <1>10 DEF Next, HeardUnable, HeardScores, Receive, Drop, vars


LEMMA KeptStep == ASSUME IInv, Spaced, [Next]_vars PROVE KeptTrue'
<1> USE Numbers
<1>0. TypeOK /\ Finite /\ Punctual /\ AirTrue /\ KeptTrue
  BY DEF IInv
<1>1. ASSUME NEW kw \in Keyword, Say(kw) PROVE KeptTrue'
  <2>1. \A e \in Echo : \A k \in claims[e] : k.at + LOOKBACK < now
    BY <1>1, SayIsAlone
  <2>2. said'.at = now /\ claims' = claims
    BY <1>1 DEF Say
  <2> QED
    BY <2>1, <2>2 DEF KeptTrue
<1>2. ASSUME UNCHANGED said, NEW e \in Echo, NEW k \in claims[e] PROVE KeptTrue!(e)!(k)'
  <2>1. k.id \in Echo
    BY <1>0, Times
  <2>2. Agrees(k, k.id) => Agrees(k, k.id)'
    BY <1>2, <2>1, AgreesStays
  <2>3. Within(k.at, MaxDelay) => Within(k.at, MaxDelay)'
    BY <1>2 DEF Within
  <2> QED
    BY <1>0, <1>2, <2>2, <2>3 DEF KeptTrue
<1>3. ASSUME UNCHANGED <<said, claims>> PROVE KeptTrue'
  BY <1>2, <1>3 DEF KeptTrue
<1>4. ASSUME NEW e \in Echo, NEW p \in air, Receive(e, p) PROVE KeptTrue'
  <2>k. PICK k : k = [id |-> p.from, kw |-> p.kw, score |-> p.score,
                      prio |-> p.prio, won |-> p.won, at |-> now, n |-> p.n]
    OBVIOUS
  <2>0. UNCHANGED <<now, said, out, round>>
    BY <1>4 DEF Receive
  <2>1. CASE claims' = claims
    BY <1>3, <2>0, <2>1
  <2>2. ASSUME claims' # claims PROVE KeptTrue'
    <3>1. p.type = "claim"
      BY <1>4, <2>2 DEF Receive
    <3>2. PICK kept \in Keep(claims[e], k) : claims' = [claims EXCEPT ![e] = kept]
      BY <1>4, <2>2, <2>k DEF Receive
    <3>3. kept \subseteq claims[e] \cup {k}
      BY <1>0, KeepBounded DEF TypeOK, Finite
    <3>4. now <= p.at + MaxDelay /\ Within(p.at, 0) /\ Agrees(p, p.from)
      BY <1>0, <3>1 DEF AirTrue
    <3>5. Agrees(k, k.id)'
      BY <2>0, <2>k, <3>4 DEF Agrees
    <3>6. Within(k.at, MaxDelay)'
      <4>1. PICK w \in Windows \cup {0} : p.at <= said.at + Spread + AFE_WAIT + w + 0
        BY <3>4 DEF Within
      <4>a. now \in Nat /\ said.at \in Nat /\ p.at \in Nat
        BY <1>0, Times
      <4>2. w \in Nat /\ now \in Nat /\ said.at \in Nat /\ p.at \in Nat
        BY <4>a
      <4>3. now <= said.at + Spread + AFE_WAIT + w + MaxDelay
        BY <3>4, <4>1, <4>2
      <4> QED
        BY <2>0, <2>k, <4>3 DEF Within
    <3>7. ASSUME NEW f \in Echo, NEW j \in claims'[f] PROVE KeptTrue!(f)!(j)'
      <4>1. j \in claims[f] \/ j = k
        BY <1>0, <3>2, <3>3, <3>7 DEF TypeOK
      <4>2. CASE j \in claims[f]
        BY <1>2, <2>0, <4>2
      <4>3. CASE j = k
        BY <3>5, <3>6, <4>3
      <4> QED
        BY <4>1, <4>2, <4>3
    <3> QED
      BY <3>7 DEF KeptTrue
  <2> QED
    BY <2>1, <2>2
<1> QED
  BY <1>1, <1>3, <1>4
     DEF Next, HeardUnable, HeardClaims, HeardScores, ScoreWait, Decide, Beacon, Drop, Tick, vars

LEMMA IInvInit == Init => IInv
<1> USE Numbers
<1> SUFFICES ASSUME Init PROVE IInv
  OBVIOUS
<1>1. None.kw \in Keyword /\ None.n = 0 /\ None.at = 0 /\ None \in [n : 0 .. MaxSay, at : 0 .. MaxTime, kw : Keyword]
  BY NoneKw DEF None
<1>2. NoRound \in Rounds
  BY <1>1, UnclaimedIsRound DEF NoRound
<1>3. IsFiniteSet({}) /\ Cardinality({}) = 0
  BY FS_EmptySet
<1>4. TypeOK
  BY <1>1, <1>2, <1>3 DEF Init, TypeOK
<1>5. Finite
  BY <1>3 DEF Init, Finite
<1>6. Threads
  BY <1>1 DEF Init, Threads
<1>7. Punctual
  BY <1>1 DEF Init, Punctual
<1>8. AirTrue
  BY DEF Init, AirTrue
<1>9. KeptTrue
  BY DEF Init, KeptTrue
<1> QED
  BY <1>4, <1>5, <1>6, <1>7, <1>8, <1>9 DEF IInv

\* What the rounds' state means, at every moment: claims kept and in the air say
\* what their sender's round says, or are too old to count.
THEOREM Invariant == ASSUME Spaced PROVE Spec => []IInv
<1>1. IInv /\ [Next]_vars => IInv'
  BY IInvIsMarked, TypeStep, ThreadsStep, PunctualStep, AirStep, KeptStep DEF IInv
<1> QED
  BY <1>1, IInvInit, PTL DEF Spec


(***************************************************************************)
(* Nobody is left to nobody                                                *)
(***************************************************************************)

\* The order of claims is the same at every Echo and has no cycles.
LEMMA BetterIsTransitive ==
  ASSUME TypeOK, NEW e \in Echo, NEW f \in Echo, NEW g \in Echo, Better(g, f), Better(f, e)
  PROVE  Better(g, e)
<1>1. /\ round[e].score \in Nat /\ round[f].score \in Nat /\ round[g].score \in Nat
      /\ round[e].prio \in Nat /\ round[f].prio \in Nat /\ round[g].prio \in Nat
      /\ e \in Nat /\ f \in Nat /\ g \in Nat
  BY Times, Numbers
<1> QED
  BY <1>1 DEF Better, Beats

LEMMA BetterIsStrict == ASSUME TypeOK, NEW e \in Echo PROVE ~Better(e, e)
<1>1. round[e].score \in Nat /\ round[e].prio \in Nat /\ e \in Nat
  BY Times, Numbers
<1> QED
  BY <1>1 DEF Better, Beats

\* A round that a claim beats is one that an Echo of this utterance beats.
LEMMA BeatenByOne ==
  ASSUME IInv, NEW e \in Echo, phase[e] = "round", beaten(e)
  PROVE  \E f \in Echo : \/ out[f] = "answered"
                         \/ out[f] \in {"claimed", "lost"} /\ Better(f, e)
<1>0. TypeOK /\ Punctual /\ KeptTrue
  BY DEF IInv
<1>1. PICK k \in claims[e] : OfRound(k, e) /\ Beats(k, round[e], e)
  BY DEF beaten
<1>2. k.id \in Echo /\ k.at \in Nat /\ LOOKBACK \in Nat /\ said.at \in Nat /\ round[e].at \in Nat
  BY <1>0, Times, Numbers
<1>3. said.at <= round[e].at
  BY <1>0 DEF Punctual
<1>4. ~(k.at + LOOKBACK < said.at)
  BY <1>1, <1>2, <1>3 DEF OfRound
<1>5. Agrees(k, k.id)
  BY <1>0, <1>1, <1>4 DEF KeptTrue
<1>6. CASE k.won
  BY <1>2, <1>5, <1>6 DEF Agrees
<1>7. CASE ~k.won
  <2>1. Better(k.id, e)
    BY <1>1, <1>5, <1>7 DEF Beats, Better, Agrees
  <2>2. out[k.id] \in {"claimed", "answered", "lost"}
    BY <1>5 DEF Agrees
  <2> QED
    BY <1>2, <2>1, <2>2
<1> QED
  BY <1>6, <1>7

\* Arbitration never has every Echo leave the wake word to another, however
\* many Echos there are, whatever the network loses, repeats or delays, for any
\* windows, estimates of rivals and sizes of the ring of claims, as long as the
\* utterances cannot be mixed up.
THEOREM NoSilenceHolds == ASSUME Spaced PROVE Spec => []NoSilence
<1>1. Init => NoSilence
  BY DEF Init, NoSilence
<1>2. ASSUME IInv, NoSilence, [Next]_vars PROVE NoSilence'
  <2>0. TypeOK /\ Threads
    BY <1>2 DEF IInv
  <2>1. ASSUME NEW kw \in Keyword, Say(kw) PROVE NoSilence'
    BY <2>1 DEF Say, NoSilence
  \* An Echo that decided nothing yet is nobody's reason.
  <2>2. ASSUME NEW e \in Echo, out[e] = "none", out'[e] # "lost",
               \A f \in Echo \ {e} : out'[f] = out[f] /\ round'[f] = round[f]
        PROVE  NoSilence'
    <3>1. ASSUME NEW d \in Echo, out'[d] = "lost"
          PROVE  \E f \in Echo : out'[f] = "answered" \/ (out'[f] = "claimed" /\ Better(f, d)')
      <4>1. d # e /\ out[d] = "lost"
        BY <2>2, <3>1
      <4>2. PICK f \in Echo : out[f] = "answered" \/ (out[f] = "claimed" /\ Better(f, d))
        BY <1>2, <4>1 DEF NoSilence
      <4>3. f # e /\ out'[f] = out[f] /\ round'[f] = round[f] /\ round'[d] = round[d]
        BY <2>2, <4>1, <4>2
      <4>4. Better(f, d) => Better(f, d)'
        BY <4>3 DEF Better, Beats
      <4> QED
        BY <4>2, <4>3, <4>4
    <3> QED
      BY <3>1 DEF NoSilence
  <2>3. ASSUME NEW e \in Echo, NEW s \in Scores, NEW r \in Prio, Claim(e, s, r), Hears(e) \/ phase[e] = "score"
        PROVE  NoSilence'
    <3>1. Effect(e, s, r)
      BY <1>2, <2>3, ClaimStep
    <3>2. out[e] = "none"
      BY <1>2, <2>3, ClaimIsFirst
    <3> QED
      BY <2>2, <3>1, <3>2 DEF Effect
  <2>4. ASSUME NEW e \in Echo, HeardUnable(e) PROVE NoSilence'
    <3>1. out[e] = "none"
      BY <1>2, <2>4, ClaimIsFirst DEF HeardUnable
    <3>2. out'[e] = "unable" /\ \A f \in Echo \ {e} : out'[f] = out[f] /\ round'[f] = round[f]
      BY <2>0, <2>4 DEF HeardUnable, TypeOK
    <3> QED
      BY <2>2, <3>1, <3>2
  <2>5. ASSUME NEW e \in Echo, NEW s \in Scores, NEW r \in Prio, HeardClaims(e, s, r) PROVE NoSilence'
    BY <2>3, <2>5 DEF HeardClaims
  <2>6. ASSUME NEW e \in Echo, NEW s \in Scores, ScoreWait(e, s) PROVE NoSilence'
    <3>1. pend[e].prio \in Prio
      BY <1>2, <2>6 DEF IInv, Punctual, ScoreWait
    <3> QED
      BY <2>3, <2>6, <3>1 DEF ScoreWait
  <2>7. ASSUME NEW e \in Echo, Decide(e), Quiet(e) PROVE NoSilence'
    <3>1. /\ out[e] = "claimed" /\ phase[e] = "round"
      BY <2>0, <2>7 DEF Decide, Threads
    <3>2. /\ out'[e] = "lost" /\ round' = round /\ \A f \in Echo \ {e} : out'[f] = out[f]
      BY <2>0, <2>7 DEF Quiet, TypeOK
    <3>3. PICK f \in Echo : out[f] = "answered" \/ (out[f] \in {"claimed", "lost"} /\ Better(f, e))
      BY <1>2, <2>7, <3>1, BeatenByOne DEF Quiet
    <3>4. \E g \in Echo : g # e /\ (out[g] = "answered" \/ (out[g] = "claimed" /\ Better(g, e)))
      <4>1. CASE out[f] = "lost" /\ Better(f, e)
        <5>1. PICK g \in Echo : out[g] = "answered" \/ (out[g] = "claimed" /\ Better(g, f))
          BY <1>2, <4>1 DEF NoSilence
        <5>2. Better(g, f) => Better(g, e)
          BY <2>0, <4>1, BetterIsTransitive
        <5>3. Better(g, e) => g # e
          BY <2>0, BetterIsStrict
        <5> QED
          BY <3>1, <5>1, <5>2, <5>3
      <4>2. Better(f, e) => f # e
        BY <2>0, BetterIsStrict
      <4> QED
        BY <3>1, <3>3, <4>1, <4>2
    <3>5. PICK g \in Echo : g # e /\ (out[g] = "answered" \/ (out[g] = "claimed" /\ Better(g, e)))
      BY <3>4
    <3>6. \A a, b \in Echo : Better(a, b) => Better(a, b)'
      BY <3>2 DEF Better, Beats
    <3>7. ASSUME NEW d \in Echo, out'[d] = "lost"
          PROVE  \E h \in Echo : out'[h] = "answered" \/ (out'[h] = "claimed" /\ Better(h, d)')
      <4>1. CASE d = e
        BY <3>2, <3>5, <3>6, <4>1
      <4>2. CASE d # e
        <5>1. PICK h \in Echo : out[h] = "answered" \/ (out[h] = "claimed" /\ Better(h, d))
          BY <1>2, <3>2, <3>7, <4>2 DEF NoSilence
        <5>2. CASE h = e
          <6>1. Better(e, d)
            BY <3>1, <5>1, <5>2
          <6>2. Better(g, e) => Better(g, d)
            BY <2>0, <6>1, BetterIsTransitive
          <6> QED
            BY <3>2, <3>5, <3>6, <6>2
        <5>3. CASE h # e
          BY <3>2, <3>6, <5>1, <5>3
        <5> QED
          BY <5>2, <5>3
      <4> QED
        BY <4>1, <4>2
    <3> QED
      BY <3>7 DEF NoSilence
  <2>8. ASSUME NEW e \in Echo, NEW p \in Packet, Answers(e, p) PROVE NoSilence'
    <3>1. out'[e] = "answered"
      BY <2>0, <2>8 DEF Answers, TypeOK
    <3> QED
      BY <3>1 DEF NoSilence
  <2>9. ASSUME NEW e \in Echo, Decide(e) PROVE NoSilence'
    BY <2>0, <2>7, <2>8, <2>9, DecideCases
  <2>10. CASE UNCHANGED <<out, round>>
    BY <1>2, <2>10 DEF NoSilence, Better, Beats
  <2> QED
    BY <1>2, <2>1, <2>4, <2>5, <2>6, <2>9, <2>10 DEF Next, HeardScores, Beacon, Receive, Drop, Tick, vars
<1> QED
  BY <1>1, <1>2, Invariant, PTL DEF Spec


(***************************************************************************)
(* The contract of a round                                                 *)
(***************************************************************************)

\* A step of the priority outweighs any score.
LEMMA StepOutweighs == MarkStep \in Nat /\ \A s \in Scores \cup {0} : s < MarkStep
<1>1. PICK m \in Scores : \A t \in Scores : t <= m
  BY ArbRoundAssumption
<1> DEFINE top == CHOOSE s \in Scores : \A t \in Scores : t <= s
<1>2. top \in Scores /\ \A t \in Scores : t <= top
  BY <1>1
<1>3. MarkStep = 1 + top
  BY DEF MarkStep
<1> HIDE DEF top
<1>4. top \in Nat /\ Scores \subseteq Nat
  BY <1>2, Numbers
<1> QED
  BY <1>2, <1>3, <1>4

LEMMA MarkValue ==
  ASSUME NEW p \in Prio \cup {0}, NEW s \in Scores \cup {0}
  PROVE  /\ p * MarkStep + s \in Nat
         /\ p = 0 => p * MarkStep + s = s
         /\ p = 2 => p * MarkStep + s = 2 * MarkStep + s
         /\ p \in {0, 2} /\ s \in Nat
<1>1. p \in {0, 2} /\ s \in Nat /\ MarkStep \in Nat
  BY ArbRoundAssumption, StepOutweighs, Numbers
<1>2. 0 * MarkStep = 0 /\ 2 * MarkStep \in Nat
  BY <1>1
<1> QED
  BY <1>1, <1>2

\* A better claim has the better mark, or the same and the larger id.
LEMMA BetterMark ==
  ASSUME TypeOK, NEW e \in Echo, NEW f \in Echo, Better(f, e)
  PROVE  Marks[f] > Marks[e] \/ (Marks[f] = Marks[e] /\ f > e)
<1>1. /\ round[e].prio \in Prio \cup {0} /\ round[e].score \in Scores \cup {0}
      /\ round[f].prio \in Prio \cup {0} /\ round[f].score \in Scores \cup {0}
  <2>1. round[e] \in Rounds /\ round[f] \in Rounds
    BY DEF TypeOK
  <2> QED
    BY <2>1 DEF Rounds
<1> DEFINE pe == round[e].prio
           pf == round[f].prio
           se == round[e].score
           sf == round[f].score
<1>2. pf > pe \/ (pf = pe /\ (sf > se \/ (sf = se /\ f > e)))
  BY DEF Better, Beats
<1>3. Marks[e] = pe * MarkStep + se /\ Marks[f] = pf * MarkStep + sf
  BY DEF Marks
<1>4. /\ pe \in {0, 2} /\ pf \in {0, 2} /\ se \in Nat /\ sf \in Nat
      /\ pe = 0 => Marks[e] = se
      /\ pe = 2 => Marks[e] = 2 * MarkStep + se
      /\ pf = 0 => Marks[f] = sf
      /\ pf = 2 => Marks[f] = 2 * MarkStep + sf
  BY <1>1, <1>3, MarkValue
<1>5. MarkStep \in Nat /\ se < MarkStep /\ sf < MarkStep
  BY <1>1, StepOutweighs
<1> HIDE DEF pe, pf, se, sf
<1> QED
  BY <1>2, <1>4, <1>5

\* With one utterance the rounds keep the contract of ArbVote, step by step:
\* claims, answers and withdrawals are its steps, everything else (packets, time,
\* scores waited for) leaves its state alone.
THEOREM Implements == ASSUME MaxSay <= 1 PROVE Spec => ImplementsVote
<1> USE Numbers
<1>a. Spaced
  BY DEF Spaced
<1>1. Init => Vote!Init
  <2> SUFFICES ASSUME Init PROVE Vote!Init
    OBVIOUS
  <2>1. \A e \in Echo : round[e].prio = 0 /\ round[e].score = 0
    BY DEF Init, NoRound, Unclaimed
  <2>2. 0 * MarkStep + 0 = 0
    BY StepOutweighs
  <2> QED
    BY <2>1, <2>2 DEF Init, Vote!Init, Marks
<1>2. ASSUME IInv, [Next]_vars PROVE [Vote!Next]_(Vote!voteVars)
  <2>0. TypeOK /\ Threads /\ said.n \in Nat /\ said.n <= 1
    BY <1>2, Times DEF IInv
  <2>1. ASSUME UNCHANGED <<out, round>> PROVE UNCHANGED Vote!voteVars
    BY <2>1 DEF Vote!voteVars, Marks
  <2>2. ASSUME NEW kw \in Keyword, Say(kw) PROVE UNCHANGED Vote!voteVars
    <3>1. said.n = 0
      BY <2>0, <2>2 DEF Say
    <3>2. out = [e \in Echo |-> "none"]
      BY <2>0, <3>1 DEF Threads, TypeOK
    <3> QED
      BY <2>1, <2>2, <3>2 DEF Say
  <2>3. ASSUME NEW e \in Echo, HeardUnable(e) PROVE Vote!Unable(e)
    <3>1. out[e] = "none"
      BY <1>2, <2>3, ClaimIsFirst DEF HeardUnable
    <3> QED
      BY <2>3, <3>1 DEF HeardUnable, Vote!Unable, Marks
  <2>4. ASSUME NEW e \in Echo, NEW s \in Scores, NEW r \in Prio, Claim(e, s, r), Hears(e) \/ phase[e] = "score"
        PROVE  Vote!Claim(e) \/ Vote!Answer(e)
    <3>1. out[e] = "none" /\ said.n # 0
      BY <1>2, <2>4, ClaimIsFirst
    <3>2. round[e] = NoRound
      <4>1. CASE Hears(e)
        <5>1. det[e] < said.n /\ det[e] \in Nat
          BY <2>0, <4>1, Times DEF Hears
        <5>2. det[e] = 0
          BY <2>0, <5>1
        <5> QED
          BY <2>0, <5>2 DEF Threads
      <4>2. CASE phase[e] = "score"
        BY <2>0, <4>2 DEF Threads
      <4> QED
        BY <2>4, <4>1, <4>2
    <3>3. Marks[e] = 0
      BY <3>2, StepOutweighs DEF Marks, NoRound, Unclaimed
    <3>4. CASE Alone(e)
      <4>1. round' = [round EXCEPT ![e] = Unclaimed(now, said.kw)] /\ out' = [out EXCEPT ![e] = "answered"]
        BY <3>4 DEF Alone
      <4>2. \A f \in Echo : round'[f].prio = round[f].prio /\ round'[f].score = round[f].score
        BY <2>0, <3>2, <4>1 DEF NoRound, Unclaimed, TypeOK
      <4>3. Marks' = Marks
        BY <4>2 DEF Marks
      <4> QED
        BY <3>1, <4>1, <4>3 DEF Vote!Answer
    <3>5. ASSUME NEW q \in Rounds, NEW p \in Packet, Opens(e, s, r, q, p) PROVE Vote!Claim(e)
      <4>1. round' = [round EXCEPT ![e] = q] /\ out' = [out EXCEPT ![e] = "claimed"] /\ q.score = s /\ q.prio = r
        BY <3>5 DEF Opens
      <4>2. Marks' = [Marks EXCEPT ![e] = r * MarkStep + s]
        BY <2>0, <4>1 DEF Marks, TypeOK
      <4>3. r * MarkStep + s \in AllMarks
        BY DEF AllMarks
      <4> QED
        BY <3>1, <4>1, <4>2, <4>3 DEF Vote!Claim
    <3> QED
      BY <2>0, <2>4, <3>4, <3>5, ClaimCases
  <2>5. ASSUME NEW e \in Echo, NEW s \in Scores, NEW r \in Prio, HeardClaims(e, s, r)
        PROVE  Vote!Claim(e) \/ Vote!Answer(e)
    BY <2>4, <2>5 DEF HeardClaims
  <2>6. ASSUME NEW e \in Echo, NEW s \in Scores, ScoreWait(e, s) PROVE Vote!Claim(e) \/ Vote!Answer(e)
    <3>1. pend[e].prio \in Prio
      BY <1>2, <2>6 DEF IInv, Punctual, ScoreWait
    <3> QED
      BY <2>4, <2>6, <3>1 DEF ScoreWait
  <2>7. ASSUME NEW e \in Echo, Decide(e) PROVE Vote!GoQuiet(e) \/ Vote!Answer(e)
    <3>1. out[e] = "claimed" /\ phase[e] = "round"
      BY <2>0, <2>7 DEF Decide, Threads
    <3>2. CASE Quiet(e)
      <4>1. PICK f \in Echo : out[f] = "answered" \/ (out[f] \in {"claimed", "lost"} /\ Better(f, e))
        BY <1>2, <3>1, <3>2, BeatenByOne DEF Quiet
      <4>2. Better(f, e) => Marks[f] > Marks[e] \/ (Marks[f] = Marks[e] /\ f > e)
        BY <2>0, BetterMark
      <4>3. out' = [out EXCEPT ![e] = "lost"] /\ Marks' = Marks
        BY <3>2 DEF Quiet, Marks
      <4>4. out[f] = "answered" \/ (out[f] \in {"claimed", "lost"} /\ Vote!Better(f, e))
        BY <4>1, <4>2 DEF Vote!Better
      <4> QED
        BY <3>1, <4>3, <4>4 DEF Vote!GoQuiet
    <3>3. ASSUME NEW p \in Packet, Answers(e, p) PROVE Vote!Answer(e)
      <4>1. round[e] \in Rounds /\ round \in [Echo -> Rounds]
        BY <2>0 DEF TypeOK
      <4>2. round' = [round EXCEPT ![e] = [round[e] EXCEPT !.won = TRUE]] /\ out' = [out EXCEPT ![e] = "answered"]
        BY <3>3 DEF Answers
      <4>3. \A f \in Echo : round'[f].prio = round[f].prio /\ round'[f].score = round[f].score
        BY <4>1, <4>2 DEF Rounds
      <4>4. Marks' = Marks
        BY <4>3 DEF Marks
      <4> QED
        BY <3>1, <4>2, <4>4 DEF Vote!Answer
    <3> QED
      BY <2>0, <2>7, <3>2, <3>3, DecideCases
  <2>8. CASE Next
    <3>1. ASSUME NEW e \in Echo, Vote!Claim(e) \/ Vote!Answer(e) \/ Vote!GoQuiet(e) \/ Vote!Unable(e)
          PROVE  Vote!Next
      BY <3>1 DEF Vote!Next
    <3> QED
      BY <2>1, <2>2, <2>3, <2>5, <2>6, <2>7, <2>8, <3>1 DEF Next, HeardScores, Beacon, Receive, Drop, Tick
  <2>9. CASE UNCHANGED vars
    BY <2>1, <2>9 DEF vars
  <2> QED
    BY <1>2, <2>8, <2>9
<1>3. Spec => []IInv
  BY <1>a, Invariant
<1> QED
  BY <1>1, <1>2, <1>3, PTL DEF Spec, ImplementsVote, Vote!Spec


(***************************************************************************)
(* Every claim in time: one answers, and it is the best                    *)
(***************************************************************************)

LEMMA TimelyIsSpaced == Timely => Spaced
BY DEF Timely, Spaced

LEMMA TwoElements ==
  ASSUME NEW a, NEW b, a # b PROVE IsFiniteSet({a} \cup {b}) /\ Cardinality({a} \cup {b}) = 2
<1>1. IsFiniteSet({a}) /\ Cardinality({a}) = 1 /\ b \notin {a}
  BY FS_Singleton
<1> QED
  BY <1>1, FS_AddElement

\* The ring of claims has room for the next one.
LEMMA RingFits ==
  ASSUME IInv, Timely, Book, NEW e \in Echo, NEW p \in air, Receive(e, p)
  PROVE  Cardinality(claims[e]) < NCLAIM
<1>0. TypeOK /\ Finite
  BY DEF IInv
<1>1. PICK k : k = [id |-> p.from, kw |-> p.kw, score |-> p.score,
                    prio |-> p.prio, won |-> p.won, at |-> now, n |-> p.n]
  OBVIOUS
<1>2. p.from \in Echo /\ p.won \in BOOLEAN
  BY <1>0 DEF TypeOK, Packet
<1>3. p.c = (IF p.won THEN 2 ELSE 1) /\ p.c > last[e][p.from]
  BY DEF Book, Receive, fresh
<1>4. \A j \in claims[e] : /\ j.id \in Echo /\ j.won \in BOOLEAN
                           /\ last[e][j.id] >= (IF j.won THEN 2 ELSE 1)
                           /\ last[e][j.id] \in Nat
                           /\ \A i \in claims[e] : i.id = j.id /\ i.won = j.won => i = j
  <2>1. \A j \in claims[e] : j.id \in Echo /\ j.won \in BOOLEAN
    BY <1>0 DEF TypeOK, Claims
  <2>2. \A j \in Echo : last[e][j] \in Nat
    BY <1>0, Times
  <2> QED
    BY <2>1, <2>2 DEF Book
<1>5. \A j \in claims[e] : ~(j.id = k.id /\ j.won = k.won)
  BY <1>1, <1>3, <1>4
<1> DEFINE S == claims[e] \cup {k}
           T == Echo \X BOOLEAN
           F == [j \in S |-> <<j.id, j.won>>]
<1>6. F \in [S -> T]
  BY <1>1, <1>2, <1>4
<1>7. \A a, b \in S : F[a] = F[b] => a = b
  <2> SUFFICES ASSUME NEW a \in S, NEW b \in S, F[a] = F[b] PROVE a = b
    OBVIOUS
  <2>1. a.id = b.id /\ a.won = b.won
    OBVIOUS
  <2> QED
    BY <1>4, <1>5, <2>1
<1> HIDE DEF F
<1>8. F \in Injection(S, T)
  BY <1>6, <1>7, Fun_IsInj
<1>9. IsFiniteSet(BOOLEAN) /\ Cardinality(BOOLEAN) = 2
  <2>1. BOOLEAN = {TRUE} \cup {FALSE} /\ TRUE # FALSE
    OBVIOUS
  <2> QED
    BY <2>1, TwoElements, Zenon
<1>10. IsFiniteSet(Echo) /\ Cardinality(Echo) \in Nat /\ NCLAIM >= 2 * Cardinality(Echo)
  BY FS_CardinalityType DEF Timely
<1>11. IsFiniteSet(T) /\ Cardinality(T) = Cardinality(Echo) * 2
  BY <1>9, <1>10, FS_Product
<1> HIDE DEF T
<1>12. Cardinality(S) <= Cardinality(T)
  BY <1>8, <1>11, FS_Injection
<1>13. k \notin claims[e] /\ IsFiniteSet(claims[e])
  BY <1>0, <1>5 DEF Finite
<1>14. Cardinality(S) = Cardinality(claims[e]) + 1 /\ Cardinality(claims[e]) \in Nat
  BY <1>13, FS_AddElement, FS_CardinalityType
<1> QED
  BY <1>10, <1>11, <1>12, <1>14, Numbers

\* A claim received is kept, and so is every earlier one.
LEMMA ReceiveKeeps ==
  ASSUME IInv, Timely, Book, NEW e \in Echo, NEW p \in air, Receive(e, p)
  PROVE  claims' = [claims EXCEPT ![e] = @ \cup {[id |-> p.from, kw |-> p.kw, score |-> p.score,
                                                  prio |-> p.prio, won |-> p.won, at |-> now, n |-> p.n]}]
<1>1. p.type = "claim"
  BY DEF Book
<1>2. Cardinality(claims[e]) < NCLAIM
  BY RingFits
<1> QED
  BY <1>1, <1>2 DEF Receive, Keep

\* A claim opens a round that waits for every other Echo, long enough.
LEMMA TimelyOpens ==
  ASSUME IInv, Timely, Sent, NEW e \in Echo, NEW s \in Scores, NEW r \in Prio,
         NEW q \in Rounds, NEW p \in Packet, Opens(e, s, r, q, p), Hears(e) \/ phase[e] = "score"
  PROVE  /\ ctr[e] = 0 /\ p.c = 1
         /\ q.want = counts[e] /\ q.waits = counts[e] /\ q.due > said.at + Spread + AFE_WAIT + MaxDelay
         /\ said.at <= now /\ now <= said.at + Spread + AFE_WAIT
<1> USE Numbers
<1>0. TypeOK /\ Punctual
  BY DEF IInv
<1>1. out[e] = "none" /\ now <= said.at + Spread + AFE_WAIT
  BY ClaimIsFirst
<1>2. ctr[e] = 0 /\ p.c = 1
  BY <1>1 DEF Sent, Opens
<1>3. q.want = counts[e] /\ q.waits = counts[e]
  BY DEF Opens, Timely
<1>4. PICK w \in Windows : q.due = now + w
  BY DEF Opens, Timely
<1>5. w > Spread + AFE_WAIT + MaxDelay /\ w \in Nat
  BY DEF Timely
<1>6. said.at <= now /\ said.at \in Nat /\ now \in Nat
  BY <1>0, Times DEF Punctual
<1>7. q.due > said.at + Spread + AFE_WAIT + MaxDelay
  BY <1>4, <1>5, <1>6
<1> QED
  BY <1>1, <1>2, <1>3, <1>6, <1>7


\* With one utterance, nothing has happened when it is said.
LEMMA SayIsFirst ==
  ASSUME IInv, Timely, Book, NEW kw \in Keyword, Say(kw)
  PROVE  /\ \A e \in Echo : out[e] = "none" /\ phase[e] = "idle" /\ claims[e] = {}
         /\ air = {}
<1> USE Numbers
<1>0. TypeOK /\ Threads /\ KeptTrue
  BY DEF IInv
<1>1. said.n = 0
  BY <1>0, Times DEF Say, Timely
<1>2. \A e \in Echo : phase[e] = "idle" /\ out[e] = "none"
  BY <1>0, <1>1 DEF Threads
<1>3. \A p \in air : p.type # "claim"
  BY TimelyIsSpaced, SayIsAlone
<1>4. air = {}
  BY <1>3 DEF Book
<1>5. ASSUME NEW e \in Echo, NEW k \in claims[e] PROVE FALSE
  <2>1. k.id \in Echo /\ k.at \in Nat /\ said.at \in Nat
    BY <1>0, <1>5, Times
  <2>2. ~Agrees(k, k.id)
    BY <1>2, <2>1 DEF Agrees
  <2>3. k.at + LOOKBACK < said.at /\ said.at <= k.at
    BY <1>0, <1>5, <2>2 DEF KeptTrue, Book
  <2> QED
    BY <2>1, <2>3
<1> QED
  BY <1>2, <1>4, <1>5

\* With the claims of all in time nobody sends a beacon that could overtake one.
LEMMA NoBeacons == ASSUME TypeOK, Timely, NEW e \in Echo, Beacon(e) PROVE FALSE
<1>1. ctr[e] < Beacons /\ Beacons = 0 /\ ctr[e] \in Nat
  BY Times DEF Beacon, Timely
<1> QED
  BY <1>1

LEMMA SentStep == ASSUME IInv, Timely, TInv, [Next]_vars PROVE Sent'
<1> USE Numbers
<1>0. TypeOK /\ Threads /\ Punctual /\ Sent /\ Book
  BY DEF IInv, TInv
<1>n. now \in Nat /\ said.at \in Nat /\ said.at <= now /\ \A f \in Echo : ctr[f] \in Nat /\ round[f].at \in Nat
  BY <1>0, Times DEF Punctual
<1>1. ASSUME NEW kw \in Keyword, Say(kw) PROVE Sent'
  <2>1. \A e \in Echo : out[e] = "none" /\ phase[e] = "idle"
    BY <1>0, <1>1, SayIsFirst
  <2>2. (\A e \in Echo : out'[e] = "none") /\ UNCHANGED <<phase, ctr, counts>>
    BY <1>1 DEF Say
  <2> QED
    BY <1>0, <2>1, <2>2 DEF Sent, Took
<1>2. ASSUME NEW e \in Echo, HeardUnable(e) PROVE Sent'
  <2>1. out[e] = "none"
    BY <1>2, ClaimIsFirst DEF HeardUnable
  <2>2. /\ out'[e] = "unable" /\ (\A f \in Echo \ {e} : out'[f] = out[f])
        /\ UNCHANGED <<now, said, phase, ctr, counts, round>>
    BY <1>0, <1>2 DEF HeardUnable, TypeOK
  <2>3. ASSUME NEW f \in Echo PROVE Sent!(f)'
    BY <1>0, <2>1, <2>2 DEF Sent, Took
  <2> QED
    BY <2>3 DEF Sent
<1>3. ASSUME NEW e \in Echo, NEW s \in Scores, NEW r \in Prio, Claim(e, s, r),
             Hears(e) \/ phase[e] = "score", UNCHANGED <<now, said, counts>>
      PROVE  Sent'
  <2>1. CASE Alone(e)
    <3>1. out[e] = "none" /\ now <= said.at + Spread + AFE_WAIT
      BY <1>3, ClaimIsFirst
    <3>2. /\ out'[e] = "answered" /\ phase'[e] = "idle" /\ round'[e] = Unclaimed(now, said.kw) /\ ctr' = ctr
          /\ \A f \in Echo \ {e} : out'[f] = out[f] /\ phase'[f] = phase[f] /\ round'[f] = round[f]
      BY <1>0, <2>1 DEF Alone, TypeOK
    <3>3. round'[e].at = now
      BY <3>2 DEF Unclaimed
    <3>4. ASSUME NEW f \in Echo, f # e PROVE Sent!(f)'
      BY <1>0, <1>3, <3>2, <3>4 DEF Sent, Took
    <3>5. Sent!(e)'
      BY <1>0, <1>n, <1>3, <3>1, <3>2, <3>3 DEF Sent, Took
    <3> QED
      BY <3>4, <3>5 DEF Sent
  <2>2. ASSUME NEW q \in Rounds, NEW p \in Packet, Opens(e, s, r, q, p) PROVE Sent'
    <3>1. /\ ctr[e] = 0
          /\ q.want = counts[e] /\ q.waits = counts[e] /\ q.due > said.at + Spread + AFE_WAIT + MaxDelay
          /\ said.at <= now /\ now <= said.at + Spread + AFE_WAIT
      BY <1>0, <1>3, <2>2, TimelyOpens
    <3>2. /\ out'[e] = "claimed" /\ phase'[e] = "round" /\ round'[e] = q /\ ctr'[e] = ctr[e] + 1
          /\ \A f \in Echo \ {e} : /\ out'[f] = out[f] /\ phase'[f] = phase[f] /\ round'[f] = round[f]
                                   /\ ctr'[f] = ctr[f]
      BY <1>0, <2>2 DEF Opens, TypeOK
    <3>3. q.at = now
      BY <2>2 DEF Opens
    <3>4. ASSUME NEW f \in Echo, f # e PROVE Sent!(f)'
      BY <1>0, <1>3, <3>2, <3>4 DEF Sent, Took
    <3>5. /\ ctr'[e] = 1 /\ round'[e].want = counts'[e] /\ round'[e].waits = counts'[e]
          /\ round'[e].due > said'.at + Spread + AFE_WAIT + MaxDelay /\ counts'[e] = Echo \ {e}
      BY <1>0, <1>3, <3>1, <3>2 DEF Sent
    <3>6. said'.at <= round'[e].at /\ round'[e].at <= said'.at + Spread + AFE_WAIT /\ round'[e].at <= now'
      BY <1>n, <1>3, <3>1, <3>2, <3>3
    <3>7. Sent!(e)'
      BY <3>2, <3>5, <3>6
    <3> QED
      BY <3>4, <3>7 DEF Sent
  <2> QED
    BY <1>0, <1>3, <2>1, <2>2, ClaimCases
<1>4. ASSUME NEW e \in Echo, NEW s \in Scores, NEW r \in Prio, HeardClaims(e, s, r) PROVE Sent'
  BY <1>3, <1>4 DEF HeardClaims
<1>5. ASSUME NEW e \in Echo, NEW s \in Scores, ScoreWait(e, s) PROVE Sent'
  <2>1. pend[e].prio \in Prio
    BY <1>0, <1>5 DEF Punctual, ScoreWait
  <2> QED
    BY <1>3, <1>5, <2>1 DEF ScoreWait
<1>6. ASSUME NEW e \in Echo, NEW r \in Prio, HeardScores(e, r) PROVE Sent'
  <2>1. /\ phase'[e] = "score" /\ (\A f \in Echo \ {e} : phase'[f] = phase[f])
        /\ UNCHANGED <<now, said, out, ctr, counts, round>>
    BY <1>0, <1>6 DEF HeardScores, TypeOK
  <2>2. ASSUME NEW f \in Echo PROVE Sent!(f)'
    BY <1>0, <2>1 DEF Sent, Took
  <2> QED
    BY <2>2 DEF Sent
<1>7. ASSUME NEW e \in Echo, Decide(e) PROVE Sent'
  <2>1. out[e] = "claimed" /\ UNCHANGED <<now, said, counts>> /\ phase' = [phase EXCEPT ![e] = "idle"]
    BY <1>0, <1>7 DEF Decide, Threads
  <2>2. ctr[e] = 1 /\ said.at <= round[e].at /\ round[e].at <= said.at + Spread + AFE_WAIT /\ round[e].at <= now
    BY <1>0, <2>1 DEF Sent, Took
  <2>3. /\ phase'[e] = "idle" /\ round'[e].at = round[e].at
        /\ (out'[e] = "lost" /\ ctr'[e] = ctr[e]) \/ out'[e] = "answered"
        /\ \A f \in Echo \ {e} : /\ out'[f] = out[f] /\ phase'[f] = phase[f] /\ round'[f] = round[f]
                                 /\ ctr'[f] = ctr[f]
    <3>1. CASE Quiet(e)
      BY <1>0, <2>1, <3>1 DEF Quiet, TypeOK
    <3>2. ASSUME NEW p \in Packet, Answers(e, p)
          PROVE  /\ phase'[e] = "idle" /\ round'[e].at = round[e].at /\ out'[e] = "answered"
                 /\ \A f \in Echo \ {e} : /\ out'[f] = out[f] /\ phase'[f] = phase[f] /\ round'[f] = round[f]
                                          /\ ctr'[f] = ctr[f]
      <4>1. round[e] \in Rounds /\ round \in [Echo -> Rounds]
        BY <1>0 DEF TypeOK
      <4>2. round' = [round EXCEPT ![e] = [round[e] EXCEPT !.won = TRUE]]
        BY <3>2 DEF Answers
      <4>3. round'[e].at = round[e].at /\ \A f \in Echo \ {e} : round'[f] = round[f]
        BY <4>1, <4>2 DEF Rounds
      <4> QED
        BY <1>0, <2>1, <3>2, <4>3 DEF Answers, TypeOK
    <3> QED
      BY <1>0, <1>7, <3>1, <3>2, DecideCases
  <2>4. ASSUME NEW f \in Echo, f # e PROVE Sent!(f)'
    BY <1>0, <2>1, <2>3, <2>4 DEF Sent, Took
  <2>5. Sent!(e)'
    BY <1>0, <2>1, <2>2, <2>3 DEF Sent, Took
  <2> QED
    BY <2>4, <2>5 DEF Sent
<1>8. ASSUME NEW e \in Echo, NEW p \in air, Receive(e, p) PROVE Sent'
  <2>1. counts' = [counts EXCEPT ![e] = @ \cup {p.from}] /\ p.from # e
        /\ UNCHANGED <<now, said, out, phase, ctr, round>>
    BY <1>8 DEF Receive
  <2>2. p.from \in Echo /\ \A f \in Echo : counts[f] = Echo \ {f}
    BY <1>0, Times DEF Sent
  <2>3. \A f \in Echo : counts'[f] = counts[f]
    BY <1>0, <2>1, <2>2 DEF TypeOK
  <2>4. ASSUME NEW f \in Echo PROVE Sent!(f)'
    BY <1>0, <2>1, <2>3 DEF Sent, Took
  <2> QED
    BY <2>4 DEF Sent
<1>9. CASE Tick
  <2>1. now' = now + 1 /\ UNCHANGED <<said, out, phase, ctr, counts, round>>
    BY <1>9 DEF Tick
  <2>2. ASSUME NEW f \in Echo PROVE Sent!(f)'
    BY <1>0, <1>n, <2>1 DEF Sent, Took
  <2> QED
    BY <2>2 DEF Sent
<1>10. CASE UNCHANGED <<now, said, out, phase, ctr, counts, round>>
  BY <1>0, <1>10 DEF Sent, Took
<1> QED
  BY <1>0, <1>1, <1>2, <1>4, <1>5, <1>6, <1>7, <1>8, <1>9, <1>10, NoBeacons DEF Next, Drop, vars

\* What one reception does to the counters.
LEMMA ReceiveLast ==
  ASSUME TypeOK, NEW e \in Echo, NEW p \in air, Receive(e, p)
  PROVE  /\ p.from \in Echo /\ p.from # e /\ p.c \in Nat /\ p.c > last[e][p.from] /\ last'[e][p.from] = p.c
         /\ \A f \in Echo \ {p.from} : last'[e][f] = last[e][f]
         /\ \A g \in Echo \ {e} : last'[g] = last[g]
<1>1. p.from \in Echo /\ p.c \in Nat
  BY Times
<1>2. last \in [Echo -> [Echo -> Nat]] /\ last' = [last EXCEPT ![e] = [last[e] EXCEPT ![p.from] = p.c]]
  BY DEF TypeOK, Receive
<1>3. last'[e] = [last[e] EXCEPT ![p.from] = p.c] /\ \A g \in Echo \ {e} : last'[g] = last[g]
  BY <1>2
<1>4. last[e] \in [Echo -> Nat]
  BY <1>2
<1> QED
  BY <1>1, <1>3, <1>4 DEF Receive, fresh

LEMMA BookStep == ASSUME IInv, Timely, TInv, [Next]_vars PROVE Book'
<1> USE Numbers
<1>0. TypeOK /\ Punctual /\ Threads /\ Sent /\ Book
  BY DEF IInv, TInv
<1>n. now \in Nat /\ said.at \in Nat /\ said.at <= now
  BY <1>0, Times DEF Punctual
<1>1. ASSUME NEW kw \in Keyword, Say(kw) PROVE Book'
  <2>1. air = {} /\ \A e \in Echo : claims[e] = {}
    BY <1>0, <1>1, SayIsFirst
  <2> QED
    BY <1>1, <2>1 DEF Say, Book
<1>2. ASSUME NEW p, p.type = "claim", p.kw = said.kw, p.at = now, p.c = (IF p.won THEN 2 ELSE 1),
             air' = air \cup {p}, UNCHANGED <<said, claims, last>>
      PROVE  Book'
  BY <1>0, <1>n, <1>2 DEF Book
<1>3. ASSUME UNCHANGED <<said, claims, last>>, air' \subseteq air PROVE Book'
  BY <1>0, <1>3 DEF Book
<1>4. ASSUME NEW e \in Echo, NEW s \in Scores, NEW r \in Prio, Claim(e, s, r),
             Hears(e) \/ phase[e] = "score", UNCHANGED <<said, claims, last>>
      PROVE  Book'
  <2>1. CASE Alone(e)
    BY <1>3, <1>4, <2>1 DEF Alone
  <2>2. ASSUME NEW q \in Rounds, NEW p \in Packet, Opens(e, s, r, q, p) PROVE Book'
    <3>1. p.c = 1
      BY <1>0, <1>4, <2>2, TimelyOpens
    <3> QED
      BY <1>2, <1>4, <2>2, <3>1 DEF Opens
  <2> QED
    BY <1>0, <1>4, <2>1, <2>2, ClaimCases
<1>5. ASSUME NEW e \in Echo, NEW s \in Scores, NEW r \in Prio, HeardClaims(e, s, r) PROVE Book'
  BY <1>4, <1>5 DEF HeardClaims
<1>6. ASSUME NEW e \in Echo, NEW s \in Scores, ScoreWait(e, s) PROVE Book'
  <2>1. pend[e].prio \in Prio
    BY <1>0, <1>6 DEF Punctual, ScoreWait
  <2> QED
    BY <1>4, <1>6, <2>1 DEF ScoreWait
<1>7. ASSUME NEW e \in Echo, Decide(e) PROVE Book'
  <2>1. phase[e] = "round" /\ UNCHANGED <<said, claims, last>>
    BY <1>7 DEF Decide
  <2>2. ctr[e] = 1 /\ round[e].kw = said.kw
    BY <1>0, <2>1 DEF Threads, Sent, Punctual
  <2>3. CASE Quiet(e)
    BY <1>3, <2>1, <2>3 DEF Quiet
  <2>4. ASSUME NEW p \in Packet, Answers(e, p) PROVE Book'
    <3>1. p.c = 2 /\ p.won
      BY <2>2, <2>4 DEF Answers
    <3> QED
      BY <1>2, <2>1, <2>2, <2>4, <3>1 DEF Answers
  <2> QED
    BY <1>0, <1>7, <2>3, <2>4, DecideCases
<1>8. ASSUME NEW e \in Echo, NEW p \in air, Receive(e, p) PROVE Book'
  <2>1. PICK k : k = [id |-> p.from, kw |-> p.kw, score |-> p.score,
                      prio |-> p.prio, won |-> p.won, at |-> now, n |-> p.n]
    OBVIOUS
  <2>2. claims' = [claims EXCEPT ![e] = @ \cup {k}]
    BY <1>0, <1>8, <2>1, ReceiveKeeps
  <2>3. UNCHANGED <<said, air, now>>
    BY <1>8 DEF Receive
  <2>4. /\ p.from \in Echo /\ p.from # e /\ p.c \in Nat /\ p.c > last[e][p.from] /\ last'[e][p.from] = p.c
        /\ \A f \in Echo \ {p.from} : last'[e][f] = last[e][f]
        /\ \A g \in Echo \ {e} : last'[g] = last[g]
    BY <1>0, <1>8, ReceiveLast
  <2>5. p.kw = said.kw /\ p.c = (IF p.won THEN 2 ELSE 1)
    BY <1>0 DEF Book
  <2>6. claims'[e] = claims[e] \cup {k} /\ \A g \in Echo \ {e} : claims'[g] = claims[g]
    BY <1>0, <2>2 DEF TypeOK
  <2>7. ASSUME NEW j \in claims[e] PROVE j.id \in Echo /\ last[e][j.id] \in Nat
    BY <1>0, <2>7, Times
  <2>8. ASSUME NEW j \in claims[e] PROVE Book!2!(e)!(j)'
    <3>1. ~(j.id = k.id /\ j.won = k.won)
      BY <1>0, <2>1, <2>4, <2>5, <2>7 DEF Book
    <3>2. last'[e][j.id] >= last[e][j.id] /\ last'[e][j.id] \in Nat
      <4>1. j.id \in Echo /\ last[e][j.id] \in Nat
        BY <2>7
      <4>2. CASE j.id = p.from
        BY <2>4, <4>1, <4>2
      <4>3. CASE j.id # p.from
        <5>1. last'[e][j.id] = last[e][j.id]
          BY <2>4, <4>1, <4>3, Zenon
        <5> QED
          BY <4>1, <5>1
      <4> QED
        BY <4>2, <4>3
    <3>3. j.id # e /\ j.kw = said'.kw /\ said'.at <= j.at /\ last'[e][j.id] >= (IF j.won THEN 2 ELSE 1)
      <4>1. j.id # e /\ j.kw = said.kw /\ said.at <= j.at /\ last[e][j.id] >= (IF j.won THEN 2 ELSE 1)
        BY <1>0, Zenon DEF Book
      <4>2. last'[e][j.id] >= (IF j.won THEN 2 ELSE 1)
        BY <2>7, <3>2, <4>1
      <4>3. said' = said
        BY <2>3
      <4> QED
        BY <4>1, <4>2, <4>3, Zenon
    <3>4. \A i \in claims'[e] : i.id = j.id /\ i.won = j.won => i = j
      BY <1>0, <2>6, <3>1 DEF Book
    <3> QED
      BY <3>3, <3>4
  <2>9. Book!2!(e)!(k)'
    <3>1. k.id # e /\ k.kw = said'.kw /\ said'.at <= k.at /\ last'[e][k.id] >= (IF k.won THEN 2 ELSE 1)
      BY <1>n, <2>1, <2>3, <2>4, <2>5
    <3>2. \A i \in claims'[e] : i.id = k.id /\ i.won = k.won => i = k
      BY <1>0, <2>1, <2>4, <2>5, <2>6, <2>7 DEF Book
    <3> QED
      BY <3>1, <3>2
  <2>10. ASSUME NEW g \in Echo, g # e, NEW j \in claims'[g] PROVE Book!2!(g)!(j)'
    BY <1>0, <2>3, <2>4, <2>6, <2>10 DEF Book
  <2>11. Book!1'
    BY <1>0, <2>3 DEF Book
  <2> QED
    BY <2>6, <2>8, <2>9, <2>10, <2>11 DEF Book
<1>9. CASE Tick
  BY <1>3, <1>9 DEF Tick
<1> QED
  BY <1>0, <1>1, <1>3, <1>5, <1>6, <1>7, <1>8, <1>9, NoBeacons
     DEF Next, HeardUnable, HeardScores, Drop, vars

LEMMA ArrivesStep == ASSUME IInv, Timely, TInv, [Next]_vars PROVE Arrives'
<1> USE Numbers
<1>0. TypeOK /\ Punctual /\ Threads /\ AirTrue /\ Sent /\ Book /\ Arrives
  BY DEF IInv, TInv
<1>n. now \in Nat /\ \A f \in Echo : round[f].at \in Nat
  BY <1>0, Times
<1>1. ASSUME NEW e \in Echo, NEW f \in Echo \ {e}, UNCHANGED <<now, claims, last>>, air \subseteq air',
             Took(f)' => Took(f) /\ round'[f].at = round[f].at
      PROVE  Arrives!(e)!(f)'
  BY <1>0, <1>1 DEF Arrives
<1>2. ASSUME UNCHANGED <<now, claims, last>>, air \subseteq air',
             \A f \in Echo : Took(f)' => Took(f) /\ round'[f].at = round[f].at
      PROVE  Arrives'
  BY <1>1, <1>2 DEF Arrives
<1>3. ASSUME NEW kw \in Keyword, Say(kw) PROVE Arrives'
  BY <1>2, <1>3 DEF Say, Took
<1>4. ASSUME NEW e \in Echo, HeardUnable(e) PROVE Arrives'
  <2>1. out'[e] = "unable" /\ \A f \in Echo \ {e} : out'[f] = out[f]
    BY <1>0, <1>4 DEF HeardUnable, TypeOK
  <2> QED
    BY <1>2, <1>4, <2>1 DEF HeardUnable, Took
<1>5. ASSUME NEW g \in Echo, NEW s \in Scores, NEW r \in Prio, Claim(g, s, r),
             Hears(g) \/ phase[g] = "score", UNCHANGED <<now, claims, last>>
      PROVE  Arrives'
  <2>1. /\ \A f \in Echo \ {g} : out'[f] = out[f] /\ round'[f] = round[f]
        /\ air \subseteq air'
    BY <1>5, ClaimStep DEF Effect
  <2>2. ASSUME NEW e \in Echo, NEW f \in Echo \ {e}, f # g PROVE Arrives!(e)!(f)'
    BY <1>1, <1>5, <2>1, <2>2 DEF Took
  <2>3. ASSUME NEW e \in Echo, e # g PROVE Arrives!(e)!(g)'
    <3>1. counts[g] # {}
      BY <1>0, <2>3 DEF Sent
    <3>2. PICK q \in Rounds, p \in Packet : Opens(g, s, r, q, p)
      BY <1>0, <1>5, <3>1, ClaimCases DEF Alone
    <3>3. p.c = 1
      BY <1>0, <1>5, <3>2, TimelyOpens
    <3>4. round'[g] = q /\ q.at = now /\ p.at = now /\ p.from = g /\ p \in air'
      BY <1>0, <3>2 DEF Opens, TypeOK
    <3>5. last[e][g] # 0 => \E k \in claims[e] : k.id = g
      BY <1>0, <2>3 DEF Arrives
    <3> QED
      BY <1>n, <1>5, <3>3, <3>4, <3>5
  <2> QED
    BY <2>2, <2>3 DEF Arrives
<1>6. ASSUME NEW e \in Echo, NEW s \in Scores, NEW r \in Prio, HeardClaims(e, s, r) PROVE Arrives'
  BY <1>5, <1>6 DEF HeardClaims
<1>7. ASSUME NEW e \in Echo, NEW s \in Scores, ScoreWait(e, s) PROVE Arrives'
  <2>1. pend[e].prio \in Prio
    BY <1>0, <1>7 DEF Punctual, ScoreWait
  <2> QED
    BY <1>5, <1>7, <2>1 DEF ScoreWait
<1>8. ASSUME NEW e \in Echo, NEW r \in Prio, HeardScores(e, r) PROVE Arrives'
  BY <1>2, <1>8 DEF HeardScores, Took
<1>9. ASSUME NEW g \in Echo, Decide(g) PROVE Arrives'
  <2>1. out[g] = "claimed" /\ UNCHANGED <<now, claims, last>>
    BY <1>0, <1>9 DEF Decide, Threads
  <2>2. /\ round'[g].at = round[g].at /\ air \subseteq air'
        /\ \A f \in Echo \ {g} : out'[f] = out[f] /\ round'[f] = round[f]
    <3>1. CASE Quiet(g)
      BY <1>0, <3>1 DEF Quiet, TypeOK
    <3>2. ASSUME NEW p \in Packet, Answers(g, p)
          PROVE  /\ round'[g].at = round[g].at /\ air \subseteq air'
                 /\ \A f \in Echo \ {g} : out'[f] = out[f] /\ round'[f] = round[f]
      <4>1. round[g] \in Rounds /\ round \in [Echo -> Rounds]
        BY <1>0 DEF TypeOK
      <4>2. round' = [round EXCEPT ![g] = [round[g] EXCEPT !.won = TRUE]]
        BY <3>2 DEF Answers
      <4>3. round'[g].at = round[g].at /\ \A f \in Echo \ {g} : round'[f] = round[f]
        BY <4>1, <4>2 DEF Rounds
      <4> QED
        BY <1>0, <3>2, <4>3 DEF Answers, TypeOK
    <3> QED
      BY <1>0, <1>9, <3>1, <3>2, DecideCases
  <2>3. Took(g)
    BY <2>1 DEF Took
  <2> QED
    BY <1>2, <2>1, <2>2, <2>3 DEF Took
<1>10. ASSUME NEW g \in Echo, NEW p \in air, Receive(g, p) PROVE Arrives'
  <2>1. PICK k : k = [id |-> p.from, kw |-> p.kw, score |-> p.score,
                      prio |-> p.prio, won |-> p.won, at |-> now, n |-> p.n]
    OBVIOUS
  <2>2. claims' = [claims EXCEPT ![g] = @ \cup {k}]
    BY <1>0, <1>10, <2>1, ReceiveKeeps
  <2>3. UNCHANGED <<out, air, now, round>>
    BY <1>10 DEF Receive
  <2>4. /\ p.from \in Echo /\ p.from # g /\ p.c \in Nat /\ p.c > last[g][p.from] /\ last'[g][p.from] = p.c
        /\ \A f \in Echo \ {p.from} : last'[g][f] = last[g][f]
        /\ \A e \in Echo \ {g} : last'[e] = last[e]
    BY <1>0, <1>10, ReceiveLast
  <2>5. claims'[g] = claims[g] \cup {k} /\ \A e \in Echo \ {g} : claims'[e] = claims[e]
    BY <1>0, <2>2 DEF TypeOK
  <2>6. last[g][p.from] \in Nat
    BY <1>0, <2>4, Times
  <2>7. ASSUME NEW e \in Echo, NEW f \in Echo \ {e} PROVE Arrives!(e)!(f)'
    <3>1. CASE e = g /\ f = p.from
      <4>1. last'[e][f] # 0 /\ \E j \in claims'[e] : j.id = f
        BY <2>1, <2>4, <2>5, <2>6, <3>1
      <4> QED
        BY <1>0, <2>3, <4>1 DEF Arrives, Took
    <3>2. CASE ~(e = g /\ f = p.from)
      <4>1. last'[e][f] = last[e][f] /\ claims[e] \subseteq claims'[e]
        BY <2>4, <2>5, <3>2
      <4> QED
        BY <1>0, <2>3, <4>1 DEF Arrives, Took
    <3> QED
      BY <3>1, <3>2
  <2> QED
    BY <2>7 DEF Arrives
<1>11. CASE Tick
  <2>1. now' = now + 1 /\ air' = {p \in air : p.at + MaxDelay > now} /\ UNCHANGED <<out, round, claims, last>>
    BY <1>11 DEF Tick
  <2>2. \A p \in air : p.at + MaxDelay = now => \A e \in Echo \ {p.from} : last[e][p.from] >= p.c
    BY <1>11 DEF Tick, Timely
  <2>3. \A p \in air : p.at \in Nat /\ now <= p.at + MaxDelay
    BY <1>0, Times DEF AirTrue
  <2>4. ASSUME NEW e \in Echo, NEW f \in Echo \ {e} PROVE Arrives!(e)!(f)'
    <3>1. last[e][f] # 0 => \E k \in claims[e] : k.id = f
      BY <1>0 DEF Arrives
    <3>2. ASSUME Took(f)
          PROVE  /\ (\E p \in air' : p.from = f /\ p.c = 1 /\ p.at = round[f].at) \/ round[f].at + MaxDelay < now'
                 /\ last[e][f] = 0 => now' <= round[f].at + MaxDelay
      <4>1. CASE round[f].at + MaxDelay < now
        BY <1>0, <1>n, <2>1, <3>2, <4>1 DEF Arrives
      <4>2. ASSUME NEW p \in air, p.from = f, p.c = 1, p.at = round[f].at PROVE <3>2!2
        <5>1. CASE p.at + MaxDelay = now
          BY <1>n, <2>1, <2>2, <4>2, <5>1
        <5>2. CASE p.at + MaxDelay > now
          BY <1>n, <2>1, <4>2, <5>2
        <5> QED
          BY <1>n, <2>3, <5>1, <5>2
      <4> QED
        BY <1>0, <3>2, <4>1, <4>2 DEF Arrives
    <3> QED
      BY <2>1, <3>1, <3>2 DEF Took
  <2> QED
    BY <2>4 DEF Arrives
<1>12. CASE UNCHANGED <<now, out, claims, last, air, round>>
  BY <1>2, <1>12 DEF Took
<1> QED
  BY <1>0, <1>3, <1>4, <1>6, <1>7, <1>8, <1>9, <1>10, <1>11, <1>12, NoBeacons DEF Next, Drop, vars

LEMMA BetterIsTotal ==
  ASSUME TypeOK, NEW e \in Echo, NEW f \in Echo \ {e} PROVE Better(f, e) \/ Better(e, f)
<1>1. /\ round[e].score \in Nat /\ round[f].score \in Nat /\ round[e].prio \in Nat /\ round[f].prio \in Nat
      /\ e \in Nat /\ f \in Nat
  BY Times, Numbers
<1> QED
  BY <1>1 DEF Better, Beats

\* While one may still hear or score the wake word, no other has answered.
LEMMA NotYet ==
  ASSUME IInv, TInv, NEW g \in Echo, Hears(g) \/ phase[g] = "score", NEW e \in Echo \ {g}
  PROVE  out[e] # "answered"
<1>1. out[g] = "none"
  BY ClaimIsFirst
<1>2. Hears(g) => ~(now > said.at + Spread)
  <2>1. now \in Nat /\ said.at \in Nat /\ Spread \in Nat
    BY Times, Numbers DEF IInv
  <2> QED
    BY <2>1 DEF Hears
<1> QED
  BY <1>1, <1>2 DEF TInv, Chosen

\* An unbeaten round that ends has the claim of every Echo that made one, and no
\* other will make one.
LEMMA Told ==
  ASSUME IInv, Timely, TInv, NEW g \in Echo, Decide(g), ~beaten(g), NEW f \in Echo \ {g}
  PROVE  /\ Took(f) => ~Better(f, g)
         /\ out[f] = "none" => phase[f] = "idle" /\ now > said.at + Spread
<1> USE Numbers
<1>0. TypeOK /\ Threads /\ Punctual /\ KeptTrue /\ Sent /\ Arrives /\ Book
  BY DEF IInv, TInv
<1>1. phase[g] = "round" /\ Took(g) /\ (now >= round[g].due \/ arb_settled(g))
  BY <1>0 DEF Decide, Threads, Took
<1>2. now \in Nat /\ said.at \in Nat /\ round[g].at \in Nat /\ round[g].due \in Nat
      /\ round[f].at \in Nat /\ pend[f].due \in Nat /\ last[g][f] \in Nat
  BY <1>0, Times
<1>3. /\ said.at <= round[g].at /\ round[g].at <= said.at + Spread + AFE_WAIT /\ round[g].kw = said.kw
      /\ round[g].due > said.at + Spread + AFE_WAIT + MaxDelay
  BY <1>0, <1>1 DEF Sent, Punctual
<1>4. ASSUME NEW k \in claims[g], k.id = f PROVE OfRound(k, g) /\ Agrees(k, f)
  <2>1. k.kw = said.kw /\ said.at <= k.at /\ k.at \in Nat
    BY <1>0, <1>4, Times DEF Book
  <2>2. OfRound(k, g)
    BY <1>2, <1>3, <2>1 DEF OfRound, Timely
  <2>3. ~(k.at + LOOKBACK < said.at)
    BY <1>2, <2>1
  <2> QED
    BY <1>0, <1>4, <2>2, <2>3 DEF KeptTrue
<1>5. ASSUME Took(f), NEW k \in claims[g], k.id = f PROVE ~Better(f, g)
  <2>1. OfRound(k, g) /\ Agrees(k, f) /\ ~Beats(k, round[g], g)
    BY <1>4, <1>5 DEF beaten
  <2> QED
    BY <1>5, <2>1 DEF Better, Beats, Agrees
<1>6. CASE now >= round[g].due
  <2>1. now > said.at + Spread + AFE_WAIT + MaxDelay
    BY <1>2, <1>3, <1>6
  <2>2. ASSUME Took(f) PROVE ~Better(f, g)
    <3>1. round[f].at <= said.at + Spread + AFE_WAIT
      BY <1>0, <2>2 DEF Sent
    <3>2. last[g][f] = 0 => now <= round[f].at + MaxDelay
      BY <1>0, <2>2 DEF Arrives
    <3>3. last[g][f] # 0
      BY <1>2, <2>1, <3>1, <3>2
    <3>4. PICK k \in claims[g] : k.id = f
      BY <1>0, <3>3 DEF Arrives
    <3> QED
      BY <1>5, <2>2, <3>4
  <2>3. ASSUME out[f] = "none" PROVE phase[f] = "idle" /\ now > said.at + Spread
    <3>1. phase[f] # "score"
      BY <1>0, <1>2, <2>1 DEF Punctual
    <3>2. phase[f] # "round"
      BY <1>0, <2>3 DEF Threads
    <3>3. phase[f] \in {"idle", "score", "round"}
      BY <1>0 DEF TypeOK
    <3>4. now > said.at + Spread
      BY <1>2, <2>1
    <3> QED
      BY <3>1, <3>2, <3>3, <3>4
  <2> QED
    BY <2>2, <2>3
<1>7. CASE arb_settled(g)
  <2>1. f \in Waited(g)
    BY <1>0, <1>1 DEF Sent, Waited
  <2>2. PICK k \in claims[g] : k.id = f
    BY <1>7, <2>1 DEF arb_settled
  <2>3. Agrees(k, f)
    BY <1>4, <2>2
  <2> QED
    BY <1>5, <2>2, <2>3 DEF Agrees
<1> QED
  BY <1>1, <1>6, <1>7

LEMMA ChosenStep == ASSUME IInv, Timely, TInv, [Next]_vars PROVE Chosen'
<1> USE Numbers
<1>0. TypeOK /\ Threads /\ Sent /\ Chosen
  BY DEF IInv, TInv
<1>n. now \in Nat /\ said.at \in Nat
  BY <1>0, Times
<1>1. ASSUME NEW e \in Echo, NEW f \in Echo \ {e}, UNCHANGED <<now, said>>,
             UNCHANGED <<out[e], out[f], phase[f]>>,
             round'[e].prio = round[e].prio, round'[e].score = round[e].score,
             round'[f].prio = round[f].prio, round'[f].score = round[f].score
      PROVE  Chosen!(e)!(f)'
  BY <1>0, <1>1 DEF Chosen, Better, Beats
<1>2. ASSUME UNCHANGED <<now, said, out, phase, round>> PROVE Chosen'
  BY <1>0, <1>2 DEF Chosen, Better, Beats
<1>3. ASSUME NEW kw \in Keyword, Say(kw) PROVE Chosen'
  BY <1>3 DEF Say, Chosen
<1>4. ASSUME NEW g \in Echo, Hears(g) \/ phase[g] = "score", UNCHANGED <<now, said>>,
             \A f \in Echo \ {g} : out'[f] = out[f] /\ phase'[f] = phase[f] /\ round'[f] = round[f],
             out'[g] # "answered" \/ Echo \ {g} = {}
      PROVE  Chosen'
  <2>1. \A e \in Echo \ {g} : out'[e] # "answered"
    BY <1>0, <1>4, NotYet DEF TInv
  <2> QED
    BY <1>4, <2>1 DEF Chosen
<1>5. ASSUME NEW g \in Echo, HeardUnable(g) PROVE Chosen'
  <2>1. out'[g] = "unable" /\ \A f \in Echo \ {g} : out'[f] = out[f]
    BY <1>0, <1>5 DEF HeardUnable, TypeOK
  <2> QED
    BY <1>4, <1>5, <2>1 DEF HeardUnable
<1>6. ASSUME NEW g \in Echo, NEW r \in Prio, HeardScores(g, r) PROVE Chosen'
  <2>1. out[g] = "none" /\ \A f \in Echo \ {g} : phase'[f] = phase[f]
    BY <1>0, <1>6, ClaimIsFirst DEF HeardScores, TypeOK
  <2> QED
    BY <1>4, <1>6, <2>1 DEF HeardScores
<1>7. ASSUME NEW g \in Echo, NEW s \in Scores, NEW r \in Prio, Claim(g, s, r),
             Hears(g) \/ phase[g] = "score", UNCHANGED <<now, said>>
      PROVE  Chosen'
  <2>1. /\ \A f \in Echo \ {g} : phase'[f] = phase[f] /\ out'[f] = out[f] /\ round'[f] = round[f]
        /\ out'[g] = "claimed" \/ counts[g] = {}
    BY <1>7, ClaimStep DEF Effect
  <2>2. out'[g] # "answered" \/ Echo \ {g} = {}
    BY <1>0, <2>1 DEF Sent
  <2> QED
    BY <1>4, <1>7, <2>1, <2>2
<1>8. ASSUME NEW e \in Echo, NEW s \in Scores, NEW r \in Prio, HeardClaims(e, s, r) PROVE Chosen'
  BY <1>7, <1>8 DEF HeardClaims
<1>9. ASSUME NEW e \in Echo, NEW s \in Scores, ScoreWait(e, s) PROVE Chosen'
  <2>1. pend[e].prio \in Prio
    BY <1>9 DEF IInv, Punctual, ScoreWait
  <2> QED
    BY <1>7, <1>9, <2>1 DEF ScoreWait
<1>10. ASSUME NEW g \in Echo, Decide(g) PROVE Chosen'
  <2>1. out[g] = "claimed" /\ phase[g] = "round" /\ UNCHANGED <<now, said>> /\ phase' = [phase EXCEPT ![g] = "idle"]
    BY <1>0, <1>10 DEF Decide, Threads
  <2>2. \A f \in Echo \ {g} : phase'[f] = phase[f]
    BY <1>0, <2>1 DEF TypeOK
  <2>3. ASSUME Quiet(g) PROVE Chosen'
    <3>1. out'[g] = "lost" /\ (\A f \in Echo \ {g} : out'[f] = out[f]) /\ round' = round
      BY <1>0, <2>3 DEF Quiet, TypeOK
    <3>2. ASSUME NEW e \in Echo, NEW f \in Echo \ {e}, f # g PROVE Chosen!(e)!(f)'
      <4>1. CASE e = g
        BY <3>1, <4>1
      <4>2. CASE e # g
        BY <1>1, <2>1, <2>2, <3>1, <3>2, <4>2
      <4> QED
        BY <4>1, <4>2
    <3>3. ASSUME NEW e \in Echo, e # g PROVE Chosen!(e)!(g)'
      <4>1. out[e] = "answered" => ~Better(g, e)
        BY <1>0, <2>1, <3>3 DEF Chosen
      <4> QED
        BY <3>1, <3>3, <4>1 DEF Better, Beats
    <3> QED
      BY <3>2, <3>3 DEF Chosen
  <2>4. ASSUME NEW p \in Packet, Answers(g, p) PROVE Chosen'
    <3>1. ~beaten(g) /\ out'[g] = "answered" /\ \A f \in Echo \ {g} : out'[f] = out[f]
      BY <1>0, <2>4 DEF Answers, TypeOK
    <3>2. /\ round'[g].score = round[g].score /\ round'[g].prio = round[g].prio
          /\ \A f \in Echo \ {g} : round'[f] = round[f]
      <4>1. round[g] \in Rounds /\ round \in [Echo -> Rounds]
        BY <1>0 DEF TypeOK
      <4>2. round' = [round EXCEPT ![g] = [round[g] EXCEPT !.won = TRUE]]
        BY <2>4 DEF Answers
      <4> QED
        BY <4>1, <4>2 DEF Rounds
    <3>3. ASSUME NEW e \in Echo \ {g} PROVE out[e] # "answered"
      <4>1. out[e] = "answered" => ~Better(g, e) /\ ~Better(e, g)
        BY <1>0, <1>10, <2>1, <3>1, Told DEF Chosen, Took
      <4> QED
        BY <1>0, <4>1, BetterIsTotal
    <3>4. ASSUME NEW e \in Echo, e # g, NEW f \in Echo \ {e} PROVE Chosen!(e)!(f)'
      BY <3>1, <3>3, <3>4
    <3>5. ASSUME NEW f \in Echo \ {g} PROVE Chosen!(g)!(f)'
      <4>1. /\ Took(f) => ~Better(f, g)
            /\ out[f] = "none" => phase[f] = "idle" /\ now > said.at + Spread
        BY <1>10, <3>1, Told
      <4>2. out[f] \in {"none", "claimed", "answered", "lost", "unable"} /\ out[f] # "answered"
        BY <1>0, <3>3 DEF TypeOK
      <4>3. ~Better(f, g) => ~Better(f, g)'
        BY <3>2 DEF Better, Beats
      <4> QED
        BY <2>1, <2>2, <3>1, <4>1, <4>2, <4>3 DEF Took
    <3> QED
      BY <3>4, <3>5 DEF Chosen
  <2> QED
    BY <1>0, <1>10, <2>3, <2>4, DecideCases
<1>11. CASE Tick
  <2>1. now' = now + 1 /\ UNCHANGED <<said, out, phase, round>>
    BY <1>11 DEF Tick
  <2>2. ASSUME NEW e \in Echo, NEW f \in Echo \ {e} PROVE Chosen!(e)!(f)'
    <3>1. Better(f, e)' = Better(f, e) /\ (now > said.at + Spread => now' > said'.at + Spread)
      BY <1>n, <2>1 DEF Better, Beats
    <3> QED
      BY <1>0, <2>1, <3>1 DEF Chosen
  <2> QED
    BY <2>2 DEF Chosen
<1> QED
  BY <1>0, <1>2, <1>3, <1>5, <1>6, <1>8, <1>9, <1>10, <1>11, NoBeacons DEF Next, Receive, Drop, vars

LEMMA TInvInit == ASSUME Timely PROVE Init => TInv
<1> USE Numbers
<1>1. Init => Sent
  BY DEF Init, Sent, Took, Timely
<1>2. Init => Arrives
  BY DEF Init, Arrives, Took
<1>3. Init => Book
  BY DEF Init, Book
<1>4. Init => Chosen
  BY DEF Init, Chosen
<1> QED
  BY <1>1, <1>2, <1>3, <1>4 DEF TInv

\* With every claim in time, who answers was told of everybody who claimed.
THEOREM TimelyInvariant == ASSUME Timely PROVE Spec => [](IInv /\ TInv)
<1>1. Spec => []IInv
  BY TimelyIsSpaced, Invariant
<1>2. Init => TInv
  BY TInvInit
<1>3. IInv /\ TInv /\ [Next]_vars => TInv'
  BY SentStep, ArrivesStep, BookStep, ChosenStep DEF TInv
<1> QED
  BY <1>1, <1>2, <1>3, PTL DEF Spec

\* Of any number of Echos that hear the wake word at most one answers, when every
\* claim is in before the first window ends.
THEOREM OneAnswersHolds == ASSUME Timely PROVE Spec => []OneAnswers
<1>1. ASSUME Chosen PROVE OneAnswers
  <2> DEFINE S == {e \in Echo : out[e] = "answered"}
  <2>1. \A e, f \in S : e = f
    BY <1>1 DEF Chosen
  <2>2. CASE S = {}
    BY <2>2, FS_EmptySet DEF OneAnswers
  <2>3. CASE S # {}
    <3>1. PICK e \in S : S = {e}
      BY <2>1, <2>3
    <3>2. Cardinality({e}) = 1
      BY FS_Singleton
    <3> QED
      BY <3>1, <3>2 DEF OneAnswers
  <2> QED
    BY <2>2, <2>3
<1>2. TInv => OneAnswers
  BY <1>1 DEF TInv
<1> QED
  BY <1>2, TimelyInvariant, PTL

\* ... and it is the one of the best claim, whoever claimed first and in whatever
\* order the claims came in.
THEOREM BestAnswersHolds == ASSUME Timely PROVE Spec => []BestAnswers
<1>1. TInv => BestAnswers
  BY DEF TInv, Chosen, BestAnswers
<1> QED
  BY <1>1, TimelyInvariant, PTL

\* A round that ended early has the outcome its window's end would have given.
THEOREM SettledIsFinalHolds == ASSUME Timely PROVE Spec => []SettledIsFinal
<1>1. ASSUME IInv, TInv PROVE SettledIsFinal
  <2> SUFFICES ASSUME NEW e \in Echo, out[e] = "answered", NEW k \in claims[e], Beats(k, round[e], e) PROVE FALSE
    BY DEF SettledIsFinal
  <2>1. TypeOK /\ KeptTrue /\ Book /\ Chosen
    BY <1>1 DEF IInv, TInv
  <2>2. k.id \in Echo \ {e} /\ said.at <= k.at /\ k.at \in Nat /\ said.at \in Nat /\ LOOKBACK \in Nat
    BY <2>1, Times, Numbers DEF Book
  <2>3. ~(k.at + LOOKBACK < said.at)
    BY <2>2
  <2>4. Agrees(k, k.id)
    BY <2>1, <2>3 DEF KeptTrue
  <2>5. out[k.id] \in {"claimed", "lost"} /\ ~Better(k.id, e)
    BY <2>1, <2>2, <2>4 DEF Chosen, Agrees
  <2> QED
    BY <2>4, <2>5 DEF Agrees, Better, Beats
<1>2. IInv /\ TInv => SettledIsFinal
  BY <1>1
<1> QED
  BY <1>2, TimelyInvariant, PTL

=============================================================================
