------------------------------ MODULE ArbRound ------------------------------
(***************************************************************************)
(* Wake word rounds between the Echos of one network: src/src/hassmic/     *)
(* arb.c (arb_claim, on_packet, fresh, beaten, waited, arb_settled,        *)
(* arb_decide, send_spread) with the capture thread of main.c that calls   *)
(* them (wake_heard, score_wait, claim).                                   *)
(*                                                                         *)
(* Time is a count of ticks (one is a capture block or more); only         *)
(* differences of an Echo's own clock are used, so one clock stands for    *)
(* all.  A broadcast goes out three times within 80 ms (COPY_MS): here it  *)
(* stays in the air for MaxDelay ticks, and may reach each Echo at any     *)
(* time in them, more than once, or never.                                 *)
(*                                                                         *)
(* The learned window and the rivals' estimate are inputs: any window of   *)
(* Windows, any set of members to wait for.                                *)
(***************************************************************************)
EXTENDS Integers, FiniteSets

CONSTANTS
  Echo,        \* ids, compared as numbers
  Keyword,     \* wake words
  Scores,      \* signal to noise of a detection
  Prio,        \* 2: in a conversation or ringing, else 0
  LOOKBACK,    \* claims this much older than the own one count
  NCLAIM,      \* claims kept
  Windows,     \* window_now: learned or set
  AFE_WAIT,    \* wait for the front end's score; 0: no front end
  RivalsOn,    \* rivals_on: a round may wait for only some members
  Acquainted,  \* every Echo counts every other one
  Beacons,     \* bound: no beacon past this counter
  MaxDelay,    \* a packet is in the air at most this long
  Lossless,    \* TRUE: some copy of every packet reaches every Echo
  Spread,      \* the engines report one utterance within this time
  Gap,         \* time between two utterances
  MaxSay,      \* bound: utterances
  MaxTime      \* bound: ticks

ASSUME ArbRoundAssumption ==
  /\ Echo \subseteq Nat /\ Keyword # {}
  /\ Scores \subseteq Nat /\ Prio \subseteq {0, 2}
  /\ \E s \in Scores : \A t \in Scores : t <= s
  /\ Windows \subseteq Nat
  /\ {LOOKBACK, NCLAIM, AFE_WAIT, Beacons, MaxDelay, Spread, Gap, MaxSay, MaxTime} \subseteq Nat
  /\ NCLAIM > 0
  /\ {RivalsOn, Acquainted, Lossless} \subseteq BOOLEAN

None == [n |-> 0, at |-> 0, kw |-> CHOOSE k \in Keyword : TRUE]

VARIABLES
  now,       \* the clock
  said,      \* the utterance: its number, time and wake word
  phase,     \* capture thread: "idle", "score" (score_due), "round" (arb_due)
  det,       \* the utterance an Echo's engine reported last
  pend,      \* the wake word that waits for its score
  round,     \* round_
  claims,    \* claims[]: the last NCLAIM taken, n: for which utterance (history)
  counts,    \* members that count (count_peers)
  ctr,       \* packets sent
  last,      \* peers[].ctr
  air,       \* packets on their way
  out,       \* history: what became of the utterance at each Echo
  dropped    \* history: <<e, f>>: e dropped a claim of f it had no copy of

vars == <<now, said, phase, det, pend, round, claims, counts, ctr, last, air, out, dropped>>

Rounds == [at : Nat, kw : Keyword, score : Scores \cup {0}, prio : Prio \cup {0}, want : SUBSET Echo,
           waits : SUBSET Echo, due : Nat, won : BOOLEAN]
Claims == [id : Echo, kw : Keyword, score : Scores, prio : Prio, won : BOOLEAN, at : Nat, n : Nat]
Packet == [from : Echo, c : Nat, type : {"claim", "beacon"}, kw : Keyword, score : Scores \cup {0},
           prio : Prio \cup {0}, won : BOOLEAN, at : Nat, n : Nat]

TypeOK ==
  /\ now \in 0 .. MaxTime
  /\ said \in [n : 0 .. MaxSay, at : 0 .. MaxTime, kw : Keyword]
  /\ phase \in [Echo -> {"idle", "score", "round"}]
  /\ det \in [Echo -> 0 .. MaxSay]
  /\ pend \in [Echo -> [prio : Prio \cup {0}, due : Nat]]
  /\ round \in [Echo -> Rounds]
  /\ claims \in [Echo -> SUBSET Claims] /\ \A e \in Echo : Cardinality(claims[e]) <= NCLAIM
  /\ counts \in [Echo -> SUBSET Echo]
  /\ ctr \in [Echo -> Nat]
  /\ last \in [Echo -> [Echo -> Nat]]
  /\ air \subseteq Packet
  /\ out \in [Echo -> {"none", "claimed", "answered", "lost", "unable"}]
  /\ dropped \subseteq Echo \X Echo

\* A round without a claim.
Unclaimed(t, kw) == [at |-> t, kw |-> kw, score |-> 0, prio |-> 0, want |-> {}, waits |-> {}, due |-> 0,
                     won |-> FALSE]
NoRound == Unclaimed(0, None.kw)

Init ==
  /\ now = 0
  /\ said = None
  /\ phase = [e \in Echo |-> "idle"]
  /\ det = [e \in Echo |-> 0]
  /\ pend = [e \in Echo |-> [prio |-> 0, due |-> 0]]
  /\ round = [e \in Echo |-> NoRound]
  /\ claims = [e \in Echo |-> {}]
  /\ counts \in [Echo -> SUBSET Echo]
  /\ \A e \in Echo : e \notin counts[e] /\ (Acquainted => counts[e] = Echo \ {e})
  /\ ctr = [e \in Echo |-> 0]
  /\ last = [e \in Echo |-> [f \in Echo |-> 0]]
  /\ air = {}
  /\ out = [e \in Echo |-> "none"]
  /\ dropped = {}

(***************************************************************************)
(* The talker                                                              *)
(***************************************************************************)

\* Somebody says a wake word, a while after the last one.
Say(kw) ==
  /\ said.n < MaxSay
  /\ said.n = 0 \/ now >= said.at + Gap
  /\ said' = [n |-> said.n + 1, at |-> now, kw |-> kw]
  /\ out' = [e \in Echo |-> "none"]
  /\ UNCHANGED <<now, phase, det, pend, round, claims, counts, ctr, last, air, dropped>>

(***************************************************************************)
(* arb_claim, arb_settled, arb_decide                                      *)
(***************************************************************************)

\* A broadcast of e's with its next counter.
Broadcast(e, type, kw, score, prio, won) ==
  /\ ctr' = [ctr EXCEPT ![e] = @ + 1]
  /\ air' = air \cup {[from |-> e, c |-> ctr[e] + 1, type |-> type, kw |-> kw, score |-> score,
                       prio |-> prio, won |-> won, at |-> now, n |-> said.n]}

\* Fault: on equal scores the Echo with the larger id gives way as well.
BeatsOnTie(k, r, e) ==
  \/ k.won
  \/ k.prio > r.prio
  \/ k.prio = r.prio /\ k.score >= r.score

\* The order of claims: "answers", priority, score, the larger id.
Beats(k, r, e) ==
  \/ k.won
  \/ k.prio > r.prio
  \/ k.prio = r.prio /\ (k.score > r.score \/ (k.score = r.score /\ k.id > e))

\* Fault: claims of the same wake word count however old they are.
OfRoundEver(k, e) == k.kw = round[e].kw

\* A claim kept that is of e's round: its wake word, and recent enough.
OfRound(k, e) == k.kw = round[e].kw /\ k.at + LOOKBACK >= round[e].at

\* Fault: claims that came before the own detection are passed over.
BeatenSince(e) ==
  \E k \in claims[e] : k.kw = round[e].kw /\ k.at >= round[e].at /\ Beats(k, round[e], e)

beaten(e) == \E k \in claims[e] : OfRound(k, e) /\ Beats(k, round[e], e)

\* Members this round waits for; one counted since the claim is waited for, too.
Waited(e) == {f \in counts[e] : f \in round[e].want => f \in round[e].waits}

\* Fault: one claim in is enough.
SettledByOne(e) ==
  \/ beaten(e)
  \/ \E f \in Waited(e) : \E k \in claims[e] : k.id = f /\ OfRound(k, e)

arb_settled(e) ==
  \/ beaten(e)
  \/ \A f \in Waited(e) : \E k \in claims[e] : k.id = f /\ OfRound(k, e)

\* arb_claim: nobody to ask, and the Echo answers at once; else a claim goes out
\* and the round runs until due.
Claim(e, score, prio) ==
  \/ /\ counts[e] = {}
     /\ phase' = [phase EXCEPT ![e] = "idle"]
     /\ round' = [round EXCEPT ![e] = Unclaimed(now, said.kw)]
     /\ out' = [out EXCEPT ![e] = "answered"]
     /\ UNCHANGED <<ctr, air>>
  \/ /\ counts[e] # {}
     /\ \E waits \in IF RivalsOn THEN SUBSET counts[e] ELSE {counts[e]} :
          \E w \in IF waits = {} THEN {0} ELSE Windows :
            round' = [round EXCEPT ![e] =
                        [at |-> now, kw |-> said.kw, score |-> score, prio |-> prio,
                         want |-> counts[e], waits |-> waits, due |-> now + w, won |-> FALSE]]
     /\ phase' = [phase EXCEPT ![e] = "round"]
     /\ out' = [out EXCEPT ![e] = "claimed"]
     /\ Broadcast(e, "claim", said.kw, score, prio, FALSE)

(***************************************************************************)
(* The capture thread                                                      *)
(***************************************************************************)

\* The engine reports the utterance.  wake_heard returns at once while a score
\* or a round is due, so nothing happens then.
Hears(e) ==
  /\ phase[e] = "idle"
  /\ said.n > det[e]
  /\ now <= said.at + Spread
  /\ det' = [det EXCEPT ![e] = said.n]

\* wake_heard: muted or without Home Assistant, no claim.
HeardUnable(e) ==
  /\ Hears(e)
  /\ out' = [out EXCEPT ![e] = "unable"]
  /\ UNCHANGED <<now, said, phase, pend, round, claims, counts, ctr, last, air, dropped>>

\* wake_heard: the claim at once (no front end, or nobody to ask).
HeardClaims(e, score, prio) ==
  /\ Hears(e)
  /\ Claim(e, score, prio)
  /\ UNCHANGED <<now, said, pend, claims, counts, last, dropped>>

\* wake_heard: the claim waits for the front end's score; the priority is
\* that of the detection.
HeardScores(e, prio) ==
  /\ Hears(e)
  /\ AFE_WAIT > 0 /\ counts[e] # {}
  /\ phase' = [phase EXCEPT ![e] = "score"]
  /\ pend' = [pend EXCEPT ![e] = [prio |-> prio, due |-> now + AFE_WAIT]]
  /\ UNCHANGED <<now, said, round, claims, counts, ctr, last, air, out, dropped>>

\* score_wait: the reading is in, or its time is up and the mic stream's goes.
ScoreWait(e, score) ==
  /\ phase[e] = "score"
  /\ Claim(e, score, pend[e].prio)
  /\ pend' = [pend EXCEPT ![e] = [prio |-> 0, due |-> 0]]
  /\ UNCHANGED <<now, said, det, claims, counts, last, dropped>>

\* Fault: only every claim in ends the round, not its time.
DecideSettled(e) ==
  /\ phase[e] = "round"
  /\ arb_settled(e)
  /\ phase' = [phase EXCEPT ![e] = "idle"]
  /\ \/ /\ beaten(e)
        /\ out' = [out EXCEPT ![e] = "lost"]
        /\ UNCHANGED <<round, ctr, air>>
     \/ /\ ~beaten(e)
        /\ out' = [out EXCEPT ![e] = "answered"]
        /\ round' = [round EXCEPT ![e].won = TRUE]
        /\ Broadcast(e, "claim", round[e].kw, round[e].score, round[e].prio, TRUE)
  /\ UNCHANGED <<now, said, det, pend, claims, counts, last, dropped>>

\* capture_thread: the round's end, by its time or settled; arb_decide.
Decide(e) ==
  /\ phase[e] = "round"
  /\ now >= round[e].due \/ arb_settled(e)
  /\ phase' = [phase EXCEPT ![e] = "idle"]
  /\ \/ /\ beaten(e)
        /\ out' = [out EXCEPT ![e] = "lost"]
        /\ UNCHANGED <<round, ctr, air>>
     \/ /\ ~beaten(e)
        /\ out' = [out EXCEPT ![e] = "answered"]
        /\ round' = [round EXCEPT ![e].won = TRUE]
        /\ Broadcast(e, "claim", round[e].kw, round[e].score, round[e].prio, TRUE)
  /\ UNCHANGED <<now, said, det, pend, claims, counts, last, dropped>>

(***************************************************************************)
(* arb's thread and the network                                            *)
(***************************************************************************)

\* loop: a beacon with the next counter.
Beacon(e) ==
  /\ ctr[e] < Beacons
  /\ Broadcast(e, "beacon", None.kw, 0, 0, FALSE)
  /\ UNCHANGED <<now, said, phase, det, pend, round, claims, counts, last, out, dropped>>

fresh(e, p) == p.c > last[e][p.from]

\* claims[claim_next++ % NCLAIM]: in a full ring the oldest claim makes room.
Keep(old, k) ==
  IF Cardinality(old) < NCLAIM
  THEN {old \cup {k}}
  ELSE {(old \ {o}) \cup {k} : o \in {x \in old : \A y \in old : x.at <= y.at}}

\* on_packet of a fresh packet: its sender counts, a claim goes into the ring
\* with the time it came.
Receive(e, p) ==
  /\ p.from # e
  /\ fresh(e, p)
  /\ last' = [last EXCEPT ![e][p.from] = p.c]
  /\ counts' = [counts EXCEPT ![e] = @ \cup {p.from}]
  /\ \/ /\ p.type = "claim"
        /\ \E kept \in Keep(claims[e], [id |-> p.from, kw |-> p.kw, score |-> p.score,
                                        prio |-> p.prio, won |-> p.won, at |-> now, n |-> p.n]) :
             claims' = [claims EXCEPT ![e] = kept]
     \/ p.type = "beacon" /\ UNCHANGED claims
  /\ UNCHANGED <<now, said, phase, det, pend, round, ctr, air, out, dropped>>

\* on_packet of a copy or of a packet that a later one overtook.
Drop(e, p) ==
  /\ p.from # e
  /\ ~fresh(e, p)
  /\ p.type = "claim"
  /\ ~\E k \in claims[e] : k.id = p.from /\ k.n = p.n
  /\ dropped' = dropped \cup {<<e, p.from>>}
  /\ UNCHANGED <<now, said, phase, det, pend, round, claims, counts, ctr, last, air, out>>

\* Time passes.  The capture thread looks at the score and the round in every
\* block, so neither is overdue; without loss, a packet's last copy is in.
Tick ==
  /\ said.n > 0 /\ now < MaxTime
  /\ \A e \in Echo : /\ phase[e] = "score" => now < pend[e].due
                     /\ phase[e] = "round" => now < round[e].due
  /\ Lossless => \A p \in air : p.at + MaxDelay = now =>
                   \A e \in Echo \ {p.from} : last[e][p.from] >= p.c
  /\ now' = now + 1
  /\ air' = {p \in air : p.at + MaxDelay > now}
  /\ UNCHANGED <<said, phase, det, pend, round, claims, counts, ctr, last, out, dropped>>

Next ==
  \/ \E kw \in Keyword : Say(kw)
  \/ \E e \in Echo : HeardUnable(e) \/ Decide(e) \/ Beacon(e)
  \/ \E e \in Echo, s \in Scores, r \in Prio : HeardClaims(e, s, r)
  \/ \E e \in Echo, r \in Prio : HeardScores(e, r)
  \/ \E e \in Echo, s \in Scores : ScoreWait(e, s)
  \/ \E e \in Echo, p \in air : Receive(e, p) \/ Drop(e, p)
  \/ Tick

\* The capture thread runs every block and time goes on; the network owes nothing.
Fairness ==
  /\ WF_vars(Tick)
  /\ \A e \in Echo : WF_vars(Decide(e)) /\ WF_vars(\E s \in Scores : ScoreWait(e, s))

Spec == Init /\ [][Next]_vars /\ Fairness

(***************************************************************************)
(* Properties                                                              *)
(***************************************************************************)

\* e's claim is better than f's: what arb_decide compares, on the Echos' own rounds.
Better(f, e) ==
  Beats([won |-> FALSE, prio |-> round[f].prio, score |-> round[f].score, id |-> f], round[e], e)

\* An Echo that went quiet did so for one that answers, or for a better one
\* whose round still runs, whatever the network lost or delayed: arbitration
\* never has every Echo leave the wake word to another.
NoSilence ==
  \A e \in Echo : out[e] = "lost" =>
    \E f \in Echo : \/ out[f] = "answered"
                    \/ out[f] = "claimed" /\ Better(f, e)

\* With every claim in before the first window ends, one Echo answers.
OneAnswers == Cardinality({e \in Echo : out[e] = "answered"}) <= 1

\* ... and no Echo that claimed heard it better.
BestAnswers ==
  \A e, f \in Echo : out[e] = "answered" /\ out[f] \in {"claimed", "lost"} => ~Better(f, e)

\* arb_settled ends a round early only when nothing can change its outcome
\* ("deciding now gives what the window's end would"): until the window's end
\* no claim comes in that beats the Echo that answered early.
SettledIsFinal ==
  \A e \in Echo : out[e] = "answered" /\ round[e].won /\ now <= round[e].due =>
    ~\E k \in claims[e] : OfRound(k, e) /\ Beats(k, round[e], e)

\* Of a claim's three copies a member takes the first that reaches it
\* ("receivers drop all but the first").
FirstCopyTaken == dropped = {}

\* A wake word heard comes to a decision, whatever is said or lost meanwhile: no
\* Echo is left waiting for a score or a claim that never comes, deaf to the next
\* wake word (until the bound on time).
EveryClaimDecided ==
  \A e \in Echo : phase[e] # "idle" ~> (phase[e] = "idle" \/ now = MaxTime)

(***************************************************************************)
(* ArbVote, the contract of a round, for one utterance                     *)
(***************************************************************************)
MarkStep == 1 + (CHOOSE s \in Scores : \A t \in Scores : t <= s)
AllMarks == {p * MarkStep + s : p \in Prio, s \in Scores}
Marks == [e \in Echo |-> round[e].prio * MarkStep + round[e].score]     \* the mark of each Echo's round
Vote == INSTANCE ArbVote WITH Mark <- AllMarks, mark <- Marks

\* Every behaviour of the rounds, losses and delays included, keeps the contract.
ImplementsVote == Vote!Spec
=============================================================================
