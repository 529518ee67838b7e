---------------------------------- MODULE DropIn ----------------------------------
(* Drop In (dropin.c): calls between the Echos of one network.  Each Echo has at    *)
(* most one call, c; the loop thread tells the core what happened, in order, from   *)
(* the queue evq, sends the first invite of a call once the core knows of it, and   *)
(* runs the timers.  Messages go through arb_tell: a network that loses them and,   *)
(* by arb.c's counters, delivers what it does deliver in order and once.            *)
(* Times are abstract: a timeout may fire whenever its condition holds, and the     *)
(* audio of a call arrives while both ends are live in it, but for outages.         *)
(* Whether Drop In is on, the microphones are muted, do not disturb is on or calls  *)
(* ring first (`ask`) is chosen by the environment each time it is read.            *)
EXTENDS Integers, Sequences, FiniteSets, SequencesExt

CONSTANTS
  Echo,       \* the Echos of the network
  MaxTries,   \* bound: dropin_call calls in a behaviour
  MaxMail,    \* bound: messages on their way from one Echo to another
  Evq,        \* EVQ: events the core has not been told yet (16 in the code)
  Byes,       \* times a bye is repeated (2 in the code)
  Ended,      \* the ended calls an Echo remembers (4 in the code)
  MaxOutage,  \* bound: live calls the network cuts off
  NoCall      \* no call, no event

VARIABLES
  c,         \* c: per Echo [state, outgoing, id, peer, rang, invited]
  bye,       \* the bye being repeated: [left, to, id]
  ended,     \* the ids of the last calls that ended
  evq,       \* events for the core: [state, result, id], id for "calling" only (gen)
  telling,   \* the "calling" event the loop thread took and is telling the core
  core,      \* the state of the call the core was told last
  mail,      \* messages on their way, per <<from, to>>
  tries,     \* ghost: dropin_call calls so far, per Echo
  results,   \* ghost: final results the core was told, per Echo
  past,      \* ghost: calls that ended at an Echo, ever
  revived,   \* ghost: an Echo took up a call that had ended there
  outages

dvars == <<c, bye, ended, evq, telling, core, mail, tries, results, past, revived, outages>>

Idle == [state |-> "idle", outgoing |-> FALSE, id |-> 0, peer |-> NoCall, rang |-> FALSE, invited |-> FALSE]
NoBye == [left |-> 0, to |-> NoCall, id |-> 0]
Pair == {p \in Echo \X Echo : p[1] # p[2]}
NextId == 1 + FoldSet(LAMBDA e, n : tries[e] + n, 0, Echo)

DInit ==
  /\ c = [e \in Echo |-> Idle] /\ bye = [e \in Echo |-> NoBye]
  /\ ended = [e \in Echo |-> <<>>] /\ evq = [e \in Echo |-> <<>>]
  /\ telling = [e \in Echo |-> NoCall] /\ core = [e \in Echo |-> "idle"]
  /\ mail = [p \in Pair |-> <<>>]
  /\ tries = [e \in Echo |-> 0] /\ results = [e \in Echo |-> 0]
  /\ past = [e \in Echo |-> {}] /\ revived = FALSE /\ outages = 0

--------------------------------------------------------------------------------------
\* Building blocks: new values of evq, mail, ended.

\* The last n of a sequence.
Newest(s, n) == IF Len(s) > n THEN SubSeq(s, Len(s) - n + 1, Len(s)) ELSE s
\* ev_push: the oldest event goes when the queue is full.
ev_push(e, state, result) ==
  evq' = [evq EXCEPT ![e] = Newest(Append(@, [state |-> state, result |-> result, id |-> 0]), Evq)]
Sent(m, e, to, kind, id) ==
  IF Len(m[<<e, to>>]) < MaxMail THEN [m EXCEPT ![<<e, to>>] = Append(@, [kind |-> kind, id |-> id])] ELSE m
send_msg(e, kind) == mail' = Sent(mail, e, c[e].peer, kind, c[e].id)
msgs == <<mail, bye>>

\* end_call, with the result the core will hear: the bye is sent now and Byes more times by the tick.
over(e, result) ==
  /\ ev_push(e, "idle", IF c[e].state = "calling" THEN result ELSE "none")
  /\ ended' = [ended EXCEPT ![e] = Newest(Append(@, c[e].id), Ended)]
  /\ past' = [past EXCEPT ![e] = @ \union {c[e].id}]
  /\ c' = [c EXCEPT ![e] = Idle]
tell_bye(e, m) ==
  /\ mail' = Sent(m, e, c[e].peer, "bye", c[e].id)
  /\ bye' = [bye EXCEPT ![e] = [left |-> Byes, to |-> c[e].peer, id |-> c[e].id]]
end_call(e, tell, result) ==
  /\ over(e, result)
  /\ IF tell THEN tell_bye(e, mail) ELSE UNCHANGED bye

go_live(e, call) ==
  /\ ev_push(e, "live", IF call.outgoing THEN "connected" ELSE "none")
  /\ c' = [c EXCEPT ![e] = [call EXCEPT !.state = "live"]]
rest == <<telling, core, tries, results, revived, outages>>

--------------------------------------------------------------------------------------
\* What the user and Home Assistant do.

\* dropin_call of an Echo of the network: refused here (off, muted, in a call) with a result, or begun.
dropin_call(e, to) ==
  /\ FoldSet(LAMBDA x, n : tries[x] + n, 0, Echo) < MaxTries
  /\ tries' = [tries EXCEPT ![e] = @ + 1]
  /\ \/ /\ ev_push(e, "none", IF c[e].state = "idle" THEN "failed" ELSE "busy_here") /\ UNCHANGED c
     \/ /\ c[e].state = "idle"
        /\ c' = [c EXCEPT ![e] = [Idle EXCEPT !.state = "calling", !.outgoing = TRUE, !.id = NextId, !.peer = to]]
        /\ evq' = [evq EXCEPT ![e] = Newest(Append(@, [state |-> "calling", result |-> "none", id |-> NextId]), Evq)]
  /\ UNCHANGED <<bye, ended, telling, core, mail, results, past, revived, outages>>

\* Fault: a call given up before it was answered has no result.
hangup_silent(e) ==
  /\ c[e].state # "idle"
  /\ IF c[e].state = "ringing" THEN send_msg(e, "refuse") /\ end_call(e, FALSE, "none")
     ELSE /\ end_call(e, c[e].state # "calling" \/ c[e].invited, "none")
          /\ (c[e].state = "calling" /\ ~c[e].invited) => UNCHANGED mail
  /\ UNCHANGED rest

\* dropin_hangup: a ringing call is declined, any other ended; no bye for an invite that was never sent.
dropin_hangup(e) ==
  /\ c[e].state # "idle"
  /\ IF c[e].state = "ringing" THEN send_msg(e, "refuse") /\ end_call(e, FALSE, "none")
     ELSE /\ end_call(e, c[e].state # "calling" \/ c[e].invited, "cancelled")
          /\ (c[e].state = "calling" /\ ~c[e].invited) => UNCHANGED mail
  /\ UNCHANGED rest

\* dropin_answer and dropin_button while it rings.
answer(e) ==
  /\ c[e].state = "ringing"
  /\ send_msg(e, "accept") /\ go_live(e, c[e])
  /\ UNCHANGED <<bye, ended, past>> /\ UNCHANGED rest

\* dropin_button in a call that does not ring, and dropin_enable(0): the call ends, the other side is told.
dropin_button(e) ==
  /\ c[e].state \in {"calling", "live"}
  /\ end_call(e, TRUE, "cancelled")
  /\ UNCHANGED rest

dropin_enable(e) ==
  /\ c[e].state # "idle"
  /\ end_call(e, TRUE, "cancelled")
  /\ UNCHANGED rest

--------------------------------------------------------------------------------------
\* dropin_message: one message arrives.

\* The mail without the message taken.
Taken(from, e) == [mail EXCEPT ![<<from, e>>] = Tail(@)]

\* An invite: again for the call it is in (answered again), for a call that is over (ignored), refused, or taken.
invite(e, from, id, same) ==
  \/ /\ same /\ ~c[e].outgoing
     /\ mail' = LET m == Taken(from, e) IN
                IF c[e].state = "live" THEN Sent(m, e, from, "accept", id) ELSE Sent(m, e, from, "ringing", id)
     /\ UNCHANGED <<c, evq, revived>>
  \/ /\ ~(same /\ ~c[e].outgoing) /\ id \in Range(ended[e])
     /\ mail' = Taken(from, e) /\ UNCHANGED <<c, evq, revived>>
  \/ /\ ~(same /\ ~c[e].outgoing) /\ id \notin Range(ended[e])  \* off, do not disturb, muted, no key; or busy
     /\ mail' = Sent(Taken(from, e), e, from, "refuse", id)
     /\ UNCHANGED <<c, evq, revived>>
  \/ /\ ~(same /\ ~c[e].outgoing) /\ id \notin Range(ended[e]) /\ c[e].state = "idle"
     /\ revived' = (revived \/ id \in past[e])
     /\ \E ask \in BOOLEAN :
          /\ mail' = Sent(Taken(from, e), e, from, IF ask THEN "ringing" ELSE "accept", id)
          /\ evq' = [evq EXCEPT ![e] = Newest(Append(@, [state |-> IF ask THEN "ringing" ELSE "live",
                                                         result |-> "none", id |-> 0]), Evq)]
          /\ c' = [c EXCEPT ![e] = [Idle EXCEPT !.state = IF ask THEN "ringing" ELSE "live", !.id = id, !.peer = from]]

dropin_message(from, e) ==
  /\ mail[<<from, e>>] # <<>>
  /\ LET m == Head(mail[<<from, e>>])
         same == c[e].state # "idle" /\ c[e].id = m.id /\ c[e].peer = from
         mine == same /\ c[e].outgoing /\ c[e].state = "calling"
         ends == (m.kind = "refuse" /\ mine) \/ (m.kind = "bye" /\ same)
     IN \/ /\ m.kind = "invite" /\ invite(e, from, m.id, same) /\ UNCHANGED <<bye, ended, past>>
        \/ /\ m.kind = "ringing" /\ mine /\ mail' = Taken(from, e)
           /\ IF c[e].rang THEN UNCHANGED evq ELSE ev_push(e, "none", "ringing")
           /\ c' = [c EXCEPT ![e].rang = TRUE]
           /\ UNCHANGED <<bye, ended, past, revived>>
        \/ /\ m.kind = "accept" /\ mine /\ mail' = Taken(from, e)
           /\ go_live(e, c[e]) /\ UNCHANGED <<bye, ended, past, revived>>
        \/ /\ m.kind = "accept" /\ mine           \* no port in it, or no key from it
           /\ over(e, "failed") /\ tell_bye(e, Taken(from, e)) /\ UNCHANGED revived
        \/ /\ ends /\ over(e, "failed")
           /\ mail' = Taken(from, e) /\ UNCHANGED <<bye, revived>>
        \/ /\ m.kind # "invite" /\ ~ends /\ ~(m.kind \in {"ringing", "accept"} /\ mine)
           /\ mail' = Taken(from, e) /\ UNCHANGED <<c, bye, evq, ended, past, revived>>
  /\ UNCHANGED <<telling, core, tries, results, outages>>

\* External: the network loses a message.
Lose(p) ==
  /\ mail[p] # <<>>
  /\ mail' = [mail EXCEPT ![p] = Tail(@)]
  /\ UNCHANGED <<c, bye, ended, evq, past>> /\ UNCHANGED rest

--------------------------------------------------------------------------------------
\* The loop thread: tell_core in two steps (the lock is released between), then the tick's timers.

Final(r) == r \notin {"none", "ringing"}
\* What the core makes of an event: a result alone changes no state of it.
core_dropin(was, ev) == IF ev.state = "none" THEN was ELSE ev.state
tell_core(e) ==
  /\ telling[e] = NoCall /\ evq[e] # <<>>
  /\ telling' = [telling EXCEPT ![e] = IF Head(evq[e]).state = "calling" THEN Head(evq[e]) ELSE NoCall]
  /\ evq' = [evq EXCEPT ![e] = Tail(@)]
  /\ core' = [core EXCEPT ![e] = core_dropin(@, Head(evq[e]))]
  /\ results' = [results EXCEPT ![e] = @ + IF Final(Head(evq[e]).result) THEN 1 ELSE 0]
  /\ UNCHANGED <<c, ended, past, tries, revived, outages, mail, bye>>

\* The first invite, if the call the core was told of is still the one being made.
invite_first(e) ==
  /\ telling[e] # NoCall
  /\ telling' = [telling EXCEPT ![e] = NoCall]
  /\ IF c[e].state = "calling" /\ c[e].id = telling[e].id /\ ~c[e].invited
       THEN c' = [c EXCEPT ![e].invited = TRUE] /\ send_msg(e, "invite")
       ELSE UNCHANGED <<c, mail>>
  /\ UNCHANGED <<bye, ended, evq, core, tries, results, past, revived, outages>>

Ticks(e) == telling[e] = NoCall

\* The other side is not in this call any more (or not yet), so none of its audio comes.
Alone(e) ==
  /\ c[e].state = "live"
  /\ LET o == c[c[e].peer] IN ~(o.state = "live" /\ o.id = c[e].id)

\* CALLING: no answer, or it rang for too long; otherwise the invite again.
call_timeout(e) ==
  /\ Ticks(e) /\ c[e].state = "calling" /\ c[e].invited
  /\ end_call(e, TRUE, IF c[e].rang THEN "not_answered" ELSE "no_answer")
  /\ UNCHANGED rest
invite_again(e) ==
  /\ Ticks(e) /\ c[e].state = "calling" /\ c[e].invited
  /\ send_msg(e, "invite")
  /\ UNCHANGED <<c, bye, ended, evq, past>> /\ UNCHANGED rest

\* RINGING: nobody answered, or the caller's invites stopped.
ring_timeout(e) ==
  /\ Ticks(e) /\ c[e].state = "ringing"
  /\ \/ send_msg(e, "refuse")
     \/ UNCHANGED mail
  /\ end_call(e, FALSE, "none")
  /\ UNCHANGED rest

\* Fault: a call is lost only while the other side is in it.
lost_together(e) ==
  /\ Ticks(e) /\ c[e].state = "live"
  /\ ~Alone(e) /\ outages < MaxOutage
  /\ outages' = outages + 1
  /\ end_call(e, TRUE, "none")
  /\ UNCHANGED <<telling, core, tries, results, revived>>

\* LIVE: no audio for lost_ms, the other side gone or the network out.
lost(e) ==
  /\ Ticks(e) /\ c[e].state = "live"
  /\ Alone(e) \/ outages < MaxOutage
  /\ outages' = IF Alone(e) THEN outages ELSE outages + 1
  /\ end_call(e, TRUE, "none")
  /\ UNCHANGED <<telling, core, tries, results, revived>>

bye_again(e) ==
  /\ Ticks(e) /\ bye[e].left > 0
  /\ bye' = [bye EXCEPT ![e].left = @ - 1]
  /\ mail' = Sent(mail, e, bye[e].to, "bye", bye[e].id)
  /\ UNCHANGED <<c, ended, evq, past>> /\ UNCHANGED rest

DNext ==
  \/ \E e \in Echo :
       \/ \E to \in Echo \ {e} : dropin_call(e, to) \/ dropin_message(to, e)
       \/ dropin_hangup(e) \/ answer(e) \/ dropin_button(e) \/ dropin_enable(e)
       \/ tell_core(e) \/ invite_first(e) \/ call_timeout(e) \/ invite_again(e) \/ ring_timeout(e)
       \/ lost(e) \/ bye_again(e)
  \/ \E p \in Pair : Lose(p)

DSpec == DInit /\ [][DNext]_dvars

--------------------------------------------------------------------------------------
\* Every call this Echo was asked to make has one final result for Home Assistant: told, waiting in
\* the queue, or still to come from the call being made (ev_push, end_call, tell_core).
OneResultEach ==
  \A e \in Echo :
    tries[e] = results[e] + Cardinality({i \in DOMAIN evq[e] : Final(evq[e][i].result)})
               + IF c[e].state = "calling" THEN 1 ELSE 0

\* Home Assistant's state of the call is the call's once it was told everything (tell_core).
CoreFollows == \A e \in Echo : evq[e] = <<>> => core[e] = c[e].state

\* A call that ended at an Echo is never taken up there again by a late invite (ended).
NoRevival == ~revived

\* The callee's microphone never stays open towards an Echo that is not in the call (lost, bye).
NobodyAlone == \A e \in Echo : ~Alone(e)

\* A call being made or ringing is answered or ends (tick).
NoneWaits == \A e \in Echo : c[e].state \in {"idle", "live"}
======================================================================================
