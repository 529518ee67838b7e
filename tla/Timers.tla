------------------------------- MODULE Timers -------------------------------
(***************************************************************************)
(* Home Assistant's timers on the Echo (main.c): the ones that run, the    *)
(* ones that ring, and the earcon thread that plays the ring, ends it when *)
(* it rang out and forgets a timer Home Assistant never finished.          *)
(*                                                                         *)
(* Every time is kept as what is left of it, in ticks; Tick is the         *)
(* monotonic clock.  Names, lengths and the sounds themselves are left     *)
(* out; the pipeline, the pending sounds and a Drop In's ring are flags    *)
(* their own threads raise and lower (Ring, Busy).                         *)
(***************************************************************************)
EXTENDS Integers, Sequences, SequencesExt, FiniteSets

CONSTANTS
    Ids,        \* the timers of Home Assistant
    RingingMax, \* RINGING_MAX
    RunningMax, \* RUNNING_MAX
    Length,     \* the longest timer, in ticks
    Stale,      \* TIMER_STALE_MS, in ticks
    RingTimes,  \* the values of the setting timer_ring (0: until stopped)
    MaxEvents,  \* bound: events of Home Assistant and the settings
    MaxNoise,   \* bound: pipelines and Drop In rings that begin
    Never       \* LLONG_MAX

VARIABLES
    running,    \* running[]: id, active, and what is left
    staleAt,    \* timers_stale_at
    ringing,    \* ringing[], in the order they finished
    alarm_on,
    alarm_until,
    timer_ring_s,
    preview,    \* the page asked to hear the ring once
    earcon,     \* where the earcon thread is
    busy,       \* a pipeline runs
    dropin_ring,
    fullRing,   \* ghost: what is left of the ring time of the last timer that finished
    events, noises

vars == <<running, staleAt, ringing, alarm_on, alarm_until, timer_ring_s, preview, earcon, busy, dropin_ring,
          fullRing, events, noises>>
timer == <<running, staleAt>>
alarm == <<ringing, alarm_on, alarm_until, fullRing>>
others == <<timer_ring_s, preview, busy, dropin_ring, noises>>

Time == -(Stale + 1) .. Length + Stale

TInit ==
    /\ running = <<>> /\ staleAt = Never /\ ringing = <<>> /\ alarm_on = FALSE /\ alarm_until = 0
    /\ timer_ring_s \in RingTimes /\ preview = FALSE /\ earcon = "loop" /\ busy = FALSE /\ dropin_ring = FALSE
    /\ fullRing = 0 /\ events = 0 /\ noises = 0

running_drop(s, i) == RemoveAt(s, i)
running_find(s, id) == SelectInSeq(s, LAMBDA t : t.id = id)     \* 0: none

(* When the first active timer is overdue. *)
running_stale_at(s) ==
    LET ends == {s[i].left + Stale : i \in {j \in DOMAIN s : s[j].active}}
    IN  IF ends = {} THEN Never ELSE CHOOSE e \in ends : \A f \in ends : e <= f

Event == events < MaxEvents /\ events' = events + 1

(* A timer started or changed.  A full table loses its oldest paused one,  *)
(* else its oldest.                                                        *)
core_timer_running(id, left, active) ==
    LET old == running_find(running, id)
        paused == SelectInSeq(running, LAMBDA t : ~t.active)
        room == IF Len(running) < RunningMax THEN running
                ELSE running_drop(running, IF paused # 0 THEN paused ELSE 1)
        new == [id |-> id, active |-> active, left |-> left]
        s == IF old # 0 THEN [running EXCEPT ![old] = new] ELSE Append(room, new)
    IN  /\ Event
        /\ running' = s /\ staleAt' = running_stale_at(s)
        /\ UNCHANGED <<alarm, others, earcon>>

(* Each new one gives the ring its full time again. *)
core_timer_finished(id) ==
    LET r == running_find(running, id)
        s == IF r # 0 THEN running_drop(running, r) ELSE running
        full == Len(ringing) = RingingMax /\ ~Contains(ringing, id)
    IN  /\ Event
        /\ running' = s /\ staleAt' = IF r # 0 THEN running_stale_at(s) ELSE staleAt
        /\ ringing' = IF Contains(ringing, id) THEN ringing ELSE Append(IF full THEN Tail(ringing) ELSE ringing, id)
        /\ alarm_until' = IF timer_ring_s # 0 THEN timer_ring_s ELSE Never
        /\ fullRing' = alarm_until'
        /\ alarm_on' = TRUE
        /\ UNCHANGED <<others, earcon>>

core_timer_cancelled(id) ==
    LET r == running_find(running, id)
        s == IF r # 0 THEN running_drop(running, r) ELSE running
        left == SelectSeq(ringing, LAMBDA x : x # id)
    IN  /\ Event
        /\ running' = s /\ staleAt' = IF r # 0 THEN running_stale_at(s) ELSE staleAt
        /\ ringing' = left
        /\ alarm_on' = IF left # ringing /\ left = <<>> THEN FALSE ELSE alarm_on
        /\ UNCHANGED <<alarm_until, fullRing, others, earcon>>

(* The button, the stop word, the media player, "Stop ringing", the page. *)
core_alarm_stop ==
    /\ ringing' = <<>> /\ alarm_on' = FALSE
    /\ UNCHANGED <<alarm_until, fullRing>>

Stop == Event /\ alarm_on /\ core_alarm_stop /\ UNCHANGED <<timer, others, earcon>>

core_timer_ring ==
    /\ Event /\ \E s \in RingTimes : timer_ring_s' = s
    /\ UNCHANGED <<timer, alarm, preview, earcon, busy, dropin_ring, noises>>

core_timer_sound_preview ==
    /\ Event /\ preview' = TRUE
    /\ UNCHANGED <<timer, alarm, timer_ring_s, earcon, busy, dropin_ring, noises>>

(* A pipeline or a Drop In's ring begins; both end by themselves (Session,  *)
(* DropIn).                                                                *)
Noise ==
    /\ noises < MaxNoise /\ noises' = noises + 1
    /\ \/ busy' = TRUE /\ UNCHANGED dropin_ring
       \/ dropin_ring' = TRUE /\ UNCHANGED busy
    /\ UNCHANGED <<timer, alarm, timer_ring_s, preview, earcon, events>>

Quiet ==
    /\ busy \/ dropin_ring
    /\ busy' = FALSE /\ dropin_ring' = FALSE
    /\ UNCHANGED <<timer, alarm, timer_ring_s, preview, earcon, events, noises>>

less(t) == IF t = Never \/ t < -Stale THEN t ELSE t - 1

(* While nothing is timed the clock moves nothing. *)
Tick ==
    /\ running' = [i \in DOMAIN running |-> IF running[i].active THEN [running[i] EXCEPT !.left = less(@)] ELSE running[i]]
    /\ staleAt' = less(staleAt)
    /\ alarm_until' = IF alarm_on THEN less(alarm_until) ELSE alarm_until
    /\ fullRing' = IF alarm_on THEN less(fullRing) ELSE fullRing
    /\ UNCHANGED <<ringing, alarm_on, others, earcon, events>>

--------------------------------------------------------------------------
(* The earcon thread, from the top of its loop.                            *)
Overdue == staleAt # Never /\ staleAt < 0

timers_prune ==
    /\ earcon = "loop" /\ Overdue
    /\ LET s == SelectSeq(running, LAMBDA t : ~t.active \/ t.left + Stale > 0)
       IN  running' = s /\ staleAt' = running_stale_at(s)
    /\ UNCHANGED <<alarm, others, earcon, events>>

RangOut == alarm_until # Never /\ alarm_until < 0

(* A Drop In's ring first, whatever else waits; then the preview, none     *)
(* during a ring; then the alarm, unless a pipeline listens.               *)
earcon_turn ==
    /\ earcon = "loop" /\ ~Overdue
    /\ IF dropin_ring THEN earcon' = "ring" /\ UNCHANGED preview
       ELSE /\ preview \/ alarm_on
            /\ preview' = FALSE
            /\ IF alarm_on /\ RangOut THEN earcon' = "expired"
               ELSE IF busy THEN earcon' = "loop"
               ELSE earcon' \in IF alarm_on THEN {"alarm", "beep"} ELSE {"preview"}
    /\ UNCHANGED <<timer, alarm, timer_ring_s, busy, dropin_ring, events, noises>>

\* Fault: what was seen before the lock was taken is not looked at again.
rang_out_blind ==
    /\ earcon = "expired" /\ earcon' = "loop"
    /\ core_alarm_stop
    /\ UNCHANGED <<timer, others, events>>

(* The ring time was over before the lock was taken: again under it, "not a *)
(* timer that just came".                                                  *)
rang_out ==
    /\ earcon = "expired" /\ earcon' = "loop"
    /\ IF RangOut THEN core_alarm_stop ELSE UNCHANGED alarm
    /\ UNCHANGED <<timer, others, events>>

(* A sound is over, or is cut off when what let it play no longer does:    *)
(* either way it ends (alarm_go, preview_go, ring_go).                     *)
sound_over ==
    /\ earcon \in {"alarm", "beep", "preview", "ring"}
    /\ earcon' = "loop"
    /\ UNCHANGED <<timer, alarm, others, events>>

TNext ==
    \/ \E id \in Ids : core_timer_finished(id) \/ core_timer_cancelled(id)
                       \/ \E left \in {0, Length}, active \in BOOLEAN : core_timer_running(id, left, active)
    \/ Stop \/ core_timer_ring \/ core_timer_sound_preview \/ Noise \/ Quiet \/ Tick
    \/ timers_prune \/ earcon_turn \/ rang_out \/ sound_over
LoopStep == timers_prune \/ earcon_turn \/ rang_out \/ sound_over

TSpec == TInit /\ [][TNext]_vars

--------------------------------------------------------------------------
(* The alarm is on exactly while a timer rings, and the earcon thread      *)
(* silences no timer before its own ring time is over, even one that       *)
(* finished while the thread waited for the lock (rang_out's second look). *)
RingsItsTime ==
    /\ alarm_on' = (ringing' # <<>>)
    /\ rang_out => (alarm_on /\ ~alarm_on' => fullRing # Never /\ fullRing < 0)

(* A ring with a ring time ends by itself, and a timer Home Assistant      *)
(* forgot leaves the table: nothing waits for an event that never comes    *)
(* (earcon_thread, timers_prune).                                          *)
RungOut ==
    /\ ~alarm_on \/ alarm_until = Never
    /\ \A i \in DOMAIN running : ~running[i].active
=============================================================================
