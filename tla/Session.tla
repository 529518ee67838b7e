------------------------------ MODULE Session ------------------------------
(***************************************************************************)
(* One Echo's voice session: the pipeline states of src/src/hassmic/main.c *)
(* (trigger, core_pipeline_finish, core_remote_wake, the playback thread)  *)
(* and the Home Assistant protocol of proto_esphome.c (on_event, cancel,   *)
(* media_start, media_thread).                                             *)
(*                                                                         *)
(* Every handler runs under core_lock, so it is one action on the record c *)
(* of the fields that lock protects.  What runs outside the lock is split: *)
(* a fetch thread per reply (job), the playback thread (queue, player; of  *)
(* its items only Q_STOP touches the session, the others carry audio).     *)
(* Home Assistant is external.  Its connection keeps the order of events,  *)
(* so only the stream as it arrives is modelled: a handler takes the next  *)
(* event of the run Home Assistant reports on (ha), which may be an older  *)
(* one than the run last asked for.                                        *)
(*                                                                         *)
(* Left out: audio, sounds, the ring's light, timers and Drop In (a press  *)
(* they take does not reach the pipeline), log lines and entity states.    *)
(***************************************************************************)
EXTENDS Integers, FiniteSets

CONSTANTS
  Job,             \* bound: fetch threads at a time
  Announcement,    \* per wake word setting: with a chime first, with a conversation after it
  WAKE_FAILS_MAX,  \* failed wake word runs a reply allows
  MaxRun,          \* bound, per wake word setting: runs asked for
  InFlight,        \* events of a run that may still arrive once its abort went out
  EarlyStop        \* Home Assistant may stop its player before the audio began

ASSUME SessionAssumption ==
  /\ IsFiniteSet(Job) /\ 0 \notin Job
  /\ Announcement \in [BOOLEAN -> SUBSET [chime : BOOLEAN, conv : BOOLEAN]]
  /\ WAKE_FAILS_MAX \in Nat \ {0} /\ MaxRun \in [BOOLEAN -> Nat] /\ InFlight \in Nat
  /\ EarlyStop \in BOOLEAN

VARIABLES
  c,       \* what core_lock protects
  job,     \* media_thread of each media_job
  queue,   \* the playback queue: its Q_STOPs
  player,  \* playback thread: "pop", or "stop" with a Q_STOP in hand
  ha       \* the run Home Assistant reports on, and how far it got

vars == <<c, job, queue, player, ha>>

NoJob == 0

Core == [
  local : BOOLEAN,       \* core_local_wake, fixed at start
  link : {"none", "client", "running"},  \* connected, satellite_running
  muted : BOOLEAN,       \* core_muted()
  state : {"IDLE", "LISTENING", "THINKING", "SPEAKING"},
  streaming : BOOLEAN,
  flush : BOOLEAN,       \* flush_playback
  barge : BOOLEAN,       \* barge_in
  runOver : BOOLEAN, wakeWait : BOOLEAN, wakeCut : BOOLEAN,
  fails : 0 .. WAKE_FAILS_MAX,  \* wake_fails
  quiet : BOOLEAN,       \* quiet_abort
  cancelled : 0 .. 2,
  expected : BOOLEAN,    \* tts_expected
  url : Nat,             \* tts_url: the run whose reply it is, 0: none
  busy : BOOLEAN, playing : BOOLEAN,    \* media_busy, media_playing
  cur : Job \cup {NoJob},               \* media_cur
  aborted : SUBSET Job,
  run : Nat,             \* runs asked for
  told : BOOLEAN,        \* Home Assistant was told to abort the last one
  dead : SUBSET Nat,     \* history: the runs cancelled before they failed
  letGo : BOOLEAN]       \* history: a fetch was let go of while its audio was being cut

Idle == [pc |-> "free", i |-> 2, conv |-> FALSE, began |-> FALSE, ok |-> FALSE, run |-> 0]

Thread == [pc : {"free", "look", "get", "feed", "end", "push"}, i : 1 .. 2,
           conv : BOOLEAN, began : BOOLEAN, ok : BOOLEAN, run : Nat]

(* What Home Assistant sends of a run, in order; how far the run must be.  *)
Order == [RUN_START |-> 1, WAKE_END |-> 2, STT_START |-> 3, VAD_END |-> 4, STT_END |-> 5,
          INTENT_PROGRESS |-> 6, INTENT_END |-> 7, TTS_END |-> 8, ERROR |-> 9, RUN_END |-> 10]

Needs == [RUN_START |-> 0, WAKE_END |-> 1, STT_START |-> 1, VAD_END |-> 3, STT_END |-> 3,
          INTENT_PROGRESS |-> 5, INTENT_END |-> 5, TTS_END |-> 5, ERROR |-> 0, RUN_END |-> 1]

(* The session's fields and threads hold what their declarations allow.    *)
TypeOK ==
  /\ c \in Core
  /\ job \in [Job -> Thread]
  /\ queue \in Nat
  /\ player \in {"pop", "stop"}
  /\ ha \in [run : Nat, stage : 0 .. 10, streams : BOOLEAN, late : 0 .. InFlight]
  /\ ha.run <= c.run

-----------------------------------------------------------------------------
(* The handlers' parts: from the locked fields before to those after.      *)

connected(s) == s.link # "none"

(* start() of proto_esphome.c, then the rest of pipeline_start             *)
start(s) ==
  [s EXCEPT !.expected = FALSE, !.url = 0, !.cancelled = IF @ = 0 THEN 0 ELSE 2, !.run = @ + 1,
            !.told = FALSE]

pipeline_start(s) ==
  [start(s) EXCEPT !.runOver = FALSE, !.wakeWait = FALSE, !.quiet = FALSE, !.streaming = TRUE,
                   !.state = IF s.local THEN "LISTENING" ELSE @]

(* History: the run a cancel is for, unless Home Assistant failed it already *)
Unfailed(s) == IF ha.run = s.run /\ ha.stage = Order.ERROR THEN {} ELSE {s.run}

(* cancel: Home Assistant is told to abort; a reply on its way is let go of *)
AbortReply(s) ==
  [s EXCEPT !.aborted = @ \cup {s.cur}, !.cur = NoJob, !.playing = FALSE, !.busy = FALSE,
            !.letGo = @ \/ (s.flush /\ job[s.cur].began)]

(* A cancel that leaves the fetch to itself.                               *)
CancelKeepsReply(s) == [s EXCEPT !.cancelled = 1, !.told = TRUE, !.dead = @ \cup Unfailed(s)]

cancel(s) ==
  LET t == [s EXCEPT !.cancelled = 1, !.told = TRUE, !.dead = @ \cup Unfailed(s)]
  IN IF s.expected /\ s.cur # NoJob THEN AbortReply(t) ELSE t

core_pipeline_finish(s) ==
  LET mic == s.streaming /\ connected(s)
      off == [s EXCEPT !.fails = 0, !.streaming = FALSE, !.told = @ \/ mic]  \* proto->stop
      over == [(IF mic /\ s.wakeWait THEN cancel(off) ELSE off)
                 EXCEPT !.state = "IDLE", !.barge = @ /\ connected(s)]
      again == (over.barge \/ ~over.local) /\ over.link = "running"
  IN IF again THEN pipeline_start([over EXCEPT !.barge = FALSE]) ELSE over

(* Runs beside a reply without a limit on those that fail.                 *)
ListenAlways(s) ==
  IF s.local \/ ~s.runOver \/ s.state # "SPEAKING" \/ s.streaming \/ s.flush \/ s.link # "running"
  THEN s
  ELSE [pipeline_start(s) EXCEPT !.wakeWait = TRUE]

wake_listen(s) ==
  IF \/ s.local \/ ~s.runOver \/ s.state # "SPEAKING" \/ s.streaming \/ s.flush
     \/ s.fails >= WAKE_FAILS_MAX \/ s.link # "running"
  THEN s
  ELSE [pipeline_start(s) EXCEPT !.wakeWait = TRUE]

core_run_over(s) == wake_listen([s EXCEPT !.runOver = TRUE])

(* core_wake_run_ended: the run beside the reply, if there is one          *)
WakeRun(s) == s.wakeWait /\ s.state = "SPEAKING"

core_wake_run_ended(s, failed) ==
  IF WakeRun(s)
  THEN [s EXCEPT !.streaming = FALSE, !.wakeWait = FALSE, !.fails = IF failed THEN @ + 1 ELSE @]
  ELSE s

core_remote_wake(s) ==
  IF s.local \/ ~s.streaming THEN s
  ELSE IF s.state = "SPEAKING"
       THEN [s EXCEPT !.wakeCut = TRUE, !.wakeWait = FALSE, !.barge = FALSE, !.flush = TRUE,
                      !.state = "LISTENING"]
       ELSE [s EXCEPT !.state = "LISTENING"]

(* core_mic_off, and LISTENING becomes THINKING                            *)
core_mic_off(s) == [s EXCEPT !.streaming = FALSE]

Think(s) == [core_mic_off(s) EXCEPT !.state = IF @ = "LISTENING" THEN "THINKING" ELSE @]

(* core_error, core_no_speech                                              *)
core_error(s) ==
  IF s.quiet THEN [s EXCEPT !.quiet = FALSE]
  ELSE IF s.state # "SPEAKING" THEN core_pipeline_finish(s) ELSE s

Unheard(s) == cancel([s EXCEPT !.barge = FALSE, !.streaming = FALSE])

quiet_cancel(s) == [core_pipeline_finish(Unheard(s)) EXCEPT !.quiet = TRUE]

(* core_transcript on "stop": as quiet_cancel, the mark set before         *)
said_stop(s) == core_pipeline_finish([Unheard(s) EXCEPT !.quiet = TRUE])

core_tts_begin(s) ==
  wake_listen([s EXCEPT !.streaming = @ /\ s.wakeWait, !.state = "SPEAKING"])

(* A Q_STOP that does not free the fetch slot.                             *)
PlayedKeepsSlot(s) == [s EXCEPT !.flush = FALSE, !.playing = FALSE, !.expected = FALSE]

(* played(), then what Q_STOP does                                         *)
played(s) ==
  [s EXCEPT !.flush = FALSE, !.letGo = FALSE, !.playing = FALSE, !.busy = FALSE, !.expected = FALSE]

(* A Q_STOP that leaves the mark of the cut.                               *)
QStopKeepsMark(s) == IF s.wakeCut THEN played(s) ELSE core_pipeline_finish(played(s))

QStop(s) ==
  IF s.wakeCut THEN [played(s) EXCEPT !.wakeCut = FALSE] ELSE core_pipeline_finish(played(s))


-----------------------------------------------------------------------------
(* Replies, announcements and media: media_start and the fetch thread      *)

FreeJobs == {j \in Job : job[j].pc = "free"}

(* The next thread: which one it is makes no difference.                   *)
NewJob == CHOOSE j \in FreeJobs : TRUE

(* media_start takes the one slot, or refuses                              *)
Takes(s, j) == [s EXCEPT !.cur = j, !.playing = TRUE, !.busy = TRUE]

Fetch(j, chime, conv, run) ==
  job' = [job EXCEPT ![j] = [Idle EXCEPT !.pc = "look", !.i = IF chime THEN 1 ELSE 2,
                                         !.conv = conv, !.run = run]]

(* Announcement (a chime first, a conversation after it) or play_media     *)
media_start(chime, conv) ==
  /\ connected(c) /\ c.run < MaxRun[c.local]
  /\ ~c.busy                                \* refused: nothing changes
  /\ FreeJobs # {}
  /\ c' = Takes(IF c.state \in {"LISTENING", "THINKING"} THEN core_pipeline_finish(c) ELSE c, NewJob)
  /\ Fetch(NewJob, chime, conv, 0)
  /\ UNCHANGED <<queue, player, ha>>

Announce == \E a \in Announcement[c.local] : media_start(a.chime, a.conv)

(* The next of the two URLs, or the thread's end                           *)
NextUrl(t) == [t EXCEPT !.pc = IF t.i = 1 THEN "look" ELSE "end", !.i = 2]

LooksAtUrl(j) ==
  /\ job[j].pc = "look"
  /\ job' = [job EXCEPT ![j] = IF c.flush THEN NextUrl(@) ELSE [@ EXCEPT !.pc = "get"]]
  /\ UNCHANGED <<c, queue, player, ha>>

(* http_get fails, or play_url finds nothing it can play, or an MP3 finds  *)
(* the reply cut                                                           *)
NoAudio(j) ==
  /\ job[j].pc = "get"
  /\ job' = [job EXCEPT ![j] = NextUrl(@)]
  /\ UNCHANGED <<c, queue, player, ha>>

(* The audio starts, whatever became of the run.                           *)
BeginsAnyway(j) ==
  /\ job[j].pc = "get"
  /\ job' = [job EXCEPT ![j].pc = "feed", ![j].began = TRUE]
  /\ c' = core_tts_begin(c)
  /\ UNCHANGED <<queue, player, ha>>

(* The audio starts, unless the fetch was aborted meanwhile; media_thread  *)
(* looks for that once its socket is open, and again here                  *)
tts_begin(j) ==
  /\ job[j].pc = "get"
  /\ IF j \in c.aborted
     THEN job' = [job EXCEPT ![j] = NextUrl(@)] /\ UNCHANGED c
     ELSE /\ job' = [job EXCEPT ![j].pc = "feed", ![j].began = TRUE]
          /\ c' = core_tts_begin(c)
  /\ UNCHANGED <<queue, player, ha>>

(* The audio ended, its socket was shut, or the flush cut it               *)
Fed(j) ==
  /\ job[j].pc = "feed"
  /\ job' = [job EXCEPT ![j] = [NextUrl(@) EXCEPT !.ok = job[j].i = 2]]
  /\ UNCHANGED <<c, queue, player, ha>>

(* The last locked part of media_thread                                    *)
Ends(s, j) ==
  LET t == job[j]
      let_go == [s EXCEPT !.aborted = @ \ {j}, !.wakeCut = @ /\ ~t.began]  \* core_tts_abandoned
      done == [s EXCEPT !.cur = IF @ = j THEN NoJob ELSE @, !.barge = @ \/ (t.conv /\ t.ok)]
  IN IF j \in s.aborted THEN let_go
     ELSE IF t.began THEN done
     ELSE [core_pipeline_finish([done EXCEPT !.playing = FALSE]) EXCEPT !.busy = FALSE]

Over(j) ==
  /\ job[j].pc = "end"
  /\ c' = Ends(c, j)
  /\ job' = [job EXCEPT ![j] = IF job[j].began /\ j \notin c.aborted
                                THEN [@ EXCEPT !.pc = "push"] ELSE Idle]
  /\ UNCHANGED <<queue, player, ha>>

(* No Q_STOP for a reply that was cut.                                     *)
EndsUnlessCut(j) ==
  /\ job[j].pc = "push"
  /\ queue' = IF c.flush THEN queue ELSE queue + 1
  /\ job' = [job EXCEPT ![j] = Idle]
  /\ UNCHANGED <<c, player, ha>>

core_tts_end(j) ==
  /\ job[j].pc = "push"
  /\ queue' = queue + 1
  /\ job' = [job EXCEPT ![j] = Idle]
  /\ UNCHANGED <<c, player, ha>>

MediaThread(j) == LooksAtUrl(j) \/ NoAudio(j) \/ tts_begin(j) \/ Fed(j) \/ Over(j) \/ core_tts_end(j)

-----------------------------------------------------------------------------
(* The playback thread                                                     *)

PopStop ==
  /\ player = "pop" /\ queue > 0
  /\ queue' = queue - 1
  /\ player' = "stop"
  /\ UNCHANGED <<c, job, ha>>

Stopped ==
  /\ player = "stop"
  /\ player' = "pop"
  /\ c' = QStop(c)
  /\ UNCHANGED <<job, queue, ha>>

-----------------------------------------------------------------------------
(* The talker: wake word, button, "stop", the mute switch                  *)

(* One handler under core_lock that starts no fetch                        *)
Handler(s) == c' = s /\ UNCHANGED <<job, queue, player, ha>>

Awake == c.link = "running" /\ ~c.muted

(* trigger.  touch: the action button; stopped: stopped_now(), the wake    *)
(* word's "stop" came during the round.  A wake word needs an engine here. *)
TriggerCancels(touch, stopped) ==
  /\ c.state = "THINKING" \/ (touch /\ c.state = "LISTENING")
  /\ connected(c)
  /\ LET s == quiet_cancel(c)
     IN Handler(IF ~touch /\ ~stopped /\ s.state = "IDLE" /\ Awake THEN pipeline_start(s) ELSE s)

TriggerStarts(touch, stopped) ==
  /\ c.state = "IDLE" /\ Awake
  /\ touch \/ ~stopped
  /\ Handler(pipeline_start(c))

TriggerCuts(touch, stopped) ==
  /\ c.state = "SPEAKING" /\ Awake
  /\ \/ ~touch /\ stopped /\ Handler([c EXCEPT !.barge = FALSE, !.flush = TRUE])
     \/ (touch \/ ~stopped) /\ ~c.flush /\ Handler([c EXCEPT !.barge = TRUE, !.flush = TRUE])

trigger ==
  /\ c.run < MaxRun[c.local]
  /\ \E touch, stopped \in BOOLEAN :
       /\ touch \/ c.local
       /\ TriggerCancels(touch, stopped) \/ TriggerStarts(touch, stopped) \/ TriggerCuts(touch, stopped)

(* stop_word: within 4 s of a cut, or with stop_ends_listening             *)
stop_word ==
  /\ c.local /\ c.run < MaxRun[c.local]
  /\ \/ c.state = "SPEAKING" /\ Handler([c EXCEPT !.barge = FALSE, !.flush = TRUE])
     \/ c.state = "LISTENING" /\ connected(c) /\ Handler(quiet_cancel(c))

(* mute_update                                                             *)
mute_update ==
  /\ c.run < MaxRun[c.local]
  /\ LET s == [c EXCEPT !.muted = ~@]
     IN Handler(IF s.muted /\ s.state = "LISTENING" THEN core_pipeline_finish(s) ELSE s)

(* The capture thread: the request's end heard here, and the timeout       *)
heard_end == c.streaming /\ connected(c) /\ Handler(Think(c))

(* A timeout for the talker only, none for Home Assistant.                 *)
TimeoutListening == c.local /\ c.state = "LISTENING" /\ Handler(core_pipeline_finish(c))

PipelineTimeout == c.local /\ c.state \in {"LISTENING", "THINKING"} /\ Handler(core_pipeline_finish(c))

-----------------------------------------------------------------------------
(* Home Assistant: its link, its requests, its events                      *)

core_link(to) ==
  LET s == [c EXCEPT !.link = to, !.expected = @ /\ ~(c.link = "running" /\ to # "running")]
  IN IF to # "running" THEN core_pipeline_finish(s)
     ELSE IF c.link # "running" /\ ~s.local /\ s.state = "IDLE" THEN pipeline_start(s)
     ELSE s

(* A client connects, subscribes, unsubscribes or leaves; what its         *)
(* connection carried is gone with it                                      *)
LinkChanges ==
  /\ c.run < MaxRun[c.local]
  /\ \E to \in {"none", "client", "running"} :
       /\ to # c.link /\ ~(c.link = "none" /\ to = "running")
       /\ c' = core_link(to)
  /\ ha' = [run |-> c.run, stage |-> 10, streams |-> FALSE, late |-> 0]
  /\ UNCHANGED <<job, queue, player>>

(* on_mp_command, stop                                                     *)
BegunJobs == {j \in Job : job[j].began /\ j \notin c.aborted}

StopComing == BegunJobs # {} \/ queue > 0 \/ player = "stop"

MediaStop ==
  /\ connected(c) /\ c.playing /\ ~c.flush
  /\ EarlyStop \/ StopComing
  /\ Handler([c EXCEPT !.flush = TRUE])

(* on_event: what an aborted run still reports is dropped, until a newer   *)
(* one starts or fails                                                     *)
Dropped(s, e) == s.cancelled = 1 \/ (s.cancelled = 2 /\ e \notin {"RUN_START", "ERROR"})

Heeded(s, e) == IF e \in {"RUN_START", "ERROR"} THEN [s EXCEPT !.cancelled = 0] ELSE s

on_error(s, code) ==
  LET t == [s EXCEPT !.expected = FALSE]
  IN IF WakeRun(s)
     THEN core_run_over([core_wake_run_ended(s, code # "duplicate") EXCEPT !.cancelled = 1])
     ELSE IF code = "duplicate" THEN core_pipeline_finish(t) ELSE core_error(t)

on_run_end(s) ==
  IF ~s.expected /\ s.state # "SPEAKING" THEN core_pipeline_finish(s)
  ELSE core_run_over(core_wake_run_ended(s, TRUE))

(* The events that start no fetch.  d: what the event says                 *)
on_event(s, e, d) ==
  CASE e = "WAKE_END" -> core_remote_wake(s)
    [] e = "STT_START" -> [s EXCEPT !.state = "LISTENING"]
    [] e = "VAD_END" -> Think(s)
    [] e = "STT_END" /\ d = "stop" -> said_stop(s)
    [] e = "STT_END" /\ d = "wake word alone" -> quiet_cancel(s)
    [] e = "STT_END" /\ d = "request" -> Think(s)
    [] e = "INTENT_END" /\ d = "continue" -> [s EXCEPT !.barge = TRUE]
    [] e = "ERROR" -> on_error(s, d)
    [] e = "RUN_END" -> on_run_end(s)
    [] OTHER -> s

Says(e) ==
  CASE e = "STT_END" -> {"stop", "wake word alone", "request"}
    [] e = "INTENT_END" -> {"continue", "end"}
    [] e = "ERROR" -> {"duplicate", "other"}
    [] e = "RUN_START" -> {"url", "no url"}
    [] OTHER -> {""}

(* TTS_END, or INTENT_PROGRESS once the reply streams                      *)
StartsReply(s, e) == e \in {"TTS_END", "INTENT_PROGRESS"} /\ ~s.expected /\ s.url # 0

(* The event of run r arrives.  The URL is taken from it before anything   *)
(* else is looked at.                                                      *)
Arrives(r, e, d) ==
  LET s == IF e = "TTS_END" \/ d = "url" THEN [c EXCEPT !.url = r] ELSE c
      t == Heeded(s, e)
      u == core_mic_off([t EXCEPT !.expected = TRUE])
  IN /\ IF Dropped(s, e) THEN c' = s /\ UNCHANGED job
        ELSE IF ~StartsReply(t, e) THEN c' = on_event(t, e, d) /\ UNCHANGED job
        ELSE IF u.busy THEN c' = u /\ UNCHANGED job
        ELSE FreeJobs # {} /\ c' = Takes(u, NewJob) /\ Fetch(NewJob, FALSE, FALSE, u.url)
     /\ UNCHANGED <<queue, player>>

(* Home Assistant ends a run it is told to abort, and one that a newer one *)
(* replaces: what arrives of it then was on its way                        *)
Late == ha.run < c.run \/ c.told

(* The next event of the run Home Assistant is at                          *)
Reports ==
  /\ c.link = "running" /\ c.run <= MaxRun[c.local]
  /\ \E e \in DOMAIN Order :
       /\ Order[e] > ha.stage /\ ha.stage >= Needs[e] /\ ha.stage > 0
       /\ e = "WAKE_END" => ~c.local
       /\ e = "STT_START" => c.local \/ ha.stage = 2
       /\ e = "INTENT_PROGRESS" => ha.streams
       /\ Late => ha.late < InFlight
       /\ ha' = [ha EXCEPT !.stage = Order[e], !.late = IF Late THEN @ + 1 ELSE 0]
       /\ \E d \in Says(e) : Arrives(ha.run, e, d)

(* A newer run starts, or fails before it does                             *)
Begins ==
  /\ c.link = "running" /\ c.run <= MaxRun[c.local]
  /\ \E r \in ha.run + 1 .. c.run, e \in {"RUN_START", "ERROR"} :
       /\ \E d \in Says(e) :
            /\ ha' = [run |-> r, stage |-> Order[e], streams |-> d = "url", late |-> 0]
            /\ Arrives(r, e, d)

(* VA_RESPONSE: the run is refused                                         *)
Refused ==
  /\ c.link = "running" /\ c.run <= MaxRun[c.local] /\ ha.run < c.run
  /\ ha' = [run |-> c.run, stage |-> 10, streams |-> FALSE, late |-> 0]
  /\ c' = core_error(c)
  /\ UNCHANGED <<job, queue, player>>

-----------------------------------------------------------------------------
Init ==
  /\ c \in {[local |-> l, link |-> "none", muted |-> FALSE, state |-> "IDLE", streaming |-> FALSE,
             flush |-> FALSE, barge |-> FALSE, runOver |-> FALSE, wakeWait |-> FALSE,
             wakeCut |-> FALSE, fails |-> 0, quiet |-> FALSE, cancelled |-> 0, expected |-> FALSE,
             url |-> 0, busy |-> FALSE, playing |-> FALSE, cur |-> NoJob, aborted |-> {},
             run |-> 0, told |-> FALSE, dead |-> {}, letGo |-> FALSE] : l \in BOOLEAN}
  /\ job = [j \in Job |-> Idle]
  /\ queue = 0 /\ player = "pop"
  /\ ha = [run |-> 0, stage |-> 10, streams |-> FALSE, late |-> 0]

Playback == PopStop \/ Stopped

Environment ==
  \/ trigger \/ stop_word \/ mute_update
  \/ LinkChanges \/ Announce \/ MediaStop \/ Reports \/ Begins \/ Refused

Daemon == PipelineTimeout \/ Playback \/ \E j \in Job : MediaThread(j)

Next == Environment \/ heard_end \/ Daemon

(* The daemon's threads do not all stop: a fetch ends (its reads time out), *)
(* the queue is emptied, time passes.                                       *)
Fairness == WF_vars(Daemon)

Spec == Init /\ [][Next]_vars /\ Fairness

-----------------------------------------------------------------------------
(* Properties *)

Fetching == \E j \in Job \ c.aborted : job[j].pc # "free"

(* SPEAKING has no timeout: only a Q_STOP, a cancel or the link's end      *)
(* leaves it.  While the Echo speaks, a Q_STOP is on its way.              *)
SpeakingEnds == c.state = "SPEAKING" => StopComing

(* The cut of a reply (flush_playback) skips every later fetch until a     *)
(* Q_STOP ends it: that Q_STOP is on its way, or a fetch that may still    *)
(* send one runs.  Not after a fetch let go of while it was being cut.     *)
FlushEnds == c.flush => StopComing \/ Fetching \/ c.letGo

(* A reply cut for Home Assistant's wake word: its run listens from then   *)
(* on, and nothing of that reply is spoken any more.                       *)
CutListens == c.wakeCut => c.state # "SPEAKING"

(* The mark of a reply cut for Home Assistant's wake word swallows one     *)
(* Q_STOP: it stays only while that reply's is still to come, or its       *)
(* abandoned fetch, which takes the mark away, still runs.                 *)
WakeCutEnds == c.wakeCut => StopComing \/ \E j \in c.aborted : job[j].began

(* The one fetch slot is held only while a fetch that still counts runs or *)
(* its audio is on its way out; else no reply could ever be spoken again.  *)
SlotFreed == c.busy => StopComing \/ Fetching

(* The microphone goes out only while the ring says so: with a wake word   *)
(* of its own only when LISTENING, beside a reply only to a run that waits *)
(* for the wake word, and no more once WAKE_FAILS_MAX such runs failed.    *)
MicOnlyWhenListening ==
  /\ c.local /\ c.streaming => c.state = "LISTENING"
  /\ c.streaming /\ c.state = "SPEAKING" => c.wakeWait /\ c.fails < WAKE_FAILS_MAX

(* The reply of a cancelled run never starts to play, wherever its fetch   *)
(* was when the user cancelled.                                            *)
NoCancelledReply ==
  [][\A j \in Job : ~job[j].began /\ job'[j].began => job[j].run \notin c.dead]_vars

(* With a wake word of its own the Echo comes back to rest: a run that     *)
(* Home Assistant forgets times out, a reply ends.                         *)
ReturnsToIdle == c.local /\ c.state # "IDLE" ~> c.state = "IDLE"

(***************************************************************************)
(* Values the configurations give the constants: announcements plain or    *)
(* with all they can have, and a chime only where the wake word is heard   *)
(* here (MCAnnouncement) or only where it is not (MCChimes).               *)
(***************************************************************************)
MCAnnouncement == [local \in BOOLEAN |-> {[chime |-> local, conv |-> TRUE]}]
MCMaxRun == [local \in BOOLEAN |-> IF local THEN 2 ELSE 3]
MCChimes == [local \in BOOLEAN |-> IF local THEN {} ELSE {[chime |-> b, conv |-> b] : b \in BOOLEAN}]
=============================================================================
