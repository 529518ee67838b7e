------------------------------ MODULE Capture ------------------------------
(***************************************************************************)
(* The capture thread (main.c, capture_thread): each block of the          *)
(* microphone goes into the ring and to the wake word engine, and, while   *)
(* a request streams, to Home Assistant.  A request a wake word started    *)
(* first waits for the word's end, found by the aligner's own thread or by *)
(* the level, and then catches up from the ring.  Beside it run the front  *)
(* end's reading of a wake word (afe_thread), the aligner (align_thread),  *)
(* the wake word engine's thread, and the threads that start and stop      *)
(* requests under core_lock.  Time is counted in blocks; what the audio    *)
(* holds is left out, only which samples go where is kept.                 *)
(***************************************************************************)
EXTENDS Naturals, FiniteSets

CONSTANTS
    Ring,        \* RING_SAMPLES
    After,       \* WAKEALIGN_AFTER and WORDTAIL_FRAMES: what is looked at after the word's end
    Late,        \* ALIGN_LATE: how long past that the aligner is waited for
    AfeWait,     \* AFE_WAIT_MS
    Window,      \* how long an arbitration round takes at most
    MaxPos,      \* bound: blocks captured
    MaxWakes,    \* bound: wake words heard
    MaxRuns,     \* bound: requests
    MaxSwitches  \* bound: wake words picked

VARIABLES
    pos,       \* ring_n and cap_clock(): blocks captured
    pc,        \* where in its loop the capture thread is
    stream,    \* streaming: the request whose audio goes out, 0 none
    replay,    \* replay_from: the end of the wake word it started from, 0 none
    whole,     \* replay_whole
    barge,     \* barge_in: the wake word that cut a reply; its request follows
    kwEnd,     \* kw_end
    det,       \* det_pending: where the wake word ended
    score,     \* score_due and pend: the wake word waiting for its score, and until when
    round,     \* arb_due and arb_from
    afe,       \* the front end's reading: running, left behind, its utterance state on
    aligner,   \* wake_align[slot]: the aligner loaded, 0 none, and align_stale
    job,       \* align_busy and the run: [busy, wa, end]
    answers,   \* align_key, align_skipped, align_done, align_at
    freed,     \* ghost: aligners freed
    switch,    \* wake_switch
    side,      \* sound detection wanted and running; a whisper detector open
    sent,      \* ghost: the request whose audio went out last, up to where, and the one a cut reply held up
    broken,    \* ghost: audio of a request was skipped or repeated
    wakes, runs, switches

afevars == <<det, score, round, afe>>
alignvars == <<aligner, job, answers, freed>>
sendvars == <<sent, broken>>
runvars == <<stream, replay, whole, barge, runs>>
bounds == <<wakes, switches>>
capvars == <<pos, pc, runvars, kwEnd, afevars, alignvars, switch, side, sendvars, bounds>>

None == [end |-> 0, due |-> 0]

CapInit ==
    /\ pos = 0 /\ pc = "read"
    /\ stream = 0 /\ replay = 0 /\ whole = FALSE /\ barge = 0 /\ runs = 0
    /\ kwEnd = 0 /\ det = 0 /\ score = None /\ round = None
    /\ afe = [busy |-> FALSE, late |-> FALSE, asked |-> FALSE]
    /\ aligner = [wa |-> 0, stale |-> FALSE, loads |-> 0]
    /\ job = [busy |-> FALSE, wa |-> 0, end |-> 0]
    /\ answers = [key |-> 0, skipped |-> 0, done |-> 0, at |-> 0] /\ freed = {}
    /\ switch = FALSE /\ side = [want |-> FALSE, sound |-> FALSE, whisper |-> FALSE]
    /\ sent = [run |-> 0, to |-> 0, after |-> 0] /\ broken = FALSE /\ wakes = 0 /\ switches = 0

(* pipeline_start, from a wake word that ended at from (0: the button, or  *)
(* the conversation going on).                                             *)
pipeline_start(from) ==
    /\ runs < MaxRuns /\ runs' = runs + 1
    /\ stream' = runs + 1 /\ replay' = from
    /\ \E w \in BOOLEAN : whole' = (w /\ from # 0 /\ from = kwEnd)

afe_done(a) == [a EXCEPT !.asked = FALSE]

-----------------------------------------------------------------------------
(* The capture thread.                                                     *)

(* A block is read; however long a reply takes to be cut.                  *)
cap_read ==
    /\ pc = "read" /\ pos < MaxPos
    /\ pos' = pos + 1 /\ pc' = "load"
    /\ UNCHANGED <<runvars, kwEnd, afevars, alignvars, switch, side, sendvars, bounds>>

(* The aligner of a word the slot no longer holds goes, unless a run may   *)
(* use it.                                                                 *)
wake_align_load ==
    IF job.busy THEN aligner' = [aligner EXCEPT !.stale = TRUE] /\ UNCHANGED freed
    ELSE aligner' = [aligner EXCEPT !.wa = 0, !.stale = FALSE] /\ freed' = freed \cup {aligner.wa}

(* Another wake word, sound detection switched (a model that does not load *)
(* switches it off), the whisper detector around a request.                *)
feed ==
    /\ pc = "load" /\ pc' = "ahead"
    /\ switch' = FALSE
    /\ IF switch THEN wake_align_load ELSE UNCHANGED <<aligner, freed>>
    /\ \E opens \in BOOLEAN :
        side' = [want |-> side.want /\ (side.sound \/ opens), sound |-> side.want /\ (side.sound \/ opens),
                 whisper |-> stream # 0]
    /\ UNCHANGED <<pos, runvars, kwEnd, afevars, job, answers, sendvars, bounds>>

(* align_resolve: the aligner for the word, if there is a file for it.     *)
Resolved(loads) ==
    {[wa |-> 0, stale |-> FALSE, loads |-> loads], [wa |-> loads + 1, stale |-> FALSE, loads |-> loads + 1]}
align_resolve ==
    IF ~aligner.stale /\ aligner.wa # 0 THEN UNCHANGED <<aligner, freed>>
    ELSE aligner' \in Resolved(aligner.loads) /\ freed' = freed \cup {aligner.wa}

(* align_ahead: once the word's window is in the ring, a run of the        *)
(* aligner, one at a time.  Whether one runs is looked at twice: a run that *)
(* ends in between has left the word's aligner unresolved.                 *)
align_ahead ==
    LET due == stream # 0 /\ replay # 0 /\ replay # answers.key
        full == pos >= replay + After
    IN  /\ pc = "ahead" /\ pc' = IF stream = 0 THEN "heard" ELSE IF due /\ full THEN "run" ELSE "send"
        /\ IF due /\ ~job.busy THEN align_resolve ELSE UNCHANGED <<aligner, freed>>
        /\ answers' = [answers EXCEPT !.key = IF due /\ full THEN replay ELSE @]
        /\ UNCHANGED <<pos, runvars, kwEnd, afevars, job, switch, side, sendvars, bounds>>
align_run ==
    /\ pc = "run" /\ pc' = "send"
    /\ \/ aligner.wa = 0 /\ UNCHANGED <<answers, job>>
       \/ /\ aligner.wa # 0                                 \* one runs, or no thread
          /\ answers' = [answers EXCEPT !.skipped = answers.key] /\ UNCHANGED job
       \/ /\ aligner.wa # 0 /\ ~job.busy
          /\ job' = [busy |-> TRUE, wa |-> aligner.wa, end |-> answers.key] /\ UNCHANGED answers
    /\ UNCHANGED <<pos, runvars, kwEnd, afevars, aligner, freed, switch, side, sendvars, bounds>>

(* word_tail_end: where the replay starts (waiting: the empty set), and    *)
(* what it remembers of an aligner it no longer waits for.                 *)
AlignerWaits == aligner.wa # 0 /\ answers.skipped # replay
                /\ answers.done # replay /\ pos < replay + After + Late
AlignerSays == aligner.wa # 0 /\ answers.skipped # replay /\ answers.done = replay /\ answers.at # 0
LevelCuts ==
    IF pos >= replay + After THEN replay..(replay + After)
    ELSE IF aligner.wa = 0 THEN replay..pos ELSE {}
word_tail_end == IF AlignerWaits THEN {} ELSE IF AlignerSays THEN {answers.at} ELSE LevelCuts
GivesUpAligner == aligner.wa # 0 /\ ~AlignerWaits /\ ~AlignerSays

(* send_mic and stream_ring: samples [from, pos), as far as the ring has   *)
(* them, follow what went out before.                                      *)
stream_ring(from) ==
    LET had == IF pos > Ring /\ from < pos - Ring THEN pos - Ring ELSE from
    IN  /\ sent' = [sent EXCEPT !.run = stream, !.to = pos]
        /\ broken' = (broken \/ (had # from /\ sent.after # stream) \/ (sent.run = stream /\ had # sent.to))

(* heard_end and core_mic_off, when the end of the request is heard here.  *)
heard_end ==
    \/ UNCHANGED <<stream, afe>>
    \/ stream' = 0 /\ afe' = afe_done(afe)

send_block ==
    /\ pc = "send" /\ pc' = "heard"
    /\ \/ /\ stream = 0 /\ replay' = 0 /\ UNCHANGED <<stream, afe, answers>> /\ UNCHANGED sendvars
       \/ /\ stream # 0 /\ replay = 0
          /\ stream_ring(pos - 1) /\ heard_end /\ UNCHANGED <<replay, answers>>
       \/ /\ stream # 0 /\ replay # 0 /\ word_tail_end # {}
          /\ \E from \in word_tail_end : stream_ring(IF whole THEN replay - 1 ELSE from)
          /\ answers' = [answers EXCEPT !.skipped = IF GivesUpAligner THEN replay ELSE @]
          /\ replay' = 0 /\ heard_end
       \/ /\ stream # 0 /\ replay # 0
          /\ word_tail_end = {} \/ (pos < replay + After /\ ~AlignerWaits /\ ~AlignerSays)
          /\ answers' = [answers EXCEPT !.skipped = IF GivesUpAligner THEN replay ELSE @]
          /\ UNCHANGED <<stream, replay, afe>> /\ UNCHANGED sendvars
    /\ UNCHANGED <<pos, whole, barge, runs, kwEnd, det, score, round, aligner, job, freed, switch, side, bounds>>

(* claim: a round to wait for, or the answer at once.  answer: the trigger *)
(* starts a request, cuts a reply for one, or starts nothing.              *)
answer(from, a) ==
    \/ /\ stream = 0 /\ barge = 0 /\ pipeline_start(from) /\ afe' = a /\ UNCHANGED barge
    \/ /\ stream = 0 /\ barge = 0 /\ runs < MaxRuns /\ barge' = from /\ afe' = afe_done(a)
       /\ UNCHANGED <<stream, replay, whole, runs>>
    \/ /\ afe' = IF stream = 0 THEN afe_done(a) ELSE a
       /\ UNCHANGED runvars
claim(from, a) ==
    \/ answer(from, a) /\ UNCHANGED round
    \/ round' = [end |-> from, due |-> pos + Window] /\ afe' = a /\ UNCHANGED runvars

(* wake_heard, of the wake word the engine's thread left: with a round or  *)
(* a score still open nothing, alone the claim, or first the front end's   *)
(* reading.                                                                *)
wake_heard ==
    /\ pc = "heard" /\ pc' = "score" /\ det' = 0
    /\ \/ /\ det = 0 \/ round # None \/ score # None
          /\ UNCHANGED <<score, round, runvars, afe>>
       \/ /\ det # 0 /\ round = None /\ score = None
          /\ claim(det, afe) /\ UNCHANGED score
       \/ /\ det # 0 /\ round = None /\ score = None /\ ~afe.busy
          /\ afe' = [afe EXCEPT !.busy = TRUE]
          /\ score' = [end |-> det, due |-> pos + AfeWait] /\ UNCHANGED <<round, runvars>>
    /\ UNCHANGED <<pos, kwEnd, alignvars, switch, side, sendvars, bounds>>

(* score_wait: the claim once the reading is in, or without it.            *)
score_wait ==
    /\ pc = "score" /\ pc' = "late"
    /\ IF score = None \/ (afe.busy /\ pos < score.due) THEN UNCHANGED <<score, round, runvars, afe>>
       ELSE /\ score' = None
            /\ claim(score.end, [afe EXCEPT !.late = @ \/ afe.busy])
    /\ UNCHANGED <<pos, kwEnd, det, alignvars, switch, side, sendvars, bounds>>

(* afe_late_check: a reading left behind is over, and nothing to come will *)
(* end the utterance state it put the front end in.                        *)
afe_late_check ==
    /\ pc = "late" /\ pc' = "arb"
    /\ afe' = IF ~afe.late \/ afe.busy THEN afe
              ELSE [afe EXCEPT !.late = FALSE, !.asked = @ /\ (round # None \/ stream # 0)]
    /\ UNCHANGED <<pos, runvars, kwEnd, det, score, round, alignvars, switch, side, sendvars, bounds>>

(* The round is over: answered here or elsewhere.                          *)
arb_over ==
    /\ pc = "arb" /\ pc' = "read"
    /\ \/ /\ round = None \/ pos < round.due
          /\ UNCHANGED <<round, runvars, afe>>
       \/ /\ round # None /\ round' = None
          /\ \/ answer(round.end, afe)
             \/ afe' = afe_done(afe) /\ UNCHANGED runvars
    /\ UNCHANGED <<pos, kwEnd, det, score, alignvars, switch, side, sendvars, bounds>>

-----------------------------------------------------------------------------
(* The other threads.                                                      *)

(* The wake word engine heard the word that just ended.                    *)
on_wake ==
    /\ wakes < MaxWakes /\ pos > 1 /\ pc \in {"ahead", "heard"}
    /\ kwEnd # pos
    /\ wakes' = wakes + 1 /\ kwEnd' = pos /\ det' = pos
    /\ UNCHANGED <<pos, pc, runvars, score, round, afe, alignvars, switch, side, sendvars, switches>>

(* afe_thread: the reading is in, or none came.                            *)
afe_thread ==
    /\ afe.busy
    /\ \E got \in BOOLEAN : afe' = [afe EXCEPT !.busy = FALSE, !.asked = @ \/ got]
    /\ UNCHANGED <<pos, pc, runvars, kwEnd, det, score, round, alignvars, switch, side, sendvars, bounds>>

(* align_thread: the answer (an end near the engine's, or none), then the  *)
(* speaker adaptation, still with the aligner.                             *)
align_answers ==
    /\ job.busy /\ answers.done # job.end
    /\ \E at \in (job.end - 1)..(job.end + After) \cup {0} :
        answers' = [answers EXCEPT !.done = job.end, !.at = at]
    /\ UNCHANGED <<pos, pc, runvars, kwEnd, afevars, aligner, job, freed, switch, side, sendvars, bounds>>
align_ends ==
    /\ job.busy /\ answers.done = job.end
    /\ job' = [job EXCEPT !.busy = FALSE]
    /\ UNCHANGED <<pos, pc, runvars, kwEnd, afevars, aligner, answers, freed, switch, side, sendvars, bounds>>

(* Home Assistant's thread and the playback thread: the request's audio    *)
(* ends (core_mic_off, core_pipeline_finish); the request of a reply cut   *)
(* for a wake word, of the button or of a conversation going on begins.    *)
core_mic_off ==
    /\ stream # 0 /\ stream' = 0 /\ afe' = afe_done(afe)
    /\ UNCHANGED <<pos, pc, replay, whole, barge, runs, kwEnd, det, score, round, alignvars, switch, side, sendvars, bounds>>
core_pipeline_finish ==
    /\ stream = 0
    /\ pipeline_start(barge) /\ barge' = 0
    /\ sent' = [sent EXCEPT !.after = IF barge # 0 THEN stream' ELSE @]
    /\ UNCHANGED <<pos, pc, kwEnd, afevars, alignvars, switch, side, broken, bounds>>

(* The settings page picks another wake word, or switches sound detection. *)
core_wake_set ==
    /\ switches < MaxSwitches /\ switches' = switches + 1
    /\ \/ switch' = TRUE /\ UNCHANGED side
       \/ side' = [side EXCEPT !.want = ~@] /\ UNCHANGED switch
    /\ UNCHANGED <<pos, pc, runvars, kwEnd, afevars, alignvars, sendvars, wakes>>

CapNext ==
    \/ cap_read \/ feed \/ align_ahead \/ align_run \/ send_block \/ wake_heard \/ score_wait \/ afe_late_check \/ arb_over
    \/ on_wake \/ afe_thread \/ align_answers \/ align_ends \/ core_mic_off \/ core_pipeline_finish \/ core_wake_set

CapSpec == CapInit /\ [][CapNext]_capvars

-----------------------------------------------------------------------------
(* What goes out of a request is one unbroken stretch of what was said,    *)
(* however late the aligner, the round or the cut of a reply: nothing is   *)
(* skipped or sent twice, and where it starts is not overwritten in the    *)
(* ring by then (word_tail_end, stream_ring).  Only a request that a reply *)
(* cut for it held up (core_pipeline_finish) starts with what the ring has *)
(* left, since nothing bounds the cut.                                     *)
RequestWhole == ~broken

(* The aligner a run works with is not freed under it by another wake word *)
(* being loaded (wake_align_load, align_resolve).                          *)
AlignerLives == job.busy => job.wa \notin freed

(* With no reading running or left behind, no wake word waiting and no     *)
(* request streaming, the front end is not left in the utterance state a   *)
(* reading put it in (afe_done, afe_late_check).                           *)
FrontEndLetGo ==
    (~afe.busy /\ ~afe.late /\ score = None /\ round = None /\ stream = 0 /\ barge = 0 /\ pc = "read") => ~afe.asked
=============================================================================
