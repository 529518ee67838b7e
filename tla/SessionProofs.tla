--------------------------- MODULE SessionProofs ---------------------------
(***************************************************************************)
(* Proofs about Session for any number of fetch threads, runs, failed runs *)
(* and events in flight.                                                   *)
(***************************************************************************)
EXTENDS Session, TLAPS

(***************************************************************************)
(* The inductive invariant.  Its parts are about a session s: a handler    *)
(* turns one into another while the threads stand still.                   *)
(***************************************************************************)

\* The microphone, and the run beside a reply: Home Assistant's wake word only,
\* and while there is a failure left.
Mic(s) ==
  /\ s.local /\ s.streaming => s.state = "LISTENING"
  /\ s.streaming /\ s.state = "SPEAKING" => s.wakeWait
  /\ s.wakeWait => ~s.local /\ s.fails < WAKE_FAILS_MAX

\* A fetch up to its last locked part; one past it that owes its Q_STOP.
Active(j) == job[j].pc \in {"look", "get", "feed", "end"}
Sending == {j \in Job : job[j].pc = "push"}

\* A Q_STOP is owed, queued or in hand; never more than one.
Pending == Sending # {} \/ queue > 0 \/ player = "stop"

OnePending ==
  /\ \A j, k \in Sending : j = k
  /\ queue > 0 => queue = 1 /\ Sending = {}
  /\ player = "stop" => queue = 0 /\ Sending = {}

\* The fetch slot is taken exactly as long as a fetch runs that nobody let go
\* of, or its Q_STOP is on its way.
Slot(s) ==
  /\ \A j \in s.aborted : Active(j)
  /\ \A j \in Job \ s.aborted : Active(j) => j = s.cur
  /\ s.cur # NoJob => s.cur \notin s.aborted /\ Active(s.cur) /\ s.busy /\ ~Pending
  /\ Pending => s.busy
  /\ s.busy => s.cur # NoJob \/ Pending

Jobs ==
  \A j \in Job : /\ job[j].pc = "free" => ~job[j].began
                 /\ job[j].pc \in {"feed", "push"} => job[j].began

\* A Q_STOP will come of what plays.
Coming(s) == (\E j \in Job \ s.aborted : job[j].began) \/ queue > 0 \/ player = "stop"

Speaks(s) == s.state = "SPEAKING" => Coming(s)

\* A reply cut for Home Assistant's wake word is over: no fetch that counts can
\* begin to speak before a Q_STOP or the reply's abandoned fetch takes the mark.
Cut(s) ==
  s.wakeCut => /\ ~s.local /\ s.flush /\ s.state # "SPEAKING"
               /\ \A j \in Job \ s.aborted : job[j].pc # "get"
               /\ Coming(s) \/ \E j \in s.aborted : job[j].began

\* Without a wake word of its own every fetch here has one URL.
Plain(s) ==
  ~s.local => \A j \in Job : job[j].i = 2 /\ (job[j].began => job[j].pc \in {"feed", "end", "push"})

Flushes(s) == s.flush => Coming(s) \/ s.letGo

\* No chime before an announcement where Home Assistant hears the wake word.
NoChimes == \A a \in Announcement[FALSE] : ~a.chime

SlotInv == TypeOK /\ Mic(c) /\ Jobs /\ OnePending /\ Slot(c)
SpeakInv == Speaks(c) /\ Cut(c) /\ Plain(c)

(***************************************************************************)
(* What the handlers' parts do to a session                                *)
(***************************************************************************)

\* A session, field by field.
Fields(s) ==
  [local |-> s.local, link |-> s.link, muted |-> s.muted, state |-> s.state, streaming |-> s.streaming,
   flush |-> s.flush, barge |-> s.barge, runOver |-> s.runOver, wakeWait |-> s.wakeWait,
   wakeCut |-> s.wakeCut, fails |-> s.fails, quiet |-> s.quiet, cancelled |-> s.cancelled,
   expected |-> s.expected, url |-> s.url, busy |-> s.busy, playing |-> s.playing, cur |-> s.cur,
   aborted |-> s.aborted, run |-> s.run, told |-> s.told, dead |-> s.dead, letGo |-> s.letGo]

\* t is s with the fetch and its cut as they were.
SameFetch(s, t) ==
  t.cur = s.cur /\ t.aborted = s.aborted /\ t.busy = s.busy /\ t.letGo = s.letGo

\* t is s after its fetch was let go of.
LetsGo(s, t) ==
  /\ s.cur # NoJob /\ t.cur = NoJob /\ t.aborted = s.aborted \cup {s.cur} /\ ~t.busy
  /\ t.letGo = (s.letGo \/ (s.flush /\ job[s.cur].began))

Follows(s, t) ==
  /\ t \in Core /\ t.local = s.local /\ t.flush = s.flush /\ t.wakeCut = s.wakeCut /\ s.run <= t.run
  /\ SameFetch(s, t) \/ LetsGo(s, t)

\* ... and does not begin to speak, nor lose its fetch while it speaks.
Calm(s, t) ==
  /\ Follows(s, t) /\ Mic(t)
  /\ t.state = "SPEAKING" => s.state = "SPEAKING" /\ t.aborted = s.aborted

\* t is s as far as the microphone is concerned.
SameMic(s, t) ==
  t.state = s.state /\ t.streaming = s.streaming /\ t.wakeWait = s.wakeWait /\ t.fails = s.fails

LEMMA FollowsTwice ==
  ASSUME NEW s \in Core, NEW t, NEW u, Follows(s, t), Follows(t, u) PROVE Follows(s, u)
<1>1. s.run <= t.run /\ t.run <= u.run /\ s.run \in Nat /\ t.run \in Nat /\ u.run \in Nat
  BY DEF Follows, Core
<1>2. s.run <= u.run
  BY <1>1
<1> QED
  BY <1>2 DEF Follows, SameFetch, LetsGo

LEMMA CalmTwice ==
  ASSUME NEW s \in Core, NEW t, NEW u, Calm(s, t), Calm(t, u) PROVE Calm(s, u)
BY FollowsTwice DEF Calm

LEMMA start_Effect ==
  ASSUME NEW s \in Core
  PROVE  /\ start(s) \in Core /\ Follows(s, start(s)) /\ SameFetch(s, start(s)) /\ SameMic(s, start(s))
         /\ start(s).link = s.link
<1>1. PICK t : t = start(s)
  OBVIOUS
<1>2. t = Fields(t)
  BY <1>1 DEF start, Core, Fields
<1>3. Fields(t) \in Core
  BY <1>1 DEF start, Core, Fields
<1>4. t \in Core
  BY <1>2, <1>3
<1>5. /\ t.local = s.local /\ t.flush = s.flush /\ t.wakeCut = s.wakeCut /\ s.run <= t.run /\ t.link = s.link
      /\ SameFetch(s, t) /\ SameMic(s, t)
  BY <1>1 DEF start, Core, SameFetch, SameMic
<1> QED
  BY <1>1, <1>4, <1>5 DEF Follows

LEMMA pipeline_start_Effect ==
  ASSUME NEW s \in Core, NEW u, u = pipeline_start(s)
  PROVE  /\ Follows(s, u) /\ SameFetch(s, u)
         /\ u.state = (IF s.local THEN "LISTENING" ELSE s.state) /\ u.streaming /\ ~u.wakeWait /\ u.fails = s.fails
<1>1. PICK t : t = start(s)
  OBVIOUS
<1>2. t \in Core /\ Follows(s, t) /\ SameFetch(s, t) /\ SameMic(s, t)
  BY <1>1, start_Effect
<1>3. u = Fields(u)
  BY <1>1, <1>2 DEF pipeline_start, Core, Fields
<1>4. Fields(u) \in Core
  BY <1>1, <1>2 DEF pipeline_start, Core, Fields
<1>5. u \in Core
  BY <1>3, <1>4
<1>6. /\ u.local = t.local /\ u.flush = t.flush /\ u.wakeCut = t.wakeCut /\ t.run <= u.run /\ SameFetch(t, u)
      /\ u.state = (IF s.local THEN "LISTENING" ELSE t.state) /\ u.streaming /\ ~u.wakeWait /\ u.fails = t.fails
  BY <1>1, <1>2 DEF pipeline_start, Core, SameFetch
<1>7. Follows(t, u)
  BY <1>5, <1>6 DEF Follows
<1> QED
  BY <1>2, <1>6, <1>7, FollowsTwice DEF SameMic, SameFetch

LEMMA cancel_Effect ==
  ASSUME NEW s \in Core, NEW u, u = cancel(s)
  PROVE  Follows(s, u) /\ SameMic(s, u) /\ u.barge = s.barge /\ u.link = s.link
<1>1. PICK t : t = [s EXCEPT !.cancelled = 1, !.told = TRUE, !.dead = @ \cup Unfailed(s)]
  OBVIOUS
<1>2. s.run \in Nat /\ Unfailed(s) \subseteq Nat
  BY DEF Core, Unfailed
<1>3. t = Fields(t)
  BY <1>1 DEF Core, Fields
<1>4. Fields(t) \in Core
  BY <1>1, <1>2 DEF Core, Fields
<1>5. t \in Core
  BY <1>3, <1>4
<1>6. /\ t.local = s.local /\ t.flush = s.flush /\ t.wakeCut = s.wakeCut /\ s.run <= t.run /\ SameFetch(s, t)
      /\ SameMic(s, t) /\ t.barge = s.barge /\ t.link = s.link
  BY <1>1 DEF Core, SameFetch, SameMic
<1>7. CASE ~(s.expected /\ s.cur # NoJob)
  <2>1. u = t
    BY <1>1, <1>7 DEF cancel
  <2> QED
    BY <1>5, <1>6, <2>1 DEF Follows
<1>8. CASE s.expected /\ s.cur # NoJob
  <2>1. u = AbortReply(t)
    BY <1>1, <1>8 DEF cancel
  <2>2. u = Fields(u)
    BY <1>5, <2>1 DEF AbortReply, Core, Fields
  <2>3. s.cur \in Job /\ t.cur = s.cur
    BY <1>6, <1>8 DEF Core, SameFetch
  <2>4. Fields(u) \in Core
    BY <1>5, <2>1, <2>3 DEF AbortReply, Core, Fields
  <2>5. /\ u.local = t.local /\ u.flush = t.flush /\ u.wakeCut = t.wakeCut /\ u.run = t.run
        /\ SameMic(t, u) /\ u.barge = t.barge /\ u.link = t.link
        /\ u.cur = NoJob /\ u.aborted = t.aborted \cup {t.cur} /\ ~u.busy
        /\ u.letGo = (t.letGo \/ (t.flush /\ job[t.cur].began))
    BY <1>5, <2>1 DEF AbortReply, Core, SameMic
  <2>6. LetsGo(s, u)
    BY <1>6, <1>8, <2>5 DEF LetsGo, SameFetch
  <2> QED
    BY <1>6, <2>2, <2>4, <2>5, <2>6 DEF Follows, SameMic
<1> QED
  BY <1>7, <1>8

LEMMA core_pipeline_finish_Effect ==
  ASSUME NEW s \in Core, Mic(s), NEW u, u = core_pipeline_finish(s)
  PROVE  Calm(s, u) /\ u.state # "SPEAKING"
<1> DEFINE mic == s.streaming /\ connected(s)
<1>1. PICK off : off = [s EXCEPT !.fails = 0, !.streaming = FALSE, !.told = @ \/ mic]
  OBVIOUS
<1>2. off \in Core /\ Follows(s, off) /\ ~off.streaming /\ off.fails = 0 /\ off.wakeWait = s.wakeWait
  <2>1. off = Fields(off)
    BY <1>1 DEF Core, Fields
  <2>2. Fields(off) \in Core
    BY <1>1, SessionAssumption DEF Core, Fields
  <2>3. /\ off.local = s.local /\ off.flush = s.flush /\ off.wakeCut = s.wakeCut /\ s.run <= off.run
        /\ SameFetch(s, off) /\ ~off.streaming /\ off.fails = 0 /\ off.wakeWait = s.wakeWait
    BY <1>1 DEF Core, SameFetch
  <2> QED
    BY <2>1, <2>2, <2>3 DEF Follows
<1>3. PICK m : m = IF mic /\ s.wakeWait THEN cancel(off) ELSE off
  OBVIOUS
<1>4. m \in Core /\ Follows(s, m) /\ ~m.streaming /\ m.fails = 0 /\ m.wakeWait = s.wakeWait
  <2>1. CASE m = off
    BY <1>2, <2>1
  <2>2. CASE m = cancel(off)
    <3>1. Follows(off, m) /\ SameMic(off, m)
      BY <1>2, <2>2, cancel_Effect
    <3> QED
      BY <1>2, <3>1, FollowsTwice DEF SameMic, Follows
  <2> QED
    BY <1>3, <2>1, <2>2
<1>5. PICK over : over = [m EXCEPT !.state = "IDLE", !.barge = @ /\ connected(s)]
  OBVIOUS
<1>6. over \in Core /\ Follows(s, over) /\ ~over.streaming /\ over.fails = 0 /\ over.wakeWait = s.wakeWait
      /\ over.state = "IDLE"
  <2>1. over = Fields(over)
    BY <1>4, <1>5 DEF Core, Fields
  <2>2. Fields(over) \in Core
    BY <1>4, <1>5 DEF Core, Fields
  <2>3. /\ over.local = m.local /\ over.flush = m.flush /\ over.wakeCut = m.wakeCut /\ m.run <= over.run
        /\ SameFetch(m, over) /\ ~over.streaming /\ over.fails = 0 /\ over.wakeWait = s.wakeWait
        /\ over.state = "IDLE"
    BY <1>4, <1>5 DEF Core, SameFetch
  <2>4. Follows(m, over)
    BY <2>1, <2>2, <2>3 DEF Follows
  <2> QED
    BY <1>4, <2>1, <2>2, <2>3, <2>4, FollowsTwice
<1>7. CASE u = over
  <2>1. Mic(over)
    BY <1>6, SessionAssumption DEF Mic, Follows
  <2> QED
    BY <1>6, <1>7, <2>1 DEF Calm
<1>8. CASE u = pipeline_start([over EXCEPT !.barge = FALSE])
  <2>1. PICK o : o = [over EXCEPT !.barge = FALSE]
    OBVIOUS
  <2>2. o \in Core
    <3>1. o = Fields(o)
      BY <1>6, <2>1 DEF Core, Fields
    <3>2. Fields(o) \in Core
      BY <1>6, <2>1 DEF Core, Fields
    <3> QED
      BY <3>1, <3>2
  <2>3. o.local = over.local /\ o.flush = over.flush /\ o.wakeCut = over.wakeCut /\ over.run <= o.run
        /\ SameFetch(over, o) /\ o.state = "IDLE"
    BY <1>6, <2>1 DEF Core, SameFetch
  <2>4. Follows(s, o)
    BY <1>6, <2>2, <2>3, FollowsTwice DEF Follows
  <2>5. /\ Follows(o, u) /\ u.state = (IF o.local THEN "LISTENING" ELSE o.state) /\ ~u.wakeWait
    BY <1>8, <2>1, <2>2, pipeline_start_Effect
  <2>6. Follows(s, u)
    BY <2>4, <2>5, FollowsTwice
  <2>7. u.state # "SPEAKING" /\ Mic(u)
    BY <2>3, <2>5 DEF Mic, Follows
  <2> QED
    BY <2>6, <2>7 DEF Calm
<1> QED
  BY <1>1, <1>3, <1>5, <1>7, <1>8 DEF core_pipeline_finish

\* t is s but for fields that neither the fetch nor the microphone looks at.
Aside(s, t) ==
  /\ t \in Core /\ t.local = s.local /\ t.flush = s.flush /\ t.wakeCut = s.wakeCut /\ t.run = s.run
  /\ SameFetch(s, t) /\ SameMic(s, t)

LEMMA AsideIsCalm == ASSUME NEW s \in Core, Mic(s), NEW t, Aside(s, t) PROVE Calm(s, t)
<1>1. s.run <= t.run
  BY DEF Aside, Core
<1> QED
  BY <1>1 DEF Aside, Calm, Follows, SameFetch, SameMic, Mic

LEMMA Asides ==
  ASSUME NEW s \in Core
  PROVE  /\ Aside(s, s)
         /\ \A b \in BOOLEAN : /\ Aside(s, [s EXCEPT !.quiet = b]) /\ Aside(s, [s EXCEPT !.barge = b])
                               /\ Aside(s, [s EXCEPT !.expected = b]) /\ Aside(s, [s EXCEPT !.runOver = b])
                               /\ Aside(s, [s EXCEPT !.muted = b]) /\ Aside(s, [s EXCEPT !.playing = b])
         /\ \A n \in 0 .. 2 : Aside(s, [s EXCEPT !.cancelled = n])
         /\ \A n \in Nat : Aside(s, [s EXCEPT !.url = n])
<1> USE DEF Aside, SameFetch, SameMic
<1>1. Aside(s, s)
  OBVIOUS
<1>2. ASSUME NEW b \in BOOLEAN PROVE Aside(s, [s EXCEPT !.quiet = b])
  BY DEF Core
<1>3. ASSUME NEW b \in BOOLEAN PROVE Aside(s, [s EXCEPT !.barge = b])
  BY DEF Core
<1>4. ASSUME NEW b \in BOOLEAN PROVE Aside(s, [s EXCEPT !.expected = b])
  BY DEF Core
<1>5. ASSUME NEW b \in BOOLEAN PROVE Aside(s, [s EXCEPT !.runOver = b])
  BY DEF Core
<1>6. ASSUME NEW b \in BOOLEAN PROVE Aside(s, [s EXCEPT !.muted = b])
  BY DEF Core
<1>7. ASSUME NEW b \in BOOLEAN PROVE Aside(s, [s EXCEPT !.playing = b])
  BY DEF Core
<1>8. ASSUME NEW n \in 0 .. 2 PROVE Aside(s, [s EXCEPT !.cancelled = n])
  BY DEF Core
<1>9. ASSUME NEW n \in Nat PROVE Aside(s, [s EXCEPT !.url = n])
  BY DEF Core
<1> HIDE DEF Aside, SameFetch, SameMic
<1> QED
  BY <1>1, <1>2, <1>3, <1>4, <1>5, <1>6, <1>7, <1>8, <1>9

LEMMA wake_listen_Effect ==
  ASSUME NEW s \in Core, Mic(s), NEW u, u = wake_listen(s)
  PROVE  Calm(s, u) /\ u.state = s.state /\ SameFetch(s, u)
<1>1. CASE u = s
  <2>1. Calm(s, s)
    BY Asides, AsideIsCalm
  <2> QED
    BY <1>1, <2>1 DEF SameFetch
<1>2. CASE u # s
  <2>1. PICK p : p = pipeline_start(s)
    OBVIOUS
  <2>2. /\ ~s.local /\ s.state = "SPEAKING" /\ ~(s.fails >= WAKE_FAILS_MAX)
        /\ u = [p EXCEPT !.wakeWait = TRUE]
    BY <1>2, <2>1 DEF wake_listen
  <2>3. /\ Follows(s, p) /\ SameFetch(s, p) /\ p.state = s.state /\ p.fails = s.fails /\ p.local = s.local
        /\ p \in Core
    BY <2>1, <2>2, pipeline_start_Effect DEF Follows
  <2>4. u \in Core
    BY <2>2, <2>3 DEF Core
  <2>5. /\ u.local = p.local /\ u.flush = p.flush /\ u.wakeCut = p.wakeCut /\ p.run <= u.run /\ SameFetch(p, u)
        /\ u.state = s.state /\ u.fails = s.fails
    BY <2>2, <2>3 DEF Core, SameFetch
  <2>6. Follows(s, u)
    BY <2>3, <2>4, <2>5, FollowsTwice DEF Follows
  <2>7. s.fails < WAKE_FAILS_MAX
    BY <2>2, SessionAssumption DEF Core
  <2>8. Mic(u)
    <3>1. u.wakeWait
      BY <2>2, <2>3 DEF Core
    <3> QED
      BY <2>2, <2>3, <2>5, <2>7, <3>1 DEF Mic
  <2> QED
    BY <2>2, <2>3, <2>5, <2>6, <2>8 DEF Calm, SameFetch
<1> QED
  BY <1>1, <1>2

LEMMA core_run_over_Effect ==
  ASSUME NEW s \in Core, Mic(s) PROVE Calm(s, core_run_over(s))
<1>1. PICK t : t = [s EXCEPT !.runOver = TRUE]
  OBVIOUS
<1>2. Calm(s, t)
  BY <1>1, Asides, AsideIsCalm
<1>3. t \in Core /\ Mic(t)
  BY <1>2 DEF Calm, Follows
<1>4. Calm(t, wake_listen(t))
  BY <1>3, wake_listen_Effect
<1> QED
  BY <1>1, <1>2, <1>4, CalmTwice DEF core_run_over

LEMMA core_wake_run_ended_Effect ==
  ASSUME NEW s \in Core, Mic(s), NEW failed \in BOOLEAN PROVE Calm(s, core_wake_run_ended(s, failed))
<1>1. PICK u : u = core_wake_run_ended(s, failed)
  OBVIOUS
<1>2. CASE ~WakeRun(s)
  BY <1>2, Asides, AsideIsCalm DEF core_wake_run_ended
<1>3. CASE WakeRun(s)
  <2>1. u = [s EXCEPT !.streaming = FALSE, !.wakeWait = FALSE, !.fails = IF failed THEN @ + 1 ELSE @]
    BY <1>1, <1>3 DEF core_wake_run_ended
  <2>2. s.fails < WAKE_FAILS_MAX
    BY <1>3 DEF WakeRun, Mic
  <2>3. u = Fields(u)
    BY <2>1 DEF Core, Fields
  <2>4. Fields(u) \in Core
    BY <2>1, <2>2, SessionAssumption DEF Core, Fields
  <2>5. /\ u.local = s.local /\ u.flush = s.flush /\ u.wakeCut = s.wakeCut /\ s.run <= u.run /\ SameFetch(s, u)
        /\ u.state = s.state /\ ~u.streaming /\ ~u.wakeWait
    BY <2>1 DEF Core, SameFetch
  <2> QED
    BY <1>1, <2>3, <2>4, <2>5 DEF Calm, Follows, SameFetch, Mic
<1> QED
  BY <1>2, <1>3

LEMMA Think_Effect == ASSUME NEW s \in Core, Mic(s) PROVE Calm(s, Think(s))
<1>1. PICK t : t = core_mic_off(s)
  OBVIOUS
<1>2. t \in Core
  BY <1>1 DEF core_mic_off, Core
<1>3. /\ t.local = s.local /\ t.flush = s.flush /\ t.wakeCut = s.wakeCut /\ s.run <= t.run /\ SameFetch(s, t)
      /\ t.state = s.state /\ ~t.streaming /\ t.wakeWait = s.wakeWait /\ t.fails = s.fails
  BY <1>1 DEF core_mic_off, Core, SameFetch
<1>4. PICK u : u = [t EXCEPT !.state = IF @ = "LISTENING" THEN "THINKING" ELSE @]
  OBVIOUS
<1>5. u = Think(s)
  BY <1>1, <1>4 DEF Think
<1>6. u = Fields(u)
  BY <1>2, <1>4 DEF Core, Fields
<1>7. Fields(u) \in Core
  BY <1>2, <1>4 DEF Core, Fields
<1>8. /\ u.local = t.local /\ u.flush = t.flush /\ u.wakeCut = t.wakeCut /\ u.run = t.run /\ SameFetch(t, u)
      /\ (u.state = "SPEAKING" => t.state = "SPEAKING") /\ ~u.streaming /\ u.wakeWait = t.wakeWait /\ u.fails = t.fails
  BY <1>2, <1>3, <1>4 DEF Core, SameFetch
<1> QED
  BY <1>3, <1>5, <1>6, <1>7, <1>8 DEF Calm, Follows, SameFetch, Mic

LEMMA core_mic_off_Effect == ASSUME NEW s \in Core, Mic(s) PROVE Calm(s, core_mic_off(s))
<1>1. PICK t : t = core_mic_off(s)
  OBVIOUS
<1>2. t \in Core
  BY <1>1 DEF core_mic_off, Core
<1>3. /\ t.local = s.local /\ t.flush = s.flush /\ t.wakeCut = s.wakeCut /\ s.run <= t.run /\ SameFetch(s, t)
      /\ t.state = s.state /\ ~t.streaming /\ t.wakeWait = s.wakeWait /\ t.fails = s.fails
  BY <1>1 DEF core_mic_off, Core, SameFetch
<1> QED
  BY <1>1, <1>2, <1>3 DEF Calm, Follows, SameFetch, Mic

LEMMA Unheard_Effect ==
  ASSUME NEW s \in Core, Mic(s) PROVE Follows(s, Unheard(s)) /\ Mic(Unheard(s))
<1>1. PICK t : t = [s EXCEPT !.barge = FALSE, !.streaming = FALSE]
  OBVIOUS
<1>2. t \in Core
  <2>1. t = Fields(t)
    BY <1>1 DEF Core, Fields
  <2>2. Fields(t) \in Core
    BY <1>1 DEF Core, Fields
  <2> QED
    BY <2>1, <2>2
<1>3. /\ t.local = s.local /\ t.flush = s.flush /\ t.wakeCut = s.wakeCut /\ s.run <= t.run /\ SameFetch(s, t)
      /\ t.state = s.state /\ ~t.streaming /\ t.wakeWait = s.wakeWait /\ t.fails = s.fails
  BY <1>1 DEF Core, SameFetch
<1>4. PICK u : u = cancel(t)
  OBVIOUS
<1>5. Follows(t, u) /\ SameMic(t, u)
  BY <1>2, <1>4, cancel_Effect
<1>6. Follows(s, t)
  BY <1>2, <1>3 DEF Follows
<1>7. Follows(s, u)
  BY <1>5, <1>6, FollowsTwice
<1>8. Mic(u)
  BY <1>3, <1>5 DEF Mic, SameMic, Follows
<1> QED
  BY <1>1, <1>4, <1>7, <1>8 DEF Unheard

\* Both ways to give a run up leave a session that does not speak.
LEMMA GivingUp ==
  ASSUME NEW s \in Core, Mic(s)
  PROVE  /\ Calm(s, quiet_cancel(s)) /\ quiet_cancel(s).state # "SPEAKING"
         /\ Calm(s, said_stop(s))
<1>1. PICK t : t = Unheard(s)
  OBVIOUS
<1>2. Follows(s, t) /\ Mic(t) /\ t \in Core
  BY <1>1, Unheard_Effect DEF Follows
<1>3. PICK u : u = core_pipeline_finish(t)
  OBVIOUS
<1>4. Calm(t, u) /\ u.state # "SPEAKING"
  BY <1>2, <1>3, core_pipeline_finish_Effect
<1>5. Calm(s, u) /\ u \in Core /\ Mic(u)
  BY <1>2, <1>4, FollowsTwice DEF Calm, Follows
<1>6. PICK v : v = [u EXCEPT !.quiet = TRUE]
  OBVIOUS
<1>7. Aside(u, v)
  BY <1>5, <1>6, Asides
<1>8. Calm(s, v) /\ v.state # "SPEAKING"
  BY <1>4, <1>5, <1>7, AsideIsCalm, CalmTwice DEF Aside, SameMic
<1>9. PICK q : q = [t EXCEPT !.quiet = TRUE]
  OBVIOUS
<1>10. Calm(t, q) /\ q \in Core /\ Mic(q)
  BY <1>2, <1>9, Asides, AsideIsCalm DEF Calm, Follows
<1>11. PICK w : w = core_pipeline_finish(q)
  OBVIOUS
<1>12. Calm(q, w) /\ w.state # "SPEAKING"
  BY <1>10, <1>11, core_pipeline_finish_Effect
<1>13. Calm(t, w)
  BY <1>2, <1>10, <1>12, CalmTwice
<1>14. Calm(s, w)
  BY <1>2, <1>12, <1>13, FollowsTwice DEF Calm
<1> QED
  BY <1>1, <1>3, <1>6, <1>8, <1>9, <1>11, <1>14 DEF quiet_cancel, said_stop

LEMMA core_error_Effect == ASSUME NEW s \in Core, Mic(s) PROVE Calm(s, core_error(s))
<1>1. Calm(s, s) /\ Calm(s, [s EXCEPT !.quiet = FALSE])
  BY Asides, AsideIsCalm
<1>2. Calm(s, core_pipeline_finish(s))
  BY core_pipeline_finish_Effect
<1> QED
  BY <1>1, <1>2 DEF core_error

LEMMA on_error_Effect == ASSUME NEW s \in Core, Mic(s), NEW code PROVE Calm(s, on_error(s, code))
<1>1. PICK t : t = [s EXCEPT !.expected = FALSE]
  OBVIOUS
<1>2. Calm(s, t) /\ t \in Core /\ Mic(t)
  BY <1>1, Asides, AsideIsCalm DEF Calm, Follows
<1>3. Calm(s, core_pipeline_finish(t)) /\ Calm(s, core_error(t))
  BY <1>2, CalmTwice, core_pipeline_finish_Effect, core_error_Effect
<1>4. PICK w : w = core_wake_run_ended(s, code # "duplicate")
  OBVIOUS
<1>5. Calm(s, w) /\ w \in Core /\ Mic(w)
  BY <1>4, core_wake_run_ended_Effect DEF Calm, Follows
<1>6. PICK x : x = [w EXCEPT !.cancelled = 1]
  OBVIOUS
<1>7. Calm(w, x) /\ x \in Core /\ Mic(x)
  <2>1. 1 \in 0 .. 2
    OBVIOUS
  <2>2. \A n \in 0 .. 2 : Aside(w, [w EXCEPT !.cancelled = n])
    BY <1>5, Asides
  <2>3. Aside(w, x)
    BY <1>6, <2>1, <2>2, Zenon
  <2> QED
    BY <1>5, <2>3, AsideIsCalm DEF Calm, Follows
<1>8. Calm(x, core_run_over(x))
  BY <1>7, core_run_over_Effect
<1>9. Calm(s, core_run_over(x))
  BY <1>5, <1>7, <1>8, CalmTwice
<1> QED
  BY <1>1, <1>3, <1>4, <1>6, <1>9 DEF on_error

LEMMA on_run_end_Effect == ASSUME NEW s \in Core, Mic(s) PROVE Calm(s, on_run_end(s))
<1>1. Calm(s, core_pipeline_finish(s))
  BY core_pipeline_finish_Effect
<1>2. PICK w : w = core_wake_run_ended(s, TRUE)
  OBVIOUS
<1>3. Calm(s, w) /\ w \in Core /\ Mic(w)
  BY <1>2, core_wake_run_ended_Effect DEF Calm, Follows
<1>4. Calm(s, core_run_over(w))
  BY <1>3, core_run_over_Effect, CalmTwice
<1> QED
  BY <1>1, <1>2, <1>4 DEF on_run_end

(***************************************************************************)
(* The kinds of steps                                                      *)
(***************************************************************************)

\* A handler that leaves the fetch and what plays alone, or lets go of both.
Calms == Calm(c, c') /\ UNCHANGED <<job, queue, player>>

\* What plays is cut, for the talker or by Home Assistant's player.
Cuts ==
  /\ c' \in Core /\ c'.local = c.local /\ c'.wakeCut = c.wakeCut /\ c'.run = c.run /\ SameFetch(c, c')
  /\ SameMic(c, c') /\ c'.flush
  /\ c.state = "SPEAKING" \/ (~c.flush /\ (EarlyStop \/ StopComing))
  /\ UNCHANGED <<job, queue, player>>

\* What plays is cut for Home Assistant's wake word.
WakeCuts ==
  /\ c' \in Core /\ c'.local = c.local /\ c'.run = c.run /\ SameFetch(c, c')
  /\ ~c.local /\ c.state = "SPEAKING" /\ c'.state = "LISTENING" /\ c'.flush /\ c'.wakeCut /\ ~c'.wakeWait
  /\ UNCHANGED <<job, queue, player>>

\* A fetch thread starts.
Starts ==
  \E t \in Core, chime, conv \in BOOLEAN, run \in Nat :
    /\ Calm(c, t) /\ ~t.busy /\ FreeJobs # {}
    /\ c' = Takes(t, NewJob) /\ Fetch(NewJob, chime, conv, run)
    /\ ~c.local /\ NoChimes => ~chime
    /\ UNCHANGED <<queue, player>>

LEMMA HandlerIsCalm == ASSUME NEW t, Handler(t), Calm(c, t) PROVE Calms
BY DEF Handler, Calms

LEMMA core_remote_wake_Effect ==
  ASSUME c \in Core, Mic(c), Handler(core_remote_wake(c)) \/ (c' = core_remote_wake(c) /\ UNCHANGED <<job, queue, player>>)
  PROVE  Calms \/ WakeCuts
<1>0. c' = core_remote_wake(c) /\ UNCHANGED <<job, queue, player>>
  BY DEF Handler
<1>1. CASE c.local \/ ~c.streaming
  <2>1. c' = c
    BY <1>0, <1>1 DEF core_remote_wake
  <2>2. Calm(c, c)
    BY Asides, AsideIsCalm
  <2> QED
    BY <1>0, <2>1, <2>2 DEF Calms
<1>2. CASE ~(c.local \/ ~c.streaming) /\ c.state # "SPEAKING"
  <2>1. c' = [c EXCEPT !.state = "LISTENING"]
    BY <1>0, <1>2 DEF core_remote_wake
  <2>2. c' \in Core
    BY <2>1 DEF Core
  <2>3. /\ c'.local = c.local /\ c'.flush = c.flush /\ c'.wakeCut = c.wakeCut /\ c.run <= c'.run
        /\ SameFetch(c, c') /\ c'.state = "LISTENING" /\ c'.wakeWait = c.wakeWait /\ c'.fails = c.fails
    BY <2>1 DEF Core, SameFetch
  <2>4. Calm(c, c')
    BY <2>2, <2>3 DEF Calm, Follows, Mic
  <2> QED
    BY <1>0, <2>4 DEF Calms
<1>3. CASE ~(c.local \/ ~c.streaming) /\ c.state = "SPEAKING"
  <2>1. PICK u : u = [c EXCEPT !.wakeCut = TRUE, !.wakeWait = FALSE, !.barge = FALSE, !.flush = TRUE,
                               !.state = "LISTENING"]
    OBVIOUS
  <2>2. c' = u
    BY <1>0, <1>3, <2>1 DEF core_remote_wake
  <2>3. u = Fields(u)
    BY <2>1 DEF Core, Fields
  <2>4. Fields(u) \in Core
    BY <2>1 DEF Core, Fields
  <2>5. /\ u.local = c.local /\ u.run = c.run /\ SameFetch(c, u)
        /\ u.state = "LISTENING" /\ u.flush /\ u.wakeCut /\ ~u.wakeWait
    BY <2>1 DEF Core, SameFetch
  <2> QED
    BY <1>0, <1>3, <2>2, <2>3, <2>4, <2>5 DEF WakeCuts, SameFetch
<1> QED
  BY <1>1, <1>2, <1>3

LEMMA CutsNow ==
  ASSUME c \in Core, NEW b \in BOOLEAN, Handler([c EXCEPT !.barge = b, !.flush = TRUE]), c.state = "SPEAKING"
  PROVE  Cuts
<1>1. PICK u : u = [c EXCEPT !.barge = b, !.flush = TRUE]
  OBVIOUS
<1>2. u = Fields(u)
  BY <1>1 DEF Core, Fields
<1>3. Fields(u) \in Core
  BY <1>1 DEF Core, Fields
<1>4. /\ u.local = c.local /\ u.wakeCut = c.wakeCut /\ u.run = c.run /\ SameFetch(c, u) /\ SameMic(c, u) /\ u.flush
  BY <1>1 DEF Core, SameFetch, SameMic
<1>5. c' = u /\ UNCHANGED <<job, queue, player>>
  BY <1>1 DEF Handler
<1> QED
  BY <1>2, <1>3, <1>4, <1>5 DEF Cuts, SameFetch, SameMic

LEMMA trigger_Kind == ASSUME c \in Core, Mic(c), trigger PROVE Calms \/ Cuts
<1>1. PICK touch \in BOOLEAN, stopped \in BOOLEAN :
        TriggerCancels(touch, stopped) \/ TriggerStarts(touch, stopped) \/ TriggerCuts(touch, stopped)
  BY DEF trigger
<1>2. ASSUME NEW s \in Core, Mic(s), s.state = "IDLE" PROVE Calm(s, pipeline_start(s))
  <2>1. PICK u : u = pipeline_start(s)
    OBVIOUS
  <2>2. Follows(s, u) /\ u.state = (IF s.local THEN "LISTENING" ELSE s.state) /\ ~u.wakeWait
    BY <2>1, pipeline_start_Effect
  <2>3. Mic(u) /\ u.state # "SPEAKING"
    BY <1>2, <2>2 DEF Mic, Follows
  <2> QED
    BY <2>1, <2>2, <2>3 DEF Calm
<1>3. CASE TriggerCancels(touch, stopped)
  <2>1. PICK s : s = quiet_cancel(c)
    OBVIOUS
  <2>2. Calm(c, s) /\ s \in Core /\ Mic(s)
    BY <2>1, GivingUp DEF Calm, Follows
  <2>3. s.state = "IDLE" => Calm(c, pipeline_start(s))
    BY <1>2, <2>2, CalmTwice
  <2> QED
    BY <1>3, <2>1, <2>2, <2>3, HandlerIsCalm DEF TriggerCancels
<1>4. CASE TriggerStarts(touch, stopped)
  BY <1>2, <1>4, HandlerIsCalm DEF TriggerStarts
<1>5. CASE TriggerCuts(touch, stopped)
  BY <1>5, CutsNow DEF TriggerCuts
<1> QED
  BY <1>1, <1>3, <1>4, <1>5

LEMMA core_link_Effect ==
  ASSUME c \in Core, Mic(c), NEW to \in {"none", "client", "running"} PROVE Calm(c, core_link(to))
<1>1. PICK s : s = [c EXCEPT !.link = to, !.expected = @ /\ ~(c.link = "running" /\ to # "running")]
  OBVIOUS
<1>2. s = Fields(s)
  BY <1>1 DEF Core, Fields
<1>3. Fields(s) \in Core
  BY <1>1 DEF Core, Fields
<1>4. /\ s.local = c.local /\ s.flush = c.flush /\ s.wakeCut = c.wakeCut /\ s.run = c.run /\ SameFetch(c, s)
      /\ SameMic(c, s)
  BY <1>1 DEF Core, SameFetch, SameMic
<1>5. Aside(c, s)
  BY <1>2, <1>3, <1>4 DEF Aside
<1>6. Calm(c, s) /\ s \in Core /\ Mic(s)
  BY <1>5, AsideIsCalm DEF Calm, Follows
<1>7. Calm(c, core_pipeline_finish(s))
  BY <1>6, core_pipeline_finish_Effect, CalmTwice
<1>8. s.state = "IDLE" => Calm(c, pipeline_start(s))
  <2>1. PICK u : u = pipeline_start(s)
    OBVIOUS
  <2>2. Follows(s, u) /\ u.state = (IF s.local THEN "LISTENING" ELSE s.state) /\ ~u.wakeWait
    BY <1>6, <2>1, pipeline_start_Effect
  <2>3. s.state = "IDLE" => Calm(s, u)
    BY <2>2 DEF Calm, Mic, Follows
  <2> QED
    BY <1>6, <2>1, <2>3, CalmTwice
<1> QED
  BY <1>1, <1>6, <1>7, <1>8 DEF core_link

LEMMA on_event_Effect ==
  ASSUME NEW s \in Core, Mic(s), NEW e, e # "WAKE_END", NEW d PROVE Calm(s, on_event(s, e, d))
<1>1. Calm(s, s) /\ Calm(s, [s EXCEPT !.barge = TRUE])
  BY Asides, AsideIsCalm
<1>2. Calm(s, [s EXCEPT !.state = "LISTENING"])
  <2>1. PICK t : t = [s EXCEPT !.state = "LISTENING"]
    OBVIOUS
  <2>2. t \in Core
    BY <2>1 DEF Core
  <2>3. /\ t.local = s.local /\ t.flush = s.flush /\ t.wakeCut = s.wakeCut /\ s.run <= t.run
        /\ SameFetch(s, t) /\ t.state = "LISTENING" /\ t.wakeWait = s.wakeWait /\ t.fails = s.fails
    BY <2>1 DEF Core, SameFetch
  <2> QED
    BY <2>1, <2>2, <2>3 DEF Calm, Follows, Mic
<1>3. /\ Calm(s, Think(s)) /\ Calm(s, said_stop(s)) /\ Calm(s, quiet_cancel(s))
      /\ Calm(s, on_error(s, d)) /\ Calm(s, on_run_end(s))
  BY Think_Effect, GivingUp, on_error_Effect, on_run_end_Effect
<1>4. \/ on_event(s, e, d) = s \/ on_event(s, e, d) = [s EXCEPT !.barge = TRUE]
      \/ on_event(s, e, d) = [s EXCEPT !.state = "LISTENING"] \/ on_event(s, e, d) = Think(s)
      \/ on_event(s, e, d) = said_stop(s) \/ on_event(s, e, d) = quiet_cancel(s)
      \/ on_event(s, e, d) = on_error(s, d) \/ on_event(s, e, d) = on_run_end(s)
  BY DEF on_event
<1> QED
  BY <1>1, <1>2, <1>3, <1>4

LEMMA Arrives_Kind ==
  ASSUME c \in Core, Mic(c), NEW r \in Nat, NEW e \in DOMAIN Order, NEW d \in Says(e), Arrives(r, e, d)
  PROVE  Calms \/ WakeCuts \/ Starts
<1>1. PICK s : s = IF e = "TTS_END" \/ d = "url" THEN [c EXCEPT !.url = r] ELSE c
  OBVIOUS
<1>2. Calm(c, s) /\ s \in Core /\ Mic(s)
  <2>1. Aside(c, s)
    BY <1>1, Asides
  <2> QED
    BY <2>1, AsideIsCalm DEF Calm, Follows
<1>3. PICK t : t = Heeded(s, e)
  OBVIOUS
<1>4. Calm(c, t) /\ t \in Core /\ Mic(t)
  <2>1. 0 \in 0 .. 2
    OBVIOUS
  <2>2. \A n \in 0 .. 2 : Aside(s, [s EXCEPT !.cancelled = n])
    BY <1>2, Asides
  <2>3. Aside(s, [s EXCEPT !.cancelled = 0]) /\ Aside(s, s)
    BY <1>2, <2>1, <2>2, Asides, Zenon
  <2>4. Aside(s, t)
    BY <1>3, <2>3 DEF Heeded
  <2> QED
    BY <1>2, <2>4, AsideIsCalm, CalmTwice DEF Calm, Follows
<1>5. PICK u : u = core_mic_off([t EXCEPT !.expected = TRUE])
  OBVIOUS
<1>6. Calm(c, u) /\ u \in Core /\ Mic(u)
  <2>1. PICK v : v = [t EXCEPT !.expected = TRUE]
    OBVIOUS
  <2>2. Calm(t, v) /\ v \in Core /\ Mic(v)
    BY <1>4, <2>1, Asides, AsideIsCalm DEF Calm, Follows
  <2>3. Calm(v, u)
    BY <1>5, <2>1, <2>2, core_mic_off_Effect
  <2> QED
    BY <1>4, <2>2, <2>3, CalmTwice DEF Calm, Follows
<1>7. /\ UNCHANGED <<queue, player>>
      /\ \/ c' = s /\ UNCHANGED job
         \/ ~StartsReply(t, e) /\ c' = on_event(t, e, d) /\ UNCHANGED job
         \/ c' = u /\ UNCHANGED job
         \/ ~u.busy /\ FreeJobs # {} /\ c' = Takes(u, NewJob) /\ Fetch(NewJob, FALSE, FALSE, u.url)
  BY <1>1, <1>3, <1>5 DEF Arrives
<1>8. CASE c' = s /\ UNCHANGED job
  BY <1>2, <1>7, <1>8 DEF Calms
<1>9. CASE c' = on_event(t, e, d) /\ UNCHANGED job
  <2>1. CASE e # "WAKE_END"
    <3>1. Calm(c, c')
      BY <1>4, <1>9, <2>1, on_event_Effect, CalmTwice
    <3> QED
      BY <1>7, <1>9, <3>1 DEF Calms
  <2>2. CASE e = "WAKE_END"
    <3>1. d = ""
      BY <2>2 DEF Says
    <3>2. s = c /\ t = c
      BY <1>1, <1>3, <2>2, <3>1 DEF Heeded
    <3>3. c' = core_remote_wake(c)
      BY <1>9, <2>2, <3>2 DEF on_event
    <3> QED
      BY <1>7, <1>9, <3>3, core_remote_wake_Effect
  <2> QED
    BY <2>1, <2>2
<1>10. CASE c' = u /\ UNCHANGED job
  BY <1>6, <1>7, <1>10 DEF Calms
<1>11. CASE ~u.busy /\ FreeJobs # {} /\ c' = Takes(u, NewJob) /\ Fetch(NewJob, FALSE, FALSE, u.url)
  <2>1. u.url \in Nat
    BY <1>6 DEF Core
  <2> QED
    BY <1>6, <1>7, <1>11, <2>1 DEF Starts
<1> QED
  BY <1>7, <1>8, <1>9, <1>10, <1>11

LEMMA Announce_Kind == ASSUME c \in Core, Mic(c), Announce PROVE Starts
<1>1. PICK a \in Announcement[c.local] : media_start(a.chime, a.conv)
  BY DEF Announce
<1>2. c.local \in BOOLEAN /\ a \in [chime : BOOLEAN, conv : BOOLEAN]
  BY SessionAssumption DEF Core
<1>3. PICK t : t = IF c.state \in {"LISTENING", "THINKING"} THEN core_pipeline_finish(c) ELSE c
  OBVIOUS
<1>4. Calm(c, t)
  BY <1>3, core_pipeline_finish_Effect, Asides, AsideIsCalm
<1>5. t \in Core /\ ~t.busy
  BY <1>1, <1>4 DEF Calm, Follows, SameFetch, LetsGo, media_start
<1>6. ~c.local /\ NoChimes => ~a.chime
  BY <1>2 DEF NoChimes
<1>7. /\ c' = Takes(t, NewJob) /\ Fetch(NewJob, a.chime, a.conv, 0) /\ FreeJobs # {}
      /\ UNCHANGED <<queue, player>>
  BY <1>1, <1>3 DEF media_start
<1> QED
  BY <1>2, <1>4, <1>5, <1>6, <1>7 DEF Starts

LEMMA MediaStop_Kind == ASSUME c \in Core, MediaStop PROVE Cuts
<1>1. PICK u : u = [c EXCEPT !.flush = TRUE]
  OBVIOUS
<1>2. u \in Core
  BY <1>1 DEF Core
<1>3. /\ u.local = c.local /\ u.wakeCut = c.wakeCut /\ u.run = c.run /\ SameFetch(c, u) /\ SameMic(c, u) /\ u.flush
  BY <1>1 DEF Core, SameFetch, SameMic
<1>4. /\ c' = u /\ UNCHANGED <<job, queue, player>> /\ ~c.flush /\ (EarlyStop \/ StopComing)
  BY <1>1 DEF MediaStop, Handler
<1> QED
  BY <1>2, <1>3, <1>4 DEF Cuts, SameFetch, SameMic

\* Every step is of one of the kinds, or a step of a fetch or of the playback thread.
LEMMA Kinds ==
  ASSUME TypeOK, Mic(c), [Next]_vars
  PROVE  Calms \/ Cuts \/ WakeCuts \/ Starts \/ PopStop \/ Stopped \/ \E j \in Job : MediaThread(j)
<1>0. c \in Core /\ ha.run \in Nat /\ c.run \in Nat
  BY DEF TypeOK, Core
<1>1. CASE stop_word
  <2>1. Calm(c, quiet_cancel(c))
    BY <1>0, GivingUp
  <2> QED
    BY <1>0, <1>1, <2>1, CutsNow, HandlerIsCalm DEF stop_word
<1>2. CASE mute_update
  <2>1. PICK s : s = [c EXCEPT !.muted = ~@]
    OBVIOUS
  <2>2. c.muted \in BOOLEAN
    BY <1>0 DEF Core
  <2>3. s = [c EXCEPT !.muted = ~c.muted] /\ (~c.muted) \in BOOLEAN
    BY <1>0, <2>1, <2>2 DEF Core
  <2>4. Aside(c, s)
    BY <1>0, <2>3, Asides
  <2>5. Calm(c, s) /\ s \in Core /\ Mic(s)
    BY <1>0, <2>4, AsideIsCalm DEF Calm, Follows
  <2>6. Calm(c, core_pipeline_finish(s))
    BY <1>0, <2>5, core_pipeline_finish_Effect, CalmTwice
  <2> QED
    BY <1>2, <2>1, <2>5, <2>6, HandlerIsCalm DEF mute_update
<1>3. CASE heard_end \/ PipelineTimeout
  BY <1>0, <1>3, Think_Effect, core_pipeline_finish_Effect, HandlerIsCalm DEF heard_end, PipelineTimeout
<1>4. CASE LinkChanges
  BY <1>0, <1>4, core_link_Effect DEF LinkChanges, Calms
<1>5. CASE Refused
  BY <1>0, <1>5, core_error_Effect DEF Refused, Calms
<1>6. CASE Reports
  BY <1>0, <1>6, Arrives_Kind DEF Reports
<1>7. CASE Begins
  <2>1. PICK r \in ha.run + 1 .. c.run, e \in {"RUN_START", "ERROR"} : \E d \in Says(e) : Arrives(r, e, d)
    BY <1>7 DEF Begins
  <2>2. r \in Nat /\ e \in DOMAIN Order
    BY <1>0 DEF Order
  <2> QED
    BY <1>0, <2>1, <2>2, Arrives_Kind
<1>8. CASE UNCHANGED vars
  <2>1. Calm(c, c)
    BY <1>0, Asides, AsideIsCalm
  <2> QED
    BY <1>8, <2>1 DEF vars, Calms
<1> QED
  BY <1>0, <1>1, <1>2, <1>3, <1>4, <1>5, <1>6, <1>7, <1>8, trigger_Kind, Announce_Kind, MediaStop_Kind
     DEF Next, Environment, Daemon, Playback

(***************************************************************************)
(* The steps keep the invariant                                            *)
(***************************************************************************)

\* The parts of the invariant that the session and its threads are bound by.
Bound(s) == s \in Core /\ Mic(s) /\ Slot(s)

LEMMA CalmKeeps ==
  ASSUME NEW s \in Core, NEW t, Calm(s, t), Jobs, Slot(s), job \in [Job -> Thread]
  PROVE  /\ Bound(t)
         /\ Speaks(s) => Speaks(t)
         /\ Cut(s) => Cut(t)
         /\ Plain(s) => Plain(t)
         /\ Flushes(s) => Flushes(t)
<1>1. /\ t \in Core /\ Mic(t) /\ t.local = s.local /\ t.flush = s.flush /\ t.wakeCut = s.wakeCut
      /\ SameFetch(s, t) \/ LetsGo(s, t)
      /\ t.state = "SPEAKING" => s.state = "SPEAKING" /\ t.aborted = s.aborted
  BY DEF Calm, Follows
<1>2. s.cur # NoJob => s.cur \in Job
  BY DEF Core
<1>3. CASE SameFetch(s, t)
  BY <1>1, <1>3 DEF Bound, SameFetch, Slot, Speaks, Cut, Plain, Flushes, Coming
<1>4. CASE LetsGo(s, t)
  <2>1. /\ s.cur \in Job /\ t.cur = NoJob /\ t.aborted = s.aborted \cup {s.cur} /\ ~t.busy
        /\ t.letGo = (s.letGo \/ (s.flush /\ job[s.cur].began)) /\ s.cur # NoJob
    BY <1>2, <1>4 DEF LetsGo
  <2>2. Active(s.cur) /\ ~Pending
    BY <2>1 DEF Slot
  <2>3. Slot(t)
    BY <2>1, <2>2 DEF Slot
  <2>4. ASSUME NEW j \in Job \ s.aborted, job[j].began PROVE j = s.cur
    <3>1. job[j].pc \in {"free", "look", "get", "feed", "end", "push"}
      BY DEF Thread
    <3>2. job[j].pc # "free"
      BY <2>4 DEF Jobs
    <3>3. job[j].pc # "push"
      BY <2>2 DEF Pending, Sending
    <3> QED
      BY <3>1, <3>2, <3>3 DEF Slot, Active
  <2>5. Coming(s) => job[s.cur].began /\ s.cur \in t.aborted
    BY <2>1, <2>2, <2>4 DEF Coming, Pending
  <2>6. Cut(s) => Cut(t)
    BY <1>1, <2>1, <2>5 DEF Cut
  <2>7. Flushes(s) => Flushes(t)
    BY <1>1, <2>1, <2>5 DEF Flushes
  <2>8. Speaks(s) => Speaks(t)
    BY <1>1 DEF Speaks, Coming
  <2>9. Plain(s) => Plain(t)
    BY <1>1 DEF Plain
  <2> QED
    BY <1>1, <2>3, <2>6, <2>7, <2>8, <2>9 DEF Bound
<1> QED
  BY <1>1, <1>3, <1>4

\* What is left of the invariant once c, job, queue and player are.
Kept ==
  /\ Bound(c)' /\ (job \in [Job -> Thread])' /\ Jobs' /\ OnePending' /\ (queue \in Nat)' /\ (player \in {"pop", "stop"})'
  /\ c.run <= c'.run
  /\ NoChimes /\ SpeakInv => SpeakInv'
  /\ NoChimes /\ ~EarlyStop /\ SpeakInv /\ Flushes(c) => Flushes(c)'

\* When the threads stand still the invariant is about the session alone.
LEMMA Still ==
  ASSUME SlotInv, UNCHANGED <<job, queue, player>>, Bound(c'), c.run <= c'.run,
         NoChimes /\ SpeakInv => Speaks(c') /\ Cut(c') /\ Plain(c'),
         NoChimes /\ ~EarlyStop /\ SpeakInv /\ Flushes(c) => Flushes(c')
  PROVE  Kept
<1>1. (job \in [Job -> Thread])' /\ (queue \in Nat)' /\ (player \in {"pop", "stop"})'
  BY DEF SlotInv, TypeOK
<1>2. Jobs' /\ OnePending'
  BY DEF SlotInv, Jobs, OnePending, Sending
<1>3. Slot(c)' <=> Slot(c')
  BY DEF Slot, Active, Pending, Sending
<1>4. Bound(c)'
  BY <1>3 DEF Bound, Mic
<1>5. (Speaks(c)' <=> Speaks(c')) /\ (Cut(c)' <=> Cut(c')) /\ (Plain(c)' <=> Plain(c')) /\ (Flushes(c)' <=> Flushes(c'))
  BY DEF Speaks, Cut, Plain, Flushes, Coming
<1> QED
  BY <1>1, <1>2, <1>4, <1>5 DEF Kept, SpeakInv

LEMMA CalmsKeep == ASSUME SlotInv, Calms PROVE Kept
<1>1. /\ c \in Core /\ job \in [Job -> Thread] /\ Jobs /\ Slot(c) /\ Calm(c, c') /\ UNCHANGED <<job, queue, player>>
  BY DEF SlotInv, TypeOK, Calms
<1>2. Bound(c') /\ (Speaks(c) => Speaks(c')) /\ (Cut(c) => Cut(c')) /\ (Plain(c) => Plain(c'))
      /\ (Flushes(c) => Flushes(c'))
  BY <1>1, CalmKeeps
<1>3. c.run <= c'.run
  BY <1>1 DEF Calm, Follows
<1> QED
  BY <1>1, <1>2, <1>3, Still DEF SpeakInv

LEMMA ComingIsStop == ASSUME c \in Core PROVE StopComing <=> Coming(c)
BY DEF StopComing, BegunJobs, Coming

LEMMA CutsKeep == ASSUME SlotInv, Cuts PROVE Kept
<1>1. /\ c \in Core /\ Mic(c) /\ Slot(c)
      /\ c' \in Core /\ c'.local = c.local /\ c'.wakeCut = c.wakeCut /\ c'.run = c.run /\ SameFetch(c, c')
      /\ SameMic(c, c') /\ c'.flush /\ UNCHANGED <<job, queue, player>>
      /\ c.state = "SPEAKING" \/ (~c.flush /\ (EarlyStop \/ StopComing))
  BY DEF SlotInv, TypeOK, Cuts
<1>2. Bound(c')
  BY <1>1 DEF Bound, Mic, Slot, SameFetch, SameMic
<1>3. c.run <= c'.run
  BY <1>1 DEF Core
<1>4. Coming(c) <=> Coming(c')
  BY <1>1 DEF Coming, SameFetch
<1>5. SpeakInv => Speaks(c') /\ Cut(c') /\ Plain(c')
  BY <1>1, <1>4 DEF SpeakInv, Speaks, Cut, Plain, SameMic, SameFetch
<1>6. SpeakInv /\ ~EarlyStop => Coming(c')
  BY <1>1, <1>4, ComingIsStop DEF SpeakInv, Speaks
<1> QED
  BY <1>1, <1>2, <1>3, <1>5, <1>6, Still DEF Flushes

LEMMA WakeCutsKeep == ASSUME SlotInv, WakeCuts PROVE Kept
<1>1. /\ c \in Core /\ Mic(c) /\ Slot(c) /\ Jobs /\ job \in [Job -> Thread]
      /\ c' \in Core /\ c'.local = c.local /\ c'.run = c.run /\ SameFetch(c, c')
      /\ ~c.local /\ c.state = "SPEAKING" /\ c'.state = "LISTENING" /\ c'.flush /\ c'.wakeCut /\ ~c'.wakeWait
      /\ UNCHANGED <<job, queue, player>>
  BY DEF SlotInv, TypeOK, WakeCuts
<1>2. Bound(c')
  BY <1>1 DEF Bound, Mic, Slot, SameFetch
<1>3. c.run <= c'.run
  BY <1>1 DEF Core
<1>4. Coming(c) <=> Coming(c')
  BY <1>1 DEF Coming, SameFetch
<1>5. ASSUME SpeakInv PROVE Speaks(c') /\ Cut(c') /\ Plain(c') /\ Coming(c')
  <2>1. Coming(c) /\ Plain(c)
    BY <1>1, <1>5 DEF SpeakInv, Speaks
  <2>2. ASSUME NEW j \in Job \ c.aborted, job[j].pc = "get" PROVE FALSE
    <3>1. j = c.cur /\ ~job[j].began
      BY <1>1, <2>1, <2>2 DEF Slot, Active, Plain
    <3>2. ~Pending
      BY <1>1, <3>1, SessionAssumption DEF Slot, NoJob
    <3>3. PICK k \in Job \ c.aborted : job[k].began
      BY <2>1, <3>2 DEF Coming, Pending
    <3>4. job[k].pc \in {"feed", "end", "push"} /\ job[k].pc # "push"
      BY <1>1, <2>1, <3>2, <3>3 DEF Plain, Pending, Sending
    <3>5. k = c.cur
      BY <1>1, <3>4 DEF Slot, Active
    <3> QED
      BY <3>1, <3>3, <3>5
  <2> QED
    BY <1>1, <1>4, <2>1, <2>2 DEF Speaks, Cut, Plain, SameFetch
<1> QED
  BY <1>1, <1>2, <1>3, <1>5, Still DEF Flushes


\* One fetch thread goes from th to another part of its work that keeps the slot.
LEMMA MovesOn ==
  ASSUME SlotInv, NEW j \in Job, NEW th \in Thread, job' = [job EXCEPT ![j] = th], UNCHANGED <<c, queue, player>>,
         Active(j), th.pc \in {"look", "get", "feed", "end"}, th.began = job[j].began, th.pc = "feed" => th.began,
         th.pc = "get" => ~c.flush,
         Plain(c) => (~c.local => th.i = 2 /\ (th.began => th.pc \in {"feed", "end"}))
  PROVE  Kept
<1>1. /\ c \in Core /\ Mic(c) /\ Slot(c) /\ Jobs /\ OnePending /\ job \in [Job -> Thread] /\ queue \in Nat
      /\ player \in {"pop", "stop"}
  BY DEF SlotInv, TypeOK
<1>2. job'[j] = th /\ (\A k \in Job \ {j} : job'[k] = job[k]) /\ job' \in [Job -> Thread]
  BY <1>1
<1>3. Jobs'
  BY <1>1, <1>2 DEF Jobs
<1>4. /\ \A k \in Job : Active(k)' <=> Active(k)
      /\ Sending' = Sending
  BY <1>1, <1>2 DEF Active, Sending
<1>5. OnePending' /\ (Pending' <=> Pending)
  BY <1>1, <1>4 DEF OnePending, Pending
<1>6. c.cur \in Job \cup {NoJob} /\ c.aborted \subseteq Job
  BY <1>1 DEF Core
<1>7. Slot(c)'
  BY <1>1, <1>4, <1>5, <1>6 DEF Slot
<1>8. Bound(c)'
  BY <1>1, <1>7 DEF Bound, Mic
<1>9. \A k \in Job : job'[k].began = job[k].began
  BY <1>2
<1>10. Coming(c)' <=> Coming(c)
  BY <1>9 DEF Coming
<1>11. Flushes(c) => Flushes(c)'
  BY <1>10 DEF Flushes
<1>12. SpeakInv => SpeakInv'
  <2>1. Speaks(c) => Speaks(c)'
    BY <1>10 DEF Speaks
  <2>2. Cut(c) => Cut(c)'
    BY <1>2, <1>6, <1>9, <1>10 DEF Cut
  <2>3. Plain(c) => Plain(c)'
    BY <1>2 DEF Plain
  <2> QED
    BY <2>1, <2>2, <2>3 DEF SpeakInv
<1>13. c.run <= c'.run
  BY <1>1 DEF Core
<1> QED
  BY <1>1, <1>2, <1>3, <1>5, <1>8, <1>11, <1>12, <1>13 DEF Kept

LEMMA NextUrl_Effect ==
  ASSUME NEW t \in Thread
  PROVE  /\ NextUrl(t) \in Thread /\ NextUrl(t).pc = (IF t.i = 1 THEN "look" ELSE "end") /\ NextUrl(t).i = 2
         /\ NextUrl(t).began = t.began
<1>1. PICK u : u = NextUrl(t)
  OBVIOUS
<1>2. /\ u.pc = (IF t.i = 1 THEN "look" ELSE "end") /\ u.i = 2 /\ u.conv = t.conv /\ u.began = t.began
      /\ u.ok = t.ok /\ u.run = t.run
  BY <1>1 DEF NextUrl, Thread
<1>3. u = [pc |-> u.pc, i |-> u.i, conv |-> u.conv, began |-> u.began, ok |-> u.ok, run |-> u.run]
  BY <1>1 DEF NextUrl, Thread
<1>4. u.pc \in {"look", "end"} /\ 2 \in 1 .. 2
  BY <1>2
<1>5. u \in Thread
  BY <1>2, <1>3, <1>4 DEF Thread
<1> QED
  BY <1>1, <1>2, <1>5

LEMMA LooksKeeps == ASSUME SlotInv, NEW j \in Job, LooksAtUrl(j) PROVE Kept
<1>1. job[j] \in Thread /\ job[j].pc = "look" /\ UNCHANGED <<c, queue, player>>
  BY DEF SlotInv, TypeOK, LooksAtUrl
<1>2. CASE c.flush
  BY <1>1, <1>2, NextUrl_Effect, MovesOn DEF LooksAtUrl, Active, Plain, Thread
<1>3. CASE ~c.flush
  <2>1. PICK th : th = [job[j] EXCEPT !.pc = "get"]
    OBVIOUS
  <2>2. th \in Thread /\ th.pc = "get" /\ th.i = job[j].i /\ th.began = job[j].began
    BY <1>1, <2>1 DEF Thread
  <2>3. job' = [job EXCEPT ![j] = th]
    BY <1>3, <2>1 DEF LooksAtUrl
  <2> QED
    BY <1>1, <1>3, <2>2, <2>3, MovesOn DEF Active, Plain
<1> QED
  BY <1>2, <1>3

LEMMA UrlOverKeeps ==
  ASSUME SlotInv, NEW j \in Job, job[j].pc = "get", job' = [job EXCEPT ![j] = NextUrl(@)], UNCHANGED <<c, queue, player>>
  PROVE  Kept
<1>1. job[j] \in Thread
  BY DEF SlotInv, TypeOK
<1>2. PICK th : th = NextUrl(job[j])
  OBVIOUS
<1>3. th \in Thread /\ th.pc = (IF job[j].i = 1 THEN "look" ELSE "end") /\ th.i = 2 /\ th.began = job[j].began
  BY <1>1, <1>2, NextUrl_Effect
<1>4. job' = [job EXCEPT ![j] = th]
  BY <1>2
<1>5. th.pc \in {"look", "end"} /\ (Plain(c) /\ ~c.local => ~th.began)
  BY <1>3 DEF Plain
<1> QED
  BY <1>3, <1>4, <1>5, MovesOn DEF Active

LEMMA FedKeeps == ASSUME SlotInv, NEW j \in Job, Fed(j) PROVE Kept
<1>1. job[j] \in Thread /\ job[j].pc = "feed" /\ UNCHANGED <<c, queue, player>>
  BY DEF SlotInv, TypeOK, Fed
<1>2. PICK n : n = NextUrl(job[j])
  OBVIOUS
<1>3. PICK th : th = [n EXCEPT !.ok = job[j].i = 2]
  OBVIOUS
<1>4. n \in Thread /\ n.pc = (IF job[j].i = 1 THEN "look" ELSE "end") /\ n.i = 2 /\ n.began = job[j].began
  BY <1>1, <1>2, NextUrl_Effect
<1>5. (job[j].i = 2) \in BOOLEAN
  OBVIOUS
<1>6. th \in Thread /\ th.pc = n.pc /\ th.i = 2 /\ th.began = job[j].began
  BY <1>3, <1>4, <1>5 DEF Thread
<1>7. job' = [job EXCEPT ![j] = th]
  BY <1>2, <1>3 DEF Fed
<1>8. th.pc \in {"look", "end"} /\ (Plain(c) /\ ~c.local => th.pc = "end")
  BY <1>4, <1>6 DEF Plain
<1> QED
  BY <1>1, <1>6, <1>7, <1>8, MovesOn DEF Active

LEMMA IdleThread == Idle \in Thread /\ Idle.pc = "free" /\ Idle.i = 2 /\ ~Idle.began
BY DEF Idle, Thread

LEMMA StartsKeep == ASSUME SlotInv, Starts PROVE Kept
<1>1. PICK t \in Core, chime \in BOOLEAN, conv \in BOOLEAN, run \in Nat :
        /\ Calm(c, t) /\ ~t.busy /\ FreeJobs # {}
        /\ c' = Takes(t, NewJob) /\ Fetch(NewJob, chime, conv, run)
        /\ ~c.local /\ NoChimes => ~chime
        /\ UNCHANGED <<queue, player>>
  BY DEF Starts
<1>2. /\ c \in Core /\ Mic(c) /\ Slot(c) /\ Jobs /\ OnePending /\ job \in [Job -> Thread] /\ queue \in Nat
      /\ player \in {"pop", "stop"}
  BY DEF SlotInv, TypeOK
<1>3. /\ Mic(t) /\ Slot(t) /\ (Speaks(c) => Speaks(t)) /\ (Cut(c) => Cut(t)) /\ (Plain(c) => Plain(t))
      /\ (Flushes(c) => Flushes(t))
  BY <1>1, <1>2, CalmKeeps DEF Bound
<1>4. t.local = c.local /\ c.run <= t.run
  BY <1>1 DEF Calm, Follows
<1>5. PICK n : n = NewJob
  OBVIOUS
<1>6. n \in Job /\ job[n].pc = "free" /\ ~job[n].began /\ n # NoJob
  <2>1. n \in FreeJobs
    BY <1>1, <1>5 DEF NewJob
  <2> QED
    BY <1>2, <2>1, SessionAssumption DEF FreeJobs, Jobs, NoJob
<1>7. n \notin t.aborted /\ t.cur = NoJob /\ ~Pending /\ t.aborted \subseteq Job
  BY <1>1, <1>3, <1>6 DEF Slot, Active, Core
<1>8. /\ c' \in Core /\ c'.cur = n /\ c'.busy /\ c'.aborted = t.aborted /\ c'.local = t.local /\ c'.flush = t.flush
      /\ c'.wakeCut = t.wakeCut /\ c'.letGo = t.letGo /\ c'.run = t.run /\ SameMic(t, c')
  <2>1. PICK u : u = Takes(t, n)
    OBVIOUS
  <2>2. u = Fields(u)
    BY <2>1 DEF Takes, Core, Fields
  <2>3. Fields(u) \in Core
    BY <1>6, <2>1 DEF Takes, Core, Fields
  <2>4. /\ u.cur = n /\ u.busy /\ u.aborted = t.aborted /\ u.local = t.local /\ u.flush = t.flush
        /\ u.wakeCut = t.wakeCut /\ u.letGo = t.letGo /\ u.run = t.run /\ SameMic(t, u)
    BY <2>1 DEF Takes, Core, SameMic
  <2> QED
    BY <1>1, <1>5, <2>1, <2>2, <2>3, <2>4 DEF SameMic
<1>9. PICK th : th = [Idle EXCEPT !.pc = "look", !.i = IF chime THEN 1 ELSE 2, !.conv = conv, !.run = run]
  OBVIOUS
<1>10. th \in Thread /\ th.pc = "look" /\ th.i = (IF chime THEN 1 ELSE 2) /\ ~th.began
  <2>1. th = [pc |-> "look", i |-> IF chime THEN 1 ELSE 2, conv |-> conv, began |-> FALSE, ok |-> FALSE, run |-> run]
    BY <1>9 DEF Idle
  <2>2. (IF chime THEN 1 ELSE 2) \in 1 .. 2
    OBVIOUS
  <2>3. th \in Thread
    BY <2>1, <2>2 DEF Thread
  <2> QED
    BY <2>1, <2>3
<1>11. job' = [job EXCEPT ![n] = th]
  BY <1>1, <1>5, <1>9 DEF Fetch
<1>12. job'[n] = th /\ (\A k \in Job \ {n} : job'[k] = job[k]) /\ job' \in [Job -> Thread]
  BY <1>2, <1>6, <1>10, <1>11
<1>13. Jobs'
  BY <1>2, <1>10, <1>12 DEF Jobs
<1>14. Sending' = Sending /\ (\A k \in Job \ {n} : Active(k)' <=> Active(k)) /\ Active(n)'
  BY <1>6, <1>10, <1>12 DEF Sending, Active
<1>15. OnePending' /\ ~Pending'
  BY <1>1, <1>2, <1>7, <1>14 DEF OnePending, Pending
<1>16. Slot(c)'
  BY <1>3, <1>6, <1>7, <1>8, <1>14, <1>15, SessionAssumption DEF Slot, NoJob
<1>17. Mic(c)'
  BY <1>3, <1>8 DEF Mic, SameMic
<1>18. \A k \in Job : job'[k].began = job[k].began
  BY <1>2, <1>6, <1>10, <1>12 DEF Thread
<1>19. Coming(c)' <=> Coming(t)
  BY <1>1, <1>8, <1>18 DEF Coming
<1>20. Flushes(c) => Flushes(c)'
  BY <1>3, <1>8, <1>19 DEF Flushes
<1>21. NoChimes /\ SpeakInv => SpeakInv'
  <2>1. Speaks(c) => Speaks(c)'
    BY <1>3, <1>8, <1>19 DEF Speaks, SameMic
  <2>2. Cut(c) => Cut(c)'
    BY <1>3, <1>7, <1>8, <1>10, <1>12, <1>18, <1>19 DEF Cut, SameMic
  <2>3. NoChimes /\ Plain(c) => Plain(c)'
    BY <1>1, <1>4, <1>8, <1>10, <1>12 DEF Plain
  <2> QED
    BY <2>1, <2>2, <2>3 DEF SpeakInv
<1> QED
  BY <1>1, <1>2, <1>4, <1>8, <1>12, <1>13, <1>15, <1>16, <1>17, <1>20, <1>21 DEF Kept, Bound

LEMMA TtsEndKeeps == ASSUME SlotInv, NEW j \in Job, core_tts_end(j) PROVE Kept
<1>1. /\ c \in Core /\ Mic(c) /\ Slot(c) /\ Jobs /\ OnePending /\ job \in [Job -> Thread] /\ queue \in Nat
      /\ player \in {"pop", "stop"}
  BY DEF SlotInv, TypeOK
<1>2. job[j].pc = "push" /\ queue' = queue + 1 /\ job' = [job EXCEPT ![j] = Idle] /\ UNCHANGED <<c, player>>
  BY DEF core_tts_end
<1>3. j \in Sending /\ Pending /\ queue = 0 /\ player = "pop"
  BY <1>1, <1>2 DEF Sending, Pending, OnePending
<1>4. job'[j] = Idle /\ (\A k \in Job \ {j} : job'[k] = job[k]) /\ job' \in [Job -> Thread]
  BY <1>1, <1>2, IdleThread
<1>5. Sending' = {} /\ queue' = 1
  BY <1>1, <1>2, <1>3, <1>4, IdleThread DEF Sending, OnePending
<1>6. OnePending' /\ Pending' /\ Jobs' /\ Coming(c)'
  BY <1>1, <1>2, <1>3, <1>4, <1>5, IdleThread DEF OnePending, Pending, Jobs, Coming
<1>7. \A k \in Job : Active(k)' <=> Active(k)
  BY <1>2, <1>4, IdleThread DEF Active
<1>8. c.cur \in Job \cup {NoJob} /\ c.aborted \subseteq Job
  BY <1>1 DEF Core
<1>9. Slot(c)'
  BY <1>1, <1>2, <1>3, <1>6, <1>7, <1>8 DEF Slot
<1>10. Bound(c)'
  BY <1>1, <1>2, <1>9 DEF Bound, Mic
<1>11. SpeakInv => SpeakInv'
  <2>1. Cut(c) => Cut(c)'
    BY <1>2, <1>4, <1>6, IdleThread DEF Cut
  <2>2. Plain(c) => Plain(c)'
    BY <1>2, <1>4, IdleThread DEF Plain
  <2> QED
    BY <1>6, <2>1, <2>2 DEF SpeakInv, Speaks
<1>12. c.run <= c'.run
  BY <1>1, <1>2 DEF Core
<1>13. queue' \in Nat
  BY <1>5
<1> QED
  BY <1>1, <1>2, <1>4, <1>6, <1>10, <1>11, <1>12, <1>13 DEF Kept, Flushes

LEMMA TtsBeginKeeps == ASSUME SlotInv, NEW j \in Job, tts_begin(j) PROVE Kept
<1>1. /\ c \in Core /\ Mic(c) /\ Slot(c) /\ Jobs /\ OnePending /\ job \in [Job -> Thread] /\ queue \in Nat
      /\ player \in {"pop", "stop"}
  BY DEF SlotInv, TypeOK
<1>2. CASE j \in c.aborted
  BY <1>2, UrlOverKeeps DEF tts_begin
<1>3. CASE j \notin c.aborted
  <2>1. /\ job[j].pc = "get" /\ job' = [job EXCEPT ![j].pc = "feed", ![j].began = TRUE]
        /\ c' = core_tts_begin(c) /\ UNCHANGED <<queue, player>>
    BY <1>3 DEF tts_begin
  <2>2. PICK s : s = [c EXCEPT !.streaming = @ /\ c.wakeWait, !.state = "SPEAKING"]
    OBVIOUS
  <2>3. s \in Core
    <3>1. s = Fields(s)
      BY <1>1, <2>2 DEF Core, Fields
    <3>2. Fields(s) \in Core
      BY <1>1, <2>2 DEF Core, Fields
    <3> QED
      BY <3>1, <3>2
  <2>4. /\ s.local = c.local /\ s.flush = c.flush /\ s.wakeCut = c.wakeCut /\ s.run = c.run /\ SameFetch(c, s)
        /\ s.state = "SPEAKING" /\ (s.streaming => c.wakeWait) /\ s.wakeWait = c.wakeWait /\ s.fails = c.fails
    BY <1>1, <2>2 DEF Core, SameFetch
  <2>5. Mic(s)
    BY <1>1, <2>4 DEF Mic
  <2>6. c' = wake_listen(s)
    BY <2>1, <2>2 DEF core_tts_begin
  <2>7. Calm(s, c') /\ c'.state = s.state /\ SameFetch(s, c')
    BY <2>3, <2>5, <2>6, wake_listen_Effect
  <2>8. /\ c' \in Core /\ c'.local = c.local /\ c'.flush = c.flush /\ c'.wakeCut = c.wakeCut /\ c.run <= c'.run
        /\ c'.cur = c.cur /\ c'.aborted = c.aborted /\ c'.busy = c.busy /\ c'.letGo = c.letGo /\ Mic(c')
    BY <2>4, <2>7 DEF Calm, Follows, SameFetch
  <2>9. PICK th : th = [job[j] EXCEPT !.pc = "feed", !.began = TRUE]
    OBVIOUS
  <2>10. th \in Thread /\ th.pc = "feed" /\ th.began /\ th.i = job[j].i
    <3>1. job[j] \in Thread
      BY <1>1
    <3>2. th.pc = "feed" /\ th.began = TRUE /\ th.i = job[j].i /\ th.conv = job[j].conv /\ th.ok = job[j].ok
          /\ th.run = job[j].run
      BY <2>9, <3>1 DEF Thread
    <3>3. th = [pc |-> th.pc, i |-> th.i, conv |-> th.conv, began |-> th.began, ok |-> th.ok, run |-> th.run]
      BY <2>9, <3>1 DEF Thread
    <3>4. th \in Thread
      BY <3>1, <3>2, <3>3 DEF Thread
    <3> QED
      BY <3>2, <3>4
  <2>11. job' = [job EXCEPT ![j] = th]
    BY <1>1, <2>1, <2>9
  <2>12. job'[j] = th /\ (\A k \in Job \ {j} : job'[k] = job[k]) /\ job' \in [Job -> Thread]
    BY <1>1, <2>10, <2>11
  <2>13. (\A k \in Job : Active(k)' <=> Active(k)) /\ Sending' = Sending /\ Jobs' /\ Coming(c)'
    BY <1>1, <1>3, <2>1, <2>8, <2>10, <2>12 DEF Active, Sending, Jobs, Coming
  <2>14. OnePending' /\ (Pending' <=> Pending)
    BY <1>1, <2>1, <2>13 DEF OnePending, Pending
  <2>15. c.cur \in Job \cup {NoJob} /\ c.aborted \subseteq Job
    BY <1>1 DEF Core
  <2>16. Slot(c)'
    BY <1>1, <2>8, <2>13, <2>14, <2>15 DEF Slot
  <2>17. Mic(c)'
    BY <2>8 DEF Mic
  <2>18. SpeakInv => SpeakInv'
    <3>1. Cut(c) => Cut(c)'
      BY <1>3, <2>1, <2>8 DEF Cut
    <3>2. Plain(c) => Plain(c)'
      BY <2>8, <2>10, <2>12 DEF Plain
    <3> QED
      BY <2>13, <3>1, <3>2 DEF SpeakInv, Speaks
  <2> QED
    BY <1>1, <2>1, <2>8, <2>12, <2>13, <2>14, <2>16, <2>17, <2>18 DEF Kept, Bound, Flushes
<1> QED
  BY <1>2, <1>3

\* The thread is over: from an abandoned fetch, with its Q_STOP to send, or with nothing spoken.
LEMMA OverKeeps == ASSUME SlotInv, NEW j \in Job, Over(j) PROVE Kept
<1>1. /\ c \in Core /\ Mic(c) /\ Slot(c) /\ Jobs /\ OnePending /\ job \in [Job -> Thread] /\ queue \in Nat
      /\ player \in {"pop", "stop"} /\ job[j] \in Thread
  BY DEF SlotInv, TypeOK
<1>2. /\ job[j].pc = "end" /\ c' = Ends(c, j) /\ UNCHANGED <<queue, player>>
      /\ job' = [job EXCEPT ![j] = IF job[j].began /\ j \notin c.aborted
                                    THEN [@ EXCEPT !.pc = "push"] ELSE Idle]
  BY DEF Over
<1>3. Active(j) /\ c.cur \in Job \cup {NoJob} /\ c.aborted \subseteq Job
  BY <1>1, <1>2 DEF Active, Core
<1>4. job[j].began \in BOOLEAN /\ job[j].conv \in BOOLEAN /\ job[j].ok \in BOOLEAN
  BY <1>1 DEF Thread
<1>5. CASE j \in c.aborted
  <2>1. PICK u : u = [c EXCEPT !.aborted = @ \ {j}, !.wakeCut = @ /\ ~job[j].began]
    OBVIOUS
  <2>2. c' = u /\ job' = [job EXCEPT ![j] = Idle]
    BY <1>2, <1>5, <2>1 DEF Ends
  <2>3. u = Fields(u)
    BY <1>1, <2>1 DEF Core, Fields
  <2>4. Fields(u) \in Core
    BY <1>1, <1>4, <2>1 DEF Core, Fields
  <2>5. /\ u.local = c.local /\ u.flush = c.flush /\ u.run = c.run /\ u.cur = c.cur /\ u.busy = c.busy
        /\ u.letGo = c.letGo /\ SameMic(c, u) /\ u.aborted = c.aborted \ {j}
        /\ u.wakeCut = (c.wakeCut /\ ~job[j].began)
    BY <1>1, <2>1 DEF Core, SameMic
  <2>6. job'[j] = Idle /\ (\A k \in Job \ {j} : job'[k] = job[k]) /\ job' \in [Job -> Thread]
    BY <1>1, <2>2, IdleThread
  <2>7. Jobs' /\ Sending' = Sending /\ (\A k \in Job \ {j} : Active(k)' <=> Active(k)) /\ ~Active(j)'
    BY <1>1, <1>2, <2>6, IdleThread DEF Jobs, Sending, Active
  <2>8. OnePending' /\ (Pending' <=> Pending)
    BY <1>1, <1>2, <2>7 DEF OnePending, Pending
  <2>9. Slot(c)'
    BY <1>1, <1>3, <1>5, <2>2, <2>5, <2>7, <2>8 DEF Slot
  <2>10. Mic(c)'
    BY <1>1, <2>2, <2>5 DEF Mic, SameMic
  <2>11. Coming(c)' <=> Coming(c)
    BY <1>2, <1>5, <2>2, <2>5, <2>6, IdleThread DEF Coming
  <2>12. SpeakInv => SpeakInv'
    <3>1. Speaks(c) => Speaks(c)'
      BY <2>2, <2>5, <2>11 DEF Speaks, SameMic
    <3>2. Cut(c) => Cut(c)'
      BY <1>3, <1>5, <2>2, <2>5, <2>6, <2>11, IdleThread DEF Cut, SameMic
    <3>3. Plain(c) => Plain(c)'
      BY <2>2, <2>5, <2>6, IdleThread DEF Plain
    <3> QED
      BY <3>1, <3>2, <3>3 DEF SpeakInv
  <2>13. Flushes(c) => Flushes(c)'
    BY <2>2, <2>5, <2>11 DEF Flushes
  <2>14. c.run <= c'.run
    BY <1>1, <2>2, <2>5 DEF Core
  <2> QED
    BY <1>1, <1>2, <2>2, <2>3, <2>4, <2>6, <2>7, <2>8, <2>9, <2>10, <2>12, <2>13, <2>14 DEF Kept, Bound
<1>6. j \notin c.aborted => j = c.cur /\ c.busy /\ ~Pending /\ j # NoJob
  BY <1>1, <1>3, SessionAssumption DEF Slot, NoJob
<1>7. CASE j \notin c.aborted /\ job[j].began
  <2>1. PICK u : u = [c EXCEPT !.cur = IF @ = j THEN NoJob ELSE @, !.barge = @ \/ (job[j].conv /\ job[j].ok)]
    OBVIOUS
  <2>2. c' = u
    BY <1>2, <1>7, <2>1 DEF Ends
  <2>3. u = Fields(u)
    BY <1>1, <2>1 DEF Core, Fields
  <2>4. Fields(u) \in Core
    BY <1>1, <1>4, <2>1 DEF Core, Fields
  <2>5. /\ u.local = c.local /\ u.flush = c.flush /\ u.run = c.run /\ u.cur = NoJob /\ u.busy = c.busy
        /\ u.letGo = c.letGo /\ SameMic(c, u) /\ u.aborted = c.aborted /\ u.wakeCut = c.wakeCut
    BY <1>1, <1>6, <1>7, <2>1 DEF Core, SameMic
  <2>6. PICK th : th = [job[j] EXCEPT !.pc = "push"]
    OBVIOUS
  <2>7. th \in Thread /\ th.pc = "push" /\ th.i = job[j].i /\ th.began = job[j].began
    BY <1>1, <2>6 DEF Thread
  <2>8. job' = [job EXCEPT ![j] = th]
    BY <1>2, <1>7, <2>6
  <2>9. job'[j] = th /\ (\A k \in Job \ {j} : job'[k] = job[k]) /\ job' \in [Job -> Thread]
    BY <1>1, <2>7, <2>8
  <2>10. Sending = {} /\ queue = 0 /\ player = "pop"
    BY <1>1, <1>6, <1>7 DEF Pending
  <2>11. /\ Jobs' /\ Sending' = {j} /\ (\A k \in Job \ {j} : Active(k)' <=> Active(k)) /\ ~Active(j)'
    BY <1>1, <1>7, <2>7, <2>9, <2>10 DEF Jobs, Sending, Active
  <2>12. OnePending' /\ Pending'
    BY <1>2, <2>10, <2>11 DEF OnePending, Pending
  <2>13. Slot(c)'
    BY <1>1, <1>3, <1>6, <1>7, <2>2, <2>5, <2>11, <2>12 DEF Slot
  <2>14. Mic(c)'
    BY <1>1, <2>2, <2>5 DEF Mic, SameMic
  <2>15. \A k \in Job : job'[k].began = job[k].began
    BY <2>7, <2>9
  <2>16. Coming(c)' <=> Coming(c)
    BY <1>2, <2>2, <2>5, <2>15 DEF Coming
  <2>17. SpeakInv => SpeakInv'
    <3>1. Speaks(c) => Speaks(c)'
      BY <2>2, <2>5, <2>16 DEF Speaks, SameMic
    <3>2. Cut(c) => Cut(c)'
      BY <1>3, <2>2, <2>5, <2>7, <2>9, <2>15, <2>16 DEF Cut, SameMic
    <3>3. Plain(c) => Plain(c)'
      BY <2>2, <2>5, <2>7, <2>9 DEF Plain
    <3> QED
      BY <3>1, <3>2, <3>3 DEF SpeakInv
  <2>18. Flushes(c) => Flushes(c)'
    BY <2>2, <2>5, <2>16 DEF Flushes
  <2>19. c.run <= c'.run
    BY <1>1, <2>2, <2>5 DEF Core
  <2> QED
    BY <1>1, <1>2, <2>2, <2>3, <2>4, <2>9, <2>11, <2>12, <2>13, <2>14, <2>17, <2>18, <2>19 DEF Kept, Bound
<1>8. CASE j \notin c.aborted /\ ~job[j].began
  <2>1. PICK x : x = [[c EXCEPT !.cur = IF @ = j THEN NoJob ELSE @, !.barge = @ \/ (job[j].conv /\ job[j].ok)]
                        EXCEPT !.playing = FALSE]
    OBVIOUS
  <2>2. x \in Core
    <3>1. x = Fields(x)
      BY <1>1, <2>1 DEF Core, Fields
    <3>2. Fields(x) \in Core
      BY <1>1, <1>4, <2>1 DEF Core, Fields
    <3> QED
      BY <3>1, <3>2
  <2>3. /\ x.local = c.local /\ x.flush = c.flush /\ x.run = c.run /\ x.cur = NoJob /\ x.busy = c.busy
        /\ x.letGo = c.letGo /\ SameMic(c, x) /\ x.aborted = c.aborted /\ x.wakeCut = c.wakeCut
    BY <1>1, <1>6, <1>8, <2>1 DEF Core, SameMic
  <2>4. PICK y : y = core_pipeline_finish(x)
    OBVIOUS
  <2>5. Calm(x, y) /\ y.state # "SPEAKING"
    <3>1. Mic(x)
      BY <1>1, <2>3 DEF Mic, SameMic
    <3> QED
      BY <2>2, <2>4, <3>1, core_pipeline_finish_Effect
  <2>6. /\ y \in Core /\ Mic(y) /\ y.local = c.local /\ y.flush = c.flush /\ c.run <= y.run /\ y.cur = NoJob
        /\ y.letGo = c.letGo /\ y.aborted = c.aborted /\ y.wakeCut = c.wakeCut
    BY <2>3, <2>5 DEF Calm, Follows, SameFetch, LetsGo
  <2>7. c' = [y EXCEPT !.busy = FALSE] /\ job' = [job EXCEPT ![j] = Idle]
    BY <1>2, <1>8, <2>1, <2>4 DEF Ends
  <2>8. c' \in Core
    <3>1. c' = Fields(c')
      BY <2>6, <2>7 DEF Core, Fields
    <3>2. Fields(c') \in Core
      BY <2>6, <2>7 DEF Core, Fields
    <3> QED
      BY <3>1, <3>2
  <2>9. /\ SameMic(y, c') /\ c'.local = c.local /\ c'.flush = c.flush /\ c.run <= c'.run /\ c'.cur = NoJob
        /\ ~c'.busy /\ c'.letGo = c.letGo /\ c'.aborted = c.aborted /\ c'.wakeCut = c.wakeCut
    BY <2>6, <2>7 DEF Core, SameMic
  <2>10. job'[j] = Idle /\ (\A k \in Job \ {j} : job'[k] = job[k]) /\ job' \in [Job -> Thread]
    BY <1>1, <2>7, IdleThread
  <2>11. Jobs' /\ Sending' = Sending /\ (\A k \in Job \ {j} : Active(k)' <=> Active(k)) /\ ~Active(j)'
    BY <1>1, <1>2, <2>10, IdleThread DEF Jobs, Sending, Active
  <2>12. OnePending' /\ ~Pending'
    BY <1>1, <1>2, <1>6, <1>8, <2>11 DEF OnePending, Pending
  <2>13. Slot(c)'
    BY <1>1, <1>3, <1>6, <1>8, <2>9, <2>11, <2>12 DEF Slot
  <2>14. Mic(c)'
    BY <2>6, <2>9 DEF Mic, SameMic
  <2>15. \A k \in Job : job'[k].began <=> job[k].began
    BY <1>8, <2>10, IdleThread
  <2>16. Coming(c)' <=> Coming(c)
    BY <1>2, <2>9, <2>15 DEF Coming
  <2>17. SpeakInv => SpeakInv'
    <3>1. Speaks(c)'
      BY <2>5, <2>9 DEF Speaks, SameMic
    <3>2. Cut(c) => Cut(c)'
      BY <1>3, <2>5, <2>9, <2>10, <2>15, <2>16, IdleThread DEF Cut, SameMic
    <3>3. Plain(c) => Plain(c)'
      BY <2>9, <2>10, IdleThread DEF Plain
    <3> QED
      BY <3>1, <3>2, <3>3 DEF SpeakInv
  <2>18. Flushes(c) => Flushes(c)'
    BY <2>9, <2>16 DEF Flushes
  <2> QED
    BY <1>1, <1>2, <2>8, <2>9, <2>10, <2>11, <2>12, <2>13, <2>14, <2>17, <2>18 DEF Kept, Bound
<1> QED
  BY <1>5, <1>7, <1>8

LEMMA PopStopKeeps == ASSUME SlotInv, PopStop PROVE Kept
<1>1. /\ c \in Core /\ Mic(c) /\ Slot(c) /\ Jobs /\ OnePending /\ job \in [Job -> Thread] /\ queue \in Nat
  BY DEF SlotInv, TypeOK
<1>2. queue > 0 /\ queue' = queue - 1 /\ player' = "stop" /\ UNCHANGED <<c, job>>
  BY DEF PopStop
<1>3. queue = 1 /\ Sending = {} /\ queue' = 0 /\ Pending
  BY <1>1, <1>2 DEF OnePending, Pending
<1>4. Sending' = {} /\ Jobs' /\ \A k \in Job : Active(k)' <=> Active(k)
  BY <1>1, <1>2, <1>3 DEF Sending, Jobs, Active
<1>5. OnePending' /\ Pending' /\ Coming(c)'
  BY <1>2, <1>3, <1>4 DEF OnePending, Pending, Coming
<1>6. c.cur \in Job \cup {NoJob} /\ c.aborted \subseteq Job
  BY <1>1 DEF Core
<1>7. Slot(c)'
  BY <1>1, <1>2, <1>3, <1>4, <1>5, <1>6 DEF Slot
<1>8. Bound(c)'
  BY <1>1, <1>2, <1>7 DEF Bound, Mic
<1>9. SpeakInv => SpeakInv'
  BY <1>2, <1>5 DEF SpeakInv, Speaks, Cut, Plain
<1>10. c.run <= c'.run
  BY <1>1, <1>2 DEF Core
<1>11. (job \in [Job -> Thread])' /\ queue' \in Nat
  BY <1>1, <1>2, <1>3
<1> QED
  BY <1>2, <1>4, <1>5, <1>8, <1>9, <1>10, <1>11 DEF Kept, Flushes

LEMMA StoppedKeeps == ASSUME SlotInv, Stopped PROVE Kept
<1>1. /\ c \in Core /\ Mic(c) /\ Slot(c) /\ Jobs /\ OnePending /\ job \in [Job -> Thread] /\ queue \in Nat
  BY DEF SlotInv, TypeOK
<1>2. player = "stop" /\ player' = "pop" /\ c' = QStop(c) /\ UNCHANGED <<job, queue>>
  BY DEF Stopped
<1>3. queue = 0 /\ Sending = {} /\ Pending /\ c.cur = NoJob
  BY <1>1, <1>2 DEF OnePending, Pending, Slot
<1>4. Sending' = {} /\ Jobs' /\ \A k \in Job : Active(k)' <=> Active(k)
  BY <1>1, <1>2, <1>3 DEF Sending, Jobs, Active
<1>5. OnePending' /\ ~Pending'
  BY <1>2, <1>3, <1>4 DEF OnePending, Pending
<1>6. PICK p : p = played(c)
  OBVIOUS
<1>7. p \in Core
  <2>1. p = Fields(p)
    BY <1>1, <1>6 DEF played, Core, Fields
  <2>2. Fields(p) \in Core
    BY <1>1, <1>6 DEF played, Core, Fields
  <2> QED
    BY <2>1, <2>2
<1>8. /\ SameMic(c, p) /\ p.local = c.local /\ ~p.flush /\ p.run = c.run /\ p.cur = NoJob /\ ~p.busy
      /\ p.aborted = c.aborted /\ p.wakeCut = c.wakeCut
  BY <1>1, <1>3, <1>6 DEF played, Core, SameMic
<1>9. Mic(p)
  BY <1>1, <1>8 DEF Mic, SameMic
<1>10. /\ c' \in Core /\ Mic(c') /\ c'.local = c.local /\ ~c'.flush /\ ~c'.wakeCut /\ c.run <= c'.run
       /\ c'.cur = NoJob /\ ~c'.busy /\ c'.aborted = c.aborted
       /\ Cut(c) => c'.state # "SPEAKING"
  <2>1. CASE c.wakeCut
    <3>1. c' = [p EXCEPT !.wakeCut = FALSE]
      BY <1>2, <1>6, <2>1 DEF QStop
    <3>2. c' \in Core
      BY <1>7, <3>1 DEF Core
    <3>3. /\ SameMic(p, c') /\ c'.local = p.local /\ ~c'.flush /\ c'.run = p.run /\ c'.cur = NoJob /\ ~c'.busy
          /\ c'.aborted = p.aborted /\ ~c'.wakeCut
      BY <1>7, <1>8, <3>1 DEF Core, SameMic
    <3>4. Mic(c')
      BY <1>9, <3>3 DEF Mic, SameMic
    <3>5. c.run <= c'.run
      BY <1>1, <1>8, <3>3 DEF Core
    <3> QED
      BY <1>8, <2>1, <3>2, <3>3, <3>4, <3>5 DEF Cut, SameMic
  <2>2. CASE ~c.wakeCut
    <3>1. c' = core_pipeline_finish(p)
      BY <1>2, <1>6, <2>2 DEF QStop
    <3>2. Calm(p, c') /\ c'.state # "SPEAKING"
      BY <1>7, <1>9, <3>1, core_pipeline_finish_Effect
    <3> QED
      BY <1>8, <2>2, <3>2 DEF Calm, Follows, SameFetch, LetsGo
  <2> QED
    BY <2>1, <2>2
<1>11. c.aborted \subseteq Job
  BY <1>1 DEF Core
<1>12. Slot(c)'
  BY <1>1, <1>3, <1>4, <1>5, <1>10, <1>11 DEF Slot
<1>13. Bound(c)'
  BY <1>10, <1>12 DEF Bound, Mic
<1>14. SpeakInv => SpeakInv'
  <2>1. SpeakInv => Speaks(c)' /\ Cut(c)'
    BY <1>10 DEF SpeakInv, Speaks, Cut
  <2>2. Plain(c) => Plain(c)'
    BY <1>2, <1>10 DEF Plain
  <2> QED
    BY <2>1, <2>2 DEF SpeakInv
<1>15. Flushes(c)'
  BY <1>10 DEF Flushes
<1>16. (job \in [Job -> Thread])' /\ queue' \in Nat
  BY <1>1, <1>2
<1> QED
  BY <1>2, <1>4, <1>5, <1>10, <1>13, <1>14, <1>15, <1>16 DEF Kept

LEMMA KeptStep == ASSUME SlotInv, [Next]_vars PROVE Kept
<1>1. Calms \/ Cuts \/ WakeCuts \/ Starts \/ PopStop \/ Stopped \/ \E j \in Job : MediaThread(j)
  BY Kinds DEF SlotInv
<1>2. ASSUME NEW j \in Job, MediaThread(j) PROVE Kept
  <2>1. NoAudio(j) => Kept
    BY UrlOverKeeps DEF NoAudio
  <2> QED
    BY <1>2, <2>1, LooksKeeps, TtsBeginKeeps, FedKeeps, OverKeeps, TtsEndKeeps DEF MediaThread
<1> QED
  BY <1>1, <1>2, CalmsKeep, CutsKeep, WakeCutsKeep, StartsKeep, PopStopKeeps, StoppedKeeps

(***************************************************************************)
(* Home Assistant's reports                                                *)
(***************************************************************************)

Report == [run : Nat, stage : 0 .. 10, streams : BOOLEAN, late : 0 .. InFlight]

LEMMA Stages == \A e \in DOMAIN Order : Order[e] \in 0 .. 10
BY DEF Order

\* No report is about a run that was not asked for.
LEMMA HaStep == ASSUME SlotInv, [Next]_vars, c.run <= c'.run, c' \in Core PROVE ha' \in Report /\ ha'.run <= c'.run
<1>1. c \in Core /\ c' \in Core /\ ha \in Report /\ ha.run <= c.run
  BY DEF SlotInv, TypeOK, Report
<1>2. c.run \in Nat /\ c'.run \in Nat /\ ha.run \in Nat /\ ha.late \in 0 .. InFlight /\ InFlight \in Nat
  BY <1>1, SessionAssumption DEF Core, Report
<1>3. CASE UNCHANGED ha
  BY <1>1, <1>2, <1>3
<1>4. CASE ha' = [run |-> c.run, stage |-> 10, streams |-> FALSE, late |-> 0]
  <2>1. 10 \in 0 .. 10 /\ 0 \in 0 .. InFlight
    BY <1>2
  <2> QED
    BY <1>2, <1>4, <2>1 DEF Report
<1>5. CASE Reports
  <2>1. PICK e \in DOMAIN Order :
          /\ Late => ha.late < InFlight
          /\ ha' = [ha EXCEPT !.stage = Order[e], !.late = IF Late THEN @ + 1 ELSE 0]
    BY <1>5 DEF Reports
  <2>2. Order[e] \in 0 .. 10 /\ (IF Late THEN ha.late + 1 ELSE 0) \in 0 .. InFlight
    BY <1>2, <2>1, Stages
  <2>3. ha' = [run |-> ha.run, stage |-> Order[e], streams |-> ha.streams, late |-> IF Late THEN ha.late + 1 ELSE 0]
    BY <1>1, <2>1 DEF Report
  <2>4. ha' \in Report
    BY <1>1, <2>2, <2>3 DEF Report
  <2> QED
    BY <1>1, <1>2, <2>3, <2>4
<1>6. CASE Begins
  <2>1. PICK r \in ha.run + 1 .. c.run, e \in {"RUN_START", "ERROR"} :
          \E d \in Says(e) : ha' = [run |-> r, stage |-> Order[e], streams |-> d = "url", late |-> 0]
    BY <1>6 DEF Begins
  <2>2. PICK d : ha' = [run |-> r, stage |-> Order[e], streams |-> d = "url", late |-> 0]
    BY <2>1
  <2>3. e \in DOMAIN Order
    BY DEF Order
  <2>4. r \in Nat /\ r <= c.run /\ Order[e] \in 0 .. 10 /\ (d = "url") \in BOOLEAN /\ 0 \in 0 .. InFlight
    BY <1>2, <2>3, Stages
  <2>5. ha' \in Report /\ ha'.run = r
    BY <2>2, <2>4 DEF Report
  <2> QED
    BY <1>2, <2>4, <2>5
<1>7. UNCHANGED ha \/ ha' = [run |-> c.run, stage |-> 10, streams |-> FALSE, late |-> 0] \/ Reports \/ Begins
  <2>1. LinkChanges \/ Refused => ha' = [run |-> c.run, stage |-> 10, streams |-> FALSE, late |-> 0]
    BY DEF LinkChanges, Refused
  <2>2. trigger \/ stop_word \/ mute_update \/ heard_end \/ PipelineTimeout \/ MediaStop => UNCHANGED ha
    BY DEF trigger, TriggerCancels, TriggerStarts, TriggerCuts, stop_word, mute_update, heard_end, PipelineTimeout,
           MediaStop, Handler
  <2>3. Announce \/ PopStop \/ Stopped \/ (\E j \in Job : MediaThread(j)) => UNCHANGED ha
    BY DEF Announce, media_start, PopStop, Stopped, MediaThread, LooksAtUrl, NoAudio, tts_begin, Fed, Over, core_tts_end
  <2> QED
    BY <2>1, <2>2, <2>3 DEF Next, Environment, Daemon, Playback, vars
<1> QED
  BY <1>3, <1>4, <1>5, <1>6, <1>7

(***************************************************************************)
(* Replies of cancelled runs                                               *)
(***************************************************************************)

\* It listens to a request or waits for its answer.
Asks(s) == s.state \in {"LISTENING", "THINKING"}

\* The threads w that are to speak a run's reply and have not begun.
Replying(w, s) ==
  {j \in Job \ s.aborted : w[j].run # 0 /\ w[j].pc \in {"look", "get"} /\ ~w[j].began}

\* The runs as the session s, the threads w and Home Assistant's report h know
\* them.  A cancelled run is an older one, or its events are dropped; one that is
\* heeded nonetheless (its RUN_START came after a newer run was asked for) is two
\* stages on for every event that was in flight, not at its reply.  A thread that is
\* to reply does so for a run that was reported on and that nobody cancelled, and
\* the run is expected to reply, unless Home Assistant failed or ended it.
Ledger(w, s, h) ==
  /\ h.run <= s.run
  /\ s.run = 0 => h.stage = 10
  /\ \A r \in s.dead : r # 0 /\ r <= s.run /\ (r = s.run => s.cancelled = 1)
  /\ s.cancelled = 0 /\ h.run \in s.dead /\ h.stage < 9 => h.stage <= 1 + 2 * h.late
  /\ h.streams => s.url \in {0, h.run}
  /\ \A j \in Replying(w, s) : /\ j = s.cur /\ w[j].run <= h.run /\ w[j].run \notin s.dead
                               /\ w[j].run = s.run /\ ~s.expected => h.stage >= 9

\* While a thread is to speak the reply of the last run, the microphone is off; the
\* Echo that expects no reply any more neither listens nor thinks once the run
\* ended or its events are dropped.  A cancel finds the thread or a failed run.
Open(w, s, h) ==
  /\ s.run = 0 \/ s.link # "running" => ~s.streaming /\ ~Asks(s)
  /\ \A j \in Replying(w, s) :
       w[j].run = s.run => ~s.streaming /\ (~s.expected /\ (h.stage = 10 \/ s.cancelled # 0) => ~Asks(s))

Books(w, s, h) == Ledger(w, s, h) /\ Open(w, s, h)

\* u is s as far as the runs are concerned.
SameMarks(s, u) ==
  /\ u.run = s.run /\ u.url = s.url /\ u.expected = s.expected /\ u.cancelled = s.cancelled /\ u.dead = s.dead
  /\ u.cur = s.cur /\ u.aborted = s.aborted /\ u.link = s.link

LEMMA SameLedger ==
  ASSUME NEW w, NEW h, NEW s, NEW u, SameMarks(s, u), Ledger(w, s, h) PROVE Ledger(w, u, h)
<1>1. Replying(w, u) = Replying(w, s)
  BY DEF SameMarks, Replying
<1> QED
  BY <1>1 DEF SameMarks, Ledger

LEMMA SameBooks ==
  ASSUME NEW w, NEW h, NEW s, NEW u, SameMarks(s, u), Books(w, s, h),
         u.streaming => s.streaming, Asks(u) => Asks(s) \/ s.streaming
  PROVE  Books(w, u, h)
<1>1. Replying(w, u) = Replying(w, s)
  BY DEF SameMarks, Replying
<1>2. Open(w, u, h)
  BY <1>1 DEF SameMarks, Books, Open
<1> QED
  BY <1>2, SameLedger DEF Books

LEMMA RestBooks ==
  ASSUME NEW w, NEW h, NEW s, NEW u, SameMarks(s, u), Ledger(w, s, h), ~u.streaming, ~Asks(u)
  PROVE  Books(w, u, h)
BY SameLedger DEF Books, Open

LEMMA StartBooks ==
  ASSUME NEW w \in [Job -> Thread], NEW h \in Report, NEW s \in Core, Ledger(w, s, h), s.link = "running",
         NEW u, u = pipeline_start(s)
  PROVE  Books(w, u, h) /\ u.link = "running" /\ u.run = s.run + 1
<1>1. PICK t : t = start(s)
  OBVIOUS
<1>2. t \in Core
  BY <1>1, start_Effect
<1>3. /\ t.run = s.run + 1 /\ t.url = 0 /\ ~t.expected /\ t.cancelled = (IF s.cancelled = 0 THEN 0 ELSE 2)
      /\ t.dead = s.dead /\ t.cur = s.cur /\ t.aborted = s.aborted /\ t.link = s.link
  BY <1>1 DEF start, Core
<1>4. SameMarks(t, u)
  BY <1>1, <1>2 DEF pipeline_start, Core, SameMarks
<1>5. Replying(w, u) = Replying(w, s)
  BY <1>3, <1>4 DEF SameMarks, Replying
<1>6. s.run \in Nat /\ h.run \in Nat /\ s.dead \subseteq Nat /\ \A j \in Job : w[j].run \in Nat
  BY DEF Core, Report, Thread
<1>7. \A j \in Replying(w, u) : j \in Job /\ w[j].run < u.run
  BY <1>3, <1>4, <1>5, <1>6 DEF Ledger, SameMarks, Replying
<1>8. Ledger(w, u, h)
  BY <1>3, <1>4, <1>5, <1>6, <1>7 DEF Ledger, SameMarks
<1>9. Open(w, u, h)
  BY <1>3, <1>4, <1>6, <1>7 DEF Open, SameMarks
<1> QED
  BY <1>3, <1>4, <1>8, <1>9 DEF Books, SameMarks

\* A cancel: what replies to the cancelled run is let go of, or the run had failed.
LEMMA CancelLedger ==
  ASSUME NEW w \in [Job -> Thread], NEW h \in Report, NEW s \in Core, Ledger(w, s, h), s.run # 0,
         \A j \in Replying(w, s) : w[j].run = s.run => s.expected \/ s.run \notin Unfailed(s),
         NEW u, u = cancel(s)
  PROVE  Ledger(w, u, h)
<1>1. PICK t : t = [s EXCEPT !.cancelled = 1, !.told = TRUE, !.dead = @ \cup Unfailed(s)]
  OBVIOUS
<1>2. s.run \in Nat /\ Unfailed(s) \subseteq {s.run} /\ s.dead \subseteq Nat /\ s.cur \in Job \cup {NoJob}
  BY DEF Core, Unfailed
<1>3. t \in Core
  <2>1. t = Fields(t)
    BY <1>1 DEF Core, Fields
  <2>2. Fields(t) \in Core
    BY <1>1, <1>2 DEF Core, Fields
  <2> QED
    BY <2>1, <2>2
<1>4. /\ t.run = s.run /\ t.url = s.url /\ t.expected = s.expected /\ t.cancelled = 1
      /\ t.dead = s.dead \cup Unfailed(s) /\ t.cur = s.cur /\ t.aborted = s.aborted /\ t.link = s.link
  BY <1>1 DEF Core
<1>5. CASE s.expected /\ s.cur # NoJob
  <2>1. u = AbortReply(t)
    BY <1>1, <1>5 DEF cancel
  <2>2. /\ u.run = t.run /\ u.url = t.url /\ u.expected = t.expected /\ u.cancelled = 1
        /\ u.dead = t.dead /\ u.aborted = s.aborted \cup {s.cur}
    BY <1>3, <1>4, <2>1 DEF AbortReply, Core
  <2>3. Replying(w, u) = {}
    BY <2>2 DEF Replying, Ledger
  <2> QED
    BY <1>2, <1>4, <2>2, <2>3 DEF Ledger
<1>6. CASE ~(s.expected /\ s.cur # NoJob)
  <2>1. u = t
    BY <1>1, <1>6 DEF cancel
  <2>2. Replying(w, u) = Replying(w, s)
    BY <1>4, <2>1 DEF Replying
  <2>3. ASSUME NEW j \in Replying(w, s) PROVE ~s.expected
    BY <1>6, SessionAssumption DEF Ledger, Replying, NoJob
  <2>4. \A j \in Replying(w, s) : w[j].run \notin t.dead
    BY <1>2, <1>4, <2>3 DEF Ledger
  <2> QED
    BY <1>2, <1>4, <2>1, <2>2, <2>4 DEF Ledger
<1> QED
  BY <1>5, <1>6

LEMMA FinishBooks ==
  ASSUME NEW w \in [Job -> Thread], NEW h \in Report, NEW s \in Core, Ledger(w, s, h),
         s.streaming => s.run # 0 /\ \A j \in Replying(w, s) : w[j].run # s.run,
         NEW u, u = core_pipeline_finish(s)
  PROVE  Books(w, u, h) /\ u.link = s.link
<1> DEFINE mic == s.streaming /\ connected(s)
<1>1. PICK off : off = [s EXCEPT !.fails = 0, !.streaming = FALSE, !.told = @ \/ mic]
  OBVIOUS
<1>2. off \in Core /\ SameMarks(s, off) /\ ~off.streaming
  <2>1. off = Fields(off)
    BY <1>1 DEF Core, Fields
  <2>2. Fields(off) \in Core
    BY <1>1, SessionAssumption DEF Core, Fields
  <2>3. SameMarks(s, off) /\ ~off.streaming
    BY <1>1 DEF Core, SameMarks
  <2> QED
    BY <2>1, <2>2, <2>3
<1>3. Ledger(w, off, h)
  BY <1>2, SameLedger
<1>4. PICK m : m = IF mic /\ s.wakeWait THEN cancel(off) ELSE off
  OBVIOUS
<1>5. m \in Core /\ Ledger(w, m, h) /\ ~m.streaming /\ m.link = s.link
  <2>1. CASE m = off
    BY <1>2, <1>3, <2>1 DEF SameMarks
  <2>2. CASE m = cancel(off) /\ s.streaming
    <3>1. m \in Core /\ ~m.streaming /\ m.link = s.link
      BY <1>2, <2>2, cancel_Effect DEF Follows, SameMic, SameMarks
    <3>2. Replying(w, off) = Replying(w, s) /\ off.run = s.run
      BY <1>2 DEF SameMarks, Replying
    <3>3. Ledger(w, m, h)
      BY <1>2, <1>3, <2>2, <3>2, CancelLedger
    <3> QED
      BY <3>1, <3>3
  <2> QED
    BY <1>4, <2>1, <2>2
<1>6. PICK over : over = [m EXCEPT !.state = "IDLE", !.barge = @ /\ connected(s)]
  OBVIOUS
<1>7. over \in Core /\ SameMarks(m, over) /\ ~over.streaming /\ over.state = "IDLE"
  <2>1. over = Fields(over)
    BY <1>5, <1>6 DEF Core, Fields
  <2>2. Fields(over) \in Core
    BY <1>5, <1>6 DEF Core, Fields
  <2>3. SameMarks(m, over) /\ ~over.streaming /\ over.state = "IDLE"
    BY <1>5, <1>6 DEF Core, SameMarks
  <2> QED
    BY <2>1, <2>2, <2>3
<1>8. Books(w, over, h) /\ Ledger(w, over, h) /\ over.link = s.link
  BY <1>5, <1>7, RestBooks DEF Asks, Books, SameMarks
<1>9. CASE u = pipeline_start([over EXCEPT !.barge = FALSE]) /\ over.link = "running"
  <2>1. PICK o : o = [over EXCEPT !.barge = FALSE]
    OBVIOUS
  <2>2. o \in Core /\ SameMarks(over, o)
    <3>1. o = Fields(o)
      BY <1>7, <2>1 DEF Core, Fields
    <3>2. Fields(o) \in Core
      BY <1>7, <2>1 DEF Core, Fields
    <3>3. SameMarks(over, o)
      BY <1>7, <2>1 DEF Core, SameMarks
    <3> QED
      BY <3>1, <3>2, <3>3
  <2>3. Ledger(w, o, h) /\ o.link = "running"
    BY <1>8, <1>9, <2>2, SameLedger DEF SameMarks
  <2> QED
    BY <1>8, <1>9, <2>1, <2>2, <2>3, StartBooks
<1>10. u = over \/ (u = pipeline_start([over EXCEPT !.barge = FALSE]) /\ over.link = "running")
  BY <1>1, <1>4, <1>6 DEF core_pipeline_finish
<1> QED
  BY <1>8, <1>9, <1>10

LEMMA FinishKeeps ==
  ASSUME NEW w \in [Job -> Thread], NEW h \in Report, NEW s \in Core, Books(w, s, h)
  PROVE  Books(w, core_pipeline_finish(s), h)
<1>1. Ledger(w, s, h) /\ (s.streaming => s.run # 0 /\ \A j \in Replying(w, s) : w[j].run # s.run)
  BY DEF Books, Open
<1> QED
  BY <1>1, FinishBooks

LEMMA WakeListenKeeps ==
  ASSUME NEW w \in [Job -> Thread], NEW h \in Report, NEW s \in Core, Books(w, s, h), NEW u, u = wake_listen(s)
  PROVE  Books(w, u, h)
<1>1. CASE u # s
  <2>1. PICK p : p = pipeline_start(s)
    OBVIOUS
  <2>2. s.link = "running" /\ u = [p EXCEPT !.wakeWait = TRUE]
    BY <1>1, <2>1 DEF wake_listen
  <2>3. p \in Core /\ Books(w, p, h)
    BY <2>1, <2>2, pipeline_start_Effect, StartBooks DEF Follows, Books
  <2>4. SameMarks(p, u) /\ u.streaming = p.streaming /\ u.state = p.state
    BY <2>2, <2>3 DEF Core, SameMarks
  <2> QED
    BY <2>3, <2>4, SameBooks DEF Asks
<1> QED
  BY <1>1

LEMMA RunOverKeeps ==
  ASSUME NEW w \in [Job -> Thread], NEW h \in Report, NEW s \in Core, Books(w, s, h)
  PROVE  Books(w, core_run_over(s), h)
<1>1. PICK t : t = [s EXCEPT !.runOver = TRUE]
  OBVIOUS
<1>2. t \in Core
  BY <1>1, Asides DEF Aside
<1>3. SameMarks(s, t) /\ t.streaming = s.streaming /\ t.state = s.state
  BY <1>1 DEF Core, SameMarks
<1>4. Books(w, t, h)
  BY <1>3, SameBooks DEF Asks
<1> QED
  BY <1>1, <1>2, <1>4, WakeListenKeeps DEF core_run_over

LEMMA WakeRunEndedKeeps ==
  ASSUME NEW w \in [Job -> Thread], NEW h \in Report, NEW s \in Core, Mic(s), Books(w, s, h), NEW failed \in BOOLEAN,
         NEW u, u = core_wake_run_ended(s, failed)
  PROVE  u \in Core /\ Mic(u) /\ Books(w, u, h) /\ SameMarks(s, u) /\ u.state = s.state
<1>1. u \in Core /\ Mic(u)
  BY core_wake_run_ended_Effect DEF Calm, Follows
<1>2. SameMarks(s, u) /\ u.state = s.state /\ (u.streaming => s.streaming)
  BY DEF core_wake_run_ended, Core, SameMarks
<1> QED
  BY <1>1, <1>2, SameBooks DEF Asks

LEMMA CoreErrorKeeps ==
  ASSUME NEW w \in [Job -> Thread], NEW h \in Report, NEW s \in Core, Books(w, s, h)
  PROVE  Books(w, core_error(s), h)
<1>1. CASE s.quiet
  <2>1. PICK t : t = [s EXCEPT !.quiet = FALSE]
    OBVIOUS
  <2>2. SameMarks(s, t) /\ t.streaming = s.streaming /\ t.state = s.state
    BY <2>1 DEF Core, SameMarks
  <2> QED
    BY <1>1, <2>1, <2>2, SameBooks DEF Asks, core_error
<1>2. CASE ~s.quiet
  BY <1>2, FinishKeeps DEF core_error
<1> QED
  BY <1>1, <1>2

\* An error that is heeded: Home Assistant's report is at it.
LEMMA OnErrorKeeps ==
  ASSUME NEW w \in [Job -> Thread], NEW h \in Report, NEW s \in Core, Mic(s), Books(w, s, h), NEW code,
         h.stage = 9, s.cancelled = 0
  PROVE  Books(w, on_error(s, code), h)
<1>1. CASE ~WakeRun(s)
  <2>1. PICK t : t = [s EXCEPT !.expected = FALSE]
    OBVIOUS
  <2>2. t \in Core
    BY <2>1, Asides DEF Aside
  <2>3. /\ t.run = s.run /\ t.url = s.url /\ ~t.expected /\ t.cancelled = s.cancelled /\ t.dead = s.dead
        /\ t.cur = s.cur /\ t.aborted = s.aborted /\ t.link = s.link /\ t.streaming = s.streaming /\ t.state = s.state
    BY <2>1 DEF Core
  <2>4. Replying(w, t) = Replying(w, s)
    BY <2>3 DEF Replying
  <2>5. Books(w, t, h)
    BY <2>3, <2>4 DEF Books, Ledger, Open, Asks
  <2> QED
    BY <1>1, <2>1, <2>2, <2>5, FinishKeeps, CoreErrorKeeps DEF on_error
<1>2. CASE WakeRun(s)
  <2>1. PICK v : v = core_wake_run_ended(s, code # "duplicate")
    OBVIOUS
  <2>2. v \in Core /\ Mic(v) /\ Books(w, v, h) /\ v.state = "SPEAKING"
    BY <1>2, <2>1, WakeRunEndedKeeps DEF WakeRun
  <2>3. PICK x : x = [v EXCEPT !.cancelled = 1]
    OBVIOUS
  <2>4. x \in Core
    BY <2>2, <2>3 DEF Core
  <2>5. /\ x.run = v.run /\ x.url = v.url /\ x.expected = v.expected /\ x.cancelled = 1 /\ x.dead = v.dead
        /\ x.cur = v.cur /\ x.aborted = v.aborted /\ x.link = v.link /\ x.streaming = v.streaming /\ x.state = v.state
    BY <2>2, <2>3 DEF Core
  <2>6. Replying(w, x) = Replying(w, v)
    BY <2>5 DEF Replying
  <2>7. Books(w, x, h)
    BY <2>2, <2>5, <2>6 DEF Books, Ledger, Open, Asks
  <2> QED
    BY <1>2, <2>1, <2>3, <2>4, <2>7, RunOverKeeps DEF on_error
<1> QED
  BY <1>1, <1>2

\* The end of a run: what it leaves is at rest, or still expects its reply.
LEMMA OnRunEndKeeps ==
  ASSUME NEW w \in [Job -> Thread], NEW h \in Report, NEW s \in Core, Mic(s), Ledger(w, s, h),
         s.streaming => s.run # 0 /\ \A j \in Replying(w, s) : w[j].run # s.run,
         s.expected \/ s.state = "SPEAKING" => Open(w, s, h)
  PROVE  Books(w, on_run_end(s), h)
<1>1. CASE ~s.expected /\ s.state # "SPEAKING"
  BY <1>1, FinishBooks DEF on_run_end
<1>2. CASE ~(~s.expected /\ s.state # "SPEAKING")
  <2>1. Books(w, s, h)
    BY <1>2 DEF Books
  <2>2. PICK v : v = core_wake_run_ended(s, TRUE)
    OBVIOUS
  <2>3. v \in Core /\ Books(w, v, h)
    BY <2>1, <2>2, WakeRunEndedKeeps
  <2> QED
    BY <1>2, <2>2, <2>3, RunOverKeeps DEF on_run_end
<1> QED
  BY <1>1, <1>2

LEMMA UnheardLedger ==
  ASSUME NEW w \in [Job -> Thread], NEW h \in Report, NEW s \in Core, Mic(s), Ledger(w, s, h), s.run # 0,
         \A j \in Replying(w, s) : w[j].run = s.run => s.expected \/ s.run \notin Unfailed(s),
         NEW u, u = Unheard(s)
  PROVE  u \in Core /\ Mic(u) /\ Ledger(w, u, h) /\ ~u.streaming /\ u.link = s.link
<1>1. PICK t : t = [s EXCEPT !.barge = FALSE, !.streaming = FALSE]
  OBVIOUS
<1>2. t \in Core
  <2>1. t = Fields(t)
    BY <1>1 DEF Core, Fields
  <2>2. Fields(t) \in Core
    BY <1>1 DEF Core, Fields
  <2> QED
    BY <2>1, <2>2
<1>3. SameMarks(s, t) /\ ~t.streaming
  BY <1>1 DEF Core, SameMarks
<1>4. Ledger(w, t, h) /\ Replying(w, t) = Replying(w, s)
  BY <1>3, SameLedger DEF SameMarks, Replying
<1>5. u = cancel(t)
  BY <1>1 DEF Unheard
<1>6. t.run = s.run /\ t.expected = s.expected /\ Unfailed(t) = Unfailed(s)
  BY <1>3 DEF SameMarks, Unfailed
<1>7. Ledger(w, u, h)
  BY <1>2, <1>4, <1>5, <1>6, CancelLedger
<1>8. u \in Core /\ Mic(u)
  BY Unheard_Effect DEF Follows
<1>9. ~u.streaming /\ u.link = s.link
  BY <1>2, <1>3, <1>5, cancel_Effect DEF SameMic, SameMarks
<1> QED
  BY <1>7, <1>8, <1>9

LEMMA GivingUpKeeps ==
  ASSUME NEW w \in [Job -> Thread], NEW h \in Report, NEW s \in Core, Mic(s), Ledger(w, s, h), s.run # 0,
         \A j \in Replying(w, s) : w[j].run = s.run => s.expected \/ s.run \notin Unfailed(s)
  PROVE  Books(w, quiet_cancel(s), h) /\ Books(w, said_stop(s), h) /\ quiet_cancel(s) \in Core
         /\ quiet_cancel(s).link = s.link
<1>1. PICK t : t = Unheard(s)
  OBVIOUS
<1>2. t \in Core /\ Mic(t) /\ Ledger(w, t, h) /\ ~t.streaming /\ t.link = s.link
  BY <1>1, UnheardLedger
<1>3. PICK v : v = core_pipeline_finish(t)
  OBVIOUS
<1>4. Books(w, v, h) /\ v \in Core /\ v.link = s.link
  BY <1>2, <1>3, FinishBooks, core_pipeline_finish_Effect DEF Calm, Follows
<1>5. PICK x : x = [v EXCEPT !.quiet = TRUE]
  OBVIOUS
<1>6. x \in Core
  BY <1>4, <1>5, Asides DEF Aside
<1>7. SameMarks(v, x) /\ x.streaming = v.streaming /\ x.state = v.state
  BY <1>4, <1>5 DEF Core, SameMarks
<1>8. Books(w, x, h)
  BY <1>4, <1>7, SameBooks DEF Asks
<1>9. PICK y : y = [t EXCEPT !.quiet = TRUE]
  OBVIOUS
<1>10. y \in Core
  BY <1>2, <1>9, Asides DEF Aside
<1>11. SameMarks(t, y) /\ ~y.streaming
  BY <1>2, <1>9 DEF Core, SameMarks
<1>12. Books(w, core_pipeline_finish(y), h)
  BY <1>2, <1>10, <1>11, SameLedger, FinishBooks
<1> QED
  BY <1>1, <1>3, <1>4, <1>5, <1>6, <1>7, <1>8, <1>9, <1>12 DEF quiet_cancel, said_stop, SameMarks

\* Fields no run is told by.
LEMMA Unmarked ==
  ASSUME NEW w, NEW h, NEW s \in Core, Books(w, s, h)
  PROVE  /\ \A a, b \in BOOLEAN : Books(w, [s EXCEPT !.barge = a, !.flush = b], h)
         /\ Books(w, [s EXCEPT !.flush = TRUE], h)
         /\ Books(w, [s EXCEPT !.muted = ~@], h)
         /\ Books(w, [s EXCEPT !.barge = TRUE], h)
<1>1. ASSUME NEW a \in BOOLEAN, NEW b \in BOOLEAN PROVE Books(w, [s EXCEPT !.barge = a, !.flush = b], h)
  <2>1. PICK u : u = [s EXCEPT !.barge = a, !.flush = b]
    OBVIOUS
  <2>2. SameMarks(s, u) /\ u.streaming = s.streaming /\ u.state = s.state
    BY <2>1 DEF Core, SameMarks
  <2> QED
    BY <2>1, <2>2, SameBooks DEF Asks
<1>2. Books(w, [s EXCEPT !.flush = TRUE], h)
  <2>1. PICK u : u = [s EXCEPT !.flush = TRUE]
    OBVIOUS
  <2>2. SameMarks(s, u) /\ u.streaming = s.streaming /\ u.state = s.state
    BY <2>1 DEF Core, SameMarks
  <2> QED
    BY <2>1, <2>2, SameBooks DEF Asks
<1>3. Books(w, [s EXCEPT !.muted = ~@], h)
  <2>1. PICK u : u = [s EXCEPT !.muted = ~@]
    OBVIOUS
  <2>2. SameMarks(s, u) /\ u.streaming = s.streaming /\ u.state = s.state
    BY <2>1 DEF Core, SameMarks
  <2> QED
    BY <2>1, <2>2, SameBooks DEF Asks
<1>4. Books(w, [s EXCEPT !.barge = TRUE], h)
  <2>1. PICK u : u = [s EXCEPT !.barge = TRUE]
    OBVIOUS
  <2>2. SameMarks(s, u) /\ u.streaming = s.streaming /\ u.state = s.state
    BY <2>1 DEF Core, SameMarks
  <2> QED
    BY <2>1, <2>2, SameBooks DEF Asks
<1> QED
  BY <1>1, <1>2, <1>3, <1>4

LEMMA ThinkKeeps == ASSUME NEW w, NEW h, NEW s \in Core, Books(w, s, h) PROVE Books(w, Think(s), h)
<1>1. PICK t : t = core_mic_off(s)
  OBVIOUS
<1>2. t \in Core
  BY <1>1 DEF core_mic_off, Core
<1>3. SameMarks(s, t) /\ ~t.streaming /\ t.state = s.state
  BY <1>1 DEF core_mic_off, Core, SameMarks
<1>4. PICK u : u = [t EXCEPT !.state = IF @ = "LISTENING" THEN "THINKING" ELSE @]
  OBVIOUS
<1>5. u = Think(s)
  BY <1>1, <1>4 DEF Think
<1>6. SameMarks(t, u) /\ ~u.streaming /\ u.state = IF t.state = "LISTENING" THEN "THINKING" ELSE t.state
  BY <1>2, <1>3, <1>4 DEF Core, SameMarks
<1>7. SameMarks(s, u) /\ (Asks(u) => Asks(s))
  BY <1>3, <1>6 DEF SameMarks, Asks
<1> QED
  BY <1>5, <1>6, <1>7, SameBooks

LEMMA RemoteWakeKeeps == ASSUME NEW w, NEW h, NEW s \in Core, Books(w, s, h) PROVE Books(w, core_remote_wake(s), h)
<1>1. PICK u : u = core_remote_wake(s)
  OBVIOUS
<1>2. CASE s.local \/ ~s.streaming
  BY <1>2 DEF core_remote_wake
<1>3. CASE ~(s.local \/ ~s.streaming)
  <2>1. SameMarks(s, u)
    BY <1>1, <1>3 DEF core_remote_wake, Core, SameMarks
  <2> QED
    BY <1>1, <1>3, <2>1, SameBooks
<1> QED
  BY <1>2, <1>3

LEMMA Given == SlotInv => c \in Core /\ Mic(c) /\ Slot(c) /\ Jobs /\ OnePending /\ job \in [Job -> Thread] /\ ha \in Report
BY DEF SlotInv, TypeOK, Report

\* Where the Echo listens or thinks, the run it cancels has no reply but an expected
\* one, or Home Assistant failed it.
LEMMA AskedFor ==
  ASSUME SlotInv, Books(job, c, ha), Asks(c)
  PROVE  /\ c.run # 0
         /\ \A j \in Replying(job, c) : job[j].run = c.run => c.expected \/ c.run \notin Unfailed(c)
<1>1. c.run # 0
  BY DEF Books, Open
<1>2. ASSUME NEW j \in Replying(job, c), job[j].run = c.run, ~c.expected PROVE c.run \notin Unfailed(c)
  <2>1. c.run \in Nat /\ ha.run \in Nat /\ ha.stage \in 0 .. 10
    BY Given DEF Core, Report
  <2>2. ha.run <= c.run /\ job[j].run <= ha.run /\ ha.stage >= 9 /\ ha.stage # 10
    BY <1>2 DEF Books, Ledger, Open
  <2>3. ha.run = c.run /\ ha.stage = 9
    BY <1>2, <2>1, <2>2
  <2> QED
    BY <2>3 DEF Unfailed, Order
<1> QED
  BY <1>1, <1>2

LEMMA HandlerKeeps == ASSUME NEW s, Handler(s), Books(job, s, ha) PROVE Books(job', c', ha')
BY DEF Handler

LEMMA TriggerKeeps == ASSUME SlotInv, Books(job, c, ha), trigger PROVE Books(job', c', ha')
<1>0. c \in Core /\ Mic(c) /\ job \in [Job -> Thread] /\ ha \in Report
  BY Given
<1>1. PICK touch \in BOOLEAN, stopped \in BOOLEAN :
        TriggerCancels(touch, stopped) \/ TriggerStarts(touch, stopped) \/ TriggerCuts(touch, stopped)
  BY DEF trigger
<1>2. CASE TriggerCancels(touch, stopped)
  <2>1. PICK s : s = quiet_cancel(c)
    OBVIOUS
  <2>2. Asks(c)
    BY <1>2 DEF TriggerCancels, Asks
  <2>3. Books(job, s, ha) /\ s \in Core /\ s.link = c.link
    BY <1>0, <2>1, <2>2, AskedFor, GivingUpKeeps DEF Books
  <2>4. Awake => Books(job, pipeline_start(s), ha)
    BY <1>0, <2>3, StartBooks DEF Awake, Books
  <2> QED
    BY <1>2, <2>1, <2>3, <2>4, HandlerKeeps DEF TriggerCancels
<1>3. CASE TriggerStarts(touch, stopped)
  BY <1>0, <1>3, StartBooks, HandlerKeeps DEF TriggerStarts, Awake, Books
<1>4. CASE TriggerCuts(touch, stopped)
  <2>1. \A a \in BOOLEAN : Books(job, [c EXCEPT !.barge = a, !.flush = TRUE], ha)
    BY <1>0, Unmarked
  <2> QED
    BY <1>4, <2>1, HandlerKeeps DEF TriggerCuts
<1> QED
  BY <1>1, <1>2, <1>3, <1>4

LEMMA TalkKeeps ==
  ASSUME SlotInv, Books(job, c, ha), stop_word \/ mute_update \/ heard_end \/ PipelineTimeout \/ MediaStop
  PROVE  Books(job', c', ha')
<1>0. c \in Core /\ Mic(c) /\ job \in [Job -> Thread] /\ ha \in Report
  BY Given
<1>1. CASE stop_word
  <2>1. Books(job, [c EXCEPT !.barge = FALSE, !.flush = TRUE], ha)
    BY <1>0, Unmarked
  <2>2. Asks(c) => Books(job, quiet_cancel(c), ha)
    BY <1>0, AskedFor, GivingUpKeeps DEF Books
  <2> QED
    BY <1>1, <2>1, <2>2, HandlerKeeps DEF stop_word, Asks
<1>2. CASE mute_update
  <2>1. PICK s : s = [c EXCEPT !.muted = ~@]
    OBVIOUS
  <2>2. s \in Core
    BY <1>0, <2>1 DEF Core
  <2>3. Books(job, s, ha)
    BY <1>0, <2>1, Unmarked
  <2>4. Books(job, core_pipeline_finish(s), ha)
    BY <1>0, <2>2, <2>3, FinishKeeps
  <2> QED
    BY <1>2, <2>1, <2>3, <2>4, HandlerKeeps DEF mute_update
<1>3. CASE heard_end
  BY <1>0, <1>3, ThinkKeeps, HandlerKeeps DEF heard_end
<1>4. CASE PipelineTimeout
  BY <1>0, <1>4, FinishKeeps, HandlerKeeps DEF PipelineTimeout
<1>5. CASE MediaStop
  BY <1>0, <1>5, Unmarked, HandlerKeeps DEF MediaStop
<1> QED
  BY <1>1, <1>2, <1>3, <1>4, <1>5

\* Fewer threads that are to reply.
LEMMA FewerReplies ==
  ASSUME NEW w, NEW x, NEW h, NEW s, NEW u, Books(w, s, h),
         u.run = s.run, u.url = s.url, u.expected = s.expected, u.cancelled = s.cancelled, u.dead = s.dead,
         u.link = s.link, u.streaming = s.streaming, u.state = s.state,
         \A k \in Replying(x, u) : k \in Replying(w, s) /\ x[k].run = w[k].run /\ k = u.cur
  PROVE  Books(x, u, h)
<1>1. Ledger(x, u, h)
  BY DEF Books, Ledger
<1>2. Open(x, u, h)
  BY DEF Books, Open, Asks
<1> QED
  BY <1>1, <1>2 DEF Books

LEMMA ThreadKeeps ==
  ASSUME SlotInv, Books(job, c, ha), NEW j \in Job, NEW th \in Thread, job' = [job EXCEPT ![j] = th],
         th.pc \in {"look", "get"} /\ ~th.began => job[j].pc \in {"look", "get"} /\ ~job[j].began /\ th.run = job[j].run
  PROVE  job' \in [Job -> Thread] /\ Books(job', c, ha)
<1>1. job' \in [Job -> Thread] /\ job'[j] = th /\ \A k \in Job \ {j} : job'[k] = job[k]
  BY Given
<1>2. \A k \in Replying(job', c) : k \in Replying(job, c) /\ job'[k].run = job[k].run
  BY <1>1 DEF Replying
<1>3. \A k \in Replying(job', c) : k = c.cur
  BY <1>2 DEF Books, Ledger
<1> QED
  BY <1>1, <1>2, <1>3, FewerReplies

LEMMA UrlThread ==
  ASSUME NEW t \in Thread
  PROVE  NextUrl(t) \in Thread /\ NextUrl(t).began = t.began /\ NextUrl(t).run = t.run
<1>1. NextUrl(t).run = t.run
  BY DEF NextUrl, Thread
<1> QED
  BY <1>1, NextUrl_Effect

LEMMA FetchKeeps ==
  ASSUME SlotInv, Books(job, c, ha), NEW j \in Job, LooksAtUrl(j) \/ NoAudio(j) \/ Fed(j) \/ core_tts_end(j)
  PROVE  Books(job', c', ha')
<1>1. job[j] \in Thread /\ Jobs
  BY Given
<1>2. CASE LooksAtUrl(j)
  <2>1. PICK th : th = IF c.flush THEN NextUrl(job[j]) ELSE [job[j] EXCEPT !.pc = "get"]
    OBVIOUS
  <2>2. th \in Thread /\ th.began = job[j].began /\ th.run = job[j].run
    BY <1>1, <2>1, UrlThread DEF Thread
  <2>3. job' = [job EXCEPT ![j] = th] /\ job[j].pc = "look" /\ UNCHANGED <<c, ha>>
    BY <1>2, <2>1 DEF LooksAtUrl
  <2> QED
    BY <2>2, <2>3, ThreadKeeps
<1>3. CASE NoAudio(j)
  <2>1. PICK th : th = NextUrl(job[j])
    OBVIOUS
  <2>2. th \in Thread /\ th.began = job[j].began /\ th.run = job[j].run
    BY <1>1, <2>1, UrlThread
  <2>3. job' = [job EXCEPT ![j] = th] /\ job[j].pc = "get" /\ UNCHANGED <<c, ha>>
    BY <1>3, <2>1 DEF NoAudio
  <2> QED
    BY <2>2, <2>3, ThreadKeeps
<1>4. CASE Fed(j)
  <2>1. PICK n : n = NextUrl(job[j])
    OBVIOUS
  <2>2. PICK th : th = [n EXCEPT !.ok = job[j].i = 2]
    OBVIOUS
  <2>3. (job[j].i = 2) \in BOOLEAN
    OBVIOUS
  <2>4. n \in Thread /\ n.began = job[j].began
    BY <1>1, <2>1, UrlThread
  <2>5. th \in Thread /\ th.began = job[j].began
    BY <2>2, <2>3, <2>4 DEF Thread
  <2>6. job' = [job EXCEPT ![j] = th] /\ job[j].pc = "feed" /\ UNCHANGED <<c, ha>>
    BY <1>4, <2>1, <2>2 DEF Fed
  <2>7. th.began
    BY <1>1, <2>5, <2>6 DEF Jobs
  <2> QED
    BY <2>5, <2>6, <2>7, ThreadKeeps
<1>5. CASE core_tts_end(j)
  <2>1. job' = [job EXCEPT ![j] = Idle] /\ UNCHANGED <<c, ha>>
    BY <1>5 DEF core_tts_end
  <2> QED
    BY <2>1, IdleThread, ThreadKeeps
<1> QED
  BY <1>2, <1>3, <1>4, <1>5

LEMMA BeginKeeps == ASSUME SlotInv, Books(job, c, ha), NEW j \in Job, tts_begin(j) PROVE Books(job', c', ha')
<1>1. job[j] \in Thread /\ c \in Core /\ ha \in Report
  BY Given
<1>2. CASE j \in c.aborted
  <2>1. PICK th : th = NextUrl(job[j])
    OBVIOUS
  <2>2. th \in Thread /\ th.began = job[j].began /\ th.run = job[j].run
    BY <1>1, <2>1, UrlThread
  <2>3. job' = [job EXCEPT ![j] = th] /\ job[j].pc = "get" /\ UNCHANGED <<c, ha>>
    BY <1>2, <2>1 DEF tts_begin
  <2> QED
    BY <2>2, <2>3, ThreadKeeps
<1>3. CASE j \notin c.aborted
  <2>1. PICK th : th = [job[j] EXCEPT !.pc = "feed", !.began = TRUE]
    OBVIOUS
  <2>2. th \in Thread /\ th.began
    BY <1>1, <2>1 DEF Thread
  <2>3. job' = [job EXCEPT ![j] = th] /\ c' = core_tts_begin(c) /\ UNCHANGED ha
    BY <1>3, <2>1 DEF tts_begin
  <2>4. job' \in [Job -> Thread] /\ Books(job', c, ha)
    BY <2>2, <2>3, ThreadKeeps
  <2>5. PICK s : s = [c EXCEPT !.streaming = @ /\ c.wakeWait, !.state = "SPEAKING"]
    OBVIOUS
  <2>6. s \in Core
    <3>1. s = Fields(s)
      BY <1>1, <2>5 DEF Core, Fields
    <3>2. Fields(s) \in Core
      BY <1>1, <2>5 DEF Core, Fields
    <3> QED
      BY <3>1, <3>2
  <2>7. SameMarks(c, s) /\ (s.streaming => c.streaming) /\ s.state = "SPEAKING"
    BY <1>1, <2>5 DEF Core, SameMarks
  <2>8. Books(job', s, ha)
    BY <2>4, <2>7, SameBooks DEF Asks
  <2>9. c' = wake_listen(s)
    BY <2>3, <2>5 DEF core_tts_begin
  <2> QED
    BY <1>1, <2>3, <2>4, <2>6, <2>8, <2>9, WakeListenKeeps
<1> QED
  BY <1>2, <1>3

LEMMA OverKeepsBooks == ASSUME SlotInv, Books(job, c, ha), NEW j \in Job, Over(j) PROVE Books(job', c', ha')
<1>1. job[j] \in Thread /\ c \in Core /\ ha \in Report /\ job \in [Job -> Thread]
  BY Given
<1>2. /\ c' = Ends(c, j) /\ UNCHANGED ha
      /\ job' = [job EXCEPT ![j] = IF job[j].began /\ j \notin c.aborted
                                    THEN [@ EXCEPT !.pc = "push"] ELSE Idle]
  BY DEF Over
<1>3. PICK th : th = IF job[j].began /\ j \notin c.aborted THEN [job[j] EXCEPT !.pc = "push"] ELSE Idle
  OBVIOUS
<1>4. th \in Thread /\ th.pc \in {"push", "free"} /\ job' = [job EXCEPT ![j] = th]
  BY <1>1, <1>2, <1>3, IdleThread DEF Thread
<1>5. job' \in [Job -> Thread] /\ job'[j] = th /\ \A k \in Job \ {j} : job'[k] = job[k]
  BY <1>1, <1>4
<1>6. job[j].began \in BOOLEAN /\ job[j].conv \in BOOLEAN /\ job[j].ok \in BOOLEAN /\ c.cur \in Job \cup {NoJob}
  BY <1>1 DEF Thread, Core
<1>7. \A k \in Replying(job, c) : k = c.cur
  BY DEF Books, Ledger
<1>8. CASE j \in c.aborted
  <2>1. PICK u : u = [c EXCEPT !.aborted = @ \ {j}, !.wakeCut = @ /\ ~job[j].began]
    OBVIOUS
  <2>2. c' = u
    BY <1>2, <1>8, <2>1 DEF Ends
  <2>3. /\ u.run = c.run /\ u.url = c.url /\ u.expected = c.expected /\ u.cancelled = c.cancelled /\ u.dead = c.dead
        /\ u.link = c.link /\ u.streaming = c.streaming /\ u.state = c.state /\ u.cur = c.cur
        /\ u.aborted = c.aborted \ {j}
    BY <1>1, <2>1 DEF Core
  <2>4. \A k \in Replying(job', u) : k \in Replying(job, c) /\ job'[k].run = job[k].run
    BY <1>4, <1>5, <2>3 DEF Replying
  <2>5. \A k \in Replying(job', u) : k \in Replying(job, c) /\ job'[k].run = job[k].run /\ k = u.cur
    BY <1>7, <2>3, <2>4
  <2>6. Books(job', u, ha)
    BY <2>3, <2>5, FewerReplies
  <2> QED
    BY <1>2, <2>2, <2>6
<1>9. CASE j \notin c.aborted
  <2>1. PICK d : d = [c EXCEPT !.cur = IF @ = j THEN NoJob ELSE @, !.barge = @ \/ (job[j].conv /\ job[j].ok)]
    OBVIOUS
  <2>2. d \in Core
    <3>1. d = Fields(d)
      BY <1>1, <2>1 DEF Core, Fields
    <3>2. Fields(d) \in Core
      BY <1>1, <1>6, <2>1 DEF Core, Fields
    <3> QED
      BY <3>1, <3>2
  <2>3. /\ d.run = c.run /\ d.url = c.url /\ d.expected = c.expected /\ d.cancelled = c.cancelled /\ d.dead = c.dead
        /\ d.link = c.link /\ d.streaming = c.streaming /\ d.state = c.state /\ d.aborted = c.aborted
        /\ d.cur = IF c.cur = j THEN NoJob ELSE c.cur
    BY <1>1, <2>1 DEF Core
  <2>4. \A k \in Replying(job', d) : k \in Replying(job, c) /\ job'[k].run = job[k].run /\ k # j
    BY <1>4, <1>5, <2>3 DEF Replying
  <2>5. \A k \in Replying(job', d) : k = d.cur
    BY <1>7, <2>3, <2>4
  <2>6. Books(job', d, ha)
    BY <2>3, <2>4, <2>5, FewerReplies
  <2>7. CASE job[j].began
    BY <1>2, <1>9, <2>1, <2>6, <2>7 DEF Ends
  <2>8. CASE ~job[j].began
    <3>1. PICK e : e = [d EXCEPT !.playing = FALSE]
      OBVIOUS
    <3>2. e \in Core
      BY <2>2, <3>1, Asides DEF Aside
    <3>3. SameMarks(d, e) /\ e.streaming = d.streaming /\ e.state = d.state
      BY <2>2, <3>1 DEF Core, SameMarks
    <3>4. Books(job', e, ha)
      BY <2>6, <3>3, SameBooks DEF Asks
    <3>5. PICK f : f = core_pipeline_finish(e)
      OBVIOUS
    <3>6. Mic(e)
      <4>1. Mic(c)
        BY Given
      <4>2. d.local = c.local /\ SameMic(c, d) /\ e.local = d.local /\ SameMic(d, e)
        BY <1>1, <2>1, <2>2, <3>1 DEF Core, SameMic
      <4> QED
        BY <4>1, <4>2 DEF Mic, SameMic
    <3>7. f \in Core /\ Books(job', f, ha)
      BY <1>1, <1>5, <3>2, <3>4, <3>5, <3>6, FinishKeeps, core_pipeline_finish_Effect DEF Calm, Follows
    <3>8. PICK g : g = [f EXCEPT !.busy = FALSE]
      OBVIOUS
    <3>9. SameMarks(f, g) /\ g.streaming = f.streaming /\ g.state = f.state
      BY <3>7, <3>8 DEF Core, SameMarks
    <3>10. Books(job', g, ha)
      BY <3>7, <3>9, SameBooks DEF Asks
    <3> QED
      BY <1>2, <1>9, <2>1, <2>8, <3>1, <3>5, <3>8, <3>10 DEF Ends
  <2> QED
    BY <2>7, <2>8
<1> QED
  BY <1>8, <1>9

LEMMA StoppedKeepsBooks == ASSUME SlotInv, Books(job, c, ha), Stopped PROVE Books(job', c', ha')
<1>1. c \in Core /\ ha \in Report /\ job \in [Job -> Thread] /\ Slot(c)
  BY Given
<1>2. player = "stop" /\ c' = QStop(c) /\ UNCHANGED <<job, ha>>
  BY DEF Stopped
<1>3. c.cur = NoJob
  BY <1>1, <1>2 DEF Slot, Pending
<1>4. Replying(job, c) = {}
  BY <1>3, SessionAssumption DEF Books, Ledger, Replying, NoJob
<1>5. PICK p : p = played(c)
  OBVIOUS
<1>6. p \in Core
  <2>1. p = Fields(p)
    BY <1>1, <1>5 DEF played, Core, Fields
  <2>2. Fields(p) \in Core
    BY <1>1, <1>5 DEF played, Core, Fields
  <2> QED
    BY <2>1, <2>2
<1>7. /\ p.run = c.run /\ p.url = c.url /\ p.cancelled = c.cancelled /\ p.dead = c.dead /\ p.aborted = c.aborted
      /\ p.link = c.link /\ p.streaming = c.streaming /\ p.state = c.state
  BY <1>1, <1>5 DEF played, Core
<1>8. Replying(job, p) = {}
  BY <1>4, <1>7 DEF Replying
<1>9. Books(job, p, ha)
  BY <1>7, <1>8 DEF Books, Ledger, Open, Asks
<1>10. CASE c.wakeCut
  <2>1. PICK q : q = [p EXCEPT !.wakeCut = FALSE]
    OBVIOUS
  <2>2. SameMarks(p, q) /\ q.streaming = p.streaming /\ q.state = p.state
    BY <1>6, <2>1 DEF Core, SameMarks
  <2>3. Books(job, q, ha)
    BY <1>9, <2>2, SameBooks DEF Asks
  <2> QED
    BY <1>2, <1>5, <1>10, <2>1, <2>3 DEF QStop
<1>11. CASE ~c.wakeCut
  BY <1>1, <1>2, <1>5, <1>6, <1>9, <1>11, FinishKeeps DEF QStop
<1> QED
  BY <1>10, <1>11

\* A fetch starts: an announcement's, or the reply of the run reported on.
LEMMA TakesKeeps ==
  ASSUME SlotInv, NEW t \in Core, Slot(t), ~t.busy, NEW h \in Report, Books(job, t, h), FreeJobs # {},
         c' = Takes(t, NewJob), NEW chime, NEW conv, NEW run \in Nat, Fetch(NewJob, chime, conv, run),
         run # 0 => run <= h.run /\ run \notin t.dead /\ ~t.streaming /\ t.expected
  PROVE  Books(job', c', h)
<1>1. job \in [Job -> Thread]
  BY Given
<1>2. PICK n : n = NewJob
  OBVIOUS
<1>3. n \in Job /\ job[n].pc = "free"
  <2>1. n \in FreeJobs
    BY <1>2 DEF NewJob
  <2> QED
    BY <2>1 DEF FreeJobs
<1>4. \A j \in Job \ t.aborted : ~Active(j)
  BY SessionAssumption DEF Slot, NoJob
<1>5. PICK th : th = [Idle EXCEPT !.pc = "look", !.i = IF chime THEN 1 ELSE 2, !.conv = conv, !.run = run]
  OBVIOUS
<1>6. th.run = run
  BY <1>5 DEF Idle
<1>7. job' = [job EXCEPT ![n] = th]
  BY <1>2, <1>5 DEF Fetch
<1>8. job'[n] = th /\ \A k \in Job \ {n} : job'[k] = job[k]
  BY <1>1, <1>3, <1>7
<1>9. PICK u : u = Takes(t, n)
  OBVIOUS
<1>10. /\ u.run = t.run /\ u.url = t.url /\ u.expected = t.expected /\ u.cancelled = t.cancelled /\ u.dead = t.dead
       /\ u.link = t.link /\ u.streaming = t.streaming /\ u.state = t.state /\ u.aborted = t.aborted /\ u.cur = n
  BY <1>9 DEF Takes, Core
<1>11. c' = u
  BY <1>2, <1>9
<1>12. \A k \in Replying(job', u) : k = n /\ job'[k].run = run /\ run # 0
  BY <1>4, <1>6, <1>8, <1>10 DEF Replying, Active
<1>13. Ledger(job', u, h)
  BY <1>10, <1>12 DEF Books, Ledger
<1>14. Open(job', u, h)
  BY <1>10, <1>12 DEF Books, Open, Asks
<1> QED
  BY <1>11, <1>13, <1>14 DEF Books

LEMMA AnnounceKeeps == ASSUME SlotInv, Books(job, c, ha), Announce PROVE Books(job', c', ha')
<1>1. c \in Core /\ Mic(c) /\ Slot(c) /\ Jobs /\ ha \in Report /\ job \in [Job -> Thread]
  BY Given
<1>2. PICK a \in Announcement[c.local] : media_start(a.chime, a.conv)
  BY DEF Announce
<1>3. PICK t : t = IF c.state \in {"LISTENING", "THINKING"} THEN core_pipeline_finish(c) ELSE c
  OBVIOUS
<1>4. Calm(c, t)
  BY <1>1, <1>3, core_pipeline_finish_Effect, Asides, AsideIsCalm
<1>5. t \in Core /\ ~t.busy
  BY <1>2, <1>4 DEF Calm, Follows, SameFetch, LetsGo, media_start
<1>6. Slot(t)
  BY <1>1, <1>4, CalmKeeps DEF Bound
<1>7. Books(job, t, ha)
  BY <1>1, <1>3, FinishKeeps
<1>8. c' = Takes(t, NewJob) /\ Fetch(NewJob, a.chime, a.conv, 0) /\ FreeJobs # {} /\ UNCHANGED ha
  BY <1>2, <1>3 DEF media_start
<1>9. Books(job', c', ha)
  BY <1>1, <1>5, <1>6, <1>7, <1>8, TakesKeeps
<1> QED
  BY <1>8, <1>9

LEMMA LinkKeeps == ASSUME SlotInv, Books(job, c, ha), LinkChanges PROVE Books(job', c', ha')
<1>1. c \in Core /\ ha \in Report /\ job \in [Job -> Thread]
  BY Given
<1>2. PICK to \in {"none", "client", "running"} : to # c.link /\ c' = core_link(to)
  BY DEF LinkChanges
<1>3. PICK h : h = [run |-> c.run, stage |-> 10, streams |-> FALSE, late |-> 0]
  OBVIOUS
<1>4. ha' = h /\ job' = job
  BY <1>3 DEF LinkChanges
<1>5. c.run \in Nat /\ ha.run \in Nat /\ 10 \in 0 .. 10 /\ 0 \in 0 .. InFlight /\ \A j \in Job : job[j].run \in Nat
  BY <1>1, SessionAssumption DEF Core, Report, Thread
<1>6. h \in Report /\ h.run = c.run /\ h.stage = 10 /\ ~h.streams
  BY <1>3, <1>5 DEF Report
<1>7. PICK s : s = [c EXCEPT !.link = to, !.expected = @ /\ ~(c.link = "running" /\ to # "running")]
  OBVIOUS
<1>8. s \in Core
  <2>1. s = Fields(s)
    BY <1>1, <1>7 DEF Core, Fields
  <2>2. Fields(s) \in Core
    BY <1>1, <1>7 DEF Core, Fields
  <2> QED
    BY <2>1, <2>2
<1>9. /\ s.run = c.run /\ s.url = c.url /\ s.cancelled = c.cancelled /\ s.dead = c.dead /\ s.aborted = c.aborted
      /\ s.link = to /\ s.streaming = c.streaming /\ s.state = c.state /\ s.cur = c.cur
  BY <1>1, <1>7 DEF Core
<1>10. Replying(job, s) = Replying(job, c) /\ Replying(job, c) \subseteq Job
  BY <1>9 DEF Replying
<1>11. Ledger(job, s, h)
  BY <1>5, <1>6, <1>9, <1>10 DEF Books, Ledger
<1>12. CASE to # "running"
  <2>1. s.streaming => s.run # 0 /\ \A j \in Replying(job, s) : job[j].run # s.run
    BY <1>9, <1>10 DEF Books, Open
  <2>2. Books(job, core_pipeline_finish(s), h)
    BY <1>1, <1>6, <1>8, <1>11, <2>1, FinishBooks
  <2> QED
    BY <1>2, <1>4, <1>7, <1>12, <2>2 DEF core_link
<1>13. CASE to = "running"
  <2>1. ~c.streaming /\ ~Asks(c)
    BY <1>2, <1>13 DEF Books, Open
  <2>2. Books(job, s, h)
    BY <1>9, <1>11, <2>1 DEF Books, Open, Asks
  <2>3. Books(job, pipeline_start(s), h)
    BY <1>1, <1>6, <1>8, <1>9, <1>11, <1>13, StartBooks
  <2> QED
    BY <1>2, <1>4, <1>7, <1>13, <2>2, <2>3 DEF core_link
<1> QED
  BY <1>12, <1>13

LEMMA RefusedKeeps == ASSUME SlotInv, Books(job, c, ha), Refused PROVE Books(job', c', ha')
<1>1. c \in Core /\ ha \in Report /\ job \in [Job -> Thread]
  BY Given
<1>2. PICK h : h = [run |-> c.run, stage |-> 10, streams |-> FALSE, late |-> 0]
  OBVIOUS
<1>3. ha' = h /\ job' = job /\ c' = core_error(c) /\ ha.run < c.run
  BY <1>2 DEF Refused
<1>4. c.run \in Nat /\ ha.run \in Nat /\ 10 \in 0 .. 10 /\ 0 \in 0 .. InFlight /\ \A j \in Job : job[j].run \in Nat
  BY <1>1, SessionAssumption DEF Core, Report, Thread
<1>5. h \in Report /\ h.run = c.run /\ h.stage = 10 /\ ~h.streams
  BY <1>2, <1>4 DEF Report
<1>6. \A j \in Replying(job, c) : j \in Job /\ job[j].run <= ha.run
  BY DEF Books, Ledger, Replying
<1>7. \A j \in Replying(job, c) : job[j].run <= c.run /\ job[j].run # c.run
  BY <1>3, <1>4, <1>6
<1>8. Books(job, c, h)
  BY <1>4, <1>5, <1>7 DEF Books, Ledger, Open
<1> QED
  BY <1>1, <1>3, <1>5, <1>8, CoreErrorKeeps

\* The events of the run reported on; h is the report that has reached the event.
LEMMA OnEventKeeps ==
  ASSUME NEW w \in [Job -> Thread], NEW h \in Report, NEW s \in Core, Mic(s), s.link = "running", Ledger(w, s, h),
         NEW e \in DOMAIN Order, NEW d, h.stage = Order[e], e = "ERROR" => s.cancelled = 0,
         e # "RUN_END" => Open(w, s, h),
         s.streaming => s.run # 0 /\ \A j \in Replying(w, s) : w[j].run # s.run,
         s.expected \/ s.state = "SPEAKING" => Open(w, s, h)
  PROVE  Books(w, on_event(s, e, d), h)
<1>1. CASE e = "RUN_END"
  BY <1>1, OnRunEndKeeps DEF on_event
<1>2. CASE e = "ERROR"
  <2>1. h.stage = 9
    BY <1>2 DEF Order
  <2> QED
    BY <1>2, <2>1, OnErrorKeeps DEF on_event, Books
<1>3. CASE e \notin {"RUN_END", "ERROR"}
  <2>1. Books(w, s, h)
    BY <1>3 DEF Books
  <2>2. h.stage \in 0 .. 10 /\ h.stage < 9
    BY <1>3 DEF Order
  <2>3. s.run # 0 /\ \A j \in Replying(w, s) : w[j].run = s.run => s.expected
    BY <2>2 DEF Ledger
  <2>4. PICK t : t = [s EXCEPT !.state = "LISTENING"]
    OBVIOUS
  <2>5. SameMarks(s, t) /\ t.streaming = s.streaming
    BY <2>4 DEF Core, SameMarks
  <2>6. Replying(w, t) = Replying(w, s)
    BY <2>5 DEF SameMarks, Replying
  <2>7. Open(w, t, h)
    BY <2>1, <2>3, <2>5, <2>6 DEF SameMarks, Books, Open
  <2>8. Books(w, [s EXCEPT !.state = "LISTENING"], h)
    BY <2>4, <2>5, <2>7, SameLedger DEF Books
  <2>9. Books(w, quiet_cancel(s), h) /\ Books(w, said_stop(s), h)
    BY <2>3, GivingUpKeeps
  <2>10. Books(w, Think(s), h) /\ Books(w, core_remote_wake(s), h) /\ Books(w, [s EXCEPT !.barge = TRUE], h)
    BY <2>1, ThinkKeeps, RemoteWakeKeeps, Unmarked
  <2> QED
    BY <1>3, <2>1, <2>8, <2>9, <2>10 DEF on_event
<1> QED
  BY <1>1, <1>2, <1>3

\* What on_event makes of an event, once Home Assistant's report has reached it.
\* The reply that starts is one of a run nobody cancelled: two events in flight
\* do not bring a cancelled run to its reply.
LEMMA ArrivesKeeps ==
  ASSUME SlotInv, InFlight <= 2, c.link = "running", NEW h \in Report, NEW r \in Nat, NEW e \in DOMAIN Order,
         NEW d \in Says(e), Arrives(r, e, d), h.run = r, h.stage = Order[e], e = "INTENT_PROGRESS" => h.streams,
         NEW s, s = IF e = "TTS_END" \/ d = "url" THEN [c EXCEPT !.url = r] ELSE c,
         Ledger(job, s, h), Open(job, s, h) \/ (e = "RUN_END" /\ c.cancelled = 0 /\ ~c.expected /\ c.state # "SPEAKING"),
         c.streaming => c.run # 0 /\ \A j \in Replying(job, c) : job[j].run # c.run
  PROVE  Books(job', c', h)
<1>1. c \in Core /\ Mic(c) /\ Slot(c) /\ Jobs /\ job \in [Job -> Thread]
  BY Given
<1>2. s \in Core /\ Calm(c, s) /\ Mic(s)
  <2>1. Aside(c, s)
    BY <1>1, Asides
  <2> QED
    BY <1>1, <2>1, AsideIsCalm DEF Calm, Follows
<1>3. /\ s.run = c.run /\ s.expected = c.expected /\ s.cancelled = c.cancelled /\ s.dead = c.dead /\ s.aborted = c.aborted
      /\ s.link = c.link /\ s.streaming = c.streaming /\ s.state = c.state /\ s.cur = c.cur
      /\ e = "TTS_END" => s.url = r
  BY <1>1 DEF Core
<1>4. Replying(job, s) = Replying(job, c)
  BY <1>3 DEF Replying
<1>5. CASE Dropped(s, e)
  <2>1. c' = s /\ job' = job
    BY <1>5 DEF Arrives
  <2>2. s.cancelled # 0
    BY <1>5 DEF Dropped
  <2> QED
    BY <1>3, <2>1, <2>2 DEF Books
<1>6. CASE ~Dropped(s, e)
  <2>1. PICK t : t = Heeded(s, e)
    OBVIOUS
  <2>2. t \in Core /\ Calm(s, t) /\ Mic(t)
    <3>1. 0 \in 0 .. 2
      OBVIOUS
    <3>2. \A n \in 0 .. 2 : Aside(s, [s EXCEPT !.cancelled = n])
      BY <1>2, Asides
    <3>3. Aside(s, [s EXCEPT !.cancelled = 0]) /\ Aside(s, s)
      BY <1>2, <3>1, <3>2, Asides, Zenon
    <3>4. Aside(s, t)
      BY <2>1, <3>3 DEF Heeded
    <3> QED
      BY <1>2, <3>4, AsideIsCalm DEF Calm, Follows
  <2>3. /\ t.run = s.run /\ t.url = s.url /\ t.expected = s.expected /\ t.dead = s.dead /\ t.aborted = s.aborted
        /\ t.link = s.link /\ t.streaming = s.streaming /\ t.state = s.state /\ t.cur = s.cur
        /\ t.cancelled = IF e \in {"RUN_START", "ERROR"} THEN 0 ELSE s.cancelled
    BY <1>2, <2>1 DEF Heeded, Core
  <2>4. t.cancelled = 0 /\ s.cancelled # 1
    <3>1. s.cancelled \in 0 .. 2
      BY <1>2 DEF Core
    <3> QED
      BY <1>6, <2>3, <3>1 DEF Dropped
  <2>5. Replying(job, t) = Replying(job, s)
    BY <2>3 DEF Replying
  <2>6. h.late \in Nat /\ h.late <= 2 /\ h.stage \in 0 .. 10
    BY SessionAssumption DEF Report
  <2>7. s.cancelled = 0 \/ h.stage = 1 \/ h.stage = 9
    BY <2>3, <2>4 DEF Order
  <2>8. Ledger(job, t, h)
    BY <2>3, <2>4, <2>5, <2>6, <2>7 DEF Ledger
  <2>9. Open(job, s, h) => Open(job, t, h)
    BY <2>3, <2>4, <2>5 DEF Open, Asks
  <2>10. CASE ~StartsReply(t, e)
    <3>1. c' = on_event(t, e, d) /\ job' = job
      BY <1>6, <2>1, <2>10 DEF Arrives
    <3>2. t.streaming => t.run # 0 /\ \A j \in Replying(job, t) : job[j].run # t.run
      BY <1>3, <1>4, <2>3, <2>5
    <3>3. (e # "RUN_END" => Open(job, t, h)) /\ (t.expected \/ t.state = "SPEAKING" => Open(job, t, h))
      BY <1>3, <2>3, <2>9
    <3>4. Books(job, on_event(t, e, d), h)
      BY <1>1, <1>3, <2>2, <2>3, <2>4, <2>8, <3>2, <3>3, OnEventKeeps
    <3> QED
      BY <3>1, <3>4
  <2>11. CASE StartsReply(t, e)
    <3>1. /\ e \in {"TTS_END", "INTENT_PROGRESS"} /\ t.url # 0 /\ h.stage < 9 /\ h.stage > 5
      BY <2>11 DEF StartsReply, Order
    <3>2. t.url = h.run /\ h.run \in Nat
      BY <1>3, <2>3, <2>8, <3>1 DEF Ledger, Report
    <3>3. h.run \notin t.dead
      BY <2>4, <2>6, <2>8, <3>1 DEF Ledger
    <3>4. PICK v : v = [t EXCEPT !.expected = TRUE]
      OBVIOUS
    <3>5. PICK u : u = core_mic_off(v)
      OBVIOUS
    <3>6. v \in Core /\ Mic(v) /\ Calm(t, v)
      BY <2>2, <3>4, Asides, AsideIsCalm DEF Calm, Follows
    <3>7. Calm(v, u) /\ u \in Core
      BY <3>5, <3>6, core_mic_off_Effect DEF Calm, Follows
    <3>8. Calm(c, u)
      BY <1>1, <1>2, <2>2, <3>6, <3>7, CalmTwice
    <3>9. /\ v.run = t.run /\ v.url = t.url /\ v.expected /\ v.dead = t.dead /\ v.aborted = t.aborted
          /\ v.link = t.link /\ v.state = t.state /\ v.cur = t.cur /\ v.cancelled = t.cancelled
      BY <2>2, <3>4 DEF Core
    <3>10. SameMarks(v, u) /\ ~u.streaming /\ u.state = v.state
      BY <3>5, <3>6 DEF core_mic_off, Core, SameMarks
    <3>11. Replying(job, u) = Replying(job, t)
      BY <3>9, <3>10 DEF Replying, SameMarks
    <3>12. Ledger(job, u, h)
      BY <2>8, <3>9, <3>10, <3>11 DEF Ledger, SameMarks
    <3>13. Open(job, t, h)
      BY <2>9, <3>1
    <3>14. Open(job, u, h)
      BY <3>9, <3>10, <3>11, <3>13 DEF Open, SameMarks, Asks
    <3>15. \/ c' = u /\ job' = job
           \/ ~u.busy /\ FreeJobs # {} /\ c' = Takes(u, NewJob) /\ Fetch(NewJob, FALSE, FALSE, u.url)
      BY <1>6, <2>1, <2>11, <3>4, <3>5 DEF Arrives
    <3>16. CASE c' = u /\ job' = job
      BY <3>12, <3>14, <3>16 DEF Books
    <3>17. CASE ~u.busy /\ FreeJobs # {} /\ c' = Takes(u, NewJob) /\ Fetch(NewJob, FALSE, FALSE, u.url)
      <4>1. Slot(u)
        BY <1>1, <3>8, CalmKeeps DEF Bound
      <4>2. u.url \in Nat /\ u.url <= h.run /\ u.url \notin u.dead /\ u.expected
        BY <3>2, <3>3, <3>9, <3>10 DEF SameMarks
      <4>3. Books(job, u, h)
        BY <3>12, <3>14 DEF Books
      <4> QED
        BY <3>7, <3>10, <3>17, <4>1, <4>2, <4>3, TakesKeeps
    <3> QED
      BY <3>15, <3>16, <3>17
  <2> QED
    BY <2>10, <2>11
<1> QED
  BY <1>5, <1>6

\* Up to its transcript a run comes on by two stages at most with an event.
LEMMA Pace ==
  ASSUME NEW e \in DOMAIN Order, NEW n \in 1 .. 3, n >= Needs[e], Order[e] > n, Order[e] < 9 PROVE Order[e] <= n + 2
<1>1. e \in {"RUN_START", "WAKE_END", "STT_START", "VAD_END", "STT_END", "INTENT_PROGRESS", "INTENT_END", "TTS_END",
             "ERROR", "RUN_END"}
  BY DEF Order
<1> QED
  BY <1>1 DEF Order, Needs

LEMMA ReportsKeep ==
  ASSUME SlotInv, InFlight <= 2, Books(job, c, ha), ha' \in Report, Reports PROVE Books(job', c', ha')
<1>1. c \in Core /\ ha \in Report /\ c.link = "running" /\ c.run \in Nat /\ ha.run \in Nat /\ ha.stage \in 0 .. 10
      /\ ha.late \in Nat /\ ha.late <= 2 /\ InFlight \in Nat
  BY Given, SessionAssumption DEF Reports, Core, Report
<1>2. PICK e \in DOMAIN Order :
        /\ Order[e] > ha.stage /\ ha.stage >= Needs[e] /\ ha.stage > 0
        /\ e = "INTENT_PROGRESS" => ha.streams
        /\ Late => ha.late < InFlight
        /\ ha' = [ha EXCEPT !.stage = Order[e], !.late = IF Late THEN @ + 1 ELSE 0]
        /\ \E d \in Says(e) : Arrives(ha.run, e, d)
  BY DEF Reports
<1>3. PICK d \in Says(e) : Arrives(ha.run, e, d)
  BY <1>2
<1>4. ha'.run = ha.run /\ ha'.stage = Order[e] /\ ha'.streams = ha.streams /\ (Late => ha'.late = ha.late + 1)
  BY <1>1, <1>2, <1>3 DEF Report
<1>5. Order[e] \in 0 .. 10 /\ (Order[e] = 10 => e = "RUN_END")
  BY DEF Order
<1>6. PICK s : s = IF e = "TTS_END" \/ d = "url" THEN [c EXCEPT !.url = ha.run] ELSE c
  OBVIOUS
<1>7. /\ s.run = c.run /\ s.expected = c.expected /\ s.cancelled = c.cancelled /\ s.dead = c.dead /\ s.aborted = c.aborted
      /\ s.link = c.link /\ s.streaming = c.streaming /\ s.state = c.state /\ s.cur = c.cur
      /\ s.url = ha.run \/ s.url = c.url
  BY <1>1, <1>6 DEF Core
<1>8. Replying(job, s) = Replying(job, c)
  BY <1>7 DEF Replying
<1>9. ASSUME c.cancelled = 0, ha.run \in c.dead, Order[e] < 9 PROVE Order[e] <= 1 + 2 * ha'.late
  <2>1. ha.run < c.run /\ ha.stage <= 1 + 2 * ha.late
    BY <1>1, <1>2, <1>3, <1>5, <1>9 DEF Books, Ledger
  <2>2. ha'.late = ha.late + 1 /\ ha.late <= 1
    BY <1>1, <1>2, <1>3, <1>4, <2>1 DEF Late
  <2>3. ha.stage \in 1 .. 3
    BY <1>1, <1>2, <1>3, <2>1, <2>2
  <2>4. Order[e] <= ha.stage + 2
    BY <1>2, <1>3, <1>9, <2>3, Pace
  <2> QED
    BY <1>1, <1>5, <2>1, <2>2, <2>4
<1>10. c.run # 0 /\ (ha.stage >= 9 => Order[e] = 10)
  BY <1>1, <1>2, <1>3, <1>5 DEF Books, Ledger
<1>11. Ledger(job, s, ha')
  BY <1>1, <1>4, <1>5, <1>7, <1>8, <1>9, <1>10 DEF Books, Ledger
<1>12. ASSUME ~(e = "RUN_END" /\ c.cancelled = 0 /\ ~c.expected /\ c.state # "SPEAKING") PROVE Open(job, s, ha')
  <2>1. ASSUME NEW j \in Replying(job, c), job[j].run = c.run PROVE
          ~c.streaming /\ (~c.expected /\ (ha'.stage = 10 \/ c.cancelled # 0) => ~Asks(c))
    <3>1. ~c.expected => ha.stage >= 9
      BY <2>1 DEF Books, Ledger
    <3>2. ~c.streaming /\ (~c.expected /\ c.cancelled # 0 => ~Asks(c))
      BY <2>1 DEF Books, Open
    <3> QED
      BY <1>5, <1>10, <1>12, <3>1, <3>2 DEF Asks
  <2> QED
    BY <1>7, <1>8, <2>1 DEF Books, Open, Asks
<1>13. c.streaming => c.run # 0 /\ \A j \in Replying(job, c) : job[j].run # c.run
  BY DEF Books, Open
<1>14. e = "INTENT_PROGRESS" => ha'.streams
  BY <1>2, <1>4
<1>15. Open(job, s, ha') \/ (e = "RUN_END" /\ c.cancelled = 0 /\ ~c.expected /\ c.state # "SPEAKING")
  BY <1>12
<1> QED
  BY <1>1, <1>3, <1>4, <1>6, <1>11, <1>13, <1>14, <1>15, ArrivesKeeps

LEMMA BeginsKeeps ==
  ASSUME SlotInv, InFlight <= 2, Books(job, c, ha), ha' \in Report, Begins PROVE Books(job', c', ha')
<1>1. c \in Core /\ ha \in Report /\ c.link = "running" /\ c.run \in Nat /\ ha.run \in Nat
      /\ \A j \in Job : job[j].run \in Nat
  BY Given DEF Begins, Core, Report, Thread
<1>2. PICK r \in ha.run + 1 .. c.run, e \in {"RUN_START", "ERROR"} :
         \E d \in Says(e) : /\ ha' = [run |-> r, stage |-> Order[e], streams |-> d = "url", late |-> 0]
                            /\ Arrives(r, e, d)
  BY DEF Begins
<1>3. PICK d \in Says(e) : /\ ha' = [run |-> r, stage |-> Order[e], streams |-> d = "url", late |-> 0]
                           /\ Arrives(r, e, d)
  BY <1>2
<1>4. ha'.run = r /\ ha'.stage = Order[e] /\ (ha'.streams => d = "url") /\ ha'.late = 0
  BY <1>3
<1>5. e \in DOMAIN Order /\ (Order[e] = 1 \/ Order[e] = 9)
  BY DEF Order
<1>6. r \in Nat /\ ha.run < r /\ r <= c.run /\ c.run # 0
  BY <1>1
<1>7. PICK s : s = IF e = "TTS_END" \/ d = "url" THEN [c EXCEPT !.url = r] ELSE c
  OBVIOUS
<1>8. /\ s.run = c.run /\ s.expected = c.expected /\ s.cancelled = c.cancelled /\ s.dead = c.dead /\ s.aborted = c.aborted
      /\ s.link = c.link /\ s.streaming = c.streaming /\ s.state = c.state /\ s.cur = c.cur
      /\ d = "url" => s.url = r
  BY <1>1, <1>7 DEF Core
<1>9. Replying(job, s) = Replying(job, c) /\ Replying(job, c) \subseteq Job
  BY <1>8 DEF Replying
<1>10. \A j \in Replying(job, c) : job[j].run <= r /\ job[j].run # c.run /\ j = c.cur /\ job[j].run \notin c.dead
  BY <1>1, <1>6, <1>9 DEF Books, Ledger
<1>11. Ledger(job, s, ha')
  BY <1>4, <1>5, <1>6, <1>8, <1>9, <1>10 DEF Books, Ledger
<1>12. Open(job, s, ha')
  BY <1>8, <1>9, <1>10 DEF Books, Open, Asks
<1>13. c.streaming => c.run # 0 /\ \A j \in Replying(job, c) : job[j].run # c.run
  BY DEF Books, Open
<1>14. e # "INTENT_PROGRESS"
  OBVIOUS
<1> QED
  BY <1>1, <1>3, <1>4, <1>5, <1>6, <1>7, <1>11, <1>12, <1>13, <1>14, ArrivesKeeps

LEMMA BooksStep ==
  ASSUME InFlight <= 2, SlotInv, SlotInv', Books(job, c, ha), [Next]_vars PROVE Books(job, c, ha)'
<1>1. ha' \in Report
  BY DEF SlotInv, TypeOK, Report
<1>2. UNCHANGED vars \/ PopStop => Books(job', c', ha')
  BY DEF vars, PopStop
<1>3. ASSUME NEW j \in Job, MediaThread(j) PROVE Books(job', c', ha')
  BY <1>3, FetchKeeps, BeginKeeps, OverKeepsBooks DEF MediaThread
<1>4. Books(job', c', ha')
  BY <1>1, <1>2, <1>3, TriggerKeeps, TalkKeeps, LinkKeeps, AnnounceKeeps, ReportsKeep, BeginsKeeps, RefusedKeeps,
     StoppedKeepsBooks DEF Next, Environment, Daemon, Playback
<1> QED
  BY <1>4 DEF Books, Ledger, Open, Replying, Asks

LEMMA InitBooks == Init => Books(job, c, ha)
<1> SUFFICES ASSUME Init PROVE Books(job, c, ha)
  OBVIOUS
<1>1. job = [j \in Job |-> Idle] /\ ha = [run |-> 0, stage |-> 10, streams |-> FALSE, late |-> 0]
  BY DEF Init
<1>2. c.state = "IDLE" /\ ~c.streaming /\ c.run = 0 /\ c.dead = {}
  BY DEF Init
<1>3. Replying(job, c) = {}
  BY <1>1 DEF Replying, Idle
<1> QED
  BY <1>1, <1>2, <1>3 DEF Books, Ledger, Open, Asks

\* Audio begins only where no cancelled run replies.
LEMMA BegunIsAlive ==
  ASSUME SlotInv, Books(job, c, ha), [Next]_vars
  PROVE  \A j \in Job : ~job[j].began /\ job'[j].began => job[j].run \notin c.dead
<1> SUFFICES ASSUME NEW j \in Job, ~job[j].began, job'[j].began PROVE job[j].run \notin c.dead
  OBVIOUS
<1>1. job \in [Job -> Thread] /\ ~Idle.began
  BY Given, IdleThread
<1>2. CASE job[j].run = 0
  BY <1>2 DEF Books, Ledger
<1>3. CASE tts_begin(j) /\ job[j].run # 0
  <2>1. job[j].pc = "get"
    BY <1>3 DEF tts_begin
  <2>2. j \notin c.aborted
    <3>1. ASSUME j \in c.aborted PROVE FALSE
      <4>1. job' = [job EXCEPT ![j] = NextUrl(job[j])]
        BY <1>3, <3>1 DEF tts_begin
      <4>2. job'[j].began = job[j].began
        BY <1>1, <4>1, UrlThread
      <4> QED
        BY <4>2
    <3> QED
      BY <3>1
  <2>3. j \in Replying(job, c)
    BY <1>3, <2>1, <2>2 DEF Replying
  <2> QED
    BY <2>3 DEF Books, Ledger
<1>4. ASSUME NEW k \in Job, MediaThread(k) PROVE k = j /\ tts_begin(j)
  <2>1. CASE k # j
    <3>1. job'[j] = job[j]
      BY <1>1, <1>4, <2>1 DEF MediaThread, LooksAtUrl, NoAudio, tts_begin, Fed, Over, core_tts_end
    <3> QED
      BY <3>1
  <2>2. CASE k = j
    <3>1. job[j] \in Thread /\ NextUrl(job[j]).began = job[j].began /\ NextUrl(job[j]) \in Thread
      BY <1>1, UrlThread
    <3>2. ~LooksAtUrl(j)
      <4>1. LooksAtUrl(j) => job'[j] = IF c.flush THEN NextUrl(job[j]) ELSE [job[j] EXCEPT !.pc = "get"]
        BY <1>1 DEF LooksAtUrl
      <4>2. [job[j] EXCEPT !.pc = "get"].began = job[j].began
        BY <3>1 DEF Thread
      <4> QED
        BY <3>1, <4>1, <4>2
    <3>3. ~NoAudio(j)
      BY <1>1, <3>1 DEF NoAudio
    <3>4. ~Fed(j) /\ ~(core_tts_end(j))
      <4>1. Jobs
        BY Given
      <4> QED
        BY <4>1 DEF Jobs, Fed, core_tts_end
    <3>5. ~Over(j)
      BY <1>1 DEF Over
    <3> QED
      BY <1>4, <2>2, <3>2, <3>3, <3>4, <3>5 DEF MediaThread
  <2> QED
    BY <2>1, <2>2
<1>5. ASSUME Starts PROVE FALSE
  <2>1. PICK chime \in BOOLEAN, conv \in BOOLEAN, run \in Nat : Fetch(NewJob, chime, conv, run)
    BY <1>5 DEF Starts
  <2>2. job' = [job EXCEPT ![NewJob] = [Idle EXCEPT !.pc = "look", !.i = IF chime THEN 1 ELSE 2,
                                                    !.conv = conv, !.run = run]]
    BY <2>1 DEF Fetch
  <2>3. ~[Idle EXCEPT !.pc = "look", !.i = IF chime THEN 1 ELSE 2, !.conv = conv, !.run = run].began
    BY DEF Idle
  <2> QED
    BY <1>1, <2>2, <2>3
<1>6. Calms \/ Cuts \/ WakeCuts \/ Starts \/ PopStop \/ Stopped \/ \E k \in Job : MediaThread(k)
  BY Kinds DEF SlotInv
<1>7. ~(Calms \/ Cuts \/ WakeCuts \/ PopStop \/ Stopped)
  BY DEF Calms, Cuts, WakeCuts, PopStop, Stopped
<1> QED
  BY <1>2, <1>3, <1>4, <1>5, <1>6, <1>7

(***************************************************************************)
(* The theorems                                                            *)
(***************************************************************************)

LEMMA InitHolds == Init => SlotInv /\ SpeakInv /\ Flushes(c)
<1> SUFFICES ASSUME Init PROVE SlotInv /\ SpeakInv /\ Flushes(c)
  OBVIOUS
<1>1. /\ job = [j \in Job |-> Idle] /\ queue = 0 /\ player = "pop"
      /\ ha = [run |-> 0, stage |-> 10, streams |-> FALSE, late |-> 0]
  BY DEF Init
<1>2. PICK l \in BOOLEAN :
        c = [local |-> l, link |-> "none", muted |-> FALSE, state |-> "IDLE", streaming |-> FALSE,
             flush |-> FALSE, barge |-> FALSE, runOver |-> FALSE, wakeWait |-> FALSE,
             wakeCut |-> FALSE, fails |-> 0, quiet |-> FALSE, cancelled |-> 0, expected |-> FALSE,
             url |-> 0, busy |-> FALSE, playing |-> FALSE, cur |-> NoJob, aborted |-> {},
             run |-> 0, told |-> FALSE, dead |-> {}, letGo |-> FALSE]
  BY DEF Init
<1>3. 0 \in 0 .. WAKE_FAILS_MAX /\ 0 \in 0 .. 2 /\ 0 \in 0 .. InFlight /\ 10 \in 0 .. 10
  BY SessionAssumption
<1>4. c \in Core
  BY <1>2, <1>3 DEF Core
<1>5. /\ c.state = "IDLE" /\ ~c.streaming /\ ~c.flush /\ ~c.wakeWait /\ ~c.wakeCut /\ ~c.busy /\ c.cur = NoJob
      /\ c.aborted = {} /\ c.run = 0
  BY <1>2
<1>6. job \in [Job -> Thread] /\ \A j \in Job : job[j] = Idle
  BY <1>1, IdleThread
<1>7. ha \in Report /\ ha.run = 0
  BY <1>1, <1>3 DEF Report
<1>8. TypeOK
  BY <1>1, <1>4, <1>5, <1>6, <1>7 DEF TypeOK, Report
<1>9. Sending = {} /\ ~Pending /\ Jobs /\ OnePending
  BY <1>1, <1>6, IdleThread DEF Sending, Pending, Jobs, OnePending
<1>10. Slot(c)
  BY <1>5, <1>6, <1>9, IdleThread DEF Slot, Active
<1>11. Plain(c)
  BY <1>6, IdleThread DEF Plain
<1> QED
  BY <1>5, <1>8, <1>9, <1>10, <1>11 DEF SlotInv, SpeakInv, Mic, Speaks, Cut, Flushes

LEMMA SlotStep == SlotInv /\ [Next]_vars => SlotInv'
<1> SUFFICES ASSUME SlotInv, [Next]_vars PROVE SlotInv'
  OBVIOUS
<1>1. Kept
  BY KeptStep
<1>2. /\ c' \in Core /\ Mic(c)' /\ Slot(c)' /\ job' \in [Job -> Thread] /\ Jobs' /\ OnePending' /\ queue' \in Nat
      /\ player' \in {"pop", "stop"} /\ c.run <= c'.run
  BY <1>1 DEF Kept, Bound
<1>3. ha' \in Report /\ ha'.run <= c'.run
  BY <1>2, HaStep
<1> QED
  BY <1>2, <1>3 DEF SlotInv, TypeOK, Report

LEMMA SpeakStep == ASSUME NoChimes PROVE SlotInv /\ SpeakInv /\ [Next]_vars => SpeakInv'
BY KeptStep DEF Kept

LEMMA FlushStep ==
  ASSUME NoChimes, ~EarlyStop PROVE SlotInv /\ SpeakInv /\ Flushes(c) /\ [Next]_vars => Flushes(c)'
BY KeptStep DEF Kept

\* The bookkeeping of the session holds whatever the fetch threads, the playback
\* thread, the talker and Home Assistant do: the one fetch slot, the one Q_STOP
\* and the microphone belong together as SlotInv says.
THEOREM Bookkeeping == Spec => []SlotInv
<1>1. Init => SlotInv
  BY InitHolds
<1>2. SlotInv /\ [Next]_vars => SlotInv'
  BY SlotStep
<1> QED
  BY <1>1, <1>2, PTL DEF Spec

\* The fields of core_lock, the threads and Home Assistant's reports keep their
\* types: no wake_fails past its limit, no report of a run never asked for.
THEOREM TypeCorrect == Spec => []TypeOK
<1>1. SlotInv => TypeOK
  BY DEF SlotInv
<1> QED
  BY <1>1, Bookkeeping, PTL

\* The microphone goes out only while the ring says so, in core_mic_off,
\* wake_listen and every handler that ends a run, for any number of runs and
\* failed ones.
THEOREM MicHolds == Spec => []MicOnlyWhenListening
<1>1. SlotInv => MicOnlyWhenListening
  BY DEF SlotInv, Mic, MicOnlyWhenListening
<1> QED
  BY <1>1, Bookkeeping, PTL

LEMMA BusyIsHeld == SlotInv => SlotFreed
<1> SUFFICES ASSUME SlotInv, c.busy PROVE StopComing \/ Fetching
  BY DEF SlotFreed
<1>1. Slot(c) /\ Jobs /\ c.cur \in Job \cup {NoJob}
  BY DEF SlotInv, TypeOK, Core
<1>2. CASE c.cur # NoJob
  BY <1>1, <1>2 DEF Slot, Active, Fetching
<1>3. CASE Pending
  <2>1. ASSUME NEW j \in Sending PROVE j \in Job \ c.aborted /\ job[j].pc # "free"
    BY <1>1 DEF Sending, Slot, Active
  <2> QED
    BY <1>3, <2>1 DEF Pending, StopComing, Fetching
<1> QED
  BY <1>1, <1>2, <1>3 DEF Slot

\* media_busy never outlives its fetch: while it is set a fetch that counts runs
\* or its Q_STOP is on its way, whichever thread was let go of and when.
THEOREM SlotHolds == Spec => []SlotFreed
BY BusyIsHeld, Bookkeeping, PTL

\* The invariant of the reply: it speaks only with a Q_STOP to come, a cut for
\* Home Assistant's wake word is over.  Where no announcement brings its chime to
\* an Echo without a wake word of its own.
THEOREM Invariant == ASSUME NoChimes PROVE Spec => [](SlotInv /\ SpeakInv)
<1>1. Init => SlotInv /\ SpeakInv
  BY InitHolds
<1>2. SlotInv /\ SpeakInv /\ [Next]_vars => (SlotInv /\ SpeakInv)'
  BY SlotStep, SpeakStep
<1> QED
  BY <1>1, <1>2, PTL DEF Spec

\* SPEAKING always has its end on the way: a begun fetch that nobody let go of,
\* a queued Q_STOP or the playback thread at it.
THEOREM SpeakingHolds == ASSUME NoChimes PROVE Spec => []SpeakingEnds
<1>1. SlotInv /\ SpeakInv => SpeakingEnds
  BY ComingIsStop DEF SlotInv, TypeOK, SpeakInv, Speaks, SpeakingEnds
<1> QED
  BY <1>1, Invariant, PTL

\* wake_cut swallows the Q_STOP of the reply it was set for and no other.
THEOREM WakeCutHolds == ASSUME NoChimes PROVE Spec => []WakeCutEnds
<1>1. SlotInv /\ SpeakInv => WakeCutEnds
  BY ComingIsStop DEF SlotInv, TypeOK, SpeakInv, Cut, WakeCutEnds
<1> QED
  BY <1>1, Invariant, PTL

\* Without the chime nothing is spoken after core_remote_wake cut the reply: the
\* finding of the run SessionCut is the chime's alone.
THEOREM CutListensHolds == ASSUME NoChimes PROVE Spec => []CutListens
<1>1. SlotInv /\ SpeakInv => CutListens
  BY DEF SpeakInv, Cut, CutListens
<1> QED
  BY <1>1, Invariant, PTL

\* flush_playback is taken back: the Q_STOP that does so is on its way or a fetch
\* that may send one runs, where Home Assistant stops its player only once it
\* heard the audio begin.
THEOREM FlushHolds == ASSUME NoChimes, ~EarlyStop PROVE Spec => []FlushEnds
<1>1. Init => SlotInv /\ SpeakInv /\ Flushes(c)
  BY InitHolds
<1>2. SlotInv /\ SpeakInv /\ Flushes(c) /\ [Next]_vars => (SlotInv /\ SpeakInv /\ Flushes(c))'
  BY SlotStep, SpeakStep, FlushStep
<1>3. SlotInv /\ SpeakInv /\ Flushes(c) => FlushEnds
  BY ComingIsStop DEF SlotInv, TypeOK, Flushes, FlushEnds
<1> QED
  BY <1>1, <1>2, <1>3, PTL DEF Spec

\* cancel, the fetch thread's last look (tts_begin) and the events dropped in
\* on_event together: the reply of a cancelled run never starts to play, for any
\* number of threads and runs and wherever the fetch was.  Where no more than two
\* further events of a run arrive once it was aborted or replaced: a third could be
\* the one that starts the reply, when the RUN_START of the cancelled run itself
\* arrived late and was taken for the newer run's.
THEOREM NoCancelledReplyHolds == ASSUME InFlight <= 2 PROVE Spec => NoCancelledReply
<1>1. Init => SlotInv /\ Books(job, c, ha)
  BY InitHolds, InitBooks
<1>2. SlotInv /\ Books(job, c, ha) /\ [Next]_vars => (SlotInv /\ Books(job, c, ha))'
  BY SlotStep, BooksStep
<1>3. SlotInv /\ Books(job, c, ha) /\ [Next]_vars
        => [\A j \in Job : ~job[j].began /\ job'[j].began => job[j].run \notin c.dead]_vars
  BY BegunIsAlive
<1> QED
  BY <1>1, <1>2, <1>3, PTL DEF Spec, NoCancelledReply

=============================================================================
