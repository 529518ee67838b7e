------------------------------- MODULE Screen -------------------------------
(***************************************************************************)
(* The screen's UI process and its supervisor (screen.c).  The rest of the *)
(* program changes what the UI is to show under the lock: the ring's       *)
(* patterns, the music, the cover, the home app, the band's picture.  One  *)
(* writer starts the UI, sends it what is unsent, pings it, stops one that *)
(* hangs or never comes up, starts it again, and gives it up for good when *)
(* it never stays.  A reader per UI takes its lines; two threads do its    *)
(* commands.  Every UI has a generation; one let go of says nothing more.  *)
(*                                                                         *)
(* A counter pair (gen, sent) is the membership of `unsent'.  Times are    *)
(* the flag `late': the time given to come up, or to answer a ping, is     *)
(* over.  What the core is asked every second (mute, volume, timers ...)   *)
(* is the one item "core", read at every round.                            *)
(***************************************************************************)
EXTENDS Integers, Sequences, FiniteSets, SequencesExt

CONSTANTS Pats,          \* names of patterns
          NPat,          \* how many of them are kept
          Vals,          \* what an item can say; 0 is its empty value
          Changing,      \* the items the program changes
          Rows,          \* heights of the band
          GiveUp,        \* starts in a row before the UI is given up
          HungMax,       \* UIs that came up and hung before it is given up
          FifoMax,       \* Music Assistant's lines waiting, at most
          CmdQ,          \* commands waiting in each queue, at most
          MaxCalls,      \* bound on the program's calls
          MaxSays,       \* bound on the UI's commands
          MaxFaults      \* bound on UIs that fail, and on new heights

VARIABLES pat,           \* [known, on, told, came]: the patterns kept
          item,          \* what each item says now
          music,         \* a player's data is there
          unsent,        \* patterns and items changed since they were sent
          fifo,          \* Music Assistant's lines for the UI
          cq,            \* the commands waiting, by queue: the UI that asked
          uiGen, uiDead, uiUp,
          width, pong,   \* the UI's "ready" and last "pong", with whose they are
          mark,          \* root's marker file names this process
          gaveUp,
          rows,          \* the band's height wanted now
          wr,            \* the writer
          ui,            \* the UI process that runs, and what it shows
          pipe,          \* each UI's output, not yet read
          merged,        \* what a player that went between two rounds left shown
          calls, says, faults

svars == <<pat, item, music, unsent, fifo, cq, uiGen, uiDead, uiUp, width, pong, mark,
           gaveUp, rows, wr, ui, pipe, merged, calls, says, faults>>
core  == <<pat, item, music, unsent, merged>>
proc  == <<uiGen, uiDead, uiUp, width, pong, mark, gaveUp, ui, pipe>>

Players == {"meta", "ctl"}        \* the title; the controller and the progress
Items   == Players \cup {"art", "home", "band", "core"}
Blank   == [shown |-> {}, says |-> [i \in Items |-> 0]]

NoUi == [gen |-> 0, alive |-> FALSE, hung |-> FALSE, ready |-> FALSE, ping |-> 0, has |-> Blank]

SInit ==
    /\ pat = [known |-> {}, on |-> {}, told |-> {}, came |-> {}]
    /\ item = [i \in Items |-> 0]
    /\ music = FALSE
    /\ unsent = {}
    /\ fifo = 0 /\ cq = <<<<>>, <<>>>>
    /\ uiGen = 0 /\ uiDead = 0 /\ uiUp = FALSE
    /\ width = 0 /\ pong = [of |-> 0, n |-> 0]
    /\ mark = TRUE /\ gaveUp = FALSE
    /\ rows \in Rows
    /\ wr = [at |-> "top", in |-> FALSE, band |-> 0, fails |-> 0, hungs |-> 0, ready |-> FALSE,
             ping |-> 0, asks |-> FALSE, late |-> FALSE, batch |-> Blank]
    /\ ui = NoUi /\ pipe = <<>>
    /\ merged = {}
    /\ calls = 0 /\ says = 0 /\ faults = 0

(* ------------------------- the program's calls ------------------------- *)

Call == /\ calls < MaxCalls
        /\ calls' = calls + 1
        /\ UNCHANGED <<cq, proc, rows, wr, says, faults>>

\* A pattern switched on or off; one more than NPat is not for the UI, nor is
\* one switched off that is not on.
screen_led(p, on) ==
    /\ Call
    /\ LET known == IF Cardinality(pat.known) < NPat THEN pat.known \cup {p} ELSE pat.known
           takes == p \in known /\ (on \/ p \in pat.on)
       IN  /\ pat' = [known |-> known,
                      on    |-> IF takes THEN (IF on THEN pat.on \cup {p} ELSE pat.on \ {p})
                                ELSE pat.on,
                      told  |-> pat.told,
                      came  |-> IF takes /\ on THEN pat.came \cup {p} ELSE pat.came]
           /\ unsent' = IF takes THEN unsent \cup {p} ELSE unsent
    /\ UNCHANGED <<item, music, fifo, merged>>

\* A player's title, its controller and progress.
screen_music(i, v) ==
    /\ Call
    /\ item' = [item EXCEPT ![i] = v]
    /\ music' = TRUE
    /\ unsent' = unsent \cup {i}
    /\ UNCHANGED <<pat, fifo, merged>>

Becomes(i, v) ==
    /\ Call
    /\ item' = [item EXCEPT ![i] = v]
    /\ unsent' = unsent \cup {i}
    /\ UNCHANGED <<pat, music, fifo, merged>>

screen_music_art(v) == Becomes("art", v)

\* The band's picture, which draws itself once the UI is given up.
screen_band(v) == ~gaveUp /\ Becomes("band", v)

\* The home app chosen on the page (saved too: it is there again at a start).
screen_set_home(v) == Becomes("home", v)

\* Something of the core's own state changes; the writer looks by itself.
CoreChanges(v) ==
    /\ Call
    /\ item' = [item EXCEPT !["core"] = v]
    /\ UNCHANGED <<pat, music, unsent, fifo, merged>>

\* The player is gone: all of it empty, told as one "mx" and no cover.
screen_music_gone ==
    /\ Call
    /\ music \/ item["art"] # 0
    /\ music' = FALSE
    /\ item' = [item EXCEPT !["meta"] = 0, !["ctl"] = 0, !["art"] = 0]
    /\ unsent' = unsent \cup {"gone", "art"}
    /\ UNCHANGED <<pat, fifo, merged>>

\* A line of Music Assistant's: only for a UI that is up, dropped whole when
\* the UI reads too slowly.
screen_line ==
    /\ Call
    /\ fifo' = IF uiUp /\ fifo < FifoMax THEN fifo + 1 ELSE fifo
    /\ UNCHANGED core

ring_band_rows(r) ==
    /\ faults < MaxFaults
    /\ r # rows
    /\ rows' = r
    /\ faults' = faults + 1
    /\ UNCHANGED <<core, fifo, cq, proc, wr, calls, says>>

(* ------------------------------- the UI -------------------------------- *)

Says(g, line) == pipe' = [pipe EXCEPT ![g].lines = Append(@, line)]

UiOnly == UNCHANGED <<core, fifo, cq, uiGen, uiDead, uiUp, width, pong, mark, gaveUp, rows, wr, calls>>

Works == ui.alive /\ ~ui.hung

UiReady ==
    /\ Works /\ ~ui.ready
    /\ ui' = [ui EXCEPT !.ready = TRUE]
    /\ Says(ui.gen, [say |-> "ready", n |-> 0])
    /\ UiOnly /\ UNCHANGED <<says, faults>>

\* Its main loop answers the ping it read.
UiPong ==
    /\ Works /\ ui.ready /\ ui.ping # 0
    /\ ui' = [ui EXCEPT !.ping = 0]
    /\ Says(ui.gen, [say |-> "pong", n |-> ui.ping])
    /\ UiOnly /\ UNCHANGED <<says, faults>>

\* A touch: a command of the Echo's own (queue 1) or to a server (queue 2).
UiAsks(q) ==
    /\ Works /\ ui.ready /\ says < MaxSays
    /\ says' = says + 1
    /\ Says(ui.gen, [say |-> "cmd", n |-> q])
    /\ UiOnly /\ UNCHANGED <<ui, faults>>

UiFails ==
    /\ Works /\ faults < MaxFaults
    /\ faults' = faults + 1
    /\ \/ ui' = [ui EXCEPT !.hung = TRUE] /\ UNCHANGED pipe
       \/ ui' = [ui EXCEPT !.alive = FALSE] /\ pipe' = [pipe EXCEPT ![ui.gen].open = FALSE]
    /\ UiOnly /\ UNCHANGED says

(* ----------------------------- its reader ------------------------------ *)

ReaderOnly == UNCHANGED <<core, fifo, uiGen, uiUp, mark, gaveUp, rows, wr, ui, calls, says, faults>>

\* A "ready" or a "pong": looked at and kept under the lock.
ReaderKeeps(g) ==
    /\ pipe[g].run /\ pipe[g].lines # <<>>
    /\ LET l == Head(pipe[g].lines) IN
         /\ l.say # "cmd"
         /\ width' = IF l.say = "ready" /\ g = uiGen THEN g ELSE width
         /\ pong' = IF l.say = "pong" /\ g = uiGen THEN [of |-> g, n |-> l.n] ELSE pong
    /\ pipe' = [pipe EXCEPT ![g].lines = Tail(@)]
    /\ ReaderOnly /\ UNCHANGED <<cq, uiDead>>

\* Any other line: looked at without the lock...
ReaderLooks(g) ==
    /\ pipe[g].run /\ pipe[g].has = 0 /\ pipe[g].lines # <<>>
    /\ Head(pipe[g].lines).say = "cmd"
    /\ pipe' = [pipe EXCEPT ![g].lines = Tail(@),
                            ![g].has = IF g = uiGen THEN Head(pipe[g].lines).n ELSE 0]
    /\ ReaderOnly /\ UNCHANGED <<cq, uiDead, width, pong>>

\* ...and queued under it, dropped when the queue is full.
on_line(g) ==
    /\ pipe[g].has # 0
    /\ LET q == pipe[g].has IN
         cq' = IF Len(cq[q]) < CmdQ THEN [cq EXCEPT ![q] = Append(@, g)] ELSE cq
    /\ pipe' = [pipe EXCEPT ![g].has = 0]
    /\ ReaderOnly /\ UNCHANGED <<uiDead, width, pong>>

ReaderEnds(g) ==
    /\ pipe[g].run /\ ~pipe[g].open /\ pipe[g].lines = <<>> /\ pipe[g].has = 0
    /\ pipe' = [pipe EXCEPT ![g].run = FALSE]
    /\ uiDead' = IF g = uiGen THEN g ELSE uiDead
    /\ ReaderOnly /\ UNCHANGED <<cq, width, pong>>

\* A thread of its own per queue does what was asked.
commands(q) ==
    /\ cq[q] # <<>>
    /\ cq' = [cq EXCEPT ![q] = Tail(@)]
    /\ UNCHANGED <<core, fifo, proc, rows, wr, calls, says, faults>>

(* ----------------------------- the writer ------------------------------ *)

\* The UI let go of: its reader's lines no more, nothing queued for it, its
\* requests to servers forgotten, its process killed.
ui_gone ==
    /\ uiGen' = uiGen + 1 /\ width' = 0 /\ uiUp' = FALSE /\ fifo' = 0
    /\ cq' = [cq EXCEPT ![2] = <<>>]
    /\ ui' = NoUi
    /\ pipe' = Append(IF ui.gen = 0 THEN pipe ELSE [pipe EXCEPT ![ui.gen].open = FALSE],
                      [open |-> FALSE, run |-> FALSE, lines |-> <<>>, has |-> 0])

Less(n) == IF n = 0 THEN 0 ELSE n - 1

\* A new height of the band: this UI's start counts for nothing.
WriterBand ==
    /\ wr.at = "top" /\ wr.in /\ wr.band # rows
    /\ ui_gone
    /\ wr' = [wr EXCEPT !.in = FALSE, !.fails = Less(@)]
    /\ UNCHANGED <<core, uiDead, pong, mark, gaveUp, rows, calls, says, faults>>

WriterGivesUp ==
    /\ wr.at = "top" /\ ~wr.in
    /\ wr.fails >= GiveUp \/ wr.hungs >= HungMax
    /\ gaveUp' = TRUE /\ mark' = FALSE
    /\ ui_gone
    /\ wr' = [wr EXCEPT !.at = "over", !.ready = FALSE]
    /\ UNCHANGED <<core, uiDead, pong, rows, calls, says, faults>>

\* Fault: a new UI is told only what changed since the last one.
all_again_changes ==
    /\ pat' = [pat EXCEPT !.told = {}, !.came = {}]
    /\ fifo' = 0 /\ uiUp' = TRUE
    /\ UNCHANGED <<unsent, merged>>

\* All of it unsent to a new UI: the patterns that are on, the rest if there
\* is something to say.
all_again ==
    /\ pat' = [pat EXCEPT !.told = {}, !.came = {}]
    /\ unsent' = pat.on \cup {"home", "band", "gone"} \cup (IF music THEN Players ELSE {})
                        \cup (IF music \/ item["art"] # 0 THEN {"art"} ELSE {})
    /\ fifo' = 0 /\ uiUp' = TRUE
    /\ merged' = {}

\* A UI started, after the wait: a new generation, its reader with it, and
\* everything to be sent to it.
ui_start ==
    /\ wr.at = "top" /\ ~wr.in /\ wr.fails < GiveUp /\ wr.hungs < HungMax
    /\ uiGen' = uiGen + 1
    /\ pong' = [of |-> uiGen + 1, n |-> 0]
    /\ ui' = [NoUi EXCEPT !.gen = uiGen + 1, !.alive = TRUE]
    /\ pipe' = Append(pipe, [open |-> TRUE, run |-> TRUE, lines |-> <<>>, has |-> 0])
    /\ wr' = [wr EXCEPT !.at = "check", !.in = TRUE, !.band = rows, !.fails = @ + 1,
                        !.ready = FALSE, !.ping = 0, !.late = FALSE, !.batch = Blank]
    /\ all_again
    /\ UNCHANGED <<item, music, cq, uiDead, width, mark, gaveUp, rows, calls, says, faults>>

StartFails ==
    /\ wr.at = "top" /\ ~wr.in /\ wr.fails < GiveUp /\ wr.hungs < HungMax
    /\ faults < MaxFaults
    /\ faults' = faults + 1
    /\ wr' = [wr EXCEPT !.fails = @ + 1, !.ready = FALSE]
    /\ UNCHANGED <<core, fifo, cq, proc, rows, calls, says>>

WriterTop ==
    /\ wr.at = "top" /\ wr.in /\ wr.band = rows
    /\ wr' = [wr EXCEPT !.at = "check"]
    /\ UNCHANGED <<core, fifo, cq, proc, rows, calls, says, faults>>

\* Its output ended: started again.
WriterSeesEnd ==
    /\ wr.at = "check" /\ uiDead = uiGen
    /\ uiDead' = 0
    /\ ui_gone
    /\ wr' = [wr EXCEPT !.at = "top", !.in = FALSE]
    /\ UNCHANGED <<core, pong, mark, gaveUp, rows, calls, says, faults>>

\* What the UI shows once it has read p+ and p- of the unsent patterns.
Patterns(had) ==
    LET due == unsent \cap pat.known
        set == {p \in due : p \in pat.on \/ (p \in pat.came /\ p \notin pat.told)}
        off == {p \in due : p \notin pat.on /\ (p \in pat.told \/ p \in pat.came)}
    IN  (had \cup set) \ off

\* ... and what its items say: "mx" empties a player's, and is left out when
\* another came meanwhile.
Said(had) ==
    LET base == IF "gone" \in unsent /\ ~music
                THEN [had EXCEPT !["meta"] = 0, !["ctl"] = 0] ELSE had
        sent == {i \in unsent \cap Items : i \in Players => music} \cup {"core"}
    IN  [i \in Items |-> IF i \in sent THEN item[i] ELSE base[i]]

\* Under the lock: a round's lines, a ping once it is up and the last was
\* answered.  A player's unsent lines stay unsent while there is no music.
WriterCollects ==
    /\ wr.at = "check" /\ uiDead # uiGen
    /\ LET ping == wr.ready /\ pong.n = wr.ping IN
         wr' = [wr EXCEPT !.at = "write", !.ping = IF ~ping THEN @ ELSE IF @ = 1 THEN 2 ELSE 1,
                          !.asks = ping, !.late = IF ping THEN FALSE ELSE @,
                          !.batch = [shown |-> Patterns(wr.batch.shown), says |-> Said(wr.batch.says)]]
    /\ pat' = [pat EXCEPT !.told = (@ \ unsent) \cup (unsent \cap pat.on), !.came = @ \ unsent]
    /\ unsent' = IF music THEN {} ELSE unsent \cap Players
    /\ merged' = {i \in Players \ unsent : music /\ (i \in merged \/ "gone" \in unsent)}
    /\ UNCHANGED <<item, music, fifo, cq, proc, rows, calls, says, faults>>

\* The fifo joins the round's lines, and all is written: read in time, or
\* kept in the pipe of a UI that hangs.
WriterWrites ==
    /\ wr.at = "write" /\ ui.alive
    /\ fifo' = 0
    /\ ui' = IF ui.hung THEN ui
             ELSE [ui EXCEPT !.has = wr.batch, !.ping = IF wr.asks THEN wr.ping ELSE @]
    /\ wr' = [wr EXCEPT !.at = "after"]
    /\ UNCHANGED <<core, cq, uiGen, uiDead, uiUp, width, pong, mark, gaveUp, rows, pipe, calls, says,
                   faults>>

\* The pipe is closed: the UI is gone.
WriterFindsGone ==
    /\ wr.at = "write" /\ ~ui.alive
    /\ ui_gone
    /\ wr' = [wr EXCEPT !.at = "top", !.in = FALSE]
    /\ UNCHANGED <<core, uiDead, pong, mark, gaveUp, rows, calls, says, faults>>

\* It took nothing, or answered no ping, for too long, or never came up:
\* killed; one that was up and hung is counted.
WriterStops ==
    /\ wr.at = "after" /\ wr.late
    /\ IF wr.ready THEN pong.n # wr.ping ELSE width = 0
    /\ ui_gone
    /\ wr' = [wr EXCEPT !.at = "top", !.in = FALSE, !.hungs = IF wr.ready THEN @ + 1 ELSE @]
    /\ UNCHANGED <<core, uiDead, pong, mark, gaveUp, rows, calls, says, faults>>

\* A round ends: the UI's "ready" seen; one that stays up is forgiven its
\* failed starts, and later its hangs.
WriterRests ==
    /\ wr.at = "after"
    /\ ~(wr.late /\ IF wr.ready THEN pong.n # wr.ping ELSE width = 0)
    /\ \E f \in {0, wr.fails}, h \in {0, wr.hungs} :
         /\ (f # wr.fails \/ h # wr.hungs) => wr.ready
         /\ wr' = [wr EXCEPT !.at = "top", !.fails = f, !.hungs = h,
                             !.ready = @ \/ width # 0, !.late = FALSE]
    /\ UNCHANGED <<core, fifo, cq, proc, rows, calls, says, faults>>

\* The time is over for a UI that is not up or did not answer: always for one
\* that hangs, now and then for one that is only slow.
TimeOver ==
    /\ wr.at = "after" /\ ~wr.late
    /\ IF wr.ready THEN pong.n # wr.ping ELSE width = 0
    /\ \/ ui.hung /\ UNCHANGED faults
       \/ ~ui.hung /\ faults < MaxFaults /\ faults' = faults + 1
    /\ wr' = [wr EXCEPT !.late = TRUE]
    /\ UNCHANGED <<core, fifo, cq, proc, rows, calls, says>>

writer == WriterBand \/ WriterGivesUp \/ ui_start \/ WriterTop \/ WriterSeesEnd
          \/ WriterCollects \/ WriterWrites \/ WriterFindsGone \/ WriterStops \/ WriterRests

reader(g) == ReaderKeeps(g) \/ ReaderLooks(g) \/ on_line(g) \/ ReaderEnds(g)

SNext ==
    \/ \E p \in Pats, on \in BOOLEAN : screen_led(p, on)
    \/ \E i \in Changing \cap Players, v \in Vals : screen_music(i, v)
    \/ \E v \in Vals : \/ "art" \in Changing /\ screen_music_art(v)
                       \/ "home" \in Changing /\ screen_set_home(v)
                       \/ "band" \in Changing /\ screen_band(v)
                       \/ "core" \in Changing /\ CoreChanges(v)
    \/ screen_music_gone \/ screen_line
    \/ \E r \in Rows : ring_band_rows(r)
    \/ UiReady \/ UiPong \/ UiFails
    \/ \E q \in {1, 2} : UiAsks(q) \/ commands(q)
    \/ \E g \in DOMAIN pipe : reader(g)
    \/ writer \/ StartFails \/ TimeOver

\* A UI that hangs is noticed; a reader reads.
HangNoticed == TimeOver /\ ui.hung
Reads == \E g \in DOMAIN pipe : reader(g)


SSpec == SInit /\ [][SNext]_svars

(* ------------------------------ properties ----------------------------- *)

\* The patterns, the player, the cover and the home app a working UI shows
\* are the program's, whatever came and went while it was started again, as
\* soon as the writer rests with nothing left to send (writer's "all of it
\* again", screen.c).  The exception the code has: of a player that went and
\* another that came between two rounds, what the new one has not yet told
\* stays the old one's.
UiFollows ==
    (/\ wr.at = "top" /\ wr.in /\ Works
     /\ unsent \subseteq (IF music THEN {} ELSE Players)) =>
        /\ ui.has.shown = pat.on
        /\ \A i \in Items \ ({"core"} \cup merged) : ui.has.says[i] = item[i]

\* The "ready" and the "pong" the writer goes by are those of the UI that
\* runs, never of one let go of; and once the UI is given up nothing says to
\* root that one runs (ui_gone, reader, marker).
NoStaleUi ==
    /\ width # 0 => width = ui.gen
    /\ wr.in => pong.of = ui.gen
    /\ gaveUp => ~mark /\ ~ui.alive /\ ~uiUp

\* A UI that died or hangs is replaced, or the UI is given up for good.
ScreenUp == gaveUp \/ (Works /\ uiUp)
=============================================================================
