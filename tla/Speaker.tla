------------------------------ MODULE Speaker ------------------------------
(***************************************************************************)
(* Playing on a Bluetooth speaker: the source half of src/hassmic/a2dp.c  *)
(* (out_*, run by the controller thread) and btout.c, which serves the    *)
(* audio HAL (hal_thread) and moves the output (route_thread).  The       *)
(* speaker, the controller and the audio server are external.  Requests   *)
(* from other threads are atomics that one upkeep() takes: they are taken *)
(* as they are made.  Timers may run out whenever they run.               *)
(***************************************************************************)
EXTENDS Naturals, FiniteSets

CONSTANTS Speakers,     \* addresses of speakers
          Prefs,        \* "stay connected when off" and "keep awake", as set
          MaxSwitch,    \* bound: requests of the user
          MaxTrouble,   \* bound: what the speaker, the radio and the server do of themselves
          None

VARIABLES out,          \* a2dp.c's out, the search and the speaker's link
          bt,           \* btout.c's state under m
          rt,           \* route_thread: what it does without m
          output,       \* external: "echo", a speaker, or "lost": the audio server forgot the route
          switches, troubles

svars == <<out, bt, rt, output, switches, troubles>>

O_IDLE == 0
O_DISCOVER == 1
O_CAPS == 2
O_SETCONF == 3
O_OPEN == 4
O_ACP == 5
O_MEDIA == 6
O_READY == 7
O_START == 8
O_STREAMING == 9
O_SUSPEND == 10

OutInit == [addr |-> None, on |-> FALSE, stay |-> FALSE, link |-> None, drop |-> FALSE,
            enc |-> FALSE, pend |-> FALSE, sig |-> "none", intAt |-> FALSE, phase |-> O_IDLE,
            cmd |-> FALSE, avctp |-> FALSE, abs |-> "unknown", paging |-> FALSE,
            search |-> FALSE, inq |-> FALSE]
BtInit == [ready |-> FALSE, streaming |-> FALSE, failed |-> FALSE, wantRoute |-> FALSE,
           wantAbs |-> FALSE, routeOn |-> FALSE, wantAddr |-> None, recheck |-> FALSE,
           routed |-> FALSE, routedAddr |-> None, mode |-> "none",
           hal |-> "idle", tone |-> FALSE, awake |-> FALSE]

SInit == /\ \E a \in Speakers \cup {None}, p \in Prefs :   \* speaker_load, settings
              /\ out = [OutInit EXCEPT !.addr = a, !.on = a # None, !.stay = p.stay]
              /\ bt = [BtInit EXCEPT !.routeOn = (a # None), !.awake = p.awake]
         /\ rt = [do |-> "wait", arg |-> None] /\ output = "echo"
         /\ switches = 0 /\ troubles = 0

----------------------------------------------------------------------------
\* btout.c's side of a2dp.c's calls.
btout_ready(b, a) == [b EXCEPT !.ready = TRUE, !.streaming = FALSE, !.failed = FALSE,
                               !.wantRoute = b.routeOn, !.wantAddr = a]
btout_gone(b) == [b EXCEPT !.ready = FALSE, !.streaming = FALSE, !.wantRoute = FALSE, !.wantAbs = FALSE]
btout_route(b, on) == [b EXCEPT !.routeOn = on, !.wantRoute = b.ready /\ on]
btout_absvol(b, on) == [b EXCEPT !.wantAbs = on]
btout_want == bt.hal # "idle" \/ bt.tone

\* The stream is given up; the link may stay.
ResetOut(o) == [o EXCEPT !.abs = "unknown", !.phase = O_IDLE, !.cmd = FALSE]
ResetBt(o, b) == IF o.phase >= O_READY THEN btout_gone(b) ELSE b
Dropped(o) == IF o.link # None THEN [o EXCEPT !.drop = TRUE] ELSE o

out_stream_reset(o) == out' = ResetOut(o) /\ bt' = ResetBt(out, bt)
out_fail == out' = Dropped(ResetOut(out)) /\ bt' = ResetBt(out, bt)
LinkGone(o) == [ResetOut(o) EXCEPT !.link = None, !.drop = FALSE, !.enc = FALSE, !.pend = FALSE,
                                   !.sig = "none", !.intAt = FALSE, !.avctp = FALSE]
Phase(p) == out' = [out EXCEPT !.phase = p, !.cmd = FALSE]
Command(p) == out' = [out EXCEPT !.phase = p, !.cmd = TRUE]

Outside == UNCHANGED <<rt, output, switches, troubles>>
Radio == UNCHANGED <<bt, rt, output, switches, troubles>>
Trouble == troubles < MaxTrouble /\ troubles' = troubles + 1 /\ UNCHANGED <<rt, output, switches>>
User == switches < MaxSwitch /\ switches' = switches + 1 /\ UNCHANGED <<rt, output, troubles>>

----------------------------------------------------------------------------
\* The switch and the search.
a2dp_out_enable == \E on \in BOOLEAN :
  LET keep == ~on /\ out.stay /\ out.link # None
      o == [out EXCEPT !.on = on]
      leave == ~on /\ ~keep IN
  /\ User /\ on # out.on
  /\ out' = IF leave THEN Dropped(ResetOut(o))
            ELSE [o EXCEPT !.search = @ \/ (on /\ out.addr = None)]    \* none yet: find one
  /\ bt' = btout_route(IF leave THEN ResetBt(out, bt) ELSE bt, on)

a2dp_out_search == \E on \in BOOLEAN :
  /\ User /\ on # out.search
  /\ out' = [out EXCEPT !.search = on, !.inq = @ /\ on]
  /\ UNCHANGED bt

SearchUpkeep == /\ out.search /\ ~out.inq /\ ~out.paging
                /\ \E refused \in BOOLEAN : out' = [out EXCEPT !.inq = ~refused, !.search = ~refused]
                /\ Radio
SearchTimeout == /\ out.search
                 /\ out' = [out EXCEPT !.inq = FALSE, !.search = FALSE] /\ Radio

\* The strongest speaker in pairing mode, if any, is the speaker from now on.
out_inquiry_done == \E cand \in Speakers \cup {None} :
  LET other == out.link # None /\ out.link # cand
      o == [out EXCEPT !.inq = FALSE, !.addr = cand, !.on = TRUE, !.search = FALSE] IN
  /\ out.inq
  /\ IF ~out.search \/ cand = None
     THEN out' = [out EXCEPT !.inq = FALSE] /\ UNCHANGED bt
     ELSE /\ out' = IF other THEN Dropped(ResetOut(o)) ELSE o
          /\ bt' = btout_route(IF other THEN ResetBt(out, bt) ELSE bt, TRUE)
  /\ Outside

----------------------------------------------------------------------------
\* The link: paged by us or by the speaker, secured, the signalling channel.
PageUpkeep == /\ out.on /\ out.addr # None /\ out.link = None /\ ~out.paging /\ ~out.inq
              /\ out' = [out EXCEPT !.paging = TRUE] /\ Radio

LinkUp(o) == [ResetOut(o) EXCEPT !.link = o.addr, !.pend = TRUE, !.intAt = FALSE, !.sig = "none"]
PageAnswer == /\ out.paging /\ out.link = None
              /\ \E ok \in BOOLEAN :
                   out' = LET o == [out EXCEPT !.paging = FALSE] IN IF ok THEN LinkUp(o) ELSE o
              /\ Radio
SpeakerCalls == /\ out.addr # None /\ out.link = None /\ ~out.paging /\ Trouble
                /\ out' = LinkUp(out) /\ UNCHANGED bt

\* a2dp_upkeep authenticates; pending_resolve() with the outcome, or after 20 s.
Secured == /\ out.link # None /\ out.pend
           /\ \E ok \in BOOLEAN : out' = [out EXCEPT !.pend = FALSE, !.enc = ok] /\ Radio

OutUpkeep == out.link # None /\ ~out.drop /\ (out.on \/ out.stay)
OffUpkeep == /\ out.link # None /\ ~out.drop /\ ~out.on /\ ~out.stay
             /\ out' = Dropped(out) /\ Radio
EncUpkeep == OutUpkeep /\ ~out.enc /\ ~out.pend /\ out_fail /\ Outside
SigUpkeep == /\ OutUpkeep /\ out.enc /\ out.sig = "none"
             /\ out' = [out EXCEPT !.sig = "opening"] /\ Radio
SigTimeout == OutUpkeep /\ out.enc /\ out.sig = "opening" /\ out_fail /\ Outside

\* A signalling channel opened, ours or the speaker's; it may configure first.
SigOpened == /\ out.link # None /\ out.enc /\ out.sig # "open"
             /\ out' = [out EXCEPT !.sig = "open", !.intAt = (out.link = out.addr)]
             /\ Radio
SigClosed == /\ out.sig = "open" /\ Trouble
             /\ out_stream_reset([out EXCEPT !.sig = "none", !.intAt = FALSE])
Disconnect == /\ out.link # None /\ (out.drop \/ troubles < MaxTrouble)
              /\ troubles' = IF out.drop THEN troubles ELSE troubles + 1
              /\ out' = LinkGone(out) /\ bt' = ResetBt(out, bt)
              /\ UNCHANGED <<rt, output, switches>>
\* The controller is lost, or set up again (a2dp_lost).
Lost == /\ Trouble
        /\ out' = [(IF out.link # None THEN LinkGone(out) ELSE out)
                   EXCEPT !.paging = FALSE, !.inq = FALSE]
        /\ bt' = ResetBt(out, bt)

----------------------------------------------------------------------------
\* AVDTP.  We configure unless the speaker did.
ConfigUpkeep == /\ OutUpkeep /\ out.sig = "open" /\ out.intAt /\ out.phase = O_IDLE
                /\ out' = [out EXCEPT !.intAt = FALSE, !.phase = O_DISCOVER, !.cmd = TRUE]
                /\ Radio

out_answer == \E ok \in BOOLEAN :
  /\ out.sig = "open" /\ out.link = out.addr /\ out.cmd
  /\ CASE out.phase = O_DISCOVER -> IF ok THEN Command(O_CAPS) /\ UNCHANGED bt ELSE out_fail
       [] out.phase = O_CAPS -> \/ ok /\ Command(O_SETCONF) /\ UNCHANGED bt
                                \/ ~ok /\ out_fail              \* the last endpoint
       [] out.phase = O_SETCONF -> IF ok THEN Command(O_OPEN) /\ UNCHANGED bt ELSE out_fail
       [] out.phase = O_OPEN -> IF ok THEN Phase(O_MEDIA) /\ UNCHANGED bt ELSE out_fail
       [] out.phase = O_START -> /\ Phase(IF ok THEN O_STREAMING ELSE O_READY)
                                 /\ bt' = IF ok THEN [bt EXCEPT !.streaming = TRUE]
                                          ELSE [bt EXCEPT !.failed = TRUE]
       [] out.phase = O_SUSPEND -> /\ Phase(IF ok THEN O_READY ELSE O_STREAMING)
                                   /\ bt' = IF ok THEN [bt EXCEPT !.streaming = FALSE] ELSE bt
       [] OTHER -> Phase(out.phase) /\ UNCHANGED bt             \* overtaken by a command of the speaker
  /\ Outside

CmdTimeout == OutUpkeep /\ out.sig = "open" /\ out.cmd /\ out_fail /\ Outside
MediaTimeout == OutUpkeep /\ out.sig = "open" /\ out.phase = O_MEDIA /\ out_fail /\ Outside
out_media_open == /\ out.phase = O_MEDIA /\ out.link = out.addr
                  /\ out' = [out EXCEPT !.phase = O_READY] /\ bt' = btout_ready(bt, out.link)
                  /\ Outside
MediaClosed == /\ out.phase >= O_READY /\ Trouble
               /\ out_stream_reset([out EXCEPT !.intAt = TRUE])

\* Commands of the speaker.
SpeakerSetConf == /\ out.phase < O_SETCONF /\ Trouble /\ UNCHANGED bt
                  /\ out' = [out EXCEPT !.cmd = FALSE, !.intAt = FALSE, !.phase = O_ACP]
SpeakerOpen == /\ out.phase = O_ACP
               /\ out' = [out EXCEPT !.phase = O_MEDIA] /\ Radio
SpeakerStart == /\ out.phase >= O_READY /\ out.phase # O_STREAMING /\ Trouble
                /\ out' = [out EXCEPT !.phase = O_STREAMING] /\ bt' = [bt EXCEPT !.streaming = TRUE]
SpeakerSuspend == /\ out.phase \in {O_STREAMING, O_SUSPEND} /\ Trouble
                  /\ out' = [out EXCEPT !.phase = O_READY] /\ bt' = [bt EXCEPT !.streaming = FALSE]
SpeakerClose == /\ Trouble /\ out_stream_reset([out EXCEPT !.intAt = TRUE])
out_command == /\ out.sig = "open" /\ out.link = out.addr
               /\ \/ SpeakerSetConf \/ SpeakerOpen \/ SpeakerStart \/ SpeakerSuspend \/ SpeakerClose

StreamUpkeep == /\ OutUpkeep /\ out.sig = "open" /\ ~out.cmd
                /\ \/ out.phase = O_READY /\ btout_want /\ Command(O_START)
                   \/ out.phase = O_STREAMING /\ ~btout_want /\ Command(O_SUSPEND)
                /\ Radio

----------------------------------------------------------------------------
\* Absolute volume: asked for, our level sent, confirmed or left with the mixer.
AvctpOpened == /\ out.link # None /\ out.enc /\ ~out.avctp
               /\ out' = [out EXCEPT !.avctp = TRUE] /\ Radio
AvctpClosed == /\ out.avctp /\ Trouble
               /\ out' = [out EXCEPT !.avctp = FALSE, !.abs = "unknown"]
               /\ bt' = IF out.abs # "unknown" THEN btout_absvol(bt, FALSE) ELSE bt

out_volume_upkeep == /\ OutUpkeep /\ out.sig = "open" /\ out.avctp /\ out.phase >= O_READY
                     /\ \/ out.abs = "unknown" /\ out' = [out EXCEPT !.abs = "asked"]
                        \/ out.abs \in {"asked", "pending"} /\ out' = [out EXCEPT !.abs = "no"]   \* no answer
                     /\ Radio

out_avrcp_answer == \E ok \in BOOLEAN :
  /\ out.avctp /\ out.link = out.addr
  /\ \/ out.abs = "asked" /\ out' = [out EXCEPT !.abs = IF ok THEN "pending" ELSE "no"] /\ UNCHANGED bt
     \/ /\ out.abs = "pending"
        /\ out' = [out EXCEPT !.abs = IF ok THEN "on" ELSE "no"]
        /\ bt' = IF ok THEN btout_absvol(bt, TRUE) ELSE bt
     \/ out.abs = "on" /\ ~ok /\ out' = [out EXCEPT !.abs = "no"] /\ bt' = btout_absvol(bt, FALSE)
     \/ out.abs # "no" /\ ~ok /\ out' = [out EXCEPT !.abs = "no"] /\ UNCHANGED bt     \* a REGISTER refused, whenever
  /\ Outside

----------------------------------------------------------------------------
\* The audio HAL's commands; START waits for the speaker.
HalStart == /\ bt.hal = "idle" /\ bt.ready /\ output = bt.routedAddr
            /\ bt' = [bt EXCEPT !.failed = FALSE, !.hal = "starting"]
            /\ UNCHANGED out /\ Outside
HalStarted == /\ bt.hal = "starting"
              /\ bt' = [bt EXCEPT !.hal = IF bt.streaming THEN "started" ELSE "idle"]
              /\ UNCHANGED out /\ Outside
HalStop == /\ bt.hal = "started"
           /\ bt' = [bt EXCEPT !.hal = "idle"] /\ UNCHANGED out /\ Outside
\* The HAL lets go of its control socket: the audio server is gone.
HalGone == /\ bt.hal # "starting" /\ Trouble
           /\ bt' = [bt EXCEPT !.hal = "idle", !.recheck = @ \/ bt.routed] /\ UNCHANGED out
idle_wanted == bt.ready /\ ~bt.failed /\ bt.hal = "idle" /\ bt.awake
IdleTone == /\ bt.hal # "starting" /\ bt.tone # idle_wanted
            /\ bt' = [bt EXCEPT !.tone = idle_wanted] /\ UNCHANGED out /\ Outside

\* route_thread: one change at a time.
Off == bt.routed /\ (~bt.wantRoute \/ bt.wantAddr # bt.routedAddr)
Mode == IF Off THEN "none" ELSE IF bt.wantAbs THEN "absolute" ELSE "mixer"
Does(what, arg) == rt' = [do |-> what, arg |-> arg] /\ UNCHANGED <<out, output, switches, troubles>>

RouteDecide ==
  /\ rt.do = "wait"
  /\ \/ /\ bt.routed /\ ~Off /\ bt.recheck
        /\ Does("check", bt.routedAddr) /\ bt' = [bt EXCEPT !.recheck = FALSE]
     \/ /\ bt.routed /\ (Off \/ ~bt.recheck) /\ Mode # bt.mode
        /\ Does("mode", Mode) /\ UNCHANGED bt
     \/ Off /\ bt.mode = "none" /\ Does("off", bt.routedAddr) /\ UNCHANGED bt
     \/ ~bt.routed /\ bt.wantRoute /\ Does("on", bt.wantAddr) /\ UNCHANGED bt
CheckDue == /\ rt.do = "wait" /\ bt.routed /\ ~bt.recheck                 \* every CHECK_S
            /\ bt' = [bt EXCEPT !.recheck = TRUE] /\ UNCHANGED out /\ Outside

Back == rt' = [do |-> "wait", arg |-> None] /\ UNCHANGED <<out, switches, troubles>>
RouteChecked == /\ rt.do = "check" /\ Back /\ UNCHANGED output
                /\ bt' = IF output = "lost" /\ bt.routed /\ bt.routedAddr = rt.arg
                         THEN [bt EXCEPT !.routed = FALSE] ELSE bt
ModeSet == rt.do = "mode" /\ Back /\ bt' = [bt EXCEPT !.mode = rt.arg] /\ UNCHANGED output
\* A route the backend cannot set on is asked for again after RETRY_S.
RouteSet ==
  \/ /\ rt.do = "on" /\ Back
     /\ \E ok \in BOOLEAN :
          /\ bt' = IF ok THEN [bt EXCEPT !.routed = TRUE, !.routedAddr = rt.arg, !.recheck = FALSE] ELSE bt
          /\ output' = IF ok THEN rt.arg ELSE output
  \/ /\ rt.do = "off" /\ Back
     /\ bt' = [bt EXCEPT !.routed = FALSE, !.recheck = FALSE] /\ output' = "echo"

\* External: the audio server restarts and plays on the Echo again.
AudioServer == /\ output \in Speakers /\ troubles < MaxTrouble
               /\ output' = "lost" /\ troubles' = troubles + 1
               /\ UNCHANGED <<out, bt, rt, switches>>

----------------------------------------------------------------------------
Upkeep == \/ SearchUpkeep \/ SearchTimeout \/ PageUpkeep \/ OffUpkeep \/ EncUpkeep \/ SigUpkeep
          \/ SigTimeout \/ ConfigUpkeep \/ CmdTimeout \/ MediaTimeout \/ StreamUpkeep
          \/ out_volume_upkeep
Events == \/ out_inquiry_done \/ PageAnswer \/ SpeakerCalls \/ Secured \/ SigOpened \/ SigClosed
          \/ Disconnect \/ Lost \/ out_answer \/ out_media_open \/ MediaClosed \/ out_command
          \/ AvctpOpened \/ AvctpClosed \/ out_avrcp_answer
Hal == HalStart \/ HalStarted \/ HalStop \/ HalGone \/ IdleTone
Route == RouteDecide \/ CheckDue \/ RouteChecked \/ ModeSet \/ RouteSet \/ AudioServer

SNext == a2dp_out_enable \/ a2dp_out_search \/ Upkeep \/ Events \/ Hal \/ Route

\* A route is set.
RouteTaken == RouteSet /\ bt'.routed

SSpec == SInit /\ [][SNext]_svars

\* The HAL is told of a speaker exactly while its stream is there, whatever
\* closes it: a channel, the stream, the link, the switch, the controller.
ReadyIsReady == bt.ready = (out.phase >= O_READY)

\* Switched on, the speaker is again and again ready, paged or looked for: no
\* silence of the speaker or the controller leaves it half connected, but for a
\* speaker that configured us and does not open the stream: out_upkeep has no
\* time limit for that (O_ACP).
Retried == ~out.on \/ out.phase = O_ACP \/ out.addr = None \/ out.phase >= O_READY \/ out.paging \/ out.search

=============================================================================
