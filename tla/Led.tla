-------------------------------- MODULE Led ---------------------------------
(***************************************************************************)
(* The LED ring: what hassmic plays on it (ring.c), the queue of its       *)
(* ledctrl calls (ledq.c), and ledcontroller, which plays them (external). *)
(* The Echo's own patterns play as stock's, as copies turned towards the   *)
(* talker, or as a design, by the set installed; Home Assistant's light    *)
(* shows while none of them does.  An unset that is lost leaves a pattern  *)
(* on for good, a set that is lost only misses an animation.               *)
(***************************************************************************)
EXTENDS Integers, Sequences, SequencesExt, FiniteSets

CONSTANTS Beams,        \* where the talker may be, -1: not known
          Sets,         \* sets of animations root may install: "stock", "ours", "designs"
          QMax, Batch,  \* LEDQ_MAX, LEDQ_BATCH
          MaxCalls,     \* bound: patterns set, unset; the light changed; the talker moving
          MaxHangs,     \* bound: ledctrl calls that hang
          MaxRestarts   \* bound: hassmic or ledcontroller restarted

VARIABLES took,         \* the set hassmic took (take)
          disk,         \* the set ledcontroller loaded
          shown,        \* shown[]: what plays for each of the Echo's patterns set
          light, lit,   \* the light; light_shown and led_shown, also in state/ring-light
          flash,
          queue, batch, again,  \* the calls waiting, those ledctrl has, unsets to repeat alone
          on,           \* what ledcontroller plays
          beam,
          neverOff, orphan, \* ghosts: unsets that never ran; patterns no longer hassmic's
          calls, hangs, restarts

ringvars == <<took, shown, light, lit, flash>>
qvars == <<queue, batch, again>>
lvars == <<ringvars, qvars, disk, on, beam, neverOff, orphan, calls, hangs, restarts>>

\* listen and talk play until unset, a volume step for its time.
Own == {"listen", "talk", "step"}
Pattern(name, kind, turn) == [name |-> name, kind |-> kind, turn |-> turn]
LightOf == [off |-> {}, whole |-> {Pattern("light", "ours", 0)}, fill |-> {Pattern("light", "ours", 1), Pattern("light", "ours", 2)}]
Blink == {Pattern("light", "ours", 3)}
custom == took # "stock"
Of(t, kind) == CASE kind = "design" -> t = "designs" [] kind = "ours" -> t # "stock" [] OTHER -> TRUE

\* actual_for: the design of its slot, else stock's own turned, else stock's.
actual_for(t, p, turn) ==
  IF t = "designs" /\ p # "step" THEN Pattern(p, "design", IF p = "listen" /\ turn >= 0 THEN turn ELSE 0)
  ELSE IF t # "stock" /\ p = "listen" /\ turn >= 0 THEN Pattern("listen", "ours", turn)
  ELSE Pattern(p, "stock", 0)
hold(t, turn) == Pattern("hold", IF t = "designs" THEN "design" ELSE "ours", turn)
Playing(p, t, turn) == [actual |-> actual_for(t, p, turn), turn |-> turn, over |-> FALSE]
busy(sh) == \E p \in DOMAIN sh : ~sh[p].over
Without(sh, p) == [r \in DOMAIN sh \ {p} |-> sh[r]]

----------------------------------------------------------------------------
\* ledq_args: full, the oldest set gives way, else the new call is dropped.
Call(op, a) == [op |-> op, pattern |-> a]
Dropped(q) == SelectInSeq(q, LAMBDA c : c.op = "-s")
ledq_args(s, c) ==
  IF Len(s.q) < QMax THEN [s EXCEPT !.q = Append(@, c)]
  ELSE IF Dropped(s.q) # 0 THEN [s EXCEPT !.q = Append(RemoveAt(@, Dropped(s.q)), c)]
  ELSE [s EXCEPT !.gone = IF c.op = "-u" THEN @ \union {c.pattern} ELSE @]
Run(s, cs) == FoldSeq(LAMBDA c, r : ledq_args(r, c), s, Reverse(cs))
SetCalls(ps) == [i \in 1 .. Cardinality(ps) |-> Call("-s", SetToSeq(ps)[i])]
UnsetCalls(ps) == [i \in 1 .. Cardinality(ps) |-> Call("-u", SetToSeq(ps)[i])]

\* light_apply: every new one on before an old one goes.
want(l, fl, sh) == IF ~custom \/ busy(sh) THEN {} ELSE IF fl THEN Blink ELSE LightOf[l]
light_calls(l, fl, sh) == LET w == want(l, fl, sh) IN SetCalls(w \ lit) \o UnsetCalls(lit \ w)
Do(cs) == \E s \in {Run([q |-> queue, gone |-> neverOff], cs)} : queue' = s.q /\ neverOff' = s.gone
Same == UNCHANGED <<disk, on, batch, again, hangs, restarts>>
Asked == calls < MaxCalls /\ calls' = calls + 1

ring_set ==
  /\ Asked
  /\ \E p \in Own :
       LET turn == IF p = "listen" /\ custom THEN (IF beam < 0 /\ took = "designs" THEN 0 ELSE beam) ELSE -1
           sh == [r \in DOMAIN shown \union {p} |-> IF r = p THEN Playing(p, took, turn) ELSE shown[r]]
           a == sh[p].actual
           was == IF p \in DOMAIN shown /\ shown[p].actual # a THEN <<Call("-u", shown[p].actual)>> ELSE <<>>
       IN  /\ shown' = sh /\ lit' = want(light, flash, sh)
           /\ Do(was \o light_calls(light, flash, sh) \o <<Call("-s", a)>>)
  /\ Same /\ UNCHANGED <<took, light, flash, beam, orphan>>

ring_unset ==
  /\ Asked
  /\ \E p \in Own :
       IF p \in DOMAIN shown THEN shown' = Without(shown, p) /\ Do(<<Call("-u", shown[p].actual)>>)
       ELSE LET a == actual_for(took, p, -1) IN
            /\ shown' = shown
            /\ Do(<<Call("-u", Pattern(p, "stock", 0))>> \o IF a.kind # "stock" THEN <<Call("-u", a)>> ELSE <<>>)
  /\ Same /\ UNCHANGED <<took, light, lit, flash, beam, orphan>>

\* ring_tick: the finished forgotten, the open ring turned, the light.
ring_tick ==
  LET left == [p \in {r \in DOMAIN shown : ~shown[r].over} |-> shown[p]]
      turns == "listen" \in DOMAIN left /\ left["listen"].turn >= 0 /\ beam >= 0 /\ beam # left["listen"].turn
      sh == IF turns THEN [left EXCEPT !["listen"].turn = beam, !["listen"].actual = hold(took, beam)] ELSE left
      moved == IF turns THEN <<Call("-s", hold(took, beam)), Call("-u", left["listen"].actual)>> ELSE <<>>
  IN  /\ shown' = sh /\ lit' = want(light, flash, sh) /\ <<shown', lit'>> # <<shown, lit>>
      /\ Do(moved \o light_calls(light, flash, sh))
      /\ Same /\ UNCHANGED <<took, light, flash, beam, orphan, calls>>

ring_light_set == /\ Asked
                  /\ \E l \in DOMAIN LightOf, fl \in BOOLEAN :
                       /\ light' = IF fl THEN light ELSE l
                       /\ flash' = fl /\ lit' = want(light', fl, shown) /\ Do(light_calls(light', fl, shown))
                  /\ Same /\ UNCHANGED <<took, shown, beam, orphan>>
\* A pattern's or a flash's time is over: ring_tick finds out.
time_over == /\ \/ "step" \in DOMAIN shown /\ ~shown["step"].over /\ shown' = [shown EXCEPT !["step"].over = TRUE] /\ UNCHANGED flash
                \/ flash /\ flash' = FALSE /\ UNCHANGED shown
             /\ Same /\ UNCHANGED <<took, light, lit, queue, beam, neverOff, orphan, calls>>
talker == Asked /\ beam' \in Beams \ {beam} /\ Same /\ UNCHANGED <<ringvars, queue, neverOff, orphan>>

----------------------------------------------------------------------------
\* Root installs a set and starts ledcontroller again, with nothing on; later
\* rd_tick reads root's answer: ring_reload.
install == /\ disk = took /\ restarts < MaxRestarts /\ restarts' = restarts + 1 /\ disk' \in Sets \ {disk} /\ on' = {}
           /\ UNCHANGED <<ringvars, qvars, beam, neverOff, orphan, calls, hangs>>
Again(p) == IF p = "listen" /\ shown[p].turn >= 0 /\ disk # "stock" THEN hold(disk, shown[p].turn) ELSE actual_for(disk, p, shown[p].turn)
ring_reload ==
  LET sh == [p \in DOMAIN shown |-> IF shown[p].over THEN shown[p] ELSE [shown[p] EXCEPT !.actual = Again(p)]]
      ps == {p \in DOMAIN shown : ~shown[p].over}
      l == IF disk = "stock" THEN {} ELSE lit
  IN  /\ disk # took /\ took' = disk /\ shown' = sh /\ lit' = l
      /\ Do(SetCalls({sh[p].actual : p \in ps}) \o SetCalls(l))
      /\ orphan' = orphan \union ((on \union {queue[i].pattern : i \in DOMAIN queue} \union {batch[i].pattern : i \in DOMAIN batch})
                                  \ ({sh[p].actual : p \in DOMAIN sh} \union l))
      /\ Same /\ UNCHANGED <<light, flash, beam, calls>>

\* hassmic is killed and starts: ring_start unsets the light state/ring-light names.
ring_start ==
  /\ disk = took /\ restarts < MaxRestarts /\ restarts' = restarts + 1
  /\ shown' = << >> /\ lit' = {} /\ light' = "off" /\ flash' = FALSE
  /\ queue' = UnsetCalls(lit) /\ batch' = <<>> /\ again' = <<>>
  /\ orphan' = orphan \union ((on \union {batch[i].pattern : i \in DOMAIN batch}) \ lit)
  /\ UNCHANGED <<took, disk, on, beam, neverOff, calls, hangs>>

----------------------------------------------------------------------------
\* ledq's thread: patterns in one call, as many as wait; killed, its unsets
\* again, each alone.
Ring == UNCHANGED <<ringvars, disk, beam, orphan, calls, restarts>>
thread == /\ queue # <<>> /\ batch = <<>> /\ again = <<>>
          /\ LET n == IF Len(queue) < Batch THEN Len(queue) ELSE Batch
             IN  batch' = SubSeq(queue, 1, n) /\ queue' = SubSeq(queue, n + 1, Len(queue))
          /\ Ring /\ UNCHANGED <<again, on, neverOff, hangs>>
\* ledcontroller plays what it knows.
Plays(was, c) == IF c.op = "-u" THEN was \ {c.pattern} ELSE IF Of(disk, c.pattern.kind) THEN was \union {c.pattern} ELSE was
Effect(cs) == FoldSeq(LAMBDA c, was : Plays(was, c), on, Reverse(cs))
exec_one == /\ batch # <<>> /\ on' = Effect(batch) /\ batch' = <<>> /\ Ring /\ UNCHANGED <<queue, again, neverOff, hangs>>
\* Fault: what a call that hung was to take off is not repeated.
exec_killed_once ==
  /\ batch # <<>> /\ hangs < MaxHangs /\ hangs' = hangs + 1 /\ batch' = <<>>
  /\ \E n \in 0 .. Len(batch) - 1 : on' = Effect(SubSeq(batch, 1, n))
  /\ again' = <<>> /\ UNCHANGED neverOff
  /\ Ring /\ UNCHANGED queue

exec_killed ==
  /\ batch # <<>> /\ hangs < MaxHangs /\ hangs' = hangs + 1 /\ batch' = <<>>
  /\ \E n \in 0 .. Len(batch) - 1 :
       /\ on' = Effect(SubSeq(batch, 1, n))
       /\ IF Len(batch) > 1 THEN again' = SelectSeq(batch, LAMBDA c : c.op = "-u") /\ UNCHANGED neverOff
          ELSE again' = <<>> /\ neverOff' = IF batch[1].op = "-u" THEN neverOff \union {batch[1].pattern} ELSE neverOff
  /\ Ring /\ UNCHANGED queue
exec_again == /\ again # <<>> /\ again' = Tail(again)
              /\ \/ on' = Effect(<<again[1]>>) /\ UNCHANGED <<neverOff, hangs>>
                 \/ on' = on /\ hangs < MaxHangs /\ hangs' = hangs + 1 /\ neverOff' = neverOff \union {again[1].pattern}
              /\ Ring /\ UNCHANGED <<queue, batch>>
plays_out == /\ \E a \in on : a.name = "step" /\ on' = on \ {a}
             /\ Ring /\ UNCHANGED <<qvars, neverOff, hangs>>

LNext == ring_set \/ ring_unset \/ ring_tick \/ ring_light_set \/ time_over \/ talker \/ install \/ ring_reload \/ ring_start
         \/ thread \/ exec_one \/ exec_killed \/ exec_again \/ plays_out
LInit == /\ took \in Sets /\ disk = took /\ shown = << >> /\ light = "off" /\ lit = {} /\ flash = FALSE
         /\ queue = <<>> /\ batch = <<>> /\ again = <<>> /\ on = {} /\ beam \in Beams /\ neverOff = {} /\ orphan = {}
         /\ calls = 0 /\ hangs = 0 /\ restarts = 0
LSpec == LInit /\ [][LNext]_lvars

----------------------------------------------------------------------------
\* Once every call ran, the ring plays what hassmic has on it and nothing
\* else: turning, reloading, a light stepping aside, a killed batch and a full
\* queue leave no pattern on.  An unset that itself never ran, and what was on
\* when hassmic or ledcontroller was cut off, apart.
Mine == {shown[p].actual : p \in DOMAIN shown} \union lit
NoPatternLeft == queue = <<>> /\ batch = <<>> /\ again = <<>> =>
                   \A a \in on : a \in Mine \union neverOff \union orphan \/ a.name = "step"
\* Home Assistant's light is never mixed into the Echo's own, at any moment (a
\* volume step may outlast its time by as long as the calls wait).
Apart == on \ (neverOff \union orphan)
LightApart == \A a \in Apart, p \in DOMAIN shown \ {"step"} : a.name = "light" => shown[p].actual \notin Apart
=============================================================================
