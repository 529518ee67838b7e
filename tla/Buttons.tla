------------------------------ MODULE Buttons -------------------------------
(***************************************************************************)
(* The keypad's reader (buttons.c): it takes the keypad from Android, but  *)
(* never with a key down, then tells the core what was pressed: a tap or a *)
(* hold of each key, the action key's warning and reset, both volume keys  *)
(* together.  Stages of a hold are due by the clock, the rest by events,   *)
(* which wait in the device until they are read.  Times in ticks.          *)
(***************************************************************************)
EXTENDS Integers, Sequences

CONSTANTS Short, Warn, Reset, Combo, Chord,   \* SHORT_PRESS_MS, HOLD_WARN_MS, HOLD_RESET_MS, COMBO_MS, CHORD_MS
          ActionCombo,   \* board.action_combo
          MaxClock,      \* bound: the clock
          MaxPress,      \* bound: presses
          Never

VARIABLES held,          \* the keys pressed now
          android,       \* the keys Android believes pressed
          events,        \* the device's events not read yet
          grabbed,       \* EVIOCGRAB
          fresh,         \* keys pressed since the first look
          at,            \* where the reader is
          down, told,    \* action_down, vol_down; action_told, vol_told
          heldStage,     \* held: 0, warned, reset
          combo,         \* combo_done
          ring,          \* the last handler.hold
          answers,       \* ghost: how often the last press of each key was told, as a tap or a hold
          gestures,      \* ghost: what the two volume keys last did together was told as
          paired,        \* ghost: keys whose last press was half of a pair
          clock, presses

buttonvars == <<held, android, events, grabbed, fresh, at, down, told, heldStage, combo, ring, answers, gestures, paired, clock, presses>>

Volume == {"up", "down"}
Key == Volume \union {"action"}
Other(k) == IF k = "up" THEN "down" ELSE "up"
Since(k) == clock - down[k]
device == <<held, android, events, grabbed, fresh, presses>>
reading == <<down, told, heldStage, combo, ring, answers, gestures, paired>>

BInit == /\ \E k \in SUBSET {"down"} : held = k /\ android = k
         /\ events = <<>> /\ grabbed = FALSE /\ fresh = {} /\ at = "drain"
         /\ down = [k \in Key |-> Never] /\ told = [k \in Key |-> FALSE] /\ heldStage = 0 /\ combo = FALSE /\ ring = 0
         /\ answers = [k \in Key |-> 1] /\ gestures = 0 /\ paired = {} /\ clock = 0 /\ presses = 0

----------------------------------------------------------------------------
\* The keys and the clock.  A key pressed between the grab's two looks is
\* still down at the second; one held repeats.
Gone(k) == android' = IF grabbed THEN android ELSE IF k \in held THEN android \ {k} ELSE android \union {k}
Press == /\ presses < MaxPress /\ presses' = presses + 1
         /\ \E k \in Key \ held : /\ held' = held \union {k} /\ events' = Append(events, <<k, 1>>) /\ Gone(k)
                                  /\ fresh' = IF at \in {"take", "again"} THEN fresh \union {k} ELSE fresh
         /\ UNCHANGED <<grabbed, at, reading, clock>>
Release == /\ \E k \in held \ fresh : held' = held \ {k} /\ events' = Append(events, <<k, 0>>) /\ Gone(k)
           /\ UNCHANGED <<grabbed, fresh, at, reading, clock, presses>>
Repeat == /\ \E k \in held : events = <<>> /\ events' = <<<<k, 2>>>>
          /\ UNCHANGED <<held, android, grabbed, fresh, at, reading, clock, presses>>
Tick == clock < MaxClock /\ clock' = clock + 1 /\ UNCHANGED <<device, at, reading>>

----------------------------------------------------------------------------
\* grab, in the reader's thread: what was read before it is acted on by nobody.
Goes(from, to) == at = from /\ at' = to /\ UNCHANGED <<held, android, reading, clock, presses>>
drain == Goes("drain", "look") /\ events' = <<>> /\ UNCHANGED <<grabbed, fresh>>
look == Goes("look", IF held = {} THEN "take" ELSE "wait") /\ UNCHANGED <<events, grabbed, fresh>>
grab == /\ \/ Goes("take", "again") /\ grabbed' = TRUE
           \/ Goes("take", "run") /\ grabbed' = FALSE           \* the ioctl fails: shared with Android
        /\ fresh' = (IF at' = "run" THEN {} ELSE fresh) /\ UNCHANGED events
\* Fault: the grab is kept with a key down that Android saw pressed.
look_again_keeps == /\ Goes("again", "run")
                    /\ grabbed' = TRUE /\ fresh' = {} /\ UNCHANGED events

look_again == /\ Goes("again", IF held = {} THEN "run" ELSE "wait")
              /\ grabbed' = (held = {}) /\ fresh' = {} /\ UNCHANGED events
wait == Goes("wait", "drain") /\ UNCHANGED <<events, grabbed, fresh>>
GrabStep == drain \/ look \/ grab \/ look_again \/ wait

----------------------------------------------------------------------------
\* reader: the stages due by the clock.
Tell(k) == answers' = [answers EXCEPT ![k] = @ + 1]
hold_event == \E k \in Key : /\ down[k] # Never /\ ~told[k] /\ Since(k) >= Short
                             /\ told' = [told EXCEPT ![k] = TRUE] /\ Tell(k)
                             /\ UNCHANGED <<down, heldStage, combo, ring, gestures, paired>>
hold_stage == /\ down["action"] # Never /\ heldStage < 2 /\ Since("action") >= (IF heldStage = 0 THEN Warn ELSE Reset)
              /\ heldStage' = heldStage + 1 /\ ring' = heldStage + 1
              /\ UNCHANGED <<down, told, combo, answers, gestures, paired>>
Stages == at = "run" /\ (hold_event \/ hold_stage) /\ UNCHANGED <<device, at, clock>>

\* reader: an event.
action_press == /\ down' = [down EXCEPT !["action"] = clock] /\ told' = [told EXCEPT !["action"] = FALSE] /\ heldStage' = 0
                /\ answers' = [answers EXCEPT !["action"] = 0] /\ UNCHANGED <<combo, ring, gestures, paired>>
action_release ==
  /\ IF down["action"] # Never /\ (Since("action") < Short \/ ~told["action"]) THEN Tell("action") ELSE UNCHANGED answers
  /\ ring' = IF heldStage = 1 THEN 0 ELSE ring
  /\ down' = [down EXCEPT !["action"] = Never] /\ heldStage' = 0 /\ UNCHANGED <<told, combo, gestures, paired>>

\* handler.pair: both volume keys down since Combo, seen at an event of either.
Later(d) == IF d["up"] > d["down"] THEN d["up"] ELSE d["down"]
pair(d, done, told_as) ==
  IF d["up"] # Never /\ d["down"] # Never /\ ~done /\ clock - Later(d) >= Combo
  THEN combo' = TRUE /\ gestures' = told_as + 1
  ELSE combo' = done /\ gestures' = told_as
volume_press(k) ==
  LET d == [down EXCEPT ![k] = clock] IN
  /\ down' = d
  /\ IF down[Other(k)] # Never THEN told' = [told EXCEPT !["up"] = TRUE, !["down"] = TRUE] /\ paired' = paired \union Volume
                               ELSE told' = [told EXCEPT ![k] = FALSE] /\ paired' = paired \ {k}
  /\ pair(d, combo, 0)
  /\ answers' = [answers EXCEPT ![k] = 0] /\ UNCHANGED <<heldStage, ring>>
\* board.action_combo: the first of the two let go soon is the action key's press.
chord == /\ ActionCombo /\ down["up"] # Never /\ down["down"] # Never /\ ~combo
         /\ down["up"] - down["down"] \in -Chord .. Chord /\ clock - Later(down) < Short
volume_release(k) ==
  /\ pair([down EXCEPT ![k] = Never], FALSE, gestures + IF chord THEN 1 ELSE 0)
  /\ IF down[k] # Never /\ ~told[k] THEN Tell(k) ELSE UNCHANGED answers
  /\ down' = [down EXCEPT ![k] = Never] /\ UNCHANGED <<told, heldStage, ring, paired>>
volume_repeat == pair(down, combo, gestures) /\ UNCHANGED <<down, told, heldStage, ring, answers, paired>>

reader == /\ at = "run" /\ events # <<>> /\ events' = Tail(events)
          /\ LET k == events[1][1]
                 value == events[1][2]
             IN  \/ k = "action" /\ value = 1 /\ action_press
                 \/ k = "action" /\ value = 0 /\ action_release
                 \/ k = "action" /\ value = 2 /\ UNCHANGED reading
                 \/ k \in Volume /\ value = 1 /\ volume_press(k)
                 \/ k \in Volume /\ value = 0 /\ volume_release(k)
                 \/ k \in Volume /\ value = 2 /\ volume_repeat
          /\ UNCHANGED <<held, android, grabbed, fresh, at, clock, presses>>

BNext == Press \/ Release \/ Repeat \/ Tick \/ GrabStep \/ Stages \/ reader
BSpec == BInit /\ [][BNext]_buttonvars

----------------------------------------------------------------------------
\* Once the keypad is taken, Android has every key up (issue #140: it would
\* repeat one for as long as the grab lasts), whenever keys are pressed while
\* it is taken.
NoStuckKey == at = "run" /\ grabbed => android = {}
\* A press that was let go was told, and once: as a tap or a hold, or as half
\* of a pair, which is no volume step; a pair is the action key's press or
\* the pairing, not both.  A warning of the reset was taken back or kept.
PressToldOnce == /\ \A k \in Key : IF k \in paired THEN answers[k] <= 1
                                   ELSE answers[k] = IF down[k] = Never \/ told[k] THEN 1 ELSE 0
                 /\ gestures <= 1
                 /\ (down["action"] = Never => ring # 1)
\* The grab does not wait for ever once the keys stay up.
GrabOver == held # {} \/ at = "run"
=============================================================================
