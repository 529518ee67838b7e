-------------------------------- MODULE Mute --------------------------------
(***************************************************************************)
(* The microphones' mute (buttons.c, main.c): a hardware latch, read from  *)
(* the kernel whenever an event or a second's poll says to look, a press   *)
(* told ahead of a slow driver, and the soft mute of Home Assistant and    *)
(* the page.  The ring and Home Assistant are told of changes of the two   *)
(* together.  latch_lock holds from the look to the report, core_lock      *)
(* within each of the core's own steps.                                    *)
(***************************************************************************)
EXTENDS Naturals

CONSTANTS Button,      \* board.privacy_button: the press is seen before the latch moves
          MaxPress,    \* bound: presses of the mute button
          MaxSets,     \* bound: soft mute switched
          None

VARIABLES hw,          \* the latch
          due,         \* pressed: the driver moves the latch soon
          pressed,     \* the press's own event, not read yet
          early,       \* early_until: "no", "on" or, its time over, "late"
          state,       \* muted_state, early_state
          look,        \* latch_check with latch_lock: what it read
          tell,        \* mute_latch called with it
          last,        \* mute_latch's
          soft,        \* soft_mute
          ring, ha,    \* what the ring shows, what Home Assistant was told
          crossed,     \* ghost: the latch moved while it was reported, or the soft mute before it was
          presses, sets

mvars == <<hw, due, pressed, early, state, look, tell, last, soft, ring, ha, crossed, presses, sets>>

buttons_muted == IF early = "on" THEN state ELSE hw
core_muted(s) == s \/ buttons_muted
Free == look = None /\ tell = None

MInit == /\ hw \in BOOLEAN /\ state = hw /\ last = hw /\ ring = hw /\ ha = hw
         /\ due = FALSE /\ pressed = FALSE /\ early = "no" /\ look = None /\ tell = None /\ soft = FALSE /\ crossed = FALSE
         /\ presses = 0 /\ sets = 0

\* The button and its driver, which does not toggle twice at once.
press == /\ presses < MaxPress /\ presses' = presses + 1 /\ due' = TRUE /\ pressed' = Button
         /\ UNCHANGED <<hw, early, state, look, tell, last, soft, ring, ha, crossed, sets>>
driver == /\ due /\ due' = FALSE /\ hw' = ~hw /\ crossed' = (crossed \/ ~Free)
          /\ UNCHANGED <<pressed, early, state, look, tell, last, soft, ring, ha, presses, sets>>
early_press == /\ pressed /\ Free /\ pressed' = FALSE
               /\ IF early = "no" THEN early' = "on" /\ state' = ~state /\ tell' = ~state ELSE UNCHANGED <<early, state, tell>>
               /\ UNCHANGED <<hw, due, look, last, soft, ring, ha, crossed, presses, sets>>
\* The driver's time is over, whether it was enough or not; a report takes less.
settle == /\ early = "on" /\ tell = None /\ early' = "late"
          /\ UNCHANGED <<hw, due, pressed, state, look, tell, last, soft, ring, ha, crossed, presses, sets>>

\* latch_check, of the privacy device's events, the mute key and every second.
latch_check == /\ Free /\ look' = hw
               /\ UNCHANGED <<hw, due, pressed, early, state, tell, last, soft, ring, ha, crossed, presses, sets>>
latch_report == /\ look # None /\ look' = None
                /\ IF early = "on" /\ look # state THEN UNCHANGED <<early, state, tell>>
                   ELSE early' = "no" /\ state' = look /\ tell' = IF look # state THEN look ELSE None
                /\ UNCHANGED <<hw, due, pressed, last, soft, ring, ha, crossed, presses, sets>>

\* mute_update: ring, sound and Home Assistant follow the two together.
mute_update(was, now) == IF was = now THEN UNCHANGED <<ring, ha>> ELSE ring' = now /\ ha' = now
mute_latch == /\ tell # None /\ tell' = None /\ last' = tell
              /\ soft' = (soft /\ tell)
              /\ mute_update(last \/ soft, core_muted(soft'))
              /\ UNCHANGED <<hw, due, pressed, early, state, look, crossed, presses, sets>>
core_soft_mute == /\ sets < MaxSets /\ sets' = sets + 1 /\ soft' = ~soft
                  /\ LET was == core_muted(soft) IN
                       IF was # core_muted(soft') THEN mute_update(was, core_muted(soft'))
                       ELSE ring' = ring /\ ha' = IF soft /\ buttons_muted THEN TRUE ELSE ha
                  /\ crossed' = (crossed \/ buttons_muted # last)
                  /\ UNCHANGED <<hw, due, pressed, early, state, look, tell, last, presses>>

MNext == press \/ driver \/ early_press \/ settle \/ latch_check \/ latch_report \/ mute_latch \/ core_soft_mute
MSpec == MInit /\ [][MNext]_mvars

----------------------------------------------------------------------------
\* Once presses stop, what the ring shows and Home Assistant was told is what
\* the microphones are: an event that came before the driver, one lost, and a
\* press told early are put right.  A change that meets another's report half
\* way apart: it is compared with what was last told, and may be missed.
MuteTold == crossed \/ (ring = core_muted(soft) /\ ha = ring)
\* The Echo never says its microphones are off while they are on, except for
\* the moment a change takes: nothing pending, ring and latch agree.
MuteShown == Free /\ state = hw /\ early = "no" /\ ~crossed => ring = core_muted(soft)
=============================================================================
