-------------------------------- MODULE Mixer --------------------------------
(***************************************************************************)
(* The Dots' audio through Amazon's mixer (audio_mixer.c): the microphone  *)
(* stream with its stalls, and an earcon's stream.  The mixer finds a new  *)
(* stream by itself a moment later; a stream closed before it did is lost  *)
(* with its sound, so the earcon waits for the mixer to take something     *)
(* after the last write, opens the stream again when it does not, and only *)
(* closes it played out.  The mixer (MixerOpenPlay ... MixerClose) is      *)
(* external: its ring holds Room buffers, and a write waits for room.      *)
(***************************************************************************)
EXTENDS Integers

CONSTANTS Sound,         \* buffers of a sound
          Room,          \* buffers the stream's ring holds
          StallReads,    \* empty reads before the microphone is opened again
          Attempts,      \* how often a sound's stream is opened
          MaxFaults      \* bound on the mixer's faults

VARIABLES mic,           \* the microphone's stream: open, held, empty
          hangs,         \* the mixer gave the microphone's stream up
          ear,           \* the earcon's thread
          mix,           \* its stream: open, queued, taken by the mixer
          deaf,          \* the mixer does not find new streams, or pauses
          faults

mixvars == <<mic, hangs, ear, mix, deaf, faults>>

NoStream == [open |-> FALSE, queued |-> 0, played |-> 0]
Silent == [at |-> "idle", attempt |-> 0, left |-> 0, q0 |-> 0, go |-> FALSE, late |-> FALSE, end |-> "none", whole |-> FALSE]

XInit ==
    /\ mic = [open |-> TRUE, held |-> FALSE, empty |-> 0]
    /\ hangs = FALSE
    /\ ear = Silent                         \* whole: ghost, a stream of the sound was taken to its end
    /\ mix = NoStream
    /\ deaf = FALSE
    /\ faults = 0

Fault == faults < MaxFaults /\ faults' = faults + 1

(* ----------------------------- the microphone -------------------------- *)

MicOnly == UNCHANGED <<ear, mix, deaf>>

\* A read gives the last buffer back and gets the next...
cap_read ==
    /\ mic.open /\ ~hangs
    /\ mic' = [mic EXCEPT !.held = TRUE, !.empty = 0]
    /\ MicOnly /\ UNCHANGED <<hangs, faults>>

\* ...or nothing: after StallReads in a row the stream is opened again, which
\* may fail, and is then tried at every further StallReads.
cap_stall ==
    /\ hangs \/ ~mic.open
    /\ IF mic.empty + 1 >= StallReads
       THEN \/ mic' = [open |-> TRUE, held |-> FALSE, empty |-> 0] /\ hangs' = FALSE /\ UNCHANGED faults
            \/ mic' = [open |-> FALSE, held |-> FALSE, empty |-> 0] /\ Fault /\ UNCHANGED hangs
       ELSE /\ mic' = [mic EXCEPT !.held = FALSE, !.empty = @ + 1]
            /\ UNCHANGED <<hangs, faults>>
    /\ MicOnly

mixer_hangs_up ==
    /\ ~hangs /\ Fault
    /\ hangs' = TRUE
    /\ MicOnly /\ UNCHANGED mic

(* ------------------------------- an earcon ------------------------------ *)

EarOnly == UNCHANGED <<mic, hangs>>

\* A sound wanted; its stream opens within 25 tries or the sound is left.
play_earcon ==
    /\ ear.at = "idle"
    /\ ear' = [Silent EXCEPT !.at = "open", !.attempt = 1, !.left = Sound, !.go = TRUE]
    /\ EarOnly /\ UNCHANGED <<mix, deaf, faults>>

go_over ==
    /\ ear.at # "idle" /\ ear.go
    /\ ear' = [ear EXCEPT !.go = FALSE]
    /\ EarOnly /\ UNCHANGED <<mix, deaf, faults>>

Ends(how) ==
    /\ ear' = [ear EXCEPT !.at = "idle", !.end = how]
    /\ mix' = [mix EXCEPT !.open = FALSE, !.queued = 0]

ear_open ==
    /\ ear.at = "open"
    /\ \/ /\ mix' = [NoStream EXCEPT !.open = TRUE]
          /\ ear' = [ear EXCEPT !.at = "write", !.left = Sound, !.late = FALSE]
          /\ UNCHANGED faults
       \/ Fault /\ Ends("failed")
    /\ EarOnly /\ UNCHANGED deaf

\* A buffer at a time, as long as the sound is wanted: once there is room for
\* it (nobody asks meanwhile whether it still is), or the mixer gives none.
ear_next ==
    /\ ear.at = "write" /\ ear.left > 0 /\ ear.go
    /\ ear' = [ear EXCEPT !.at = "buffer"]
    /\ EarOnly /\ UNCHANGED <<mix, deaf, faults>>

ear_write ==
    /\ ear.at = "buffer"
    /\ \/ /\ mix.queued < Room /\ mix' = [mix EXCEPT !.queued = @ + 1]
          /\ ear' = [ear EXCEPT !.at = "write", !.left = @ - 1]
          /\ UNCHANGED faults
       \/ Fault /\ Ends("failed")
    /\ EarOnly /\ UNCHANGED deaf

ear_unwanted ==
    /\ ear.at = "write" /\ ear.left > 0 /\ ~ear.go
    /\ Ends("unwanted")
    /\ EarOnly /\ UNCHANGED <<deaf, faults>>

ear_written ==
    /\ ear.at = "write" /\ ear.left = 0
    /\ ear' = [ear EXCEPT !.at = "pickup", !.q0 = mix.queued]
    /\ EarOnly /\ UNCHANGED <<mix, deaf, faults>>

\* The mixer took something since, within 400 ms...
ear_picked ==
    /\ ear.at = "pickup" /\ mix.queued < ear.q0
    /\ ear' = [ear EXCEPT !.at = "drain"]
    /\ EarOnly /\ UNCHANGED <<mix, deaf, faults>>

\* ...or not, having not found the stream, pausing, or through with it before
\* q0 was taken: the stream is opened again, or the sound given up.
ear_again ==
    /\ ear.at = "pickup" /\ mix.queued >= ear.q0 /\ (deaf \/ ear.q0 = 0)
    /\ IF ear.attempt < Attempts
       THEN /\ ear' = [ear EXCEPT !.at = "open", !.attempt = @ + 1]
            /\ mix' = NoStream
       ELSE Ends("given up")
    /\ EarOnly /\ UNCHANGED <<deaf, faults>>

\* Closed when the queue has run out, when nobody wants the sound any more,
\* or when its length and a second are over.
ear_close ==
    /\ ear.at = "drain"
    /\ mix.queued = 0 \/ ~ear.go \/ ear.late
    /\ Ends(IF ~ear.go THEN "unwanted" ELSE IF mix.queued # 0 THEN "late" ELSE "over")
    /\ EarOnly /\ UNCHANGED <<deaf, faults>>

\* Fault: a sound waits for the mixer for ever.
ear_never_late == FALSE /\ EarOnly /\ UNCHANGED <<ear, mix, deaf, faults>>

ear_late ==
    /\ ear.at = "drain" /\ deaf /\ ~ear.late
    /\ ear' = [ear EXCEPT !.late = TRUE]
    /\ EarOnly /\ UNCHANGED <<mix, deaf, faults>>

(* -------------------------------- the mixer ----------------------------- *)

\* It finds the stream, and takes what is queued.
mixer_plays ==
    /\ mix.open /\ ~deaf /\ mix.queued > 0
    /\ mix' = [mix EXCEPT !.queued = @ - 1, !.played = @ + 1]
    /\ ear' = [ear EXCEPT !.whole = @ \/ mix.played + 1 = Sound]
    /\ UNCHANGED <<mic, hangs, deaf, faults>>

mixer_deaf ==
    /\ IF deaf THEN UNCHANGED faults ELSE Fault
    /\ deaf' = ~deaf
    /\ UNCHANGED <<mic, hangs, ear, mix>>

ear_steps == ear_open \/ ear_next \/ ear_write \/ ear_unwanted \/ ear_written \/ ear_picked \/ ear_again
             \/ ear_close \/ ear_late

XNext ==
    \/ cap_read \/ cap_stall \/ mixer_hangs_up
    \/ play_earcon \/ go_over
    \/ ear_open \/ ear_next \/ ear_write \/ ear_unwanted \/ ear_written \/ ear_picked \/ ear_again
    \/ ear_close \/ ear_late
    \/ mixer_plays \/ mixer_deaf
CaptureStep == cap_read \/ cap_stall

XSpec == XInit /\ [][XNext]_mixvars

(* ------------------------------ properties ----------------------------- *)

\* A sound that ended by its queue running out, still wanted, was taken whole
\* by the mixer from one of its streams: none was closed under the mixer before
\* it had found it, however late that was and however often it was opened
\* (play_earcon_while's three waits, audio_mixer.c).  It may be heard twice.
SoundWhole == ear.end = "over" => ear.whole

\* Every sound's thread comes back, and the microphone after a stall; but for
\* a write that waits for room in the ring of a mixer that takes nothing.
MixerBlocks == ear.at = "buffer" /\ mix.queued = Room /\ deaf
MixerOver == (ear.at = "idle" \/ MixerBlocks) /\ ~hangs
=============================================================================
