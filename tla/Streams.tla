------------------------------ MODULE Streams ------------------------------
(***************************************************************************)
(* Android's audio on the Echo Show and its like (audio_android.c): the    *)
(* recorder's ring of blocks, handed to the capture thread and back, and   *)
(* a player per stream, whose slots a writer fills and a callback gives    *)
(* back; the earcon thread's sound on a player of its own.                 *)
(*                                                                         *)
(* Blocks and slots carry the number of what was put into them, so that a  *)
(* block overwritten too early, or a slot played twice, shows.  OpenSL ES  *)
(* (the recorder, the player, their queues) is external: it takes buffers  *)
(* in the order they were queued, and may stop doing so at any time.       *)
(***************************************************************************)
EXTENDS Integers, Sequences, FiniteSets, SequencesExt

CONSTANTS CapNBuf,       \* blocks of the recorder
          PlayNBuf,      \* slots of a player
          StallReads,    \* empty waits before the capture is opened again
          Sound,         \* slots of the earcon's sound
          Uses,          \* what is looked at, one at a time: "capture", "voice", "earcon"
          MaxBlocks,     \* bound on the blocks recorded and the slots written
          MaxFaults      \* bound on stalls, refusals and timeouts

VARIABLES cap,           \* the capture: open, filled, taken, held, empty
          rec,           \* the recorder's queue of blocks, and whether it stalls
          block,         \* what each block holds
          str,           \* the players: open, busy, next, head, wrote, took
          slot,          \* what each player's slots hold
          play,          \* each player's queue of slots, and whether it stalls
          heard,         \* what each player has played since it was opened
          ear,           \* the earcon thread
          use,           \* which of them this behaviour is about
          recorded, faults

streamvars == <<cap, rec, block, str, slot, play, heard, ear, use, recorded, faults>>
capturing  == <<cap, rec, block, recorded>>
playing    == <<str, slot, play, heard>>

Players == {"voice", "earcon"}

Shut == [open |-> FALSE, busy |-> 0, next |-> 0, head |-> 0, wrote |-> 0, took |-> 0]

PInit ==
    /\ cap = [open |-> FALSE, filled |-> 0, taken |-> 0, held |-> FALSE, empty |-> 0]
    /\ rec = [q |-> <<>>, stalls |-> FALSE]
    /\ block = [b \in 0 .. CapNBuf - 1 |-> 0]
    /\ str = [s \in Players |-> Shut]
    /\ slot = [s \in Players |-> [i \in 0 .. PlayNBuf - 1 |-> 0]]
    /\ play = [s \in Players |-> [q |-> <<>>, stalls |-> FALSE]]
    /\ heard = [s \in Players |-> <<>>]
    /\ ear = [at |-> "idle", left |-> 0, go |-> FALSE, late |-> FALSE, cut |-> FALSE]
    /\ use \in Uses
    /\ recorded = 0 /\ faults = 0

Fault == faults < MaxFaults /\ faults' = faults + 1

(* ------------------------------- capture ------------------------------- *)

\* All blocks queued, the recorder started; it may refuse.
cap_open ==
    /\ use = "capture" /\ ~cap.open
    /\ \/ /\ cap' = [cap EXCEPT !.open = TRUE, !.filled = 0, !.taken = 0, !.held = FALSE]
          /\ rec' = [q |-> [i \in 1 .. CapNBuf |-> i - 1], stalls |-> FALSE]
          /\ UNCHANGED faults
       \/ Fault /\ UNCHANGED <<cap, rec>>
    /\ UNCHANGED <<block, playing, ear, recorded>>

\* The recorder fills the oldest block it has; with none what comes is lost.
cap_cb ==
    /\ cap.open /\ ~rec.stalls /\ rec.q # <<>> /\ recorded < MaxBlocks
    /\ recorded' = recorded + 1
    /\ block' = [block EXCEPT ![Head(rec.q)] = cap.filled + 1]
    /\ rec' = [rec EXCEPT !.q = Tail(@)]
    /\ cap' = [cap EXCEPT !.filled = @ + 1]
    /\ UNCHANGED <<playing, ear, faults>>

\* The caller asks again: the block it had goes back to the recorder.
cap_return ==
    /\ cap.open /\ cap.held
    /\ rec' = [rec EXCEPT !.q = Append(@, cap.taken % CapNBuf)]
    /\ cap' = [cap EXCEPT !.taken = @ + 1, !.held = FALSE]
    /\ UNCHANGED <<block, playing, ear, recorded, faults>>

cap_read ==
    /\ cap.open /\ ~cap.held /\ cap.filled # cap.taken
    /\ cap' = [cap EXCEPT !.held = TRUE, !.empty = 0]
    /\ UNCHANGED <<rec, block, playing, ear, recorded, faults>>

\* 1.5 s without a block; the third time in a row the recorder is destroyed
\* and the next read opens it again.
cap_empty ==
    /\ cap.open /\ ~cap.held /\ cap.filled = cap.taken
    /\ rec.stalls
    /\ IF cap.empty + 1 >= StallReads
       THEN /\ cap' = [cap EXCEPT !.open = FALSE, !.empty = 0]
            /\ rec' = [q |-> <<>>, stalls |-> FALSE]
       ELSE cap' = [cap EXCEPT !.empty = @ + 1] /\ UNCHANGED rec
    /\ UNCHANGED <<block, playing, ear, recorded, faults>>

RecStalls ==
    /\ cap.open /\ ~rec.stalls /\ Fault
    /\ rec' = [rec EXCEPT !.stalls = TRUE]
    /\ UNCHANGED <<cap, block, playing, ear, recorded>>

(* ------------------------------- a player ------------------------------ *)

\* The player takes its oldest slot: the callback gives the slot back.
play_cb(s) ==
    /\ str[s].open /\ ~play[s].stalls /\ play[s].q # <<>>
    /\ heard' = [heard EXCEPT ![s] = Append(@, slot[s][Head(play[s].q)])]
    /\ play' = [play EXCEPT ![s].q = Tail(@)]
    /\ str' = IF str[s].busy = 0 THEN str
              ELSE [str EXCEPT ![s].busy = @ - 1, ![s].took = @ + 1,
                               ![s].head = (@ + 1) % PlayNBuf]
    /\ UNCHANGED <<capturing, slot, ear, faults>>

\* A player opened (the wait for the speaker's route to rest, 1.5 s at most,
\* only delays it): what is open closes first.
Opens(s) ==
    /\ str' = [str EXCEPT ![s] = [Shut EXCEPT !.open = TRUE]]
    /\ play' = [play EXCEPT ![s] = [q |-> <<>>, stalls |-> FALSE]]
    /\ heard' = [heard EXCEPT ![s] = <<>>]
    /\ UNCHANGED slot

\* Fault: a slot is written without waiting for a free one.
WritesAhead(s) ==
    /\ slot' = [slot EXCEPT ![s][str[s].next] = str[s].wrote + 1]
    /\ play' = [play EXCEPT ![s].q = Append(@, str[s].next)]
    /\ str' = [str EXCEPT ![s].busy = @ + 1, ![s].next = (@ + 1) % PlayNBuf, ![s].wrote = @ + 1]
    /\ UNCHANGED heard

\* One slot copied and queued.
Writes(s) ==
    /\ str[s].busy < PlayNBuf
    /\ slot' = [slot EXCEPT ![s][str[s].next] = str[s].wrote + 1]
    /\ play' = [play EXCEPT ![s].q = Append(@, str[s].next)]
    /\ str' = [str EXCEPT ![s].busy = @ + 1, ![s].next = (@ + 1) % PlayNBuf, ![s].wrote = @ + 1]
    /\ UNCHANGED heard

\* Stopped, its queue cleared, destroyed.
Closes(s) ==
    /\ str' = [str EXCEPT ![s].open = FALSE, ![s].busy = 0]
    /\ play' = [play EXCEPT ![s] = [q |-> <<>>, stalls |-> FALSE]]
    /\ UNCHANGED <<slot, heard>>

\* No slot came back for 2 s: the write fails.
Consumes(s) == ~play[s].stalls

PlayStalls(s) ==
    /\ str[s].open /\ ~play[s].stalls /\ Fault
    /\ play' = [play EXCEPT ![s].stalls = TRUE]
    /\ UNCHANGED <<capturing, str, slot, heard, ear>>

s_drained(s) == ~str[s].open \/ str[s].wrote = str[s].took

(* ------------------------------ the voice ------------------------------ *)

VoiceOnly == UNCHANGED <<capturing, ear, faults>>

play_open ==
    /\ use = "voice"
    /\ ~str["voice"].open \/ str["voice"].wrote = MaxBlocks
    /\ Opens("voice") /\ VoiceOnly

play_write ==
    /\ str["voice"].open /\ str["voice"].wrote < MaxBlocks
    /\ Writes("voice") /\ VoiceOnly

\* Closed once every slot is back, or at once: not wanted, or 5 s over.
play_close(drain) ==
    /\ str["voice"].open
    /\ drain => s_drained("voice") \/ ~Consumes("voice")
    /\ Closes("voice") /\ VoiceOnly

(* ------------------------------ an earcon ------------------------------ *)

EarOnly == UNCHANGED capturing

\* A sound wanted, for as long as `go' says; a cold output gets a silent slot
\* first.
play_earcon ==
    /\ use = "earcon" /\ ear.at = "idle" /\ ~ear.cut
    /\ \/ /\ Opens("earcon")
          /\ \E cold \in {0, 1} :
               ear' = [at |-> "write", left |-> Sound + cold, go |-> TRUE, late |-> FALSE, cut |-> FALSE]
          /\ UNCHANGED faults
       \/ Fault /\ UNCHANGED <<playing, ear>>
    /\ EarOnly

\* Nobody wants it any more.
go_over ==
    /\ ear.at # "idle" /\ ear.go
    /\ ear' = [ear EXCEPT !.go = FALSE]
    /\ UNCHANGED <<capturing, playing, faults>>

ear_write ==
    /\ ear.at = "write" /\ ear.left > 0 /\ ear.go
    /\ Writes("earcon")
    /\ ear' = [ear EXCEPT !.left = @ - 1]
    /\ EarOnly /\ UNCHANGED faults

\* All of it written, not wanted, or the player took no slot for 2 s.
ear_written ==
    /\ ear.at = "write"
    /\ \/ ear.left = 0 \/ ~ear.go
       \/ str["earcon"].busy = PlayNBuf /\ ~Consumes("earcon")
    /\ ear' = [ear EXCEPT !.at = "drain"]
    /\ EarOnly /\ UNCHANGED <<playing, faults>>

\* The sound's length and a second are over: a player that stopped taking is
\* not waited for.
ear_late ==
    /\ ear.at = "drain" /\ ~ear.late /\ ~Consumes("earcon")
    /\ ear' = [ear EXCEPT !.late = TRUE]
    /\ EarOnly /\ UNCHANGED <<playing, faults>>

ear_close ==
    /\ ear.at = "drain"
    /\ s_drained("earcon") \/ ~ear.go \/ ear.late
    /\ Closes("earcon")
    /\ ear' = [ear EXCEPT !.at = "idle", !.cut = ear.late \/ ~ear.go \/ ear.left > 0]
    /\ EarOnly /\ UNCHANGED faults

\* The thread's next sound.
ear_next ==
    /\ ear.at = "idle" /\ ear.cut
    /\ ear' = [ear EXCEPT !.cut = FALSE]
    /\ heard' = [heard EXCEPT !["earcon"] = <<>>]
    /\ EarOnly /\ UNCHANGED <<str, slot, play, faults>>

ear_steps == ear_write \/ ear_written \/ ear_late \/ ear_close

Step ==
    \/ cap_open \/ cap_cb \/ cap_return \/ cap_read \/ cap_empty \/ RecStalls
    \/ \E s \in Players : play_cb(s) \/ PlayStalls(s)
    \/ play_open \/ play_write \/ \E drain \in BOOLEAN : play_close(drain)
    \/ play_earcon \/ go_over \/ ear_next \/ ear_steps

PNext == Step /\ UNCHANGED use

\* The sound's thread, its player, the capture thread and the recorder.
SoundStep == ear_steps /\ UNCHANGED use
SoundPlays == play_cb("earcon") /\ UNCHANGED use
CaptureStep == (cap_open \/ cap_return \/ cap_read \/ cap_empty) /\ UNCHANGED use
Records == cap_cb /\ UNCHANGED use

PSpec == PInit /\ [][PNext]_streamvars

(* ------------------------------ properties ----------------------------- *)

\* The block the capture thread reads is the oldest recorded one, is not with
\* the recorder, and stays as it was recorded while it is read (cap_read's
\* ring, audio_android.c); a player hears what was written, in order, nothing
\* twice and nothing overwritten in its slot (s_write, play_cb); and a sound
\* that was wanted to its end was heard to its end (play_earcon_while).
AudioInOrder ==
    /\ cap.held => /\ block[cap.taken % CapNBuf] = cap.taken + 1
                   /\ \A i \in DOMAIN rec.q : rec.q[i] # cap.taken % CapNBuf
    /\ \A s \in Players : \A i \in DOMAIN heard[s] : heard[s][i] = i
    /\ (ear.at = "idle" /\ ~ear.cut /\ heard["earcon"] # <<>>) => Len(heard["earcon"]) >= Sound

\* A sound ends even on a player that stops taking slots, so that the next
\* one is not queued behind it for ever; and a recorder that stops delivering
\* is opened again.
AudioOver == ear.at = "idle" /\ ~rec.stalls
=============================================================================
