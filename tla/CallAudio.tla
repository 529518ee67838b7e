----------------------------- MODULE CallAudio -----------------------------
(***************************************************************************)
(* The audio of a Drop In (dropin.c), from one Echo's microphone to the    *)
(* other's speaker: send_frame numbers and sends each frame, a network     *)
(* that loses, reorders and repeats packets, on_audio files them in the    *)
(* jitter buffer, the playout thread takes one frame per turn.  Calls      *)
(* follow one another at both ends (DropIn has how they begin and end);    *)
(* packets of an earlier call do not authenticate.  Levels, echo           *)
(* suppression and Opus are left out; the 32-bit numbers start at 0 with   *)
(* every call and do not wrap within one.                                  *)
(***************************************************************************)
EXTENDS Integers, FiniteSets

CONSTANTS
    JB,        \* slots of the jitter buffer
    PREBUF,    \* frames to begin with
    MAXBUF,    \* more waiting than this: skip ahead
    MaxCalls,  \* bound: calls
    MaxSeq     \* bound: frames sent in a call

VARIABLES
    gen,       \* c.gen: the call
    live,      \* c.state = DROPIN_LIVE
    tx,        \* c.tx_seq
    mic,       \* the frame send_frame has taken a number for and not yet sent
    air,       \* packets on their way: <<call, number>>
    jb,        \* the jitter buffer: the number each slot holds, -1 none
    ends,      \* jb_any, jb_hi, jb_lo
    out,       \* the playout thread: the call it plays, started, its next frame
    got,       \* ghost: the call's frames that arrived
    over,      \* ghost: arrived, and overwritten by a packet JB frames older
    played,    \* ghost: numbers decoded in the call, in order: the last, and whether ever out of order
    missed     \* ghost: a frame that had arrived was passed over without being played

Frame == <<gen, tx>>
NoFrame == <<0, 0>>
Waiting == [gen |-> 0, started |-> FALSE, next |-> 0]
callvars == <<gen, live, tx, mic, air, jb, ends, out, got, over, played, missed>>

JInit ==
    /\ gen = 0 /\ live = FALSE /\ tx = 0 /\ mic = NoFrame /\ air = {}
    /\ jb = [i \in 0..(JB - 1) |-> -1] /\ ends = [any |-> FALSE, hi |-> 0, lo |-> 0]
    /\ out = Waiting /\ got = {} /\ over = {} /\ played = [last |-> -1, fine |-> TRUE] /\ missed = FALSE

(* go_live: a call begins with an empty buffer and the numbers at 0.       *)
go_live ==
    /\ ~live /\ gen < MaxCalls
    /\ gen' = gen + 1 /\ live' = TRUE /\ tx' = 0
    /\ jb' = [i \in 0..(JB - 1) |-> -1] /\ ends' = [any |-> FALSE, hi |-> 0, lo |-> 0]
    /\ got' = {} /\ over' = {} /\ played' = [played EXCEPT !.last = -1]
    /\ UNCHANGED <<mic, air, out, missed>>

end_call ==
    /\ live /\ live' = FALSE
    /\ UNCHANGED <<gen, tx, mic, air, jb, ends, out, got, over, played, missed>>

(* send_frame: the number under the lock; encoded and sent after it, by    *)
(* when the call may be over.                                              *)
send_frame ==
    /\ live /\ mic = NoFrame /\ tx < MaxSeq
    /\ mic' = Frame /\ tx' = tx + 1
    /\ UNCHANGED <<gen, live, air, jb, ends, out, got, over, played, missed>>
send_out ==
    /\ mic # NoFrame /\ mic' = NoFrame
    /\ air' = air \cup {mic} \/ air' = air
    /\ UNCHANGED <<gen, live, tx, jb, ends, out, got, over, played, missed>>

(* on_audio: a packet of this call that is not far too old takes its slot. *)
(* The network may deliver it again.                                       *)
FarTooOld(seq) == ends.any /\ seq - ends.hi < -JB
on_audio(p) ==
    LET seq == p[2]
        was == jb[seq % JB]
    IN  /\ p \in air /\ live /\ p[1] = gen
        /\ air' = air \/ air' = air \ {p}
        /\ IF FarTooOld(seq) THEN UNCHANGED <<jb, ends, got, over>>
           ELSE /\ jb' = [jb EXCEPT ![seq % JB] = seq]
                /\ ends' = [any |-> TRUE,
                            hi |-> IF ~ends.any \/ seq > ends.hi THEN seq ELSE ends.hi,
                            lo |-> IF ~ends.any \/ seq < ends.lo THEN seq ELSE ends.lo]
                /\ got' = got \cup {seq}
                /\ over' = IF was > seq THEN over \cup {was} ELSE over \ {seq}
    /\ UNCHANGED <<gen, live, tx, mic, out, played, missed>>

(* Lost, or arrived when it is no call's any more.                         *)
Lose(p) ==
    /\ p \in air /\ air' = air \ {p}
    /\ UNCHANGED <<gen, live, tx, mic, jb, ends, out, got, over, played, missed>>

(* playout: a call to play; it is over or another one's.                   *)
playout_begins ==
    /\ out.gen = 0 /\ live
    /\ out' = [Waiting EXCEPT !.gen = gen]
    /\ UNCHANGED <<gen, live, tx, mic, air, jb, ends, got, over, played, missed>>
playout_ends ==
    /\ out.gen # 0 /\ (~live \/ gen # out.gen)
    /\ out' = Waiting
    /\ UNCHANGED <<gen, live, tx, mic, air, jb, ends, got, over, played, missed>>

(* Where the playout stands at its turn: begun once enough is there or it  *)
(* has waited long enough, ahead when too much waits.                      *)
Starts(begin) == IF out.started THEN out.next ELSE IF begin THEN ends.lo ELSE -1
Ahead(n) == IF ends.hi - n > MAXBUF THEN ends.hi - (PREBUF - 1) ELSE n

(* One turn: the frame if its slot has it; nothing newer yet, it waits;    *)
(* else it is lost for good, rebuilt from the next one if that is there.   *)
playout_turn ==
    /\ out.gen # 0 /\ live /\ gen = out.gen
    /\ \E begin \in {b \in BOOLEAN : b => ends.any} :
        /\ (ends.any /\ ends.hi - ends.lo >= PREBUF - 1) => begin
        /\ out.started \/ begin
        /\ LET n == Ahead(Starts(begin))
               here == jb[n % JB] = n
               goes == here \/ ends.hi > n
           IN  /\ out' = [out EXCEPT !.started = TRUE, !.next = IF goes THEN n + 1 ELSE n]
               /\ jb' = IF goes THEN [jb EXCEPT ![n % JB] = -1] ELSE jb
               /\ played' = IF here THEN [last |-> n, fine |-> played.fine /\ n > played.last] ELSE played
               /\ missed' = (missed \/ (goes /\ ~here /\ n \in got \ over))
    /\ UNCHANGED <<gen, live, tx, mic, air, ends, got, over>>

JNext ==
    \/ go_live \/ end_call \/ send_frame \/ send_out \/ playout_begins \/ playout_ends \/ playout_turn
    \/ \E p \in (1..MaxCalls) \X (0..MaxSeq) : on_audio(p) \/ Lose(p)

JSpec == JInit /\ [][JNext]_callvars

(* Every frame is played at most once, in the order it was spoken, and a   *)
(* frame that arrived before its turn is played, whatever the network      *)
(* delays, repeats or reorders: no other frame takes its slot before then, *)
(* one exactly JB frames older excepted, which on_audio still lets in.     *)
(* What is passed over when too much waits is not counted.                 *)
FramesInOrder == played.fine /\ ~missed
=============================================================================
