------------------------------- MODULE Volume -------------------------------
(***************************************************************************)
(* The Echo's volume (main.c): one volume or four separate ones, stock's   *)
(* curve or even steps, a Bluetooth speaker with a volume of its own, the  *)
(* mixer's MainVolume and TTSVolume that anything may move, and the two    *)
(* files the volume is kept in when MainVolume does not say it:            *)
(* volume.speaker (the Echo's own, while a speaker plays) and volume.music.*)
(*                                                                         *)
(* A level is 0..Full.  Curve[v] is the point of the mixer's curve at      *)
(* least as loud as even step v (board_vol_at); the gains of our own PCM,  *)
(* the ring's display and what the clients are told are left out.  A level *)
(* is set by a stock tool that is not waited for (vol_write of             *)
(* audio_mixer.c): each gets to the mixer when it does, in any order, and  *)
(* what is read meanwhile is the old one.  The program may be killed       *)
(* between any two steps; the mixer, the tools under way, the files and    *)
(* the settings outlive it.  A start (core_volume's first call and         *)
(* settings_load) is one step.                                             *)
(***************************************************************************)
EXTENDS Integers, FiniteSets, FiniteSetsExt, SequencesExt

CONSTANTS
    Full,       \* the loudest level
    Curve,      \* [0..Full -> 0..Full]: board_vol_at of an even step
    Kinds,      \* the kinds with a volume of their own
    FirstEven,  \* the setting even_volume when the model begins
    MaxCalls,   \* bound: calls by the user, the speaker, the settings
    MaxStray,   \* bound: changes of the mixer from outside
    MaxKills,   \* bound: deaths of the program
    MaxFails,   \* bound: files not written
    MaxLate,    \* bound: set_prop tools under way
    Nothing     \* no file, no snapshot

VARIABLES
    vol,        \* volume, split, even, kinds, mode, own, mainW, ttsW, dirty; ghost: the target moved since volume_sync looked
    mixer,      \* MainVolume and TTSVolume, and the tools under way to set them
    speakerF,   \* state/volume.speaker
    musicF,     \* state/volume.music
    sync,       \* volume_led_thread: where it is, and what it read
    up,         \* the program runs
    ownEver,    \* ghost: every level the Echo's own volume was meant to have
    kept,       \* files not written; ghost: what the two files hold, and whether that was lost or a read raced
    calls, strays, kills

vars == <<vol, mixer, speakerF, musicF, sync, up, ownEver, kept, calls, strays, kills>>
bounds == <<calls, strays, kills>>

Level == 0 .. Full
Modes == {"none", "mixer", "absolute"}

clamp100(v) == Max({0, Min({Full, v})})

stream_owns_volume(s) == ~s.split /\ ~s.even

kind_volume(s, k) ==
    IF s.kinds[k].linked THEN clamp100(s.volume + s.kinds[k].offset) ELSE s.kinds[k].level

(* a call's kind counts only while a call is on; the model has the others *)
loudest(s) ==
    IF s.split THEN Max({s.volume} \cup {kind_volume(s, k) : k \in Kinds}) ELSE s.volume

mix_target(s) ==
    IF s.mode = "absolute" THEN Full ELSE IF s.even THEN Curve[loudest(s)] ELSE loudest(s)

vol_write(which, v) == [which |-> which, v |-> v]

(* Each of the two is written when it is not what we last set. *)
mix_apply(s) ==
    LET v == mix_target(s)
    IN  /\ vol' = [s EXCEPT !.mainW = v, !.ttsW = v, !.moved = @ \/ v # mix_target(vol)]
        /\ mixer' = [mixer EXCEPT !.late = @ \o (IF v # s.mainW THEN <<vol_write("main", v)>> ELSE <<>>)
                                            \o (IF v # s.ttsW THEN <<vol_write("tts", v)>> ELSE <<>>)]
        /\ Len(mixer'.late) <= MaxLate

music_volume_keep(s) == [s EXCEPT !.dirty = ~stream_owns_volume(s)]

(* What the Echo's own speaker is to play at. *)
ownVolume(s) == IF s.mode = "none" THEN s.volume ELSE s.own

Call == up /\ calls < MaxCalls /\ calls' = calls + 1 /\ UNCHANGED <<strays, kills, up, sync>>

meant(s) == ownEver' = IF s.mode = "none" THEN ownEver \cup {s.volume} ELSE ownEver

idle == [pc |-> "sync", cur |-> 0, want |-> 0, main |-> 0, tts |-> 0, v |-> 0]

(* The volume was at v for some time: the mixer and the files agree. *)
VInit ==
    \E v \in Level :
        LET s == [volume |-> v, split |-> FALSE, even |-> FirstEven, mode |-> "none", own |-> v, dirty |-> FALSE, moved |-> FALSE,
                  mainW |-> v, ttsW |-> v, kinds |-> [k \in Kinds |-> [level |-> v, linked |-> FALSE, offset |-> 0]]]
            t == mix_target(s)
        IN  /\ vol = [s EXCEPT !.mainW = t, !.ttsW = t]
            /\ mixer = [main |-> t, tts |-> t, late |-> <<>>]
            /\ musicF = IF FirstEven THEN v ELSE Nothing
            /\ speakerF = Nothing /\ sync = idle /\ up = TRUE /\ ownEver = {v}
            /\ kept = [music |-> "yes", own |-> TRUE, lost |-> FALSE, raced |-> FALSE, failed |-> 0]
            /\ calls = 0 /\ strays = 0 /\ kills = 0

--------------------------------------------------------------------------
(* The media player, Sendspin, the phone, the keys (on_volume: a kind's    *)
(* own level when it is what plays) and the speaker's own buttons.         *)
core_set_volume(v) ==
    LET s == [vol EXCEPT !.volume = clamp100(v)]
        t == IF ~stream_owns_volume(s) /\ s.mode = "none" THEN music_volume_keep(s) ELSE s
    IN  mix_apply(t) /\ meant(t) /\ UNCHANGED <<speakerF, musicF, kept>>

SetVolume == Call /\ \E v \in Level : core_set_volume(v)

core_speaker_volume ==
    /\ Call /\ vol.mode = "absolute"
    /\ \E pct \in Level : core_set_volume(IF vol.split THEN vol.volume + pct - loudest(vol) ELSE pct)

level_step(k, v) ==
    /\ mix_apply([vol EXCEPT !.kinds[k].level = v])
    /\ UNCHANGED <<speakerF, musicF, ownEver, kept>>

on_volume ==
    /\ Call
    /\ \E dir \in {-1, 1}, plays \in Kinds \cup {Nothing} :
        IF vol.split /\ plays # Nothing /\ ~vol.kinds[plays].linked
        THEN level_step(plays, clamp100(vol.kinds[plays].level + dir))
        ELSE core_set_volume(vol.volume + dir)

core_kind_volume == Call /\ vol.split /\ \E k \in Kinds, v \in Level : level_step(k, v)

core_kind_linked ==
    /\ Call /\ vol.split
    /\ \E k \in Kinds :
        LET kd == vol.kinds[k]
            music == ownVolume(vol)
        IN  mix_apply([vol EXCEPT !.kinds[k] =
                IF kd.linked THEN [kd EXCEPT !.linked = FALSE, !.level = clamp100(music + kd.offset)]
                ELSE [kd EXCEPT !.linked = TRUE, !.offset = kd.level - music]])
    /\ UNCHANGED <<speakerF, musicF, ownEver, kept>>

(* From here on MainVolume is the volume, or it is not and the file must be *)
(* written first.                                                         *)
switched(s) ==
    kept' = [kept EXCEPT !.music = IF stream_owns_volume(s) THEN "yes" ELSE IF stream_owns_volume(vol) THEN "owed" ELSE @]

Fails == kept.failed < MaxFails

core_separate_volumes ==
    /\ Call
    /\ LET s == [vol EXCEPT !.split = ~@,
                    !.kinds = IF vol.split THEN @ ELSE [k \in Kinds |-> [@[k] EXCEPT !.level = ownVolume(vol)]]]
           keep == ~s.split \/ s.mode = "none"
       IN  /\ mix_apply(IF keep THEN music_volume_keep(s) ELSE s)
           /\ musicF' = IF keep /\ stream_owns_volume(s) THEN Nothing ELSE musicF
           /\ switched(s)
    /\ UNCHANGED <<speakerF, ownEver>>

core_even_volume ==
    /\ Call
    /\ LET s == [vol EXCEPT !.even = ~@]
           keep == stream_owns_volume(s) \/ s.mode = "none"
       IN  /\ mix_apply(IF keep THEN music_volume_keep(s) ELSE s)
           /\ musicF' = IF keep /\ stream_owns_volume(s) THEN Nothing ELSE musicF
           /\ switched(s)
    /\ UNCHANGED <<speakerF, ownEver>>

(* btout.c tells that what plays goes to a speaker, or back to the Echo. *)
core_speaker ==
    /\ Call
    /\ \E mode \in Modes \ {vol.mode}, pct \in Level :
        LET s == IF vol.mode = "none" THEN [vol EXCEPT !.own = vol.volume] ELSE vol
            t == CASE mode = "none" -> [s EXCEPT !.volume = s.own, !.mode = mode,
                                            !.dirty = IF stream_owns_volume(s) THEN @ ELSE TRUE]
                   [] mode = "absolute" -> [s EXCEPT !.volume = pct, !.mode = mode]
                   [] OTHER -> [s EXCEPT !.mode = mode]
        IN  /\ mode # "absolute" => pct = 0
            /\ mix_apply(t)
            /\ \/ mode = "none" /\ speakerF' = Nothing /\ kept' = [kept EXCEPT !.own = TRUE]
               \/ mode # "none" /\ vol.mode # "none" /\ UNCHANGED <<speakerF, kept>>
               \/ mode # "none" /\ vol.mode = "none" /\ speakerF' = vol.volume /\ UNCHANGED kept
               \/ /\ mode # "none" /\ vol.mode = "none" /\ Fails                   \* not opened
                  /\ kept' = [kept EXCEPT !.own = FALSE, !.failed = @ + 1] /\ UNCHANGED speakerF
    /\ UNCHANGED <<musicF, ownEver>>

--------------------------------------------------------------------------
(* volume_led_thread: volume_sync reads the mixer without the lock, then   *)
(* music_volume_write writes without it.                                   *)
Thread == up /\ UNCHANGED <<up, bounds>>

sync_snapshot ==
    /\ Thread /\ sync.pc = "sync"
    /\ sync' = [sync EXCEPT !.pc = "read", !.cur = vol.volume, !.want = mix_target(vol)]
    /\ vol' = [vol EXCEPT !.moved = FALSE]
    /\ UNCHANGED <<mixer, speakerF, musicF, ownEver, kept>>

sync_read ==
    /\ Thread /\ sync.pc = "read"
    /\ sync' = [sync EXCEPT !.pc = "apply", !.main = mixer.main, !.tts = mixer.tts]
    /\ kept' = [kept EXCEPT !.raced = @ \/ mixer.late # <<>>]
    /\ UNCHANGED <<vol, mixer, speakerF, musicF, ownEver>>

(* A changed MainVolume is the user's wish if it is the volume, else it is  *)
(* pulled back; a strayed TTSVolume is; nothing, if someone set it meanwhile. *)
sync_apply ==
    /\ Thread /\ sync.pc = "apply" /\ sync' = [idle EXCEPT !.pc = "take"]
    /\ IF vol.mode = "absolute"
       THEN IF sync.main = Full /\ sync.tts # Full THEN mix_apply([vol EXCEPT !.ttsW = -1]) ELSE UNCHANGED <<vol, mixer>>
       ELSE IF vol.volume = sync.cur /\ mix_target(vol) = sync.want
       THEN LET stray == sync.main # sync.want
                s == CASE stray /\ stream_owns_volume(vol) -> [vol EXCEPT !.volume = sync.main, !.mainW = sync.main]
                       [] stray /\ ~stream_owns_volume(vol) -> [vol EXCEPT !.mainW = -1]
                       [] OTHER -> vol
            IN  mix_apply(IF sync.tts # mix_target(s) THEN [s EXCEPT !.ttsW = -1] ELSE s)
       ELSE UNCHANGED <<vol, mixer>>
    /\ kept' = [kept EXCEPT !.raced = @ \/ vol.moved]
    /\ UNCHANGED <<speakerF, musicF, ownEver>>

write_take ==
    /\ Thread /\ sync.pc = "take"
    /\ sync' = IF vol.dirty THEN [idle EXCEPT !.pc = "write", !.v = ownVolume(vol)] ELSE idle
    /\ vol' = [vol EXCEPT !.dirty = FALSE]
    /\ UNCHANGED <<mixer, speakerF, musicF, ownEver, kept>>

(* Nobody looks whether it was written, and it is not marked again. *)
write_file ==
    /\ Thread /\ sync.pc = "write" /\ sync' = [idle EXCEPT !.pc = "check"]
    /\ \/ musicF' = sync.v /\ kept' = [kept EXCEPT !.music = "yes"]
       \/ Fails /\ musicF' = musicF /\ kept' = [kept EXCEPT !.music = IF @ = "owed" THEN @ ELSE "stale", !.failed = @ + 1]
    /\ UNCHANGED <<vol, mixer, speakerF, ownEver>>

write_check ==
    /\ Thread /\ sync.pc = "check" /\ sync' = idle
    /\ musicF' = IF stream_owns_volume(vol) THEN Nothing ELSE musicF
    /\ UNCHANGED <<vol, mixer, speakerF, ownEver, kept>>

(* A tool gets to the mixer, overtaking one that was started before it. *)
set_prop ==
    \E i \in DOMAIN mixer.late :
        LET t == mixer.late[i] IN
        /\ mixer' = [mixer EXCEPT ![t.which] = t.v, !.late = RemoveAt(@, i)]
        /\ kept' = [kept EXCEPT !.raced = @ \/ \E j \in 1 .. i - 1 : mixer.late[j].which = t.which]
        /\ UNCHANGED <<vol, speakerF, musicF, sync, up, ownEver, bounds>>

(* A stock daemon, the stock keys, audio_manager_set_prop. *)
Stray ==
    /\ strays < MaxStray /\ strays' = strays + 1
    /\ \E w \in {"main", "tts"}, v \in Level :
        /\ mixer' = [mixer EXCEPT ![w] = v]
        /\ ownEver' = IF w = "main" THEN ownEver \cup {v} ELSE ownEver
    /\ UNCHANGED <<vol, speakerF, musicF, sync, up, kept, calls, kills>>

Kill ==
    /\ up /\ kills < MaxKills /\ kills' = kills + 1
    /\ up' = FALSE /\ sync' = idle
    /\ kept' = [kept EXCEPT !.lost = @ \/ kept.music = "owed" \/ ~kept.own]
    /\ UNCHANGED <<vol, mixer, speakerF, musicF, ownEver, calls, strays>>

(* core_volume's first call, then settings_load: turning the separate     *)
(* volumes on marks volume.music to be written; the even steps are on from *)
(* the beginning, and only turning them off does anything.                *)
core_volume ==
    /\ ~up /\ up' = TRUE
    /\ LET ours == ~stream_owns_volume(vol)
           v == IF speakerF # Nothing THEN speakerF ELSE IF ours /\ musicF # Nothing THEN musicF ELSE mixer.main
           s == [vol EXCEPT !.volume = v, !.mode = "none", !.own = 0, !.mainW = -1, !.ttsW = -1, !.dirty = vol.split]
           first == ours /\ speakerF = Nothing /\ musicF = Nothing
           now == [kept EXCEPT !.own = TRUE, !.raced = @ \/ mixer.late # <<>>]
       IN  /\ mix_apply(s)
           /\ \/ musicF' = (IF ~ours THEN Nothing ELSE IF first THEN v ELSE musicF) /\ kept' = now
              \/ /\ first /\ Fails /\ musicF' = musicF
                 /\ kept' = [now EXCEPT !.music = "owed", !.failed = @ + 1]
    /\ speakerF' = Nothing
    /\ UNCHANGED <<sync, ownEver, bounds>>

VNext ==
    \/ SetVolume \/ core_speaker_volume \/ on_volume \/ core_kind_volume \/ core_kind_linked
    \/ core_separate_volumes \/ core_even_volume \/ core_speaker
    \/ sync_snapshot \/ sync_read \/ sync_apply \/ write_take \/ write_file \/ write_check
    \/ set_prop \/ Stray \/ Kill \/ core_volume

SyncThread == sync_snapshot \/ sync_read \/ sync_apply \/ write_take \/ write_file \/ write_check
VSpec == VInit /\ [][VNext]_vars

--------------------------------------------------------------------------
(* What the Echo's own speaker plays at is a level that was meant for it:  *)
(* never the Bluetooth speaker's, the mixer's full scale or a point of the *)
(* curve taken for the volume, whatever dies and whatever order the files  *)
(* are written in (core_volume, core_speaker, music_volume_write).  But    *)
(* for a death before the first volume.music after MainVolume stopped      *)
(* being the volume (core_even_volume and core_separate_volumes move the   *)
(* mixer at once and leave the file to music_volume_write), a death on a   *)
(* speaker whose volume.speaker could not be opened, a level read back     *)
(* while a tool was under way or set by one that a later one overtook      *)
(* (vol_write does not wait), and a volume_sync during which the mixer     *)
(* moved and came back (it compares only the two ends).                    *)
NeverTheSpeakers == up /\ vol.mode = "none" /\ ~kept.lost /\ ~kept.raced => vol.volume \in ownEver

(* The mixer comes to play what it should (volume_sync, mix_apply), with   *)
(* the tools in whatever order, and volume.music to hold the Echo's own    *)
(* volume when MainVolume does not (music_volume_write), whatever moved    *)
(* behind the program's back; but for a write that failed, up to the next. *)
VolumeSettled ==
    /\ vol.mode # "absolute" => mixer.main = mix_target(vol) /\ mixer.tts = mix_target(vol)
    /\ ~stream_owns_volume(vol) /\ kept.music = "yes" => musicF = ownVolume(vol)
=============================================================================
