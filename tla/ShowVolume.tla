----------------------------- MODULE ShowVolume -----------------------------
(***************************************************************************)
(* The Echo Show's volume and the Bluetooth speaker's route, both Android's *)
(* (audio_android.c).  hassmic's own 0..100 is kept in state/volume; the   *)
(* file and Android's index, one per output device, are written by a       *)
(* thread of their own, the newest value winning.  The route is the audio  *)
(* policy's connection state, and state/a2dp-route tells the next run what *)
(* this one left connected.                                                *)
(***************************************************************************)
EXTENDS Integers, FiniteSets

CONSTANTS Level,         \* volumes
          MaxCalls,      \* bound on the core's calls
          MaxFaults,     \* bound on calls of the service tool and writes that fail, and on audioserver restarts
          MaxKills,      \* bound on hassmic's restarts
          None           \* no value

VARIABLES vols,          \* the volumes of main and tts, as the core set them
          loaded, pushed,
          want, store,   \* for the thread: the index to set, the file to write
          taken,         \* what the thread took and has not done yet
          volFile,       \* state/volume
          index,         \* Android's index for each device
          policy,        \* the speaker is connected in the audio policy
          routeFile,     \* state/a2dp-route
          moves,         \* a route call: what it does next
          astray,        \* a call failed, or audioserver forgot: the index is not known to be set
          untold,        \* connected, with the file not written, or removed though still connected
          unsaved,       \* state/volume is behind: a write of it failed
          calls, faults, kills

volvars == <<vols, loaded, pushed, want, store, taken, volFile, index, policy, routeFile, moves,
             astray, untold, unsaved, calls, faults, kills>>

Kinds == {"main", "tts"}
Both(m, t) == [main |-> m, tts |-> t]
Idle == [v |-> None, s |-> Both(None, None)]
Rest == [do |-> "none", on |-> FALSE]
Device == IF policy THEN "speaker" ELSE "echo"

VInit ==
    /\ vols = Both(None, None) /\ loaded = FALSE /\ pushed = FALSE
    /\ want = None /\ store = Both(None, None) /\ taken = Idle
    /\ volFile \in {Both(None, None)} \cup {Both(l, l) : l \in Level}
    /\ index \in {[echo |-> l, speaker |-> l] : l \in Level}
    /\ policy = FALSE /\ routeFile = FALSE
    /\ moves = Rest
    /\ astray = TRUE /\ untold = FALSE /\ unsaved = FALSE
    /\ calls = 0 /\ faults = 0 /\ kills = 0

\* The file read once, and never pushed from here.
vol_load == IF loaded THEN vols ELSE volFile

vol_read ==
    /\ ~loaded
    /\ vols' = vol_load /\ loaded' = TRUE
    /\ UNCHANGED <<pushed, want, store, taken, volFile, index, policy, routeFile, moves, astray, untold,
                   calls, faults, kills, unsaved>>

\* A changed value goes to the file; main's also to Android, the first one
\* changed or not.
vol_write(k, v) ==
    /\ calls < MaxCalls
    /\ calls' = calls + 1
    /\ loaded' = TRUE
    /\ LET was == vol_load
           now == [was EXCEPT ![k] = v]
           changed == was[k] # v
       IN  /\ vols' = now
           /\ store' = IF changed
                       THEN Both(IF now.main = None THEN v ELSE now.main,
                                 IF now.tts = None THEN v ELSE now.tts)
                       ELSE store
           /\ IF k = "main" /\ (changed \/ ~pushed)
              THEN pushed' = TRUE /\ want' = v
              ELSE UNCHANGED <<pushed, want>>
    /\ UNCHANGED <<taken, volFile, index, policy, routeFile, moves, astray, untold, faults, kills, unsaved>>

\* The thread takes both, newest values, under the lock...
vol_take ==
    /\ taken = Idle
    /\ want # None \/ store.main # None
    /\ taken' = [v |-> want, s |-> store]
    /\ want' = None /\ store' = Both(None, None)
    /\ UNCHANGED <<vols, loaded, pushed, volFile, index, policy, routeFile, moves, astray, untold, calls,
                   faults, kills, unsaved>>

\* ...writes the file, once...
vol_save ==
    /\ taken.s.main # None
    /\ \/ volFile' = taken.s /\ unsaved' = FALSE /\ UNCHANGED faults
       \/ faults < MaxFaults /\ faults' = faults + 1 /\ unsaved' = TRUE /\ UNCHANGED volFile
    /\ taken' = [taken EXCEPT !.s = Both(None, None)]
    /\ UNCHANGED <<vols, loaded, pushed, want, store, index, policy, routeFile, moves, astray, untold,
                   calls, kills>>

\* ...and sets the index of the device the music plays on; a call that fails
\* (no maximum, no service) is not tried again.
vol_index ==
    /\ taken.s.main = None /\ taken.v # None
    /\ \/ index' = [index EXCEPT ![Device] = taken.v] /\ astray' = FALSE /\ UNCHANGED faults
       \/ faults < MaxFaults /\ faults' = faults + 1 /\ astray' = TRUE /\ UNCHANGED index
    /\ taken' = Idle
    /\ UNCHANGED <<vols, loaded, pushed, want, store, volFile, policy, routeFile, moves, untold, calls,
                   kills, unsaved>>

vol_thread == vol_take \/ vol_save \/ vol_index

\* The route moved: the policy's call, and a second one that reads it back.
audio_a2dp_route(on) ==
    /\ moves = Rest /\ calls < MaxCalls
    /\ calls' = calls + 1
    /\ on # policy
    /\ policy' = on
    /\ untold' = on
    /\ \/ moves' = [do |-> "file", on |-> on] /\ UNCHANGED <<faults, astray>>
       \/ /\ faults < MaxFaults /\ faults' = faults + 1      \* not read back: -1, nothing more
          /\ astray' = TRUE
          /\ moves' = Rest
    /\ UNCHANGED <<vols, loaded, pushed, want, store, taken, volFile, index, routeFile, kills, unsaved>>

\* The file written, or removed; nobody looks whether it was.
route_file ==
    /\ moves.do = "file"
    /\ \/ routeFile' = moves.on /\ untold' = FALSE /\ UNCHANGED faults
       \/ faults < MaxFaults /\ faults' = faults + 1 /\ UNCHANGED <<routeFile, untold>>
    /\ moves' = [moves EXCEPT !.do = "push"]
    /\ UNCHANGED <<vols, loaded, pushed, want, store, taken, volFile, index, policy, astray, calls,
                   kills, unsaved>>

\* The volume set again, for the device it now is.
route_push ==
    /\ moves.do = "push"
    /\ loaded' = TRUE /\ vols' = vol_load
    /\ want' = IF vol_load.main # None THEN vol_load.main ELSE want
    /\ astray' = IF vol_load.main # None THEN astray ELSE TRUE
    /\ moves' = Rest
    /\ UNCHANGED <<pushed, store, taken, volFile, index, policy, routeFile, untold, calls, faults, kills, unsaved>>

\* audioserver starts again: the policy forgets the speaker.
policy_forgets ==
    /\ faults < MaxFaults /\ faults' = faults + 1
    /\ policy /\ moves = Rest
    /\ policy' = FALSE /\ astray' = TRUE /\ untold' = FALSE
    /\ UNCHANGED <<vols, loaded, pushed, want, store, taken, volFile, index, routeFile, moves, calls, kills, unsaved>>

\* hassmic ends and starts again: a speaker its file names is taken off the
\* policy, the file removed whether that worked or not, and what was not
\* written is gone.
audio_a2dp_reset ==
    /\ kills < MaxKills
    /\ kills' = kills + 1
    /\ \/ policy' = (IF routeFile THEN FALSE ELSE policy) /\ untold' = (IF routeFile THEN FALSE ELSE untold)
          /\ UNCHANGED faults
       \/ routeFile /\ policy /\ faults < MaxFaults /\ faults' = faults + 1 /\ untold' = TRUE /\ UNCHANGED policy
    /\ routeFile' = FALSE
    /\ vols' = Both(None, None) /\ loaded' = FALSE /\ pushed' = FALSE
    /\ want' = None /\ store' = Both(None, None) /\ taken' = Idle /\ moves' = Rest
    /\ astray' = TRUE
    /\ UNCHANGED <<volFile, index, calls, unsaved>>

VNext ==
    \/ vol_read \/ \E k \in Kinds, v \in Level : vol_write(k, v)
    \/ vol_take \/ vol_save \/ vol_index
    \/ \E on \in BOOLEAN : audio_a2dp_route(on)
    \/ route_file \/ route_push \/ policy_forgets \/ audio_a2dp_reset

VSpec == VInit /\ [][VNext]_volvars

(* ------------------------------ properties ----------------------------- *)

\* With the thread at rest, what the next start reads is what the core set,
\* but for a file that could not be written, up to the next; and the device the
\* music plays on has the core's volume, whichever way the route moved while
\* the thread was setting an index (vol_thread, audio_a2dp_route); and a
\* speaker connected in the policy is named in the file a restarted hassmic
\* takes it off with, unless the run ended in between, the policy did not
\* answer or the file could not be written (audio_a2dp_reset).
VolumeReached ==
    /\ (taken = Idle /\ want = None /\ store.main = None /\ loaded) =>
           /\ ~unsaved => \A k \in Kinds : vols[k] # None => volFile[k] = vols[k]
           /\ (moves = Rest /\ ~astray /\ vols.main # None) => index[Device] = vols.main
    /\ (policy /\ moves = Rest) => routeFile \/ untold
=============================================================================
