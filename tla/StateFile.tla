------------------------------ MODULE StateFile ------------------------------
(***************************************************************************)
(* State files that survive a hard reset (src/src/hassmic/statefile.c).    *)
(*                                                                         *)
(* Threads of hassmic write one state file PATH at the same time: each     *)
(* takes a temp number nobody else has in flight, writes PATH.tmp<n>,      *)
(* fsyncs it, renames it over PATH, and fsyncs the folder.  Below them is  *)
(* an ext4 without auto_da_alloc: file data and folder entries reach the   *)
(* flash independently and in any order unless they are fsynced, and a     *)
(* power cut leaves what the flash holds.                                  *)
(*                                                                         *)
(* An inode is named by the write that created it: 0 is the file there at  *)
(* the start, the k-th write makes inode k.                                *)
(***************************************************************************)
EXTENDS Naturals, FiniteSets, TLC

CONSTANTS
  Writer,      \* threads that call statefile_open .. statefile_commit
  NSLOT,       \* temp numbers, 100 in the code
  MaxWrites,   \* bound: writes started in a behaviour
  None         \* no inode under that name

ASSUME StateFileAssumption ==
  /\ NSLOT \in Nat \ {0}
  /\ MaxWrites \in Nat
  /\ None \notin Nat

Slot  == 0 .. NSLOT - 1
Inode == 0 .. MaxWrites

VARIABLES
  seq,        \* the shared counter temp numbers are drawn from (mod NSLOT)
  busy,       \* busy[n]: the write holding temp number n is in flight
  pc,         \* where each writer is inside statefile_write
  slot,       \* the number the writer drew, then holds
  tries,      \* numbers it drew so far in this statefile_open
  ino,        \* the inode behind the writer's own stream
  writes,     \* inodes created so far
  path,       \* the folder in memory: the inode under PATH ...
  temp,       \* ... and under PATH.tmp<n>
  flashPath,  \* the folder on the flash
  flashTemp,
  cache,      \* what each inode holds for readers
  flash,      \* what each inode holds on the flash
  rank,       \* history: the how-manieth rename put this inode under PATH
  renames,    \* history: renames over PATH so far
  acked       \* history: the highest rank whose commit returned after its folder sync

code  == <<seq, busy, pc, slot, tries, ino>>
disk  == <<path, temp, flashPath, flashTemp, cache, flash>>
hist  == <<rank, renames, acked>>
vars  == <<seq, busy, pc, slot, tries, ino, writes, path, temp, flashPath, flashTemp, cache, flash,
           rank, renames, acked>>

Content == {"empty", "part", "full"}
Step    == {"idle", "draw", "take", "unlink", "create", "fill", "fsync", "rename", "drop", "release",
            "dirsync"}

TypeOK ==
  /\ seq \in Slot
  /\ busy \in [Slot -> BOOLEAN]
  /\ pc \in [Writer -> Step]
  /\ slot \in [Writer -> Slot]
  /\ tries \in [Writer -> 0 .. NSLOT]
  /\ ino \in [Writer -> Inode]
  /\ writes \in 0 .. MaxWrites
  /\ path \in Inode
  /\ temp \in [Slot -> Inode \cup {None}]
  /\ flashPath \in Inode
  /\ flashTemp \in [Slot -> Inode \cup {None}]
  /\ cache \in [Inode -> Content]
  /\ flash \in [Inode -> Content]
  /\ rank \in [Inode -> Nat]
  /\ renames \in Nat
  /\ acked \in Nat

Init ==
  /\ seq = 0
  /\ busy = [n \in Slot |-> FALSE]
  /\ pc = [w \in Writer |-> "idle"]
  /\ slot = [w \in Writer |-> 0]
  /\ tries = [w \in Writer |-> 0]
  /\ ino = [w \in Writer |-> 0]
  /\ writes = 0
  /\ path = 0 /\ flashPath = 0
  /\ temp = [n \in Slot |-> None]
  /\ flashTemp = [n \in Slot |-> None]
  /\ cache = [i \in Inode |-> IF i = 0 THEN "full" ELSE "empty"]
  /\ flash = [i \in Inode |-> IF i = 0 THEN "full" ELSE "empty"]
  /\ rank = [i \in Inode |-> 0]
  /\ renames = 0
  /\ acked = 0

\* The call returns: its locals (struct statefile, the loop's i) are gone.
Return(w, from) ==
  /\ pc[w] = from
  /\ pc' = [pc EXCEPT ![w] = "idle"]
  /\ slot' = [slot EXCEPT ![w] = 0]
  /\ tries' = [tries EXCEPT ![w] = 0]
  /\ ino' = [ino EXCEPT ![w] = 0]

Goto(w, from, to) == pc[w] = from /\ pc' = [pc EXCEPT ![w] = to]

(***************************************************************************)
(* statefile_open                                                          *)
(***************************************************************************)

\* A thread calls statefile_write.
StartWrite(w) ==
  /\ writes < MaxWrites
  /\ Goto(w, "idle", "draw")
  /\ UNCHANGED <<seq, busy, slot, tries, ino, writes, disk, hist>>

\* n = atomic_fetch_add(&seq, 1) % 100, at most 100 times.
DrawNumber(w) ==
  /\ tries[w] < NSLOT
  /\ Goto(w, "draw", "take")
  /\ slot' = [slot EXCEPT ![w] = seq]
  /\ seq' = (seq + 1) % NSLOT
  /\ tries' = [tries EXCEPT ![w] = @ + 1]
  /\ UNCHANGED <<busy, ino, writes, disk, hist>>

\* Fault: a number in flight is not skipped (the code before busy[] existed).
TakeSlotInFlight(w) ==
  /\ busy' = [busy EXCEPT ![slot[w]] = TRUE]
  /\ Goto(w, "take", "unlink")
  /\ UNCHANGED <<seq, slot, tries, ino, writes, disk, hist>>

\* if (!atomic_exchange(&busy[n], 1)) s->slot = n
TakeSlot(w) ==
  /\ busy' = [busy EXCEPT ![slot[w]] = TRUE]
  /\ Goto(w, "take", IF busy[slot[w]] THEN "draw" ELSE "unlink")
  /\ UNCHANGED <<seq, slot, tries, ino, writes, disk, hist>>

\* Every number drawn was in flight: EAGAIN.
OutOfSlots(w) ==
  /\ tries[w] = NSLOT
  /\ Return(w, "draw")
  /\ UNCHANGED <<seq, busy, writes, disk, hist>>

\* unlink(s->tmp): a fresh file.
UnlinkOld(w) ==
  /\ Goto(w, "unlink", "create")
  /\ temp' = [temp EXCEPT ![slot[w]] = None]
  /\ UNCHANGED <<seq, busy, slot, tries, ino, writes, path, flashPath, flashTemp, cache, flash, hist>>

\* open(O_CREAT | O_EXCL), fdopen.
CreateTemp(w) ==
  /\ temp[slot[w]] = None
  /\ writes < MaxWrites
  /\ Goto(w, "create", "fill")
  /\ writes' = writes + 1
  /\ ino' = [ino EXCEPT ![w] = writes + 1]
  /\ temp' = [temp EXCEPT ![slot[w]] = writes + 1]
  /\ UNCHANGED <<seq, busy, slot, tries, path, flashPath, flashTemp, cache, flash, hist>>

\* open fails (the name exists, no space): the number is released.
CreateFails(w) ==
  /\ Goto(w, "create", "release")
  /\ UNCHANGED <<seq, busy, slot, tries, ino, writes, disk, hist>>

(***************************************************************************)
(* fwrite, statefile_commit, statefile_abort                               *)
(***************************************************************************)

\* The caller's bytes leave the stream's buffer piece by piece; fflush the rest.
Fill(w) ==
  /\ pc[w] = "fill"
  /\ cache' = [cache EXCEPT ![ino[w]] = IF @ = "empty" THEN "part" ELSE "full"]
  /\ pc' = [pc EXCEPT ![w] = IF cache[ino[w]] = "empty" THEN "fill" ELSE "fsync"]
  /\ UNCHANGED <<seq, busy, slot, tries, ino, writes, path, temp, flashPath, flashTemp, flash, hist>>

\* Fault: a temp file plus rename alone, without the data's fsync (issue #46).
FsyncLeftOut(w) ==
  /\ Goto(w, "fsync", "rename")
  /\ UNCHANGED <<seq, busy, slot, tries, ino, writes, disk, hist>>

\* fsync(fileno(s->f)): the data of the writer's own inode is on the flash.
Fsync(w) ==
  /\ Goto(w, "fsync", "rename")
  /\ flash' = [flash EXCEPT ![ino[w]] = cache[ino[w]]]
  /\ UNCHANGED <<seq, busy, slot, tries, ino, writes, path, temp, flashPath, flashTemp, cache, hist>>

\* rename(s->tmp, s->path): whatever inode the temp name has now.
Rename(w) ==
  /\ temp[slot[w]] # None
  /\ Goto(w, "rename", "dirsync")
  /\ path' = temp[slot[w]]
  /\ temp' = [temp EXCEPT ![slot[w]] = None]
  /\ renames' = renames + 1
  /\ rank' = [rank EXCEPT ![temp[slot[w]]] = renames + 1]
  /\ busy' = [busy EXCEPT ![slot[w]] = FALSE]     \* release(s), before the folder's sync
  /\ UNCHANGED <<seq, slot, tries, ino, writes, flashPath, flashTemp, cache, flash, acked>>

\* A write, fflush, fsync, fclose or rename failed, or the caller gave up (statefile_abort).
Fail(w) ==
  /\ pc[w] \in {"fill", "fsync", "rename"}
  /\ pc' = [pc EXCEPT ![w] = "drop"]
  /\ UNCHANGED <<seq, busy, slot, tries, ino, writes, disk, hist>>

UnlinkTemp(w) ==
  /\ Goto(w, "drop", "release")
  /\ temp' = [temp EXCEPT ![slot[w]] = None]
  /\ UNCHANGED <<seq, busy, slot, tries, ino, writes, path, flashPath, flashTemp, cache, flash, hist>>

Release(w) ==
  /\ Return(w, "release")
  /\ busy' = [busy EXCEPT ![slot[w]] = FALSE]
  /\ UNCHANGED <<seq, writes, disk, hist>>

\* Fault: commit returns without the folder's fsync.
SyncParentLeftOut(w) ==
  /\ Return(w, "dirsync")
  /\ acked' = IF rank[ino[w]] > acked THEN rank[ino[w]] ELSE acked
  /\ UNCHANGED <<seq, busy, writes, disk, rank, renames>>

\* sync_parent: the folder as it is now is on the flash; commit returns 0.
SyncParent(w) ==
  /\ Return(w, "dirsync")
  /\ flashPath' = path
  /\ flashTemp' = temp
  /\ acked' = IF rank[ino[w]] > acked THEN rank[ino[w]] ELSE acked
  /\ UNCHANGED <<seq, busy, writes, path, temp, cache, flash, rank, renames>>

\* sync_parent fails: commit returns 0 all the same.
SyncParentFails(w) ==
  /\ Return(w, "dirsync")
  /\ UNCHANGED <<seq, busy, writes, disk, hist>>

(***************************************************************************)
(* The kernel and the power supply                                         *)
(***************************************************************************)

\* The kernel writes a linked inode's data back in its own time (up to about 30 s).
WritebackData(i) ==
  /\ i \in {path, flashPath} \cup {temp[n] : n \in Slot} \cup {flashTemp[n] : n \in Slot}
  /\ flash[i] # cache[i]
  /\ flash' = [flash EXCEPT ![i] = cache[i]]
  /\ UNCHANGED <<code, writes, path, temp, flashPath, flashTemp, cache, hist>>

\* The journal commits the folder in its own time, whatever the data's state.
WritebackFolder ==
  /\ <<flashPath, flashTemp>> # <<path, temp>>
  /\ flashPath' = path
  /\ flashTemp' = temp
  /\ UNCHANGED <<code, writes, path, temp, cache, flash, hist>>

Restarted ==
  /\ seq' = 0
  /\ busy' = [n \in Slot |-> FALSE]
  /\ pc' = [w \in Writer |-> "idle"]
  /\ slot' = [w \in Writer |-> 0]
  /\ tries' = [w \in Writer |-> 0]
  /\ ino' = [w \in Writer |-> 0]
  /\ UNCHANGED writes

\* init kills hassmic: what the kernel holds stays.
Killed == Restarted /\ UNCHANGED <<disk, hist>>

\* A power cut or hard reset: what the flash holds is what there is.
PowerCut ==
  /\ Restarted
  /\ path' = flashPath
  /\ temp' = flashTemp
  /\ cache' = flash
  /\ UNCHANGED <<flashPath, flashTemp, flash, hist>>

Write(w) ==
  \/ StartWrite(w) \/ DrawNumber(w) \/ TakeSlot(w) \/ OutOfSlots(w)
  \/ UnlinkOld(w) \/ CreateTemp(w) \/ CreateFails(w) \/ Fill(w)
  \/ Fsync(w) \/ Rename(w) \/ Fail(w) \/ UnlinkTemp(w)
  \/ Release(w) \/ SyncParent(w) \/ SyncParentFails(w)

Next ==
  \/ \E w \in Writer : Write(w)
  \/ \E i \in Inode : WritebackData(i)
  \/ WritebackFolder
  \/ Killed
  \/ PowerCut

Spec == Init /\ [][Next]_vars

\* The writers can be exchanged for one another.
Symmetry == Permutations(Writer)

(***************************************************************************)
(* Properties                                                              *)
(***************************************************************************)

\* Whenever the power is cut, PATH comes back with the complete old content
\* or the complete new one, and no reader ever sees it in between
\* (statefile.h: "the old content or the new one, never an empty file").
OldOrNew == flash[flashPath] = "full" /\ cache[path] = "full"

\* A write in flight finds its own file under its temp name until it renames
\* it: no other writer unlinks, replaces or renames it (statefile_open skips
\* the numbers in flight).
OwnTemp ==
  \A w \in Writer : pc[w] \in {"fill", "fsync", "rename"} => temp[slot[w]] = ino[w]

\* Once statefile_commit has synced the folder, no power cut and no slower
\* writer brings back content older than what it wrote.
AckedStays == rank[flashPath] >= acked
=============================================================================
