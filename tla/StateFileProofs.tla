-------------------------- MODULE StateFileProofs --------------------------
(***************************************************************************)
(* Proofs about StateFile for any number of writers, temp numbers and      *)
(* writes.                                                                 *)
(***************************************************************************)
EXTENDS StateFile, TLAPS

\* Steps of a write that holds a temp number.
Holding == {"unlink", "create", "fill", "fsync", "rename", "drop", "release"}

\* A temp number belongs to one write: its flag is up and nobody shares it.
Exclusive ==
  /\ \A w \in Writer : pc[w] \in Holding => busy[slot[w]]
  /\ \A v, w \in Writer : v # w /\ pc[v] \in Holding /\ pc[w] \in Holding => slot[v] # slot[w]

SlotInv == TypeOK /\ Exclusive /\ OwnTemp

\* What a write renames is complete in memory and on the flash, and so is
\* whatever PATH names in either place.
Complete ==
  /\ \A w \in Writer : pc[w] \in {"fsync", "rename"} => cache[ino[w]] = "full"
  /\ \A w \in Writer : pc[w] = "rename" => flash[ino[w]] = "full"
  /\ \A i \in {path, flashPath} : cache[i] = "full" /\ flash[i] = "full"

\* The flash lags behind memory, memory is never behind a write that waits
\* for its folder sync, and acknowledged content is on the flash.
Lag ==
  /\ \A i \in Inode : rank[i] <= renames
  /\ \A w \in Writer : pc[w] = "dirsync" => rank[ino[w]] <= rank[path]
  /\ rank[flashPath] <= rank[path]
  /\ acked <= rank[flashPath]

USE StateFileAssumption DEF Slot, Inode

LEMMA TypeStep == TypeOK /\ [Next]_vars => TypeOK'
<1> SUFFICES ASSUME TypeOK, [Next]_vars PROVE TypeOK'
  OBVIOUS
<1> USE DEF TypeOK, Step, Content, Goto, disk, hist, code
<1>0. ASSUME NEW w \in Writer, NEW from, Return(w, from)
      PROVE  /\ pc' \in [Writer -> Step] /\ slot' \in [Writer -> Slot]
             /\ tries' \in [Writer -> 0 .. NSLOT] /\ ino' \in [Writer -> Inode]
  BY <1>0 DEF Return
<1>1. ASSUME NEW w \in Writer, StartWrite(w) PROVE TypeOK'
  BY <1>1 DEF StartWrite
<1>2. ASSUME NEW w \in Writer, DrawNumber(w) PROVE TypeOK'
  <2>1. (seq + 1) % NSLOT \in 0 .. NSLOT - 1
    BY SMT DEF TypeOK
  <2>2. tries[w] + 1 \in 0 .. NSLOT
    BY <1>2 DEF DrawNumber
  <2> QED
    BY <1>2, <2>1, <2>2 DEF DrawNumber
<1>3. ASSUME NEW w \in Writer, TakeSlot(w) PROVE TypeOK'
  BY <1>3 DEF TakeSlot
<1>4. ASSUME NEW w \in Writer, OutOfSlots(w) PROVE TypeOK'
  BY <1>0, <1>4 DEF OutOfSlots
<1>5. ASSUME NEW w \in Writer, UnlinkOld(w) PROVE TypeOK'
  BY <1>5 DEF UnlinkOld
<1>6. ASSUME NEW w \in Writer, CreateTemp(w) PROVE TypeOK'
  <2>1. writes + 1 \in 0 .. MaxWrites
    BY <1>6 DEF CreateTemp
  <2> QED
    BY <1>6, <2>1 DEF CreateTemp
<1>7. ASSUME NEW w \in Writer, CreateFails(w) PROVE TypeOK'
  BY <1>7 DEF CreateFails
<1>8. ASSUME NEW w \in Writer, Fill(w) PROVE TypeOK'
  BY <1>8 DEF Fill
<1>9. ASSUME NEW w \in Writer, Fsync(w) PROVE TypeOK'
  BY <1>9 DEF Fsync
<1>10. ASSUME NEW w \in Writer, Rename(w) PROVE TypeOK'
  <2>1. PICK i \in 0 .. MaxWrites : i = temp[slot[w]]
    BY <1>10 DEF Rename
  <2>2. path' = i /\ rank' = [rank EXCEPT ![i] = renames + 1]
    BY <1>10, <2>1 DEF Rename
  <2>3. path' \in 0 .. MaxWrites /\ rank' \in [0 .. MaxWrites -> Nat] /\ renames' \in Nat
    BY <1>10, <2>1, <2>2 DEF Rename
  <2>4. temp' \in [Slot -> Inode \cup {None}] /\ busy' \in [Slot -> BOOLEAN] /\ pc' \in [Writer -> Step]
    BY <1>10 DEF Rename
  <2> QED
    BY <1>10, <2>3, <2>4 DEF Rename
<1>11. ASSUME NEW w \in Writer, Fail(w) PROVE TypeOK'
  BY <1>11 DEF Fail
<1>12. ASSUME NEW w \in Writer, UnlinkTemp(w) PROVE TypeOK'
  BY <1>12 DEF UnlinkTemp
<1>13. ASSUME NEW w \in Writer, Release(w) PROVE TypeOK'
  BY <1>0, <1>13 DEF Release
<1>14. ASSUME NEW w \in Writer, SyncParent(w) PROVE TypeOK'
  <2>1. rank[ino[w]] \in Nat
    OBVIOUS
  <2>2. acked' \in Nat
    BY <1>14, <2>1 DEF SyncParent
  <2> QED
    BY <1>0, <1>14, <2>2 DEF SyncParent
<1>15. ASSUME NEW w \in Writer, SyncParentFails(w) PROVE TypeOK'
  BY <1>0, <1>15 DEF SyncParentFails
<1>16. ASSUME NEW i \in Inode, WritebackData(i) PROVE TypeOK'
  BY <1>16 DEF WritebackData
<1>17. CASE WritebackFolder
  BY <1>17 DEF WritebackFolder
<1>18. CASE Killed
  BY <1>18 DEF Killed, Restarted
<1>19. CASE PowerCut
  BY <1>19 DEF PowerCut, Restarted
<1>20. CASE UNCHANGED vars
  BY <1>20 DEF vars
<1> QED
  BY <1>1, <1>2, <1>3, <1>4, <1>5, <1>6, <1>7, <1>8, <1>9, <1>10, <1>11, <1>12, <1>13, <1>14,
     <1>15, <1>16, <1>17, <1>18, <1>19, <1>20 DEF Next, Write

\* No two writes share a temp number, so a write keeps its own temp file.
LEMMA SlotStep == SlotInv /\ TypeOK' /\ [Next]_vars => SlotInv'
<1> SUFFICES ASSUME SlotInv, TypeOK', [Next]_vars PROVE SlotInv'
  OBVIOUS
<1> USE DEF SlotInv, TypeOK, Exclusive, OwnTemp, Holding, Goto, Return, disk, hist, code
<1>1. ASSUME NEW w \in Writer, StartWrite(w) PROVE SlotInv'
  BY <1>1 DEF StartWrite
<1>2. ASSUME NEW w \in Writer, DrawNumber(w) PROVE SlotInv'
  BY <1>2 DEF DrawNumber
<1>3. ASSUME NEW w \in Writer, TakeSlot(w) PROVE SlotInv'
  <2>1. CASE busy[slot[w]]
    <3>1. pc' = [pc EXCEPT ![w] = "draw"] /\ UNCHANGED <<slot, temp, ino>>
      BY <1>3, <2>1 DEF TakeSlot
    <3>2. busy' = [busy EXCEPT ![slot[w]] = TRUE]
      BY <1>3 DEF TakeSlot
    <3>3. \A v \in Writer : pc'[v] \in Holding => pc[v] \in Holding
      BY <3>1
    <3>4. \A v \in Writer : pc'[v] \in Holding => busy'[slot'[v]]
      BY <3>1, <3>2, <3>3
    <3>5. OwnTemp'
      BY <3>1
    <3> QED
      BY <3>1, <3>3, <3>4, <3>5
  <2>2. CASE ~busy[slot[w]]
    <3>1. pc' = [pc EXCEPT ![w] = "unlink"] /\ UNCHANGED <<slot, temp, ino>>
      BY <1>3, <2>2 DEF TakeSlot
    <3>2. busy' = [busy EXCEPT ![slot[w]] = TRUE]
      BY <1>3 DEF TakeSlot
    <3>3. \A v \in Writer : v # w /\ pc[v] \in Holding => slot[v] # slot[w]
      BY <2>2
    <3>4. \A v \in Writer : v # w => pc'[v] = pc[v]
      BY <3>1
    <3>5. \A v \in Writer : pc'[v] \in Holding => busy'[slot'[v]]
      BY <3>1, <3>2, <3>4
    <3>6. \A u, v \in Writer : u # v /\ pc'[u] \in Holding /\ pc'[v] \in Holding
                              => slot'[u] # slot'[v]
      BY <3>1, <3>3, <3>4
    <3>7. OwnTemp'
      BY <3>1
    <3> QED
      BY <3>5, <3>6, <3>7
  <2> QED
    BY <2>1, <2>2
<1>4. ASSUME NEW w \in Writer, OutOfSlots(w) PROVE SlotInv'
  BY <1>4 DEF OutOfSlots
<1>5. ASSUME NEW w \in Writer, UnlinkOld(w) PROVE SlotInv'
  BY <1>5, SMTT(30) DEF UnlinkOld
<1>6. ASSUME NEW w \in Writer, CreateTemp(w) PROVE SlotInv'
  <2>0. UNCHANGED <<busy, slot>> /\ \A v \in Writer : pc'[v] \in Holding => pc[v] \in Holding
    BY <1>6 DEF CreateTemp
  <2>1. Exclusive'
    BY <2>0
  <2>2. ASSUME NEW v \in Writer, pc'[v] \in {"fill", "fsync", "rename"}
        PROVE  temp'[slot'[v]] = ino'[v]
    <3>1. CASE v = w
      BY <1>6, <3>1 DEF CreateTemp
    <3>2. CASE v # w
      BY <1>6, <2>2, <3>2 DEF CreateTemp
    <3> QED
      BY <3>1, <3>2
  <2> QED
    BY <2>1, <2>2
<1>7. ASSUME NEW w \in Writer, CreateFails(w) PROVE SlotInv'
  BY <1>7, SMTT(30) DEF CreateFails
<1>8. ASSUME NEW w \in Writer, Fill(w) PROVE SlotInv'
  BY <1>8, SMTT(30) DEF Fill
<1>9. ASSUME NEW w \in Writer, Fsync(w) PROVE SlotInv'
  BY <1>9, SMTT(30) DEF Fsync
<1>10. ASSUME NEW w \in Writer, Rename(w) PROVE SlotInv'
  BY <1>10, SMTT(30) DEF Rename
<1>11. ASSUME NEW w \in Writer, Fail(w) PROVE SlotInv'
  <2>1. UNCHANGED <<busy, slot, temp, ino>> /\ pc[w] \in Holding
    BY <1>11 DEF Fail
  <2>2. pc' = [pc EXCEPT ![w] = "drop"]
    BY <1>11 DEF Fail
  <2>3. \A v \in Writer : pc'[v] \in Holding => pc[v] \in Holding
    BY <2>1, <2>2
  <2>4. Exclusive'
    BY <2>1, <2>3
  <2>5. OwnTemp'
    BY <2>1, <2>2
  <2> QED
    BY <2>4, <2>5
<1>12. ASSUME NEW w \in Writer, UnlinkTemp(w) PROVE SlotInv'
  BY <1>12, SMTT(30) DEF UnlinkTemp
<1>13. ASSUME NEW w \in Writer, Release(w) PROVE SlotInv'
  BY <1>13, SMTT(30) DEF Release
<1>14. ASSUME NEW w \in Writer, SyncParent(w) PROVE SlotInv'
  BY <1>14 DEF SyncParent
<1>15. ASSUME NEW w \in Writer, SyncParentFails(w) PROVE SlotInv'
  BY <1>15 DEF SyncParentFails
<1>16. ASSUME NEW i \in Inode, WritebackData(i) PROVE SlotInv'
  BY <1>16 DEF WritebackData
<1>17. CASE WritebackFolder
  BY <1>17 DEF WritebackFolder
<1>18. CASE Killed
  BY <1>18 DEF Killed, Restarted
<1>19. CASE PowerCut
  BY <1>19 DEF PowerCut, Restarted
<1>20. CASE UNCHANGED vars
  BY <1>20 DEF vars
<1> QED
  BY <1>1, <1>2, <1>3, <1>4, <1>5, <1>6, <1>7, <1>8, <1>9, <1>10, <1>11, <1>12, <1>13, <1>14,
     <1>15, <1>16, <1>17, <1>18, <1>19, <1>20 DEF Next, Write

\* A rename only ever publishes what has reached the flash.
LEMMA CompleteStep == SlotInv /\ Complete /\ [Next]_vars => Complete'
<1> SUFFICES ASSUME SlotInv, Complete, [Next]_vars PROVE Complete'
  OBVIOUS
<1> USE DEF SlotInv, TypeOK, Complete, OwnTemp, Goto, Return, disk, hist, code
<1>1. ASSUME NEW w \in Writer, StartWrite(w) PROVE Complete'
  BY <1>1 DEF StartWrite
<1>2. ASSUME NEW w \in Writer, DrawNumber(w) PROVE Complete'
  BY <1>2 DEF DrawNumber
<1>3. ASSUME NEW w \in Writer, TakeSlot(w) PROVE Complete'
  BY <1>3 DEF TakeSlot
<1>4. ASSUME NEW w \in Writer, OutOfSlots(w) PROVE Complete'
  BY <1>4 DEF OutOfSlots
<1>5. ASSUME NEW w \in Writer, UnlinkOld(w) PROVE Complete'
  BY <1>5 DEF UnlinkOld
<1>6. ASSUME NEW w \in Writer, CreateTemp(w) PROVE Complete'
  BY <1>6 DEF CreateTemp
<1>7. ASSUME NEW w \in Writer, CreateFails(w) PROVE Complete'
  BY <1>7 DEF CreateFails
<1>8. ASSUME NEW w \in Writer, Fill(w) PROVE Complete'
  BY <1>8 DEF Fill
<1>9. ASSUME NEW w \in Writer, Fsync(w) PROVE Complete'
  BY <1>9 DEF Fsync
<1>10. ASSUME NEW w \in Writer, Rename(w) PROVE Complete'
  BY <1>10 DEF Rename
<1>11. ASSUME NEW w \in Writer, Fail(w) PROVE Complete'
  BY <1>11 DEF Fail
<1>12. ASSUME NEW w \in Writer, UnlinkTemp(w) PROVE Complete'
  BY <1>12 DEF UnlinkTemp
<1>13. ASSUME NEW w \in Writer, Release(w) PROVE Complete'
  BY <1>13 DEF Release
<1>14. ASSUME NEW w \in Writer, SyncParent(w) PROVE Complete'
  BY <1>14 DEF SyncParent
<1>15. ASSUME NEW w \in Writer, SyncParentFails(w) PROVE Complete'
  BY <1>15 DEF SyncParentFails
<1>16. ASSUME NEW i \in Inode, WritebackData(i) PROVE Complete'
  BY <1>16 DEF WritebackData
<1>17. CASE WritebackFolder
  BY <1>17 DEF WritebackFolder
<1>18. CASE Killed
  BY <1>18 DEF Killed, Restarted
<1>19. CASE PowerCut
  BY <1>19 DEF PowerCut, Restarted
<1>20. CASE UNCHANGED vars
  BY <1>20 DEF vars
<1> QED
  BY <1>1, <1>2, <1>3, <1>4, <1>5, <1>6, <1>7, <1>8, <1>9, <1>10, <1>11, <1>12, <1>13, <1>14,
     <1>15, <1>16, <1>17, <1>18, <1>19, <1>20 DEF Next, Write

\* The order of the renames is the order in which content can come back.
LEMMA LagStep == SlotInv /\ Lag /\ [Next]_vars => Lag'
<1> SUFFICES ASSUME SlotInv, Lag, [Next]_vars PROVE Lag'
  OBVIOUS
<1> USE DEF SlotInv, TypeOK, Lag, OwnTemp, Goto, Return, disk, hist, code
<1>1. ASSUME NEW w \in Writer, StartWrite(w) PROVE Lag'
  BY <1>1 DEF StartWrite
<1>2. ASSUME NEW w \in Writer, DrawNumber(w) PROVE Lag'
  BY <1>2 DEF DrawNumber
<1>3. ASSUME NEW w \in Writer, TakeSlot(w) PROVE Lag'
  BY <1>3 DEF TakeSlot
<1>4. ASSUME NEW w \in Writer, OutOfSlots(w) PROVE Lag'
  BY <1>4 DEF OutOfSlots
<1>5. ASSUME NEW w \in Writer, UnlinkOld(w) PROVE Lag'
  BY <1>5 DEF UnlinkOld
<1>6. ASSUME NEW w \in Writer, CreateTemp(w) PROVE Lag'
  BY <1>6 DEF CreateTemp
<1>7. ASSUME NEW w \in Writer, CreateFails(w) PROVE Lag'
  BY <1>7 DEF CreateFails
<1>8. ASSUME NEW w \in Writer, Fill(w) PROVE Lag'
  BY <1>8 DEF Fill
<1>9. ASSUME NEW w \in Writer, Fsync(w) PROVE Lag'
  BY <1>9 DEF Fsync
<1>10. ASSUME NEW w \in Writer, Rename(w) PROVE Lag'
  <2>1. ino[w] \in Inode /\ temp[slot[w]] = ino[w]
    BY <1>10 DEF Rename
  <2>2. /\ path' = ino[w]
        /\ rank' = [rank EXCEPT ![ino[w]] = renames + 1]
        /\ renames' = renames + 1
        /\ UNCHANGED <<ino, flashPath, acked>>
    BY <1>10, <2>1 DEF Rename
  <2>3. rank'[path'] = renames + 1
    BY <2>1, <2>2
  <2>4. \A i \in Inode : rank[i] <= rank'[i] /\ rank'[i] <= renames + 1
    BY <2>1, <2>2, SMTT(30)
  <2>5. flashPath \in Inode /\ \A v \in Writer : ino[v] \in Inode
    OBVIOUS
  <2>6. /\ \A i \in Inode : rank'[i] <= renames'
        /\ \A v \in Writer : rank'[ino'[v]] <= rank'[path']
        /\ rank'[flashPath'] <= rank'[path']
    <3> HIDE DEF SlotInv, TypeOK, Lag, OwnTemp
    <3> QED
      BY <2>2, <2>3, <2>4, <2>5
  <2>7. acked' <= rank'[flashPath']
    <3>1. rank[flashPath] \in Nat /\ rank'[flashPath] \in Nat /\ acked \in Nat
      BY <2>1, <2>2, <2>5
    <3>2. acked <= rank[flashPath]
      OBVIOUS
    <3> HIDE DEF SlotInv, TypeOK, Lag, OwnTemp
    <3> QED
      BY <2>2, <2>4, <2>5, <3>1, <3>2
  <2> QED
    BY <2>6, <2>7 DEF Lag
<1>11. ASSUME NEW w \in Writer, Fail(w) PROVE Lag'
  BY <1>11 DEF Fail
<1>12. ASSUME NEW w \in Writer, UnlinkTemp(w) PROVE Lag'
  BY <1>12 DEF UnlinkTemp
<1>13. ASSUME NEW w \in Writer, Release(w) PROVE Lag'
  BY <1>13 DEF Release
<1>14. ASSUME NEW w \in Writer, SyncParent(w) PROVE Lag'
  BY <1>14, SMTT(30) DEF SyncParent
<1>15. ASSUME NEW w \in Writer, SyncParentFails(w) PROVE Lag'
  BY <1>15 DEF SyncParentFails
<1>16. ASSUME NEW i \in Inode, WritebackData(i) PROVE Lag'
  BY <1>16 DEF WritebackData
<1>17. CASE WritebackFolder
  BY <1>17 DEF WritebackFolder
<1>18. CASE Killed
  BY <1>18 DEF Killed, Restarted
<1>19. CASE PowerCut
  BY <1>19 DEF PowerCut, Restarted
<1>20. CASE UNCHANGED vars
  BY <1>20 DEF vars
<1> QED
  BY <1>1, <1>2, <1>3, <1>4, <1>5, <1>6, <1>7, <1>8, <1>9, <1>10, <1>11, <1>12, <1>13, <1>14,
     <1>15, <1>16, <1>17, <1>18, <1>19, <1>20 DEF Next, Write

\* Every variable of the writers, the folder and the flash keeps its type.
THEOREM TypeCorrect == Spec => []TypeOK
<1>1. Init => TypeOK
  BY DEF Init, TypeOK, Step, Content
<1> QED
  BY <1>1, TypeStep, PTL DEF Spec

LEMMA SlotCorrect == Spec => []SlotInv
<1>1. Init => SlotInv
  BY DEF Init, SlotInv, TypeOK, Exclusive, OwnTemp, Holding, Step, Content
<1>2. SlotInv /\ [Next]_vars => SlotInv'
  BY TypeStep, SlotStep DEF SlotInv
<1> QED
  BY <1>1, <1>2, PTL DEF Spec

\* statefile_open's numbers keep writers apart, whatever their number and
\* however long one of them is held up: a write in flight finds its own file
\* under its temp name.
THEOREM WriterKeepsItsTemp == Spec => []OwnTemp
<1>1. SlotInv => OwnTemp
  BY DEF SlotInv
<1> QED
  BY <1>1, SlotCorrect, PTL

\* statefile_commit's order (data, rename, folder) leaves the complete old or
\* the complete new content under PATH at every instant.
THEOREM OldOrNewHolds == Spec => []OldOrNew
<1>1. Init => Complete
  BY DEF Init, Complete
<1>2. Complete => OldOrNew
  BY DEF Complete, OldOrNew
<1> QED
  BY <1>1, <1>2, CompleteStep, SlotCorrect, PTL DEF Spec

\* What a commit acknowledged after its folder sync is never undone by a power
\* cut or by a slower writer.
THEOREM AckedStaysHolds == Spec => []AckedStays
<1>1. Init => Lag
  BY DEF Init, Lag
<1>2. Lag /\ TypeOK => AckedStays
  BY DEF Lag, AckedStays, TypeOK
<1> QED
  BY <1>1, <1>2, LagStep, SlotCorrect, TypeCorrect, PTL DEF Spec
=============================================================================
