-------------------------- MODULE ArbCounterProofs --------------------------
(***************************************************************************)
(* Proofs about ArbCounter for any number of Echos, any block size, and    *)
(* any number of restarts, lost files, networks and packets.               *)
(***************************************************************************)
EXTENDS ArbCounter, TLAPS

\* What the state file must say of the packets sent, step by step of a start:
\* identities are used up in order, a packet's counter is below the counter on
\* the disk as long as its identity can come back, and below the counter in
\* memory while the process runs.
FresherOf(e) ==
  /\ key[e] <= made[e] /\ id[e] <= made[e]
  /\ \A m \in sent : m.id[1] = e => m.id[2] <= made[e]
  /\ key[e] # 0 /\ disk[e].there => \A m \in sent : m.id = <<e, key[e]>> => m.c < disk[e].ctr
  /\ pc[e] \in {"reserve", "run", "send"} => id[e] = key[e] /\ key[e] # 0
  /\ pc[e] \in {"identity", "reserve"} => ctr_saved[e] = disk[e].ctr
  /\ pc[e] = "reserve" => \A m \in sent : m.id = Me(e) => m.c <= ctr_saved[e]
  /\ pc[e] \in {"run", "send"} => /\ disk[e].there
                                  /\ disk[e].ctr = ctr_saved[e]
                                  /\ ctr[e] < ctr_saved[e]
  /\ pc[e] = "run" => \A m \in sent : m.id = Me(e) => m.c <= ctr[e]
  /\ pc[e] = "send" => \A m \in sent : m.id = Me(e) => m.c < ctr[e]

Fresher == \A e \in Echo \ Failing : FresherOf(e)

USE ArbCounterAssumption DEF Steps

\* Building and reading state files and packets.
LEMMA FileFacts ==
  /\ NoFile \in File
  /\ \A c \in Nat, n \in NetId : [there |-> TRUE, ctr |-> c, net |-> n] \in File
  /\ \A f \in File : f.there \in BOOLEAN /\ f.ctr \in Nat /\ f.net \in NetId
BY DEF NoFile, File, NetId

LEMMA PacketFacts ==
  /\ \A i \in Ident, n \in NetId, c \in Nat : [id |-> i, net |-> n, c |-> c] \in Packet
  /\ \A m \in Packet : m.id \in Ident /\ m.net \in NetId /\ m.c \in Nat
BY DEF Packet

LEMMA IdentFacts ==
  /\ \A e \in Echo, k \in 0 .. MaxId : <<e, k>> \in Ident
  /\ \A i \in Ident : i[1] \in Echo /\ i[2] \in 0 .. MaxId /\ i = <<i[1], i[2]>>
BY DEF Ident

LEMMA SaveTyped ==
  ASSUME TypeOK, NEW e \in Echo, NEW c \in Nat, NEW n \in NetId, Save(e, c, n)
  PROVE  disk' \in [Echo -> File]
<1>1. CASE disk' = [disk EXCEPT ![e] = [there |-> TRUE, ctr |-> c, net |-> n]]
  BY <1>1, FileFacts DEF TypeOK
<1>2. CASE UNCHANGED disk
  BY <1>2 DEF TypeOK
<1> QED
  BY <1>1, <1>2 DEF Save

LEMMA TypeStep == TypeOK /\ [Next]_vars => TypeOK'
<1> SUFFICES ASSUME TypeOK, [Next]_vars PROVE TypeOK'
  OBVIOUS
<1> USE FileFacts DEF TypeOK
<1>1. ASSUME NEW e \in Echo, Load(e) PROVE TypeOK'
  BY <1>1 DEF Load
<1>2. ASSUME NEW e \in Echo, LoadIdentity(e) PROVE TypeOK'
  BY <1>2 DEF LoadIdentity
<1>3. ASSUME NEW e \in Echo, NewIdentity(e) PROVE TypeOK'
  <2>1. made[e] + 1 \in 0 .. MaxId
    BY <1>3 DEF NewIdentity
  <2> QED
    BY <1>3, <2>1 DEF NewIdentity
<1>4. ASSUME NEW e \in Echo, NoIdentity(e) PROVE TypeOK'
  BY <1>4 DEF NoIdentity
<1>5. ASSUME NEW e \in Echo, Reserve(e) PROVE TypeOK'
  <2>1. ctr_saved[e] + CTR_BLOCK \in Nat /\ net[e] \in NetId
    OBVIOUS
  <2>2. disk' \in [Echo -> File]
    BY <1>5, <2>1, SaveTyped DEF Reserve
  <2> QED
    BY <1>5, <2>1, <2>2 DEF Reserve
<1>6. ASSUME NEW e \in Echo, next_ctr(e) PROVE TypeOK'
  <2>1. ctr[e] + 1 \in Nat /\ ctr[e] + 1 + CTR_BLOCK \in Nat /\ net[e] \in NetId
    OBVIOUS
  <2>2. disk' \in [Echo -> File]
    BY <1>6, <2>1, SMTT(30) DEF next_ctr, Save
  <2>3. ctr' \in [Echo -> Nat] /\ ctr_saved' \in [Echo -> Nat] /\ pc' \in [Echo -> Steps]
    BY <1>6, <2>1 DEF next_ctr
  <2> QED
    BY <1>6, <2>2, <2>3 DEF next_ctr
<1>7. ASSUME NEW e \in Echo, Send(e) PROVE TypeOK'
  <2>1. [id |-> Me(e), net |-> net[e], c |-> ctr[e]] \in Packet
    BY PacketFacts, IdentFacts DEF Me
  <2> QED
    BY <1>7, <2>1 DEF Send
<1>8. ASSUME NEW e \in Echo, SaveRounds(e) PROVE TypeOK'
  <2>1. disk' \in [Echo -> File]
    BY <1>8 DEF SaveRounds, Save
  <2> QED
    BY <1>8, <2>1 DEF SaveRounds
<1>9. ASSUME NEW e \in Echo, NEW n \in NetId, adopt(e, n) PROVE TypeOK'
  <2>1. disk' \in [Echo -> File]
    BY <1>9 DEF adopt, Save
  <2>2. last' \in [Echo -> [Ident -> Nat]]
    BY <1>9 DEF adopt
  <2> QED
    BY <1>9, <2>1, <2>2 DEF adopt
<1>10. ASSUME NEW e \in Echo, NEW m \in sent, Receive(e, m) PROVE TypeOK'
  <2>1. m.id \in Ident /\ m.c \in Nat
    BY PacketFacts
  <2>2. last' \in [Echo -> [Ident -> Nat]]
    <3>1. CASE last' = [last EXCEPT ![e][m.id] = m.c]
      BY <2>1, <3>1
    <3>2. ASSUME NEW old \in Ident,
                 last' = [last EXCEPT ![e] = [@ EXCEPT ![old] = 0, ![m.id] = m.c]]
          PROVE  last' \in [Echo -> [Ident -> Nat]]
      BY <2>1, <3>2
    <3> QED
      BY <1>10, <3>1, <3>2 DEF Receive, Known
  <2> QED
    BY <1>10, <2>2 DEF Receive
<1>11. ASSUME NEW e \in Echo, Crash(e) PROVE TypeOK'
  <2>1. 0 \in 0 .. MaxId /\ 0 \in NetId
    BY DEF NetId
  <2> QED
    BY <1>11, <2>1 DEF Crash
<1>12. ASSUME NEW e \in Echo, LoseState(e) PROVE TypeOK'
  BY <1>12 DEF LoseState
<1>13. ASSUME NEW e \in Echo, LoseKey(e) PROVE TypeOK'
  <2>1. 0 \in 0 .. MaxId
    OBVIOUS
  <2> QED
    BY <1>13, <2>1 DEF LoseKey
<1>14. CASE UNCHANGED vars
  BY <1>14 DEF vars
<1> QED
  BY <1>1, <1>2, <1>3, <1>4, <1>5, <1>6, <1>7, <1>8, <1>9, <1>10, <1>11, <1>12, <1>13, <1>14
     DEF Next

\* A step of e touches what the invariant says of f only through f's packets.
LEMMA OthersKeep ==
  ASSUME NEW f \in Echo, FresherOf(f), sent' \subseteq Packet,
         pc'[f] = pc[f], key'[f] = key[f], disk'[f] = disk[f], id'[f] = id[f],
         ctr'[f] = ctr[f], ctr_saved'[f] = ctr_saved[f], made'[f] = made[f],
         \A m \in sent' : m.id[1] = f => m \in sent
  PROVE  FresherOf(f)'
<1>1. \A m \in sent' : m.id = <<f, key[f]>> \/ m.id = <<f, id[f]>> => m.id[1] = f
  OBVIOUS
<1> QED
  BY <1>1 DEF FresherOf, Me

\* On a device whose saves succeed, each step of a start, of a packet and of
\* the faults keeps counters behind the ones already used on the disk.
LEMMA FresherStep ==
  ASSUME TypeOK, TypeOK', Fresher, [Next]_vars
  PROVE  Fresher'
<1> SUFFICES ASSUME NEW f \in Echo, f \notin Failing PROVE FresherOf(f)'
  BY DEF Fresher
<1>0. FresherOf(f) /\ sent \subseteq Packet /\ sent' \subseteq Packet
  BY DEF Fresher, TypeOK
<1>1. ASSUME NEW e \in Echo, Load(e) PROVE FresherOf(f)'
  <2>1. CASE f # e
    BY <1>0, <1>1, <2>1, OthersKeep DEF Load, TypeOK
  <2>2. CASE f = e
    BY <1>0, <1>1, <2>2 DEF Load, TypeOK, FresherOf, Me
  <2> QED
    BY <2>1, <2>2
<1>2. ASSUME NEW e \in Echo, LoadIdentity(e) PROVE FresherOf(f)'
  <2>1. CASE f # e
    BY <1>0, <1>2, <2>1, OthersKeep DEF LoadIdentity, TypeOK
  <2>2. CASE f = e
    <3>1. /\ pc[e] = "identity" /\ disk[e].there /\ key[e] # 0
          /\ pc'[e] = "reserve" /\ id'[e] = key[e]
          /\ UNCHANGED <<key, disk, ctr_saved, made, sent>>
      BY <1>2 DEF LoadIdentity, TypeOK
    <3>2. \A m \in sent : m.id = <<e, key[e]>> => m.c <= ctr_saved[e]
      <4> SUFFICES ASSUME NEW m \in sent, m.id = <<e, key[e]>> PROVE m.c <= ctr_saved[e]
        OBVIOUS
      <4>1. m.c < disk[e].ctr /\ ctr_saved[e] = disk[e].ctr
        BY <1>0, <2>2, <3>1 DEF FresherOf
      <4>2. m.c \in Nat /\ disk[e].ctr \in Nat
        BY <1>0, FileFacts, PacketFacts DEF TypeOK
      <4> QED
        BY <4>1, <4>2
    <3> QED
      BY <1>0, <2>2, <3>1, <3>2 DEF FresherOf, Me
  <2> QED
    BY <2>1, <2>2
<1>3. ASSUME NEW e \in Echo, NewIdentity(e) PROVE FresherOf(f)'
  <2>1. CASE f # e
    BY <1>0, <1>3, <2>1, OthersKeep DEF NewIdentity, TypeOK
  <2>2. CASE f = e
    <3>1. /\ pc[e] = "identity" /\ pc'[e] = "reserve"
          /\ made'[e] = made[e] + 1 /\ key'[e] = made[e] + 1 /\ id'[e] = made[e] + 1
          /\ UNCHANGED <<disk, ctr_saved, sent>>
      BY <1>3 DEF NewIdentity, TypeOK
    <3>2. made[e] \in Nat
      BY DEF TypeOK
    <3>3. \A m \in sent : m.id[1] = e => m.id[2] <= made[e] /\ m.id[2] \in Nat
      BY <1>0, <2>2, PacketFacts, IdentFacts DEF FresherOf
    <3>4. \A m \in sent : m.id # <<e, made[e] + 1>>
      BY <3>2, <3>3
    <3> QED
      BY <1>0, <2>2, <3>1, <3>2, <3>3, <3>4 DEF FresherOf, Me
  <2> QED
    BY <2>1, <2>2
<1>4. ASSUME NEW e \in Echo, NoIdentity(e) PROVE FresherOf(f)'
  <2>1. CASE f # e
    BY <1>0, <1>4, <2>1, OthersKeep DEF NoIdentity, TypeOK
  <2>2. CASE f = e
    BY <1>0, <1>4, <2>2 DEF NoIdentity, TypeOK, FresherOf, Me
  <2> QED
    BY <2>1, <2>2
<1>5. ASSUME NEW e \in Echo, Reserve(e) PROVE FresherOf(f)'
  <2>1. CASE f # e
    BY <1>0, <1>5, <2>1, OthersKeep DEF Reserve, Save, TypeOK
  <2>2. CASE f = e
    <3>1. /\ pc[e] = "reserve" /\ pc'[e] = "run"
          /\ ctr'[e] = ctr_saved[e] /\ ctr_saved'[e] = ctr_saved[e] + CTR_BLOCK
          /\ UNCHANGED <<key, id, made, sent>>
      BY <1>5 DEF Reserve, TypeOK
    <3>2. disk'[e].there /\ disk'[e].ctr = ctr_saved[e] + CTR_BLOCK
      BY <2>2, <1>5 DEF Reserve, Save, TypeOK
    <3>3. ctr_saved[e] \in Nat /\ \A m \in sent : m.c \in Nat
      BY <1>0, PacketFacts DEF TypeOK
    <3>4. \A m \in sent : m.id = <<e, key[e]>> => m.c <= ctr_saved[e]
      BY <1>0, <2>2, <3>1 DEF FresherOf, Me
    <3>5. \A m \in sent : m.id = <<e, key[e]>> => m.c < ctr_saved[e] + CTR_BLOCK
      BY <3>3, <3>4
    <3> QED
      BY <1>0, <2>2, <3>1, <3>2, <3>3, <3>4, <3>5 DEF FresherOf, Me
  <2> QED
    BY <2>1, <2>2
<1>6. ASSUME NEW e \in Echo, next_ctr(e) PROVE FresherOf(f)'
  <2>1. CASE f # e
    BY <1>0, <1>6, <2>1, OthersKeep DEF next_ctr, Save, TypeOK
  <2>2. CASE f = e
    <3>1. /\ pc[e] = "run" /\ pc'[e] = "send" /\ ctr'[e] = ctr[e] + 1
          /\ UNCHANGED <<key, id, made, sent>>
      BY <1>6 DEF next_ctr, TypeOK
    <3>2. ctr[e] \in Nat /\ ctr_saved[e] \in Nat /\ \A m \in sent : m.c \in Nat
      BY <1>0, PacketFacts DEF TypeOK
    <3>3. /\ disk'[e].there /\ disk'[e].ctr = ctr_saved'[e] /\ ctr[e] + 1 < ctr_saved'[e]
      <4>1. CASE ctr[e] + 1 < ctr_saved[e]
        BY <1>0, <1>6, <2>2, <3>1, <3>2, <4>1 DEF next_ctr, FresherOf
      <4>2. CASE ctr[e] + 1 >= ctr_saved[e]
        <5>1. /\ ctr_saved' = [ctr_saved EXCEPT ![e] = ctr[e] + 1 + CTR_BLOCK]
              /\ disk' = [disk EXCEPT ![e] = [there |-> TRUE, ctr |-> ctr[e] + 1 + CTR_BLOCK, net |-> net[e]]]
          BY <2>2, <1>6, <3>2, <4>2 DEF next_ctr, Save
        <5> QED
          BY <3>2, <5>1 DEF TypeOK
      <4> QED
        BY <3>2, <4>1, <4>2
    <3>4. \A m \in sent : m.id = <<e, key[e]>> => m.c < ctr[e] + 1
      BY <1>0, <2>2, <3>1, <3>2 DEF FresherOf, Me
    <3>5. ctr_saved'[e] \in Nat
      BY DEF TypeOK
    <3>6. \A m \in sent : m.id = <<e, key[e]>> => m.c < disk'[e].ctr
      BY <3>2, <3>3, <3>4, <3>5
    <3> QED
      BY <1>0, <2>2, <3>1, <3>3, <3>4, <3>6 DEF FresherOf, Me
  <2> QED
    BY <2>1, <2>2
<1>7. ASSUME NEW e \in Echo, Send(e) PROVE FresherOf(f)'
  <2>1. CASE f # e
    <3>1. \A m \in sent' : m \in sent \/ m.id[1] = e
      BY <1>7 DEF Send, Me
    <3>2. /\ pc'[f] = pc[f] /\ \A m \in sent' : m.id[1] = f => m \in sent
          /\ UNCHANGED <<key, disk, id, ctr, ctr_saved, made>>
      BY <1>7, <2>1, <3>1 DEF Send, TypeOK
    <3> QED
      BY <1>0, <3>2, OthersKeep
  <2>2. CASE f = e
    <3> DEFINE p == [id |-> Me(e), net |-> net[e], c |-> ctr[e]]
    <3>1. /\ pc[e] = "send" /\ pc'[e] = "run" /\ sent' = sent \cup {p}
          /\ UNCHANGED <<key, disk, id, ctr, ctr_saved, made>>
      BY <1>7 DEF Send, TypeOK
    <3>2. p.id = <<e, id[e]>> /\ p.c = ctr[e] /\ id[e] = key[e] /\ p.id[1] = e /\ p.id[2] = id[e]
      BY <1>0, <2>2, <3>1 DEF FresherOf, Me
    <3>3. \A m \in sent : m.c \in Nat
      BY <1>0, PacketFacts
    <3>4. ctr[e] \in Nat
      BY DEF TypeOK
    <3> HIDE DEF p
    <3>5. \A m \in sent' : m.id = <<e, key[e]>> => m.c <= ctr[e]
      BY <1>0, <2>2, <3>1, <3>2, <3>3, <3>4 DEF FresherOf, Me
    <3>6. \A m \in sent' : m.id = <<e, key[e]>> => m.c < disk[e].ctr
      BY <1>0, <2>2, <3>1, <3>2 DEF FresherOf
    <3>7. \A m \in sent' : m.id[1] = e => m.id[2] <= made[e]
      BY <1>0, <2>2, <3>1, <3>2 DEF FresherOf
    <3> QED
      BY <1>0, <2>2, <3>1, <3>2, <3>5, <3>6, <3>7 DEF FresherOf, Me
  <2> QED
    BY <2>1, <2>2
<1>8. ASSUME NEW e \in Echo, SaveRounds(e) PROVE FresherOf(f)'
  <2>1. CASE f # e
    BY <1>0, <1>8, <2>1, OthersKeep DEF SaveRounds, Save, TypeOK
  <2>2. CASE f = e
    <3>1. pc[e] = "run" /\ UNCHANGED <<pc, key, id, ctr, ctr_saved, made, sent>>
      BY <1>8 DEF SaveRounds
    <3>2. disk'[e].there /\ disk'[e].ctr = ctr_saved[e]
      BY <2>2, <1>8 DEF SaveRounds, Save, TypeOK
    <3>3. disk[e].there /\ disk[e].ctr = ctr_saved[e]
      BY <1>0, <2>2, <3>1 DEF FresherOf
    <3> QED
      BY <1>0, <2>2, <3>1, <3>2, <3>3 DEF FresherOf, Me
  <2> QED
    BY <2>1, <2>2
<1>9. ASSUME NEW e \in Echo, NEW n \in NetId, adopt(e, n) PROVE FresherOf(f)'
  <2>1. CASE f # e
    BY <1>0, <1>9, <2>1, OthersKeep DEF adopt, Save, TypeOK
  <2>2. CASE f = e
    <3>1. pc[e] = "run" /\ UNCHANGED <<pc, key, id, ctr, ctr_saved, made, sent>>
      BY <1>9 DEF adopt
    <3>2. disk'[e].there /\ disk'[e].ctr = ctr_saved[e]
      BY <2>2, <1>9 DEF adopt, Save, TypeOK
    <3>3. disk[e].there /\ disk[e].ctr = ctr_saved[e]
      BY <1>0, <2>2, <3>1 DEF FresherOf
    <3> QED
      BY <1>0, <2>2, <3>1, <3>2, <3>3 DEF FresherOf, Me
  <2> QED
    BY <2>1, <2>2
<1>10. ASSUME NEW e \in Echo, NEW m \in sent, Receive(e, m) PROVE FresherOf(f)'
  <2>1. CASE f # e
    BY <1>0, <1>10, <2>1, OthersKeep DEF Receive, TypeOK
  <2>2. CASE f = e
    BY <1>0, <1>10, <2>2 DEF Receive, TypeOK, FresherOf, Me
  <2> QED
    BY <2>1, <2>2
<1>11. ASSUME NEW e \in Echo, Crash(e) PROVE FresherOf(f)'
  <2>1. CASE f # e
    BY <1>0, <1>11, <2>1, OthersKeep DEF Crash, TypeOK
  <2>2. CASE f = e
    BY <1>0, <1>11, <2>2 DEF Crash, TypeOK, FresherOf, Me
  <2> QED
    BY <2>1, <2>2
<1>12. ASSUME NEW e \in Echo, LoseState(e) PROVE FresherOf(f)'
  <2>1. CASE f # e
    BY <1>0, <1>12, <2>1, OthersKeep DEF LoseState, TypeOK
  <2>2. CASE f = e
    <3>1. pc[e] = "off" /\ ~disk'[e].there /\ UNCHANGED <<pc, key, id, made, sent>>
      BY <1>12 DEF LoseState, NoFile, TypeOK
    <3> QED
      BY <1>0, <2>2, <3>1 DEF FresherOf, Me
  <2> QED
    BY <2>1, <2>2
<1>13. ASSUME NEW e \in Echo, LoseKey(e) PROVE FresherOf(f)'
  <2>1. CASE f # e
    BY <1>0, <1>13, <2>1, OthersKeep DEF LoseKey, TypeOK
  <2>2. CASE f = e
    BY <1>0, <1>13, <2>2 DEF LoseKey, TypeOK, FresherOf, Me
  <2> QED
    BY <2>1, <2>2
<1>14. CASE UNCHANGED vars
  BY <1>0, <1>14 DEF vars, FresherOf, Me
<1> QED
  BY <1>1, <1>2, <1>3, <1>4, <1>5, <1>6, <1>7, <1>8, <1>9, <1>10, <1>11, <1>12, <1>13, <1>14
     DEF Next

\* Files, memory, packets and peer tables keep their types, failed saves or not.
THEOREM TypeCorrect == Spec => []TypeOK
<1>1. Init => TypeOK
  <2>1. Init => sent \in SUBSET Packet
    BY DEF Init
  <2>2. 0 \in NetId /\ 0 \in 0 .. MaxId
    BY DEF NetId
  <2> QED
    BY <2>1, <2>2, FileFacts DEF Init, TypeOK
<1> QED
  BY <1>1, TypeStep, PTL DEF Spec

LEMMA FresherAlways == Spec => []Fresher
<1>1. Init => Fresher
  BY DEF Init, Fresher, FresherOf, NoFile
<1>2. TypeOK /\ TypeOK' /\ Fresher /\ [Next]_vars => Fresher'
  BY FresherStep
<1> QED
  BY <1>1, <1>2, TypeCorrect, PTL DEF Spec

\* As long as state/arbitration can be written, an Echo's counter keeps rising
\* under one identity through every restart, lost file and change of key, so
\* no member drops its packets for good.
THEOREM CounterRises == Spec => []CounterNeverGoesBack
<1>1. TypeOK /\ Fresher => CounterNeverGoesBack
  <2> SUFFICES ASSUME TypeOK, Fresher, NEW e \in Echo \ Failing, pc[e] \in {"run", "send"},
                      NEW m \in sent, m.id = Me(e)
               PROVE  m.c <= ctr[e] /\ (pc[e] = "send" => m.c < ctr[e])
    BY DEF CounterNeverGoesBack
  <2>1. m.c \in Nat /\ ctr[e] \in Nat
    BY PacketFacts DEF TypeOK
  <2> QED
    BY <2>1 DEF Fresher, FresherOf
<1> QED
  BY <1>1, TypeCorrect, FresherAlways, PTL

\* next_ctr reserves a counter on the disk before a packet can carry it.
THEOREM ReservedBeforeUse == Spec => []OnDiskBeforeUse
<1>1. Fresher => OnDiskBeforeUse
  BY DEF Fresher, FresherOf, OnDiskBeforeUse
<1> QED
  BY <1>1, FresherAlways, PTL

\* Whatever the network repeats and whatever save() fails to write, a member
\* takes no packet twice while it remembers its sender.
THEOREM TakenOnceHolds == Spec => TakenOnce
<1>1. TypeOK /\ [Next]_vars =>
        [\A e \in Echo : \A m \in sent :
            ~fresh(e, m) => ~(m.c > last'[e][m.id]) \/ last'[e][m.id] = 0]_vars
  <2> SUFFICES ASSUME TypeOK, Next, NEW e \in Echo, NEW m \in sent, ~fresh(e, m)
               PROVE  ~(m.c > last'[e][m.id]) \/ last'[e][m.id] = 0
    OBVIOUS
  <2>1. m.id \in Ident /\ m.c \in Nat /\ last[e][m.id] \in Nat
    BY PacketFacts DEF TypeOK
  <2>2. ASSUME NEW d \in Echo, NEW p \in sent, Receive(d, p)
        PROVE  ~(m.c > last'[e][m.id]) \/ last'[e][m.id] = 0
    <3>1. p.id \in Ident /\ p.c \in Nat /\ last[d][p.id] \in Nat /\ p.c > last[d][p.id]
      BY <2>2, PacketFacts DEF TypeOK, Receive, fresh
    <3>2. CASE last' = [last EXCEPT ![d][p.id] = p.c]
      BY <2>1, <3>1, <3>2 DEF fresh, TypeOK
    <3>3. ASSUME NEW old \in Ident,
                 last' = [last EXCEPT ![d] = [@ EXCEPT ![old] = 0, ![p.id] = p.c]]
          PROVE  ~(m.c > last'[e][m.id]) \/ last'[e][m.id] = 0
      BY <2>1, <3>1, <3>3 DEF fresh, TypeOK
    <3> QED
      BY <2>2, <3>2, <3>3 DEF Receive, Known
  <2>3. ASSUME NEW d \in Echo, last' = [last EXCEPT ![d] = [i \in Ident |-> 0]]
        PROVE  ~(m.c > last'[e][m.id]) \/ last'[e][m.id] = 0
    BY <2>1, <2>3 DEF fresh, TypeOK
  <2>4. CASE UNCHANGED last
    BY <2>4 DEF fresh
  <2> QED
    BY <2>2, <2>3, <2>4
       DEF Next, Load, LoadIdentity, NewIdentity, NoIdentity, Reserve, next_ctr, Send, SaveRounds,
           adopt, Crash, LoseState, LoseKey
<1> QED
  BY <1>1, TypeCorrect, PTL DEF Spec, TakenOnce
=============================================================================
