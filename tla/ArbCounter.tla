----------------------------- MODULE ArbCounter -----------------------------
(***************************************************************************)
(* The counter against replays of the Echo network (src/src/hassmic/arb.c: *)
(* load, identity, arb_start, next_ctr, save, adopt, peer, fresh).         *)
(*                                                                         *)
(* Every authenticated packet of an Echo carries its id and a counter, and *)
(* a member takes a packet only above the last counter it took from that   *)
(* id.  A counter that goes back has the sender's packets dropped for      *)
(* good, so counters are reserved in blocks in state/arbitration, and an   *)
(* Echo that comes back without that file takes a new identity.  The       *)
(* network loses, repeats, delays and reorders packets; hassmic is killed  *)
(* between any two steps.                                                  *)
(*                                                                         *)
(* Writing the state file is one step here: StateFile shows that a reset   *)
(* in the middle of it leaves the old content or the new one.              *)
(***************************************************************************)
EXTENDS Naturals, FiniteSets

CONSTANTS
  Echo,        \* the devices
  CTR_BLOCK,   \* counters reserved at a time, 4096 in the code
  NPEER,       \* members remembered, 16 in the code
  MaxNet,      \* networks are 1..MaxNet, the lower (older) one wins; 0: in none
  Failing,     \* devices whose files may fail to be written (a full or worn flash)
  Talker,      \* bound: the devices that send, and whose files get lost
  MaxCtr,      \* bound: counters drawn
  MaxId        \* bound: identities made up per device

ASSUME ArbCounterAssumption ==
  /\ CTR_BLOCK \in Nat \ {0}
  /\ NPEER \in Nat \ {0}
  /\ MaxNet \in Nat
  /\ Failing \subseteq Echo
  /\ Talker \subseteq Echo
  /\ MaxCtr \in Nat
  /\ MaxId \in Nat

NetId == 0 .. MaxNet
Ident == Echo \X (0 .. MaxId)          \* ws_random never repeats a key: 0 is "no key"

VARIABLES
  pc,         \* where each Echo's process is
  key,        \* the identity in its file arb_key (0: no such file)
  disk,       \* its file state/arbitration: the counter and the network
  id,         \* pk: the identity in memory
  net,        \* net_id, 0 while not in_net
  ctr,        \* the last counter drawn
  ctr_saved,  \* counters below this are reserved
  made,       \* history: identities this device made up
  sent,       \* every packet ever broadcast
  last        \* peers[].ctr: last[e][i] is the counter e holds of identity i, 0: none

vars == <<pc, key, disk, id, net, ctr, ctr_saved, made, sent, last>>

Packet == [id : Ident, net : NetId, c : Nat]
NoFile == [there |-> FALSE, ctr |-> 0, net |-> 0]
File   == [there : BOOLEAN, ctr : Nat, net : NetId]
Steps  == {"off", "failed", "identity", "reserve", "run", "send"}

TypeOK ==
  /\ pc \in [Echo -> Steps]
  /\ key \in [Echo -> 0 .. MaxId]
  /\ disk \in [Echo -> File]
  /\ id \in [Echo -> 0 .. MaxId]
  /\ net \in [Echo -> NetId]
  /\ ctr \in [Echo -> Nat]
  /\ ctr_saved \in [Echo -> Nat]
  /\ made \in [Echo -> 0 .. MaxId]
  /\ sent \in SUBSET Packet
  /\ last \in [Echo -> [Ident -> Nat]]

Init ==
  /\ pc = [e \in Echo |-> "off"]
  /\ key = [e \in Echo |-> 0]
  /\ disk = [e \in Echo |-> NoFile]
  /\ id = [e \in Echo |-> 0]
  /\ net = [e \in Echo |-> 0]
  /\ ctr = [e \in Echo |-> 0]
  /\ ctr_saved = [e \in Echo |-> 0]
  /\ made = [e \in Echo |-> 0]
  /\ sent = {}
  /\ last = [e \in Echo |-> [i \in Ident |-> 0]]

Me(e) == <<e, id[e]>>

\* save(): the file takes the reserved counter and the network, or stays as it was.
Save(e, c, n) ==
  \/ disk' = [disk EXCEPT ![e] = [there |-> TRUE, ctr |-> c, net |-> n]]
  \/ e \in Failing /\ UNCHANGED disk

(***************************************************************************)
(* arb_start                                                               *)
(***************************************************************************)

\* load(): the counter and the network of the state file, if there is one.
Load(e) ==
  /\ pc[e] = "off"
  /\ disk[e].ctr < MaxCtr
  /\ pc' = [pc EXCEPT ![e] = "identity"]
  /\ ctr_saved' = [ctr_saved EXCEPT ![e] = disk[e].ctr]
  /\ net' = [net EXCEPT ![e] = disk[e].net]
  /\ UNCHANGED <<key, disk, id, ctr, made, sent, last>>

\* Fault: a known key is kept although no counter is known (the code before 2026-10-15).
KeepIdentity(e) ==
  /\ pc[e] = "identity"
  /\ key[e] # 0
  /\ id' = [id EXCEPT ![e] = key[e]]
  /\ pc' = [pc EXCEPT ![e] = "reserve"]
  /\ UNCHANGED <<key, disk, net, ctr, ctr_saved, made, sent, last>>

\* identity(0): a counter is known and arb_key can be read.
LoadIdentity(e) ==
  /\ pc[e] = "identity"
  /\ disk[e].there
  /\ key[e] # 0
  /\ id' = [id EXCEPT ![e] = key[e]]
  /\ pc' = [pc EXCEPT ![e] = "reserve"]
  /\ UNCHANGED <<key, disk, net, ctr, ctr_saved, made, sent, last>>

\* identity(1), or no key yet: a new key, written before it is used.
NewIdentity(e) ==
  /\ pc[e] = "identity"
  /\ ~disk[e].there \/ key[e] = 0
  /\ made[e] < MaxId
  /\ made' = [made EXCEPT ![e] = @ + 1]
  /\ key' = [key EXCEPT ![e] = made[e] + 1]
  /\ id' = [id EXCEPT ![e] = made[e] + 1]
  /\ pc' = [pc EXCEPT ![e] = "reserve"]
  /\ UNCHANGED <<disk, net, ctr, ctr_saved, sent, last>>

\* The new key cannot be written: arb_start returns -1, this process takes no part.
NoIdentity(e) ==
  /\ pc[e] = "identity"
  /\ ~disk[e].there \/ key[e] = 0
  /\ e \in Failing
  /\ pc' = [pc EXCEPT ![e] = "failed"]
  /\ UNCHANGED <<key, disk, id, net, ctr, ctr_saved, made, sent, last>>

\* Fault: the restart goes on from the counter it read without reserving more.
ReserveNothing(e) ==
  /\ pc[e] = "reserve"
  /\ ctr' = [ctr EXCEPT ![e] = ctr_saved[e]]
  /\ ctr_saved' = [ctr_saved EXCEPT ![e] = @ + CTR_BLOCK]
  /\ pc' = [pc EXCEPT ![e] = "run"]
  /\ UNCHANGED <<key, disk, id, net, made, sent, last>>

\* ctr = ctr_saved; ctr_saved += CTR_BLOCK; save(); the loop starts.
Reserve(e) ==
  /\ pc[e] = "reserve"
  /\ ctr' = [ctr EXCEPT ![e] = ctr_saved[e]]
  /\ ctr_saved' = [ctr_saved EXCEPT ![e] = @ + CTR_BLOCK]
  /\ Save(e, ctr_saved[e] + CTR_BLOCK, net[e])
  /\ pc' = [pc EXCEPT ![e] = "run"]
  /\ UNCHANGED <<key, id, net, made, sent, last>>

(***************************************************************************)
(* The loop                                                                *)
(***************************************************************************)

\* Fault: the next block is reserved one counter too late.
NextCtrLate(e) ==
  /\ pc[e] = "run" /\ net[e] # 0
  /\ e \in Talker /\ ctr[e] < MaxCtr
  /\ ctr' = [ctr EXCEPT ![e] = @ + 1]
  /\ \/ /\ ctr[e] + 1 <= ctr_saved[e] + 1
        /\ UNCHANGED <<ctr_saved, disk>>
     \/ /\ ctr[e] + 1 > ctr_saved[e] + 1
        /\ ctr_saved' = [ctr_saved EXCEPT ![e] = ctr[e] + 1 + CTR_BLOCK]
        /\ Save(e, ctr[e] + 1 + CTR_BLOCK, net[e])
  /\ pc' = [pc EXCEPT ![e] = "send"]
  /\ UNCHANGED <<key, id, net, made, sent, last>>

\* next_ctr(), called for a beacon, a claim or a message in a network.
next_ctr(e) ==
  /\ pc[e] = "run" /\ net[e] # 0
  /\ e \in Talker /\ ctr[e] < MaxCtr
  /\ ctr' = [ctr EXCEPT ![e] = @ + 1]
  /\ \/ /\ ctr[e] + 1 < ctr_saved[e]
        /\ UNCHANGED <<ctr_saved, disk>>
     \/ /\ ctr[e] + 1 >= ctr_saved[e]
        /\ ctr_saved' = [ctr_saved EXCEPT ![e] = ctr[e] + 1 + CTR_BLOCK]
        /\ Save(e, ctr[e] + 1 + CTR_BLOCK, net[e])
  /\ pc' = [pc EXCEPT ![e] = "send"]
  /\ UNCHANGED <<key, id, net, made, sent, last>>

\* send_pkt, and send_spread's copies of the same packet.
Send(e) ==
  /\ pc[e] = "send"
  /\ sent' = sent \cup {[id |-> Me(e), net |-> net[e], c |-> ctr[e]]}
  /\ pc' = [pc EXCEPT ![e] = "run"]
  /\ UNCHANGED <<key, disk, id, net, ctr, ctr_saved, made, last>>

\* create() or take_key(): into a network, or from a younger into an older one.
adopt(e, n) ==
  /\ pc[e] = "run"
  /\ n # 0
  /\ net[e] = 0 \/ n < net[e]
  /\ net' = [net EXCEPT ![e] = n]
  /\ last' = [last EXCEPT ![e] = [i \in Ident |-> 0]]      \* memset(peers)
  /\ Save(e, ctr_saved[e], n)
  /\ UNCHANGED <<pc, key, id, ctr, ctr_saved, made, sent>>

\* The other places save() is called: the setting, the samples of the rounds.
SaveRounds(e) ==
  /\ pc[e] = "run"
  /\ disk[e] # [there |-> TRUE, ctr |-> ctr_saved[e], net |-> net[e]]
  /\ Save(e, ctr_saved[e], net[e])
  /\ UNCHANGED <<pc, key, id, net, ctr, ctr_saved, made, sent, last>>

Known(e) == {i \in Ident : last[e][i] # 0}

\* Fault: only the last packet's copies are dropped, not older packets.
NotTheLast(e, m) == m.c # last[e][m.id]

\* fresh(): a counter above the last one taken from that identity.
fresh(e, m) == m.c > last[e][m.id]

\* on_packet: of our network, not our own, MAC and counter right.  peer() makes
\* room for an identity it does not know by forgetting the one silent longest,
\* here any of them.
Receive(e, m) ==
  /\ pc[e] = "run"
  /\ m \in sent
  /\ m.net = net[e] /\ m.id # Me(e)
  /\ fresh(e, m)
  /\ \/ /\ last[e][m.id] # 0 \/ Cardinality(Known(e)) < NPEER
        /\ last' = [last EXCEPT ![e][m.id] = m.c]
     \/ /\ last[e][m.id] = 0 /\ Cardinality(Known(e)) >= NPEER
        /\ \E old \in Known(e) :
             last' = [last EXCEPT ![e] = [@ EXCEPT ![old] = 0, ![m.id] = m.c]]
  /\ UNCHANGED <<pc, key, disk, id, net, ctr, ctr_saved, made, sent>>

(***************************************************************************)
(* init, the power supply, the owner                                       *)
(***************************************************************************)

\* hassmic ends anywhere: memory is gone, the files stay.
Crash(e) ==
  /\ pc[e] # "off"
  /\ pc' = [pc EXCEPT ![e] = "off"]
  /\ id' = [id EXCEPT ![e] = 0]
  /\ net' = [net EXCEPT ![e] = 0]
  /\ ctr' = [ctr EXCEPT ![e] = 0]
  /\ ctr_saved' = [ctr_saved EXCEPT ![e] = 0]
  /\ last' = [last EXCEPT ![e] = [i \in Ident |-> 0]]
  /\ UNCHANGED <<key, disk, made, sent>>

\* A state file is found missing or empty at the next start.
LoseState(e) ==
  /\ pc[e] = "off" /\ e \in Talker
  /\ disk[e] # NoFile
  /\ disk' = [disk EXCEPT ![e] = NoFile]
  /\ UNCHANGED <<pc, key, id, net, ctr, ctr_saved, made, sent, last>>

LoseKey(e) ==
  /\ pc[e] = "off" /\ e \in Talker
  /\ key[e] # 0
  /\ key' = [key EXCEPT ![e] = 0]
  /\ UNCHANGED <<pc, disk, id, net, ctr, ctr_saved, made, sent, last>>

Next ==
  \E e \in Echo :
    \/ Load(e) \/ LoadIdentity(e) \/ NewIdentity(e) \/ NoIdentity(e) \/ Reserve(e)
    \/ next_ctr(e) \/ Send(e) \/ SaveRounds(e)
    \/ \E n \in NetId : adopt(e, n)
    \/ \E m \in sent : Receive(e, m)
    \/ Crash(e) \/ LoseState(e) \/ LoseKey(e)

Spec == Init /\ [][Next]_vars

(***************************************************************************)
(* Properties                                                              *)
(***************************************************************************)

\* As long as its files can be written: an Echo about to send, or to draw its next counter, is at or past every
\* counter it ever sent under this identity, whatever crashes, lost files and
\* key changes came before: the next packet it draws a counter for is above what
\* any member can hold, so it is not dropped for good.
CounterNeverGoesBack ==
  \A e \in Echo \ Failing : pc[e] \in {"run", "send"} =>
    \A m \in sent : m.id = Me(e) => m.c <= ctr[e] /\ (pc[e] = "send" => m.c < ctr[e])

\* A counter is on disk as reserved before a packet goes out with it
\* (next_ctr: "on disk before it is used").
OnDiskBeforeUse ==
  \A e \in Echo \ Failing : pc[e] = "send" => disk[e].there /\ ctr[e] < disk[e].ctr

\* A packet a member has taken, or missed a later one of, is never taken again:
\* the copies of a broadcast and replays of it stay dropped until the member
\* forgets the sender altogether (a restart, a change of network, or a newer
\* sender in a full table).
TakenOnce ==
  [][\A e \in Echo : \A m \in sent :
       ~fresh(e, m) => ~(m.c > last'[e][m.id]) \/ last'[e][m.id] = 0]_vars
=============================================================================
