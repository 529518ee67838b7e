------------------------------- MODULE ArbNet -------------------------------
(***************************************************************************)
(* How the Echos of a house come into one network (arb.c): each looks for  *)
(* members, starts a network when it hears none, and is handed the key of  *)
(* an older one by a member: on the LAN once Home Assistant confirmed its  *)
(* tag, through Home Assistant's action, or by the pairing gesture.  The   *)
(* lower network id is the older network.  A beacon is heard or lost; a    *)
(* handed key may be lost, late or come twice.  A stranger's Echo may ask  *)
(* to pair and send keys of its own network at any time: on_packet takes   *)
(* both from any sender.  Wi-Fi, Home Assistant, the owner and what the    *)
(* strangers' Echos send are external.                                     *)
(***************************************************************************)
EXTENDS Naturals, FiniteSets

CONSTANTS House,          \* Echos Home Assistant adopted
          Strangers,      \* Echos it did not, or no longer: their old tags are still there
          Nets,           \* network ids, 0 is none
          StrangerNets,   \* the networks strangers may be in
          HasHa,          \* there is a Home Assistant
          Allowed,        \* the owner allowed hassmic to perform actions
          MaxPairs,       \* bound: pairing gestures
          MaxStrange,     \* bound: keys and requests to pair that strangers send
          MaxDowns        \* bound: Echos silent too long, restarts, Home Assistant gone

ASSUME ArbNetAssumption ==
  /\ House \cap Strangers = {} /\ Nets \subseteq Nat \ {0} /\ StrangerNets \subseteq Nat
  /\ {HasHa, Allowed} \subseteq BOOLEAN /\ {MaxPairs, MaxStrange, MaxDowns} \subseteq Nat

VARIABLES net,            \* in_net, net_id of every Echo
          peers,          \* members it counts
          cands,          \* what it knows of each Echo outside its network
          tagged,         \* tags Home Assistant has
          ha,             \* Home Assistant takes requests
          mail,           \* keys on their way: [to, from, net, by]
          pair, preqs,    \* the pairing window, the requests heard in it
          looking,        \* DISCOVER_MS is not over
          pairs, downs,
          strange         \* sent: what strangers sent so far; let: a pressed Echo's window let one in

nvars == <<net, peers, cands, tagged, ha, mail, pair, preqs, looking, pairs, downs, strange>>

Echos == House \union Strangers
NoCand == [seen |-> FALSE, net |-> 0, tag |-> "unread", attested |-> FALSE]
NInit == /\ \E n \in [Strangers -> StrangerNets] : net = [e \in Echos |-> IF e \in House THEN 0 ELSE n[e]]
         /\ peers = [e \in House |-> {}] /\ cands = [e \in House |-> [d \in Echos |-> NoCand]]
         /\ tagged = Strangers /\ ha = HasHa /\ mail = {}
         /\ pair = [e \in House |-> "off"] /\ preqs = [e \in House |-> {}] /\ looking = House
         /\ pairs = 0 /\ downs = 0 /\ strange = [sent |-> 0, let |-> FALSE]

----------------------------------------------------------------------------
\* adopt, create, take_key.
adopt(e, n) == /\ net' = [net EXCEPT ![e] = n] /\ peers' = [peers EXCEPT ![e] = {}]
Members(e) == {d \in Echos : cands[e][d].seen /\ cands[e][d].net # 0}
create(e) == /\ net[e] = 0 /\ e \notin looking /\ Members(e) = {}
             /\ \E n \in Nets \ {net[d] : d \in Echos} : adopt(e, n)
             /\ UNCHANGED <<cands, tagged, ha, mail, pair, preqs, looking, pairs, downs, strange>>
discovered(e) == /\ e \in looking /\ looking' = looking \ {e}
                 /\ UNCHANGED <<net, peers, cands, tagged, ha, mail, pair, preqs, pairs, downs, strange>>
Older(n, e) == net[e] = 0 \/ n < net[e]
\* Taking a key, by any way, ends the pairing window.
take_key(e, n) == IF Older(n, e) THEN adopt(e, n) /\ pair' = [pair EXCEPT ![e] = "off"]
                                 ELSE UNCHANGED <<net, peers, pair>>

----------------------------------------------------------------------------
\* push: what a member hands an Echo outside its network or in a younger one.
Younger(c, e) == net[e] # 0 /\ (c.net = 0 \/ c.net > net[e])
Handed(e, d, c) ==
  IF ~Younger(c, e) THEN {}
  ELSE IF c.attested THEN {[to |-> d, from |-> e, net |-> net[e], by |-> "lan"]}
  ELSE IF Allowed /\ ha /\ d \in House THEN {[to |-> d, from |-> e, net |-> net[e], by |-> "action"]} ELSE {}

\* on_packet, T_BEACON: E hears what D says of itself now.
beacon(d, e) ==
  /\ IF net[e] # 0 /\ net[d] = net[e]
     THEN /\ peers' = [peers EXCEPT ![e] = @ \union {d}] /\ cands' = [cands EXCEPT ![e][d].seen = FALSE]
          /\ UNCHANGED mail
     ELSE LET c == [cands[e][d] EXCEPT !.seen = TRUE, !.net = net[d]] IN
          /\ cands' = [cands EXCEPT ![e][d] = c] /\ mail' = mail \union Handed(e, d, c)
          /\ UNCHANGED peers
  /\ UNCHANGED <<net, tagged, ha, pair, preqs, looking, pairs, downs, strange>>
\* loop: handed again as long as it is outside.
push(e, d) == /\ cands[e][d].seen /\ mail' = mail \union Handed(e, d, cands[e][d])
              /\ UNCHANGED <<net, peers, cands, tagged, ha, pair, preqs, looking, pairs, downs, strange>>

----------------------------------------------------------------------------
\* Tags.  tag says what an Echo read: "scanned" once Home Assistant's state
\* differs from the first one read.  Only an adopted Echo's scan counts.
need(e) == net[e] = 0 \/ \E d \in Echos : cands[e][d].seen
scan(e) == /\ ha /\ need(e) /\ tagged' = tagged \union {e}
           /\ cands' = [d \in House |-> [cands[d] EXCEPT ![e].tag = IF @ = "read" THEN "scanned" ELSE @]]
           /\ UNCHANGED <<net, peers, ha, mail, pair, preqs, looking, pairs, downs, strange>>
Wanted(e, d) == LET c == cands[e][d] IN c.seen /\ ~c.attested /\ (Younger(c, e) \/ (c.net # 0 /\ Older(c.net, e)))
\* Fault: the first state read counts, without seeing it change.
ha_state_at_once(e, d) ==
  /\ ha /\ d \in tagged /\ Wanted(e, d) /\ cands' = [cands EXCEPT ![e][d].attested = TRUE]
  /\ UNCHANGED <<net, peers, tagged, ha, mail, pair, preqs, looking, pairs, downs, strange>>

\* poll_tag and Home Assistant's answer, arb_ha_state.
arb_ha_state(e, d) ==
  /\ ha /\ d \in tagged /\ Wanted(e, d)
  /\ cands' = [cands EXCEPT ![e][d] = CASE @.tag = "unread"  -> [@ EXCEPT !.tag = "read"]
                                        [] @.tag = "scanned" -> [@ EXCEPT !.attested = TRUE]
                                        [] OTHER -> @]
  /\ UNCHANGED <<net, peers, tagged, ha, mail, pair, preqs, looking, pairs, downs, strange>>

----------------------------------------------------------------------------
\* A key arrives: T_GIVE while pairing or from an attested Echo for the
\* network it beacons; arb_key over the encrypted link.  It may come again.
Believed(m) == \/ m.by = "action" \/ pair[m.to] # "off"
               \/ LET c == cands[m.to][m.from] IN c.seen /\ c.attested /\ c.net = m.net
arrive(m, again) ==
  /\ m \in mail /\ m.to \in House /\ mail' = IF again THEN mail ELSE mail \ {m}
  /\ IF Believed(m) THEN take_key(m.to, m.net) ELSE UNCHANGED <<net, peers, pair>>
  /\ strange' = [strange EXCEPT !.let = @ \/ (m.from \in Strangers /\ pair[m.to] # "off" /\ Older(m.net, m.to))]
  /\ UNCHANGED <<cands, tagged, ha, preqs, looking, pairs, downs>>
lost(m) == /\ m \in mail /\ m.to \in House /\ downs < MaxDowns /\ downs' = downs + 1 /\ mail' = mail \ {m}
           /\ UNCHANGED <<net, peers, cands, tagged, ha, pair, preqs, looking, pairs, strange>>

----------------------------------------------------------------------------
\* Pairing: the owner presses both Echos.
arb_pair(e) == /\ pairs < MaxPairs /\ pairs' = pairs + 1 /\ pair' = [pair EXCEPT ![e] = "on"]
               /\ UNCHANGED <<net, peers, cands, tagged, ha, mail, preqs, looking, downs, strange>>
on_pair(d, e) == preqs' = [preqs EXCEPT ![e] = {q \in @ : q.from # d} \union {[from |-> d, net |-> net[d]]}]
pair_request(d, e) == /\ pair[d] # "off" /\ on_pair(d, e)
                      /\ UNCHANGED <<net, peers, cands, tagged, ha, mail, pair, looking, pairs, downs, strange>>
Outside(e) == {q \in preqs[e] : q.net = 0 \/ q.net > net[e]}
pair_give(e) ==
  /\ net[e] # 0 /\ pair[e] = "on" /\ ~\E q \in preqs[e] : q.net # 0 /\ q.net < net[e]
  /\ IF Cardinality(Outside(e)) > 1 THEN pair' = [pair EXCEPT ![e] = "off"] /\ UNCHANGED <<mail, strange>>
     ELSE /\ pair' = [pair EXCEPT ![e] = "gave"]
          /\ \E q \in Outside(e) :
               /\ mail' = mail \union {[to |-> q.from, from |-> e, net |-> net[e], by |-> "lan"]}
               /\ strange' = [strange EXCEPT !.let = @ \/ q.from \in Strangers]
  /\ UNCHANGED <<net, peers, cands, tagged, ha, preqs, looking, pairs, downs>>
\* The requests heard grow too old (PAIR_MS) by themselves, sooner or later.
pairing_end(e) == /\ pair[e] # "off" /\ pair' = [pair EXCEPT ![e] = "off"]
                  /\ \E aged \in BOOLEAN : preqs' = [preqs EXCEPT ![e] = IF aged THEN {} ELSE @]
                  /\ UNCHANGED <<net, peers, cands, tagged, ha, mail, looking, pairs, downs, strange>>

----------------------------------------------------------------------------
\* What strangers send: a key of their own network, or a request to pair; and
\* the house's key, once a window handed it to one.
Sends == strange.sent < MaxStrange /\ strange' = [strange EXCEPT !.sent = @ + 1]
stranger_gives(s, e) == /\ Sends /\ net[s] # 0
                        /\ mail' = mail \union {[to |-> e, from |-> s, net |-> net[s], by |-> "lan"]}
                        /\ UNCHANGED <<net, peers, cands, tagged, ha, pair, preqs, looking, pairs, downs>>
\* A request is read in a window only: none is sent after the last one (bound).
stranger_asks(s, e) == /\ Sends /\ on_pair(s, e) /\ (pairs < MaxPairs \/ \E d \in House : pair[d] # "off")
                       /\ UNCHANGED <<net, peers, cands, tagged, ha, mail, pair, looking, pairs, downs>>
stranger_joins(m) == /\ m \in mail /\ m.to \in Strangers /\ mail' = mail \ {m} /\ net' = [net EXCEPT ![m.to] = m.net]
                     /\ UNCHANGED <<peers, cands, tagged, ha, pair, preqs, looking, pairs, downs, strange>>

----------------------------------------------------------------------------
\* PEER_TTL_MS without a beacon; a restart (arb_start: the key is on disk);
\* Home Assistant away and back.
Down == downs < MaxDowns /\ downs' = downs + 1
silent(e, d) == /\ Down /\ cands' = [cands EXCEPT ![e][d].seen = FALSE] /\ peers' = [peers EXCEPT ![e] = @ \ {d}]
                /\ UNCHANGED <<net, tagged, ha, mail, pair, preqs, looking, pairs, strange>>
arb_start(e) == /\ Down /\ peers' = [peers EXCEPT ![e] = {}] /\ cands' = [cands EXCEPT ![e] = [d \in Echos |-> NoCand]]
                /\ pair' = [pair EXCEPT ![e] = "off"] /\ preqs' = [preqs EXCEPT ![e] = {}]
                /\ looking' = looking \union {e} /\ UNCHANGED <<net, tagged, ha, mail, pairs, strange>>
HaGone == Down /\ ha /\ ha' = FALSE /\ UNCHANGED <<net, peers, cands, tagged, mail, pair, preqs, looking, pairs, strange>>
HaBack == HasHa /\ ~ha /\ ha' = TRUE /\ UNCHANGED <<net, peers, cands, tagged, mail, pair, preqs, looking, pairs, downs, strange>>

Keys == [to : House, from : House, net : Nets, by : {"lan", "action"}]
NNext == \/ \E e \in House : \/ create(e) \/ discovered(e) \/ scan(e) \/ arb_pair(e) \/ pair_give(e) \/ pairing_end(e)
                             \/ arb_start(e)
                             \/ \E d \in Echos \ {e} : beacon(d, e) \/ push(e, d) \/ arb_ha_state(e, d) \/ silent(e, d)
                             \/ \E d \in House \ {e} : pair_request(d, e)
                             \/ \E s \in Strangers : stranger_gives(s, e) \/ stranger_asks(s, e)
         \/ \E m \in mail : lost(m) \/ stranger_joins(m) \/ \E again \in BOOLEAN : arrive(m, again)
         \/ HaGone \/ HaBack

NSpec == NInit /\ [][NNext]_nvars

----------------------------------------------------------------------------
\* An Echo that Home Assistant has not adopted, or has removed, never becomes
\* part of the house's network, nor does it take one of the house's Echos into
\* its own, whatever keys and requests to pair it sends: its tag, if it has one,
\* never changes again (arb_ha_state), and without that neither side hands or
\* takes a key (push, T_GIVE).  The one way in is the one arb.c:83-85 states: the
\* window of an Echo whose buttons were pressed, in which the stranger is the only
\* one outside to ask, or hands a key itself.
OnlyAdopted == ~strange.let => /\ \A m \in mail : m.to \in House
                               /\ \A e \in House, s \in Strangers : net[e] # 0 => net[e] # net[s]

\* Echos of one house that started networks of their own, or were away, end in
\* one network and count each other.
\* With a stranger's network in sight they wait for it instead of starting one
\* (loop, "members"), so this is for houses without.
Merged ==
    HasHa /\ (\A s \in Strangers : net[s] = 0) =>
        (\A e, d \in House : net[e] # 0 /\ net[d] = net[e] /\ (d # e => d \in peers[e]))

=============================================================================
