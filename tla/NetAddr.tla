------------------------------ MODULE NetAddr ------------------------------
(***************************************************************************)
(* The Echo's own address changing under a running satellite (netaddr.c):  *)
(* the links registered with it, the watch thread that closes the links    *)
(* over an address the Echo no longer has and has its mDNS records         *)
(* announced again, at growing intervals, while a peer that should be      *)
(* there is not.  Home Assistant, the Sendspin server, the router and      *)
(* root's avahi are modelled from how the code uses them.  One poll of the *)
(* watch thread is the unit of time.                                       *)
(***************************************************************************)
EXTENDS Naturals, FiniteSets

CONSTANTS
    Addr,         \* the addresses the router hands out
    MaxLinks,     \* MAX_LINKS: links the registry holds
    First,        \* first_s of each peer, in polls
    MaxWait,      \* MAX_S, in polls
    GiveUp,       \* polls after which Home Assistant gives up a silent link
    MaxLeases,    \* bound: changes of the Echo's addresses
    MaxVisits,    \* bound: connections by another client
    MaxLost       \* bound: announcements and readings of the addresses lost

VARIABLES
    own,       \* the addresses the interfaces have
    last,      \* the addresses of the watch thread's last poll that had one
    links,     \* the links of the API port: who, over which address
    listed,    \* those of them in the registry
    cut,       \* those shut down and not yet cleaned up by their reader
    sched,     \* per peer: since set, polls to the next announcement, the wait
    mdns,      \* state/mdns waits for root
    ha,        \* Home Assistant: the address it dials, polls without an answer
    player,    \* a Sendspin server: connected, and the one that played here
    leases, visits, lost

netvars == <<own, last, links, listed, cut, sched, mdns, ha, player, leases, visits, lost>>

Peers == {"ha", "ss"}
Link == [who : {"ha", "other"}, addr : Addr]
Off == [since |-> FALSE, left |-> 0, wait |-> 0]
Fresh(p) == [since |-> TRUE, left |-> First[p], wait |-> First[p]]

(* A link passes data while the Echo still has its address and neither     *)
(* side has closed it.                                                     *)
Alive(l) == l \in links /\ l \notin cut /\ l.addr \in own

NaInit ==
    \E a \in Addr :
        /\ own = {a} /\ last = {} /\ links = {} /\ listed = {} /\ cut = {}
        /\ sched = [p \in Peers |-> Off] /\ mdns = FALSE
        /\ ha = [dials |-> a, silent |-> 0, link |-> FALSE]
        /\ player \in [up : {FALSE}, known : BOOLEAN]
        /\ leases = 0 /\ visits = 0 /\ lost = 0

netaddr_link_on(l) == IF Cardinality(listed) < MaxLinks THEN listed \cup {l} ELSE listed

(* The accept loop and serve(): a link of Home Assistant, which dials the  *)
(* address it knows, or of another client.                                 *)
Accept(l) ==
    /\ l \notin links /\ l.addr \in own
    /\ links' = links \cup {l} /\ listed' = netaddr_link_on(l)
    /\ UNCHANGED <<own, last, cut, sched, mdns, player, leases, lost>>

HaDials ==
    /\ ~ha.link
    /\ Accept([who |-> "ha", addr |-> ha.dials])
    /\ ha' = [ha EXCEPT !.link = TRUE, !.silent = 0] /\ UNCHANGED visits

OtherConnects(a) ==
    /\ visits < MaxVisits /\ visits' = visits + 1
    /\ Accept([who |-> "other", addr |-> a]) /\ UNCHANGED ha

(* serve_thread's end: the link was shut down, its peer closed it, or      *)
(* keepalive and TCP_USER_TIMEOUT found nothing getting through.           *)
serve_thread_ends(l) ==
    /\ l \in links
    /\ \/ ~Alive(l)
       \/ l.who = "ha" /\ ~ha.link
       \/ l.who = "other"
    /\ links' = links \ {l} /\ listed' = listed \ {l} /\ cut' = cut \ {l}
    /\ UNCHANGED <<own, last, sched, mdns, ha, player, leases, visits, lost>>

(* Home Assistant's side of a link shut down by the Echo ends when the     *)
(* shutdown gets through; over a lost address only its own patience ends   *)
(* it (Poll counts it).                                                    *)
HaHearsShutdown ==
    /\ ha.link /\ [who |-> "ha", addr |-> ha.dials] \in cut /\ ha.dials \in own
    /\ ha' = [ha EXCEPT !.link = FALSE]
    /\ UNCHANGED <<own, last, links, listed, cut, sched, mdns, player, leases, visits, lost>>

(* na_linked, na_expected (the Echo is set up), sendspin_linked,           *)
(* sendspin_expected.                                                      *)
linked(p) == IF p = "ha" THEN links # {} ELSE player.up
expected(p) == p = "ss" => player.known

drop_stale == {l \in listed : l.addr \notin own}

(* watch(): one peer's schedule after a poll; a new address restarts the   *)
(* schedules under way.                                                    *)
Scheduled(p, moved) ==
    LET s == IF moved /\ sched[p].since THEN Fresh(p) ELSE sched[p]
        t == IF s.since THEN s ELSE Fresh(p)
        w == IF 2 * t.wait > MaxWait THEN MaxWait ELSE 2 * t.wait
    IN  IF own = {} \/ ~expected(p) \/ linked(p) THEN Off
        ELSE IF t.left = 0 THEN [since |-> TRUE, left |-> w, wait |-> w]
        ELSE [t EXCEPT !.left = @ - 1]

\* Fault: only a new address is announced.
AnnouncesNever(p, moved) == FALSE

Announces(p, moved) ==
    /\ own # {} /\ expected(p) /\ ~linked(p)
    /\ sched[p].since /\ ~moved /\ sched[p].left = 0

(* A poll: what it decides when it can tell the addresses, and Home        *)
(* Assistant's patience with a silent link running.                        *)
watch ==
    LET moved == own # {} /\ last # {} /\ own # last
    IN  /\ cut' = IF own # {} THEN cut \cup drop_stale ELSE cut
        /\ last' = IF own # {} THEN own ELSE last
        /\ sched' = [p \in Peers |-> Scheduled(p, moved)]
        /\ mdns' = (mdns \/ moved \/ \E p \in Peers : Announces(p, moved))

HaWaits ==
    ha' = IF ~ha.link THEN ha
          ELSE IF Alive([who |-> "ha", addr |-> ha.dials]) THEN [ha EXCEPT !.silent = 0]
          ELSE IF ha.silent < GiveUp THEN [ha EXCEPT !.silent = @ + 1]
          ELSE [ha EXCEPT !.link = FALSE, !.silent = 0]

Poll ==
    /\ watch /\ HaWaits
    /\ UNCHANGED <<own, links, listed, player, leases, visits, lost>>

(* addrs_get fails: nothing is decided.                                    *)
PollBlind ==
    /\ lost < MaxLost /\ lost' = lost + 1
    /\ HaWaits
    /\ UNCHANGED <<own, last, links, listed, cut, sched, mdns, player, leases, visits>>

(* Root restarts avahi: a Home Assistant without a link moves its entry to *)
(* the address announced, one with a link ignores it; a Sendspin server    *)
(* that lost the player finds it.                                          *)
Announced ==
    /\ mdns /\ mdns' = FALSE
    /\ \/ /\ own # {}
          /\ ha' = IF ha.link THEN ha ELSE [ha EXCEPT !.dials = CHOOSE a \in own : TRUE]
          /\ player' = [up |-> player.known, known |-> player.known]
          /\ UNCHANGED lost
       \/ /\ lost < MaxLost /\ lost' = lost + 1 /\ UNCHANGED <<ha, player>>
       \/ own = {} /\ UNCHANGED <<ha, player, lost>>
    /\ UNCHANGED <<own, last, links, listed, cut, sched, leases, visits>>

(* The router: another address, none for a while, or two at a time.        *)
Lease(s) ==
    /\ leases < MaxLeases /\ leases' = leases + 1
    /\ s # own /\ own' = s
    /\ player' = [player EXCEPT !.up = FALSE]
    /\ UNCHANGED <<last, links, listed, cut, sched, mdns, ha, visits, lost>>

NaNext ==
    \/ HaDials \/ HaHearsShutdown \/ Poll \/ PollBlind \/ Announced
    \/ \E a \in Addr : OtherConnects(a)
    \/ \E l \in Link : serve_thread_ends(l)
    \/ \E s \in SUBSET Addr : Lease(s)

\* An announcement that is heard.
Heard == Announced /\ lost' = lost

NaSpec == NaInit /\ [][NaNext]_netvars

(* While the Echo keeps an address, Home Assistant is linked again and     *)
(* again, or another client holds the port, which counts as linked         *)
(* (na_linked): no change of address, at whatever moment, lets Home        *)
(* Assistant dial the old one for ever (netaddr.c, issue 17).  And a       *)
(* Sendspin server that played here finds the player again (issue 28).     *)
HaBack == \/ own = {} \/ (ha.link /\ Alive([who |-> "ha", addr |-> ha.dials]))
          \/ \E l \in links : l.who = "other"
PlayerBack == own = {} \/ player.up \/ ~player.known
=============================================================================
