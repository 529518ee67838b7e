-------------------------------- MODULE Web --------------------------------
(***************************************************************************)
(* The settings page (web.c): logins approved with the action button or   *)
(* by a voucher of another Echo, and signed requests with a counter each. *)
(* A request is handled under lk and is one action; requests of a browser *)
(* arrive in any order, and again.  What a request then does is in the    *)
(* module of its component; here a path only says whether its counter is  *)
(* written to disk.  Browsers, the button and other Echos are external.   *)
(***************************************************************************)
EXTENDS Naturals, Sequences, FiniteSets, FiniteSetsExt

CONSTANTS Browsers,      \* keys that ask
          MaxClients,    \* MAX_CLIENTS
          CtrWindow,     \* CTR_WINDOW
          MaxCtr,        \* bound: counters a browser uses
          AskFor,        \* what request number n asks for: [api, call]
          MaxNonces,     \* nonces[8]
          MaxConn,       \* MAX_CONN
          MaxBoots,      \* bound: restarts of hassmic
          MaxFails,      \* bound: writes of the file that fail
          MaxLogins,     \* bound: logins and adb requests
          NoOne

VARIABLES clients,       \* clients[]: oldest first, [pub, ctr, floor, seen]
          disk,          \* state/web_clients: [pub, ctr]
          saves,         \* writes that failed: how many, whether the file is behind now, whether a start read it so
          loginAsk,      \* what waits for the button
          attention,     \* the ring shows that something waits (hooks->attention)
          nonces,        \* nonces[]: oldest first, [pub, used]
          nconn,
          done,          \* the writes taken from each browser since it was approved
          twice,         \* one of them was taken again
          boots, logins

wvars == <<clients, disk, saves, loginAsk, attention, nonces, nconn, done, twice, boots, logins>>

Idle == [pub |-> NoOne, state |-> "none", kind |-> "login"]
WInit == /\ clients = <<>> /\ disk = <<>> /\ saves = [failed |-> 0, behind |-> FALSE, stale |-> FALSE] /\ loginAsk = Idle /\ attention = FALSE /\ nonces = <<>>
         /\ nconn = 0 /\ done = [b \in Browsers |-> {}] /\ twice = FALSE /\ boots = 0 /\ logins = 0

----------------------------------------------------------------------------
\* Approved browsers.
Known(b) == \E i \in DOMAIN clients : clients[i].pub = b
client_of(b) == CHOOSE i \in DOMAIN clients : clients[i].pub = b
Lines(cs) == [i \in DOMAIN cs |-> [pub |-> cs[i].pub, ctr |-> cs[i].ctr]]
\* A write that fails is logged, and the caller goes on.
save_fails == saves.failed < MaxFails /\ saves' = [saves EXCEPT !.failed = @ + 1, !.behind = TRUE]
save_clients(cs) == \/ disk' = Lines(cs) /\ saves' = [saves EXCEPT !.behind = FALSE]
                    \/ save_fails /\ UNCHANGED disk
Forgotten(cs) == done' = [b \in Browsers |-> IF \E i \in DOMAIN cs : cs[i].pub = b THEN done[b] ELSE {}]
add_client(b) ==
  LET kept == IF Len(clients) = MaxClients THEN Tail(clients) ELSE clients      \* the oldest goes
      cs == IF Known(b) THEN clients ELSE Append(kept, [pub |-> b, ctr |-> 0, floor |-> 0, seen |-> {}])
  IN  clients' = cs /\ save_clients(cs) /\ Forgotten(cs)
\* Fault: after a restart the window starts below the counters already used.
load_clients_low ==
  [i \in DOMAIN disk |-> [pub |-> disk[i].pub, ctr |-> disk[i].ctr, floor |-> 0, seen |-> {}]]

load_clients == [i \in DOMAIN disk |-> [pub |-> disk[i].pub, ctr |-> disk[i].ctr, floor |-> disk[i].ctr, seen |-> {}]]

\* listener, conn_thread: one answer per connection.
listener == /\ nconn < MaxConn /\ nconn' = nconn + 1
            /\ UNCHANGED <<clients, disk, saves, loginAsk, attention, nonces, done, twice, boots, logins>>
Answered == nconn > 0 /\ nconn' = nconn - 1
closed == Answered /\ UNCHANGED <<clients, disk, saves, loginAsk, attention, nonces, done, twice, boots, logins>>

----------------------------------------------------------------------------
\* Logins.  login_expire runs before each of these and every second (expiry);
\* that a login ran out just before is an expiry just before.
Settle(state, on) == loginAsk' = [loginAsk EXCEPT !.state = state] /\ attention' = on
Ask(b, kind) == loginAsk' = [pub |-> b, state |-> "waits", kind |-> kind] /\ attention' = TRUE
login_expire == /\ loginAsk.state = "waits" /\ Settle("refused", FALSE)
                /\ UNCHANGED <<clients, disk, saves, nonces, nconn, done, twice, boots, logins>>
expiry == login_expire

login_ask(b) ==
  /\ Answered /\ logins < MaxLogins /\ logins' = logins + 1
  /\ CASE Known(b) \/ (loginAsk.kind = "login" /\ loginAsk.pub = b) -> UNCHANGED <<loginAsk, attention>>
       [] loginAsk.state = "waits" -> Settle("refused", FALSE)                    \* two at once: neither
       [] OTHER -> Ask(b, "login")
  /\ UNCHANGED <<clients, disk, saves, nonces, done, twice, boots>>
web_approve == /\ loginAsk.state = "waits" /\ Settle("approved", FALSE)
               /\ IF loginAsk.kind = "login" THEN add_client(loginAsk.pub) ELSE UNCHANGED <<clients, disk, saves, done>>
               /\ UNCHANGED <<nonces, nconn, twice, boots, logins>>

\* Through another Echo of the network: a nonce for a browser's key, once.
vouch_nonce(b) == /\ Answered
                  /\ nonces' = Append(IF Len(nonces) = MaxNonces THEN Tail(nonces) ELSE nonces, [pub |-> b, used |-> FALSE])
                  /\ UNCHANGED <<clients, disk, saves, loginAsk, attention, done, twice, boots, logins>>
vouch_login(b) == /\ Answered
                  /\ \E i \in DOMAIN nonces, good \in BOOLEAN :
                       /\ nonces[i] = [pub |-> b, used |-> FALSE]
                       /\ nonces' = [nonces EXCEPT ![i].used = TRUE]
                       /\ IF good THEN add_client(b) ELSE UNCHANGED <<clients, disk, saves, done>>
                  /\ UNCHANGED <<loginAsk, attention, twice, boots, logins>>

----------------------------------------------------------------------------
\* Signed requests.
\* Whether signed_ok writes the counter to disk, by API and call: what changes
\* something does, apart from the pieces of a copy.
artifact_api == [list |-> FALSE, read |-> FALSE, chunk |-> FALSE, begin |-> TRUE, commit |-> TRUE, install |-> TRUE]
sound_api == [stock |-> TRUE, play |-> TRUE, save |-> TRUE, delete |-> TRUE]
sound_pack_api == [list |-> TRUE, new |-> TRUE, save |-> TRUE, put |-> TRUE, get |-> TRUE, apply |-> TRUE, delete |-> TRUE]
timer_sound_api == [play |-> TRUE, save |-> TRUE, delete |-> TRUE]
mww_api == [list |-> FALSE, file |-> FALSE, add |-> TRUE, edit |-> TRUE, delete |-> TRUE, use |-> TRUE]
ring_api == [status |-> FALSE, designs |-> FALSE, packs |-> FALSE, stock |-> FALSE, design |-> TRUE, pack |-> TRUE,
             packdelete |-> TRUE, delete |-> TRUE, assign |-> TRUE, apply |-> TRUE]
davs_api == [status |-> FALSE, login |-> TRUE, cancel |-> TRUE, logout |-> TRUE, fetch |-> TRUE]
wifi_api == [status |-> FALSE, scan |-> TRUE, join |-> TRUE]
screen_api == [home |-> TRUE]
mass_api == [set |-> TRUE]
page_api == [state |-> FALSE, export |-> FALSE, log |-> FALSE, set |-> TRUE, identify |-> TRUE, dropin |-> TRUE,
             reset |-> TRUE, reboot |-> TRUE, adb |-> TRUE, revoke |-> TRUE, vouch |-> TRUE]

\* What browser's request n asks for; whether its counter goes to disk; whether
\* it must not be done twice (a piece of a copy may be).
Apis == [artifact |-> artifact_api, sound |-> sound_api, pack |-> sound_pack_api, timer |-> timer_sound_api,
         mww |-> mww_api, ring |-> ring_api, davs |-> davs_api, wifi |-> wifi_api,
         screen |-> screen_api, mass |-> mass_api, page |-> page_api]
persist(n) == Apis[AskFor[n].api][AskFor[n].call]
Harmless == {"list", "read", "chunk", "file", "status", "designs", "packs", "stock", "get", "state", "export", "log"}
Does(n) == AskFor[n].call \notin Harmless

ASSUME WebAssumption ==
  /\ CtrWindow \in Nat \ {0} /\ MaxClients \in Nat \ {0} /\ {MaxCtr, MaxNonces, MaxConn, MaxBoots, MaxFails, MaxLogins} \subseteq Nat
  /\ NoOne \notin Browsers
  /\ \A n \in 1..MaxCtr : AskFor[n].api \in DOMAIN Apis /\ AskFor[n].call \in DOMAIN Apis[AskFor[n].api]

ctr_fresh(c, n) == n > c.floor /\ n \notin c.seen
ctr_take(c, n) ==
  LET full == Cardinality(c.seen) = CtrWindow
      low == Min(c.seen)
  IN  [c EXCEPT !.seen = (IF full THEN @ \ {low} ELSE @) \cup {n},
                !.floor = IF full /\ low > @ THEN low ELSE @,
                !.ctr = IF n > @ THEN n ELSE @]
\* Request n of browser b, if it counts; what changes something puts its
\* counter on disk first.
signed_ok(b, n) ==
  /\ Known(b) /\ ctr_fresh(clients[client_of(b)], n)
  /\ LET cs == [clients EXCEPT ![client_of(b)] = ctr_take(@, n)] IN
     /\ clients' = cs
     /\ IF persist(n) THEN save_clients(cs) ELSE UNCHANGED <<disk, saves>>
     /\ IF Does(n) THEN twice' = (twice \/ n \in done[b]) /\ done' = [done EXCEPT ![b] = @ \cup {n}]
                   ELSE UNCHANGED <<twice, done>>
handle(b, n) == /\ Answered /\ AskFor[n].call \notin {"adb", "revoke"} /\ signed_ok(b, n) /\ UNCHANGED <<loginAsk, attention, nonces, boots, logins>>
\* A signed request of its own kind: adb waits for the button like a login.
adb_ask(b, n) ==
  /\ Answered /\ AskFor[n].call = "adb" /\ signed_ok(b, n) /\ logins < MaxLogins /\ logins' = logins + 1
  /\ IF loginAsk.state = "waits" THEN UNCHANGED <<loginAsk, attention>> ELSE Ask(b, "adb")
  /\ UNCHANGED <<nonces, boots>>
\* It takes a browser off the list, if it is there, and writes the list again:
\* the counters of the others stay.
Without(s, k) == [i \in 1 .. Len(s) - 1 |-> s[IF i < k THEN i ELSE i + 1]]
revoke(b, n, who) ==
  /\ Answered /\ AskFor[n].call = "revoke" /\ Known(b) /\ ctr_fresh(clients[client_of(b)], n)
  /\ LET taken == [clients EXCEPT ![client_of(b)] = ctr_take(@, n)]
         cs == IF Known(who) THEN Without(taken, client_of(who)) ELSE taken
     IN  /\ clients' = cs /\ (save_clients(cs) \/ (save_fails /\ disk' = Lines(taken))) /\ twice' = (twice \/ n \in done[b])
         /\ done' = [[done EXCEPT ![b] = @ \cup {n}] EXCEPT ![who] = {}]
  /\ UNCHANGED <<loginAsk, attention, nonces, boots, logins>>

web_start == /\ boots < MaxBoots /\ boots' = boots + 1
             /\ clients' = load_clients /\ loginAsk' = Idle /\ attention' = FALSE /\ nonces' = <<>> /\ nconn' = 0
             /\ saves' = [saves EXCEPT !.stale = @ \/ saves.behind, !.behind = FALSE]
             /\ UNCHANGED <<disk, done, twice, logins>>

WNext == \/ listener \/ closed \/ expiry \/ web_approve \/ web_start
         \/ \E b \in Browsers : login_ask(b) \/ vouch_nonce(b) \/ vouch_login(b)
         \/ \E b \in Browsers, n \in 1..MaxCtr : handle(b, n) \/ adb_ask(b, n)
         \/ \E b, who \in Browsers, n \in 1..MaxCtr : revoke(b, n, who)
WSpec == WInit /\ [][WNext]_wvars

----------------------------------------------------------------------------
\* A request that changes something counts once, however late, early or often
\* it arrives and whatever restarts come between, as long as its browser stays
\* approved (the counters beyond the window, and those of before the restart,
\* are below the floor).  This needs the counter in the file: save_clients only
\* logs a write that failed, so the claim ends with a start that reads a file
\* still behind; a later write that succeeds makes up for the failed one.
OnceEach == twice => saves.stale

\* The ring does not go on asking for the button: whatever waits is approved,
\* refused or runs out, also when no page asks about it again.
AttentionOver == ~attention
=============================================================================
