------------------------------------ MODULE Mass ------------------------------------
(* Music Assistant's own API for the screen's music pages (mass.c): the session     *)
(* thread connects to the address set on the page, logs in with the token given     *)
(* with it and handles answers and events; the UI's requests are sent from the      *)
(* screen's thread, each in the steps between which the session can end (checked,   *)
(* registered, put on the wire); an image thread fetches covers over HTTP with the  *)
(* same token.  Addresses are abstract; a token is the address it was given for.    *)
(* The contents of lists, players and queues are left out.                          *)
EXTENDS Integers, FiniteSets, Sequences

CONSTANTS
  Host,      \* addresses a Music Assistant may have
  Slots,     \* NPEND: answers waited for
  MaxSets,   \* bound: new settings or suggested servers
  MaxReqs,   \* bound: lists the UI asks for
  MaxCovers, \* bound: covers it asks for
  Unset

ASSUME MassAssumption ==
  Slots \in Nat \ {0} /\ {MaxSets, MaxReqs, MaxCovers} \subseteq Nat /\ Unset \notin Host

VARIABLES
  url, token,  \* the page's settings; a token is the host it was given for
  peer,        \* the Sendspin server suggested; "stopped": mass_stop, no session any more
  gen,         \* settings so far
  ses,         \* the session thread: [at, host, tok, seen]
  up, upGen,   \* logged in, for which settings
  open,        \* wsopen: the host the websocket is open to
  pend,        \* answers waited for: slot -> the UI's request, or Unset
  asking,      \* the screen's thread: [at, req]
  waiting,     \* ghost: requests the UI waits for
  nextId,      \* next_id (per slot round)
  wanted,      \* iq: covers asked for
  img,         \* the image thread: the host and token it took, or Unset
  sent,        \* ghost: <<token, host>> the token was sent to
  reqs, covers

avars == <<url, token, peer, gen, ses, up, upGen, open, pend, asking, waiting, nextId, wanted, img, sent, reqs, covers>>

NoSession == [at |-> "idle", host |-> Unset, tok |-> Unset, seen |-> 0]
NotAsking == [at |-> "idle", req |-> 0, slot |-> 0]

AInit ==
  /\ url = Unset /\ token = Unset /\ peer = Unset /\ gen = 0 /\ ses = NoSession /\ up = FALSE /\ upGen = 0 /\ open = Unset
  /\ pend = [k \in 1..Slots |-> 0] /\ asking = NotAsking /\ waiting = {} /\ nextId = 0
  /\ wanted = 0 /\ img = Unset /\ sent = {} /\ reqs = 0 /\ covers = 0

conn == <<ses, up, upGen, open>>
uis == <<pend, asking, waiting, nextId, reqs>>
pics == <<wanted, img, covers>>

--------------------------------------------------------------------------------------
\* The settings.

\* mass_set: a token needs an address, and a new address takes the token again; the session sees it at once
\* (the socket is shut down; the thread notices).
mass_set(u, t) ==
  /\ gen < MaxSets
  /\ t \in {"keep", "drop", "new"}
  /\ LET tok == t = "new" \/ (t = "keep" /\ token # Unset) IN
       /\ ~(tok /\ u = Unset) /\ ~(tok /\ t # "new" /\ u # url)
       /\ url' = u
       /\ token' = IF t = "drop" THEN Unset ELSE IF t = "new" THEN u ELSE token
  /\ gen' = gen + 1
  /\ UNCHANGED <<peer, sent>> /\ UNCHANGED conn /\ UNCHANGED uis /\ UNCHANGED pics

\* mass_peer: a Sendspin server's address, used while none is set.
mass_peer(h) ==
  /\ gen < MaxSets /\ peer \notin {h, "stopped"}
  /\ peer' = h /\ gen' = IF url = Unset THEN gen + 1 ELSE gen
  /\ UNCHANGED <<url, token, sent>> /\ UNCHANGED conn /\ UNCHANGED uis /\ UNCHANGED pics

\* mass_stop: the screen's UI was given up.
mass_stop ==
  /\ gen < MaxSets /\ peer # "stopped"
  /\ peer' = "stopped" /\ gen' = gen + 1
  /\ UNCHANGED <<url, token, sent>> /\ UNCHANGED conn /\ UNCHANGED uis /\ UNCHANGED pics

\* target: never the suggested server once there is a token.
target == IF peer = "stopped" THEN Unset ELSE IF url # Unset THEN url ELSE IF token # Unset THEN Unset ELSE peer

--------------------------------------------------------------------------------------
\* The session thread.

\* thread_main reads gen, session() then reads the address and the token together.
thread_main ==
  /\ ses.at = "idle" /\ target # Unset
  /\ ses' = [NoSession EXCEPT !.at = "begin", !.seen = gen]
  /\ UNCHANGED <<url, token, peer, gen, up, upGen, open, sent>> /\ UNCHANGED uis /\ UNCHANGED pics
session ==
  /\ ses.at = "begin"
  /\ \/ target # Unset /\ ses' = [ses EXCEPT !.at = "connect", !.host = target, !.tok = token]
     \/ target = Unset /\ ses' = NoSession
  /\ UNCHANGED <<url, token, peer, gen, up, upGen, open, sent>> /\ UNCHANGED uis /\ UNCHANGED pics
\* ws_connect, and the server's info: nothing there, something else, or Music Assistant.
ws_connect ==
  /\ ses.at = "connect"
  /\ \/ ses' = NoSession /\ UNCHANGED open
     \/ ses' = [ses EXCEPT !.at = "info"] /\ open' = ses.host
  /\ UNCHANGED <<url, token, peer, gen, up, upGen, sent>> /\ UNCHANGED uis /\ UNCHANGED pics
\* The login (from schema 28): without a token it waits for one; with one it is sent to this host.
login ==
  /\ ses.at = "info"
  /\ \/ ses.tok = Unset /\ ses' = NoSession /\ open' = Unset /\ UNCHANGED sent
     \/ ses.tok # Unset /\ ses' = [ses EXCEPT !.at = "auth"] /\ sent' = sent \union {<<ses.tok, ses.host>>} /\ UNCHANGED open
     \/ ses' = [ses EXCEPT !.at = "in"] /\ UNCHANGED <<open, sent>>                 \* an older one wants none
     \/ ses' = NoSession /\ open' = Unset /\ UNCHANGED sent                          \* not Music Assistant
  /\ UNCHANGED <<url, token, peer, gen, up, upGen>> /\ UNCHANGED uis /\ UNCHANGED pics
auth ==
  /\ ses.at = "auth"
  /\ \/ ses' = NoSession /\ open' = Unset                                             \* refused, or no answer
     \/ ses' = [ses EXCEPT !.at = "in"] /\ UNCHANGED open
  /\ UNCHANGED <<url, token, peer, gen, up, upGen, sent>> /\ UNCHANGED uis /\ UNCHANGED pics
logged_in ==
  /\ ses.at = "in"
  /\ ses' = [ses EXCEPT !.at = "up"] /\ up' = TRUE /\ upGen' = ses.seen
  /\ UNCHANGED <<url, token, peer, gen, open, sent>> /\ UNCHANGED uis /\ UNCHANGED pics

\* on_result, on_partial and on_list: the answer of a request (an error, or its last piece) ends the list at the UI.
on_result(k) ==
  /\ ses.at = "up" /\ gen = ses.seen /\ pend[k] # 0
  /\ ~(asking.at = "put" /\ asking.slot = k)                                         \* it has been sent
  /\ pend' = [pend EXCEPT ![k] = 0] /\ waiting' = waiting \ {pend[k]}
  /\ UNCHANGED <<asking, nextId, reqs, url, token, peer, gen, sent>> /\ UNCHANGED conn /\ UNCHANGED pics

\* The connection ends, or the settings changed: first the socket, so that a later request fails, then every list
\* still waited for ends.
ws_shut ==
  /\ ses.at = "up"
  /\ ses' = [ses EXCEPT !.at = "shut"] /\ open' = Unset
  /\ UNCHANGED <<url, token, peer, gen, up, upGen, sent>> /\ UNCHANGED uis /\ UNCHANGED pics
\* Fault: the slots are freed and the UI is not told.
session_end_silent ==
  /\ ses.at = "shut"
  /\ ses' = NoSession /\ up' = FALSE
  /\ pend' = [k \in 1..Slots |-> 0]
  /\ UNCHANGED <<waiting, url, token, peer, gen, upGen, open, sent, asking, nextId, reqs>> /\ UNCHANGED pics

session_end ==
  /\ ses.at = "shut"
  /\ ses' = NoSession /\ up' = FALSE
  /\ waiting' = waiting \ {pend[k] : k \in 1..Slots}
  /\ pend' = [k \in 1..Slots |-> 0]
  /\ UNCHANGED <<url, token, peer, gen, upGen, open, sent, asking, nextId, reqs>> /\ UNCHANGED pics

--------------------------------------------------------------------------------------
\* The UI's requests, on the screen's thread.

\* mass_ui "ml", list_ask: not connected, no such list or nothing to ask for ends the list at once.
mass_ui ==
  /\ asking.at = "idle" /\ reqs < MaxReqs
  /\ reqs' = reqs + 1
  /\ \/ up /\ asking' = [NotAsking EXCEPT !.at = "register", !.req = reqs + 1] /\ waiting' = waiting \union {reqs + 1}
     \/ UNCHANGED <<asking, waiting>>
  /\ UNCHANGED <<pend, nextId, url, token, peer, gen, sent>> /\ UNCHANGED conn /\ UNCHANGED pics
\* send_how: a free slot, else one by the id's turn, whose list ends without an answer.
send_how ==
  /\ asking.at = "register"
  /\ nextId' = (nextId + 1) % Slots
  /\ LET free == {k \in 1..Slots : pend[k] = 0}
         k == IF free # {} THEN CHOOSE x \in free : \A y \in free : x <= y ELSE 1 + nextId'
     IN /\ waiting' = waiting \ {pend[k]}
        /\ pend' = [pend EXCEPT ![k] = asking.req]
        /\ asking' = [asking EXCEPT !.at = "put", !.slot = k]
  /\ UNCHANGED <<reqs, url, token, peer, gen, sent>> /\ UNCHANGED conn /\ UNCHANGED pics
\* ws_put: sent, or not connected: its slot is free again (if it still has it) and the list ends.
ws_put ==
  /\ asking.at = "put"
  /\ asking' = NotAsking
  /\ IF open # Unset THEN UNCHANGED <<pend, waiting>>
     ELSE /\ pend' = [pend EXCEPT ![asking.slot] = IF @ = asking.req THEN 0 ELSE @]
          /\ waiting' = waiting \ {asking.req}
  /\ UNCHANGED <<nextId, reqs, url, token, peer, gen, sent>> /\ UNCHANGED conn /\ UNCHANGED pics
\* mass_replay: a new UI process knows nothing of the old one's lists.
mass_replay ==
  /\ waiting # {} /\ asking.at = "idle"
  /\ waiting' = {} /\ pend' = [k \in 1..Slots |-> 0]
  /\ UNCHANGED <<asking, nextId, reqs, url, token, peer, gen, sent>> /\ UNCHANGED conn /\ UNCHANGED pics

\* image_ask, and the image thread: host and token are taken together, for the settings the session is up for.
image_ask ==
  /\ covers < MaxCovers /\ covers' = covers + 1 /\ wanted' = wanted + 1
  /\ UNCHANGED <<img, url, token, peer, gen, sent>> /\ UNCHANGED conn /\ UNCHANGED uis
\* Fault: the token of new settings, the host of the session.
image_take_any ==
  /\ img = Unset /\ wanted > 0
  /\ wanted' = wanted - 1
  /\ img' = IF up THEN [host |-> ses.host, tok |-> token] ELSE Unset
  /\ UNCHANGED <<covers, url, token, peer, gen, sent>> /\ UNCHANGED conn /\ UNCHANGED uis

image_take ==
  /\ img = Unset /\ wanted > 0
  /\ wanted' = wanted - 1
  /\ img' = IF up /\ upGen = gen THEN [host |-> ses.host, tok |-> token] ELSE Unset
  /\ UNCHANGED <<covers, url, token, peer, gen, sent>> /\ UNCHANGED conn /\ UNCHANGED uis
http_get ==
  /\ img # Unset
  /\ img' = Unset
  /\ sent' = sent \union (IF img.tok = Unset THEN {} ELSE {<<img.tok, img.host>>})
  /\ UNCHANGED <<wanted, covers, url, token, peer, gen>> /\ UNCHANGED conn /\ UNCHANGED uis

ANext ==
  \/ \E u \in Host \union {Unset}, t \in {"keep", "drop", "new"} : mass_set(u, t)
  \/ \E h \in Host : mass_peer(h)
  \/ mass_stop
  \/ thread_main \/ session \/ ws_connect \/ login \/ auth \/ logged_in \/ ws_shut \/ session_end
  \/ \E k \in 1..Slots : on_result(k)
  \/ mass_ui \/ send_how \/ ws_put \/ mass_replay \/ image_ask \/ image_take \/ http_get

ASpec == AInit /\ [][ANext]_avars

--------------------------------------------------------------------------------------
\* A token only ever goes to the address it was given with, at the login and with a cover, whatever settings come
\* in between (mass_set, session, image_thread).
TokenToItsHost == \A s \in sent : s[1] = s[2]

\* No list the UI waits for is forgotten: it is in a slot until it ends, or on its way there, whatever the
\* session does meanwhile (send_how, on_result, session's end).
NoListForgotten ==
  \A r \in waiting : (\E k \in 1..Slots : pend[k] = r) \/ asking.req = r
======================================================================================
