-------------------------------- MODULE Api --------------------------------
(***************************************************************************)
(* The clients of the ESPHome API (proto_esphome.c): up to MAX_CLIENTS     *)
(* connections, each with its thread; the device's encryption key, set,    *)
(* changed and cleared by a client; the one voice assistant subscriber;    *)
(* who wants the Bluetooth proxy; and what is asked of Home Assistant      *)
(* (announcements).                                                        *)
(*                                                                         *)
(* A connection's thread takes the lock for each step here; the handshake  *)
(* reads the key under it, talks to the client without it, and takes it    *)
(* again.  A key is a number, 0 the all-zero PSK; entities, messages and   *)
(* their encoding are left out, a request being what it changes.  The      *)
(* Bluetooth thread takes the proxy's requests from a queue (Ble).         *)
(***************************************************************************)
EXTENDS Integers, Sequences, FiniteSets

CONSTANTS
    Slot,       \* MAX_CLIENTS
    MaxKey,     \* bound: keys 1..MaxKey
    MaxConn,    \* bound: connections made
    MaxReqs,    \* bound: requests handled
    NoOne

VARIABLES
    clients,    \* clients[]: where its thread is, and its flags
    va,         \* va_fd
    key,        \* api_key: 0 none
    link,       \* what the core was last told (core_link)
    scanOn,     \* what the radio was last told (ble_scan)
    bleQ,       \* the proxy's requests not yet taken by the Bluetooth thread
    bleConns,   \* connections of the proxy
    bt,         \* the announcer: a message waits, one is asked for
    conns, reqs

vars == <<clients, va, key, link, scanOn, bleQ, bleConns, bt, conns, reqs>>
proxy == <<scanOn, bleQ, bleConns>>

Free == [at |-> "free", enc |-> FALSE, keyed |-> FALSE, uses |-> 0, psk |-> 0, hadKey |-> FALSE, plain |-> FALSE,
         ble |-> FALSE, ble_free |-> FALSE, ble_user |-> FALSE, actions |-> FALSE, proved |-> FALSE]

Connected == {c \in Slot : clients[c].at # "free"}
ble_subscribers(cl) == {c \in Slot : cl[c].at # "free" /\ cl[c].ble}

CInit ==
    /\ clients = [c \in Slot |-> Free] /\ va = NoOne /\ key \in {0, 1}
    /\ link = [up |-> FALSE, ready |-> FALSE] /\ scanOn = FALSE /\ bleQ = <<>> /\ bleConns = FALSE
    /\ bt = [next |-> FALSE, asked |-> FALSE, announcing |-> FALSE]
    /\ conns = 0 /\ reqs = 0

core_link(up, ready) == link' = [up |-> up, ready |-> ready]

(* serve: a slot, or refused.  Who connects uses a key (0: the zero PSK,   *)
(* or none at all in plain text).                                          *)
serve ==
    /\ conns < MaxConn /\ conns' = conns + 1
    /\ \E c \in Slot, k \in 0 .. MaxKey, plain \in BOOLEAN :
        /\ clients[c].at = "free" /\ (plain => k = 0)
        /\ \A d \in Slot : clients[d].at = "free" => c <= d
        /\ clients' = [clients EXCEPT ![c] = [Free EXCEPT !.at = "new", !.uses = k, !.plain = plain, !.hadKey = key # 0]]
    /\ IF Connected = {} THEN core_link(TRUE, FALSE) ELSE UNCHANGED link
    /\ UNCHANGED <<va, key, proxy, bt, reqs>>

(* The first byte: plain text only if there was no key as the thread began. *)
plain_hello(c) ==
    /\ clients[c].at = "new" /\ clients[c].plain /\ ~clients[c].hadKey
    /\ clients' = [clients EXCEPT ![c].at = "open"]
    /\ UNCHANGED <<va, key, link, proxy, bt, conns, reqs>>

(* noise_handshake: the key as it is now, and whether there is one. *)
noise_psk(c) ==
    /\ clients[c].at = "new" /\ ~clients[c].plain
    /\ clients' = [clients EXCEPT ![c].at = "shake", ![c].psk = key]
    /\ UNCHANGED <<va, key, link, proxy, bt, conns, reqs>>

(* Its first message decrypts under that key only; keyed as it was then. *)
noise_done(c) ==
    /\ clients[c].at = "shake" /\ clients[c].uses = clients[c].psk
    /\ clients' = [clients EXCEPT ![c].at = "open", ![c].enc = TRUE, ![c].keyed = clients[c].psk # 0,
                                  ![c].proved = clients[c].uses # 0]
    /\ UNCHANGED <<va, key, link, proxy, bt, conns, reqs>>

(* serve's end: the connection broke, was shut (a failed write,            *)
(* entities_changed), failed its handshake or was refused.  The last user  *)
(* of the proxy closes what is open.                                       *)
gone(c) ==
    LET cl == [clients EXCEPT ![c] = Free]
        left == {d \in Slot : cl[d].at # "free"}
        users == {d \in left : cl[d].ble \/ cl[d].ble_free \/ cl[d].ble_user}
    IN  /\ clients' = cl
        /\ scanOn' = (ble_subscribers(cl) # {})
        /\ bleQ' = IF users = {} /\ bleConns THEN Append(bleQ, "disconnect") ELSE bleQ
        /\ IF va = c THEN va' = NoOne /\ core_link(left # {}, FALSE)
           ELSE IF left = {} THEN core_link(FALSE, FALSE) /\ UNCHANGED va
           ELSE UNCHANGED <<va, link>>

leave(c) ==
    /\ clients[c].at # "free" /\ gone(c)
    /\ UNCHANGED <<key, bleConns, bt, conns, reqs>>

--------------------------------------------------------------------------
(* handle: once a key is set, a connection that has not it is closed at its *)
(* next request, whatever that is.                                         *)
Request(c) ==
    /\ clients[c].at = "open" /\ reqs < MaxReqs /\ reqs' = reqs + 1
    /\ UNCHANGED conns

Refused(c) == key # 0 /\ ~clients[c].keyed

handle_unkeyed(c) == Request(c) /\ Refused(c) /\ gone(c) /\ UNCHANGED <<key, bleConns, bt>>

Handles(c) == Request(c) /\ ~Refused(c)

DISCONNECT_REQ(c) == Request(c) /\ gone(c) /\ UNCHANGED <<key, bleConns, bt>>

SUBSCRIBE_HA_ACTIONS(c) ==
    /\ Handles(c) /\ clients' = [clients EXCEPT ![c].actions = TRUE]
    /\ UNCHANGED <<va, key, link, proxy, bt>>

(* The first come; another's is ignored. *)
SUBSCRIBE_VA(c) ==
    /\ Handles(c)
    /\ \/ va \in {NoOne, c} /\ va' = c /\ core_link(TRUE, TRUE)
       \/ va = c /\ va' = NoOne /\ core_link(TRUE, FALSE)
    /\ UNCHANGED <<clients, key, proxy, bt>>

(* Without a key: over an encrypted connection only; with one, over one    *)
(* that has it.  The client that set it has it.  A file that cannot be     *)
(* written changes nothing.                                                *)
SET_KEY_REQ(c) ==
    /\ Handles(c)
    /\ IF key # 0 THEN clients[c].keyed ELSE clients[c].enc
    /\ \E k \in 0 .. MaxKey :
        /\ key' = k
        /\ clients' = IF k # 0 THEN [clients EXCEPT ![c].keyed = TRUE, ![c].proved = TRUE] ELSE clients
    /\ UNCHANGED <<va, link, proxy, bt>>

BLE_SUBSCRIBE(c) ==
    /\ Handles(c)
    /\ \E on \in BOOLEAN : clients' = [clients EXCEPT ![c].ble = on]
    /\ scanOn' = (ble_subscribers(clients') # {})
    /\ UNCHANGED <<va, key, link, bleQ, bleConns, bt>>

BLE_CONN_FREE_REQ(c) ==
    /\ Handles(c) /\ clients' = [clients EXCEPT ![c].ble_free = TRUE]
    /\ UNCHANGED <<va, key, link, proxy, bt>>

on_ble_request(c) ==
    /\ Handles(c) /\ clients' = [clients EXCEPT ![c].ble_user = TRUE]
    /\ \E r \in {"connect", "disconnect"} : bleQ' = Append(bleQ, r)
    /\ UNCHANGED <<va, key, link, scanOn, bleConns, bt>>

(* What only Home Assistant itself may ask (an update, ADB, a Drop In, the *)
(* network's key) or tell (the time, an entity's state).                   *)
keyed_request(c) == Handles(c) /\ clients[c].keyed /\ UNCHANGED <<clients, va, key, link, proxy, bt>>

BleThread ==
    /\ bleQ # <<>> /\ bleConns' = (Head(bleQ) = "connect") /\ bleQ' = Tail(bleQ)
    /\ UNCHANGED <<clients, va, key, link, scanOn, bt, conns, reqs>>

--------------------------------------------------------------------------
(* A phone came or went: "latest wins", one announcement at a time.        *)
bt_device ==
    /\ reqs < MaxReqs /\ reqs' = reqs + 1 /\ bt' = [bt EXCEPT !.next = TRUE]
    /\ UNCHANGED <<clients, va, key, link, proxy, conns>>

(* Asked of whoever takes actions, or not spoken at all. *)
bt_try ==
    /\ bt.next /\ ~bt.announcing /\ ~bt.asked
    /\ bt' = [bt EXCEPT !.next = FALSE, !.asked = \E c \in Connected : clients[c].actions]
    /\ UNCHANGED <<clients, va, key, link, proxy, conns, reqs>>

(* Home Assistant's announcement comes (on_announce) and ends              *)
(* (announce_done); or it never comes, and 15 s later the next may go.     *)
announce ==
    /\ bt.asked \/ bt.announcing
    /\ \/ bt.asked /\ ~bt.announcing /\ bt' = [bt EXCEPT !.announcing = TRUE]
       \/ bt.announcing /\ bt' = [bt EXCEPT !.announcing = FALSE, !.asked = FALSE]
       \/ bt.asked /\ ~bt.announcing /\ bt' = [bt EXCEPT !.asked = FALSE]
    /\ UNCHANGED <<clients, va, key, link, proxy, conns, reqs>>

CNext ==
    \/ serve \/ BleThread \/ bt_device \/ bt_try \/ announce
    \/ \E c \in Slot : plain_hello(c) \/ noise_psk(c) \/ noise_done(c) \/ leave(c) \/ handle_unkeyed(c)
        \/ DISCONNECT_REQ(c) \/ SUBSCRIBE_HA_ACTIONS(c) \/ SUBSCRIBE_VA(c) \/ SET_KEY_REQ(c) \/ BLE_SUBSCRIBE(c)
        \/ BLE_CONN_FREE_REQ(c) \/ on_ble_request(c) \/ keyed_request(c)

CSpec == CInit /\ [][CNext]_vars

--------------------------------------------------------------------------
(* Whoever counts as keyed proved a device key or set it over an encrypted *)
(* connection, whatever key was set or cleared while its handshake ran     *)
(* (noise_handshake's two looks at the key); and the core, the radio and   *)
(* the clients agree: linked while anyone is connected, ready while one is *)
(* the voice assistant's, scanning while one subscribes (serve, handle).   *)
ClientsAgree ==
    /\ \A c \in Slot : clients[c].keyed => clients[c].proved
    /\ link = [up |-> Connected # {}, ready |-> va # NoOne]
    /\ va # NoOne => clients[va].at = "open"
    /\ scanOn = (ble_subscribers(clients) # {})

(* An announcement of a phone is asked for or given up. *)
AnnouncementGone == ~bt.next
=============================================================================
