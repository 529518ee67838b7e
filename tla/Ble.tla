------------------------------- MODULE Ble -------------------------------
(***************************************************************************)
(* The Bluetooth proxy of src/hassmic/ble.c: Home Assistant's requests,   *)
(* the connections with their GATT queues, pairing and bonds, the         *)
(* controller's packet buffers and the scan.  One controller thread runs  *)
(* everything; cmd() handles events while it waits for a command, so an   *)
(* event may come between any two steps of upkeep(), each an action here. *)
(* The controller and the devices are external.  A handler is an operator *)
(* from the thread's state s to the next one; timers may run out whenever *)
(* they run, and fairness makes them.  The phone link of conns[SRV] is in *)
(* Improv.                                                                *)
(***************************************************************************)
EXTENDS Naturals, Sequences, FiniteSets, SequencesExt, FiniteSetsExt, Functions

CONSTANTS Addr,         \* devices Home Assistant knows
          Slot,         \* BLE_MAX_CONN connections, a set of numbers
          AclNum,       \* packet buffers the controller has
          MaxBonds,     \* MAX_BONDS
          FirstBonds,   \* state/ble_bonds at the start, a sequence of addresses
          MaxFrags,     \* bound: a device waits while this many packets wait
          MaxRequests,  \* bound: requests Home Assistant makes
          Kinds,        \* bound: the kinds of request it makes
          MaxSecure,    \* bound: Security Requests the devices send
          Nobody        \* no address, no owner, no request on the air

VARIABLES ble,          \* ble.c's state, owned by the controller thread
          queue,        \* qhead: requests from other threads
          requested,    \* requests made so far
          secured,      \* Security Requests so far
          dhJob,        \* external: the controller computes a DHKey
          owed          \* packets of links given up that the controller may still report

bvars == <<ble, queue, requested, secured, dhJob, owed>>

AllKinds == {"connect", "disconnect", "discover", "access", "command", "pair", "unpair"}
\* Where the device's PDUs lead: "sc" is the exchange of public keys, confirm
\* and random values of LE Secure Connections (S_PK, S_CB, S_NB), "legacy" the
\* one of legacy pairing (S_CONFIRM, S_RANDOM).
SmpNext == [rsp |-> {"sc", "legacy"}, legacy |-> {"enc"}, sc |-> {"dhkey"}, eb |-> {"enc"}]

Free == [state |-> "free", addr |-> Nobody, cancel |-> FALSE, closeNow |-> FALSE,
         enc |-> FALSE, encPending |-> FALSE, needEnc |-> FALSE,
         mtuRetry |-> FALSE, smp |-> "idle", asked |-> FALSE, needDh |-> FALSE,
         heard |-> FALSE, ops |-> <<>>, cur |-> Nobody, db |-> FALSE, unacked |-> 0]

BInit == /\ \E scan \in BOOLEAN :                       \* ble_scan: what Home Assistant wants
              ble = [conn |-> [i \in Slot |-> Free], frags |-> <<>>, credits |-> AclNum,
                     dh |-> Nobody, bonds |-> FirstBonds, on |-> FALSE, want |-> scan]
         /\ queue = <<>> /\ requested = 0 /\ secured = 0
         /\ dhJob = FALSE /\ owed = 0

Live(c) == c.state \in {"mtu", "up", "closing"}         \* by_handle
Bonded(s, a) == \E k \in 1..Len(s.bonds) : s.bonds[k] = a
by_addr(s, a) == {i \in Slot : s.conn[i].addr = a}
in_state(s, st) == {i \in Slot : s.conn[i].state = st}
Set(s, i, f) == [s EXCEPT !.conn[i] = f @@ @]

----------------------------------------------------------------------------
\* One L2CAP frame of link i queued, and as many packets sent as the
\* controller has buffers for.
l2cap_send(s, i) == [s EXCEPT !.frags = Append(@, i)]

acl_flush(s) ==
  LET n == Min({Len(s.frags), s.credits})
      sent(i) == Len(SelectSeq(SubSeq(s.frags, 1, n), LAMBDA h : h = i))
  IN [s EXCEPT !.frags = SubSeq(@, n + 1, Len(@)), !.credits = @ - n,
               !.conn = [i \in Slot |-> [@[i] EXCEPT !.unacked = @ + sent(i)]]]

\* Fault: the buffers of what was sent to a device that is gone are not taken back.
free_conn_keeps(s, i) ==
  [s EXCEPT !.conn[i] = Free, !.frags = SelectSeq(@, LAMBDA h : h # i),
            !.dh = IF @ = i THEN Nobody ELSE @]

\* A connection's place is given back: its packets go with it, the buffers
\* of those sent are free again, a pairing asked for is answered.
free_conn(s, i) ==
  [s EXCEPT !.conn[i] = Free, !.frags = SelectSeq(@, LAMBDA h : h # i),
            !.credits = @ + s.conn[i].unacked,
            !.dh = IF @ = i THEN Nobody ELSE @]

----------------------------------------------------------------------------
\* GATT.  A command has no answer and a known table is answered at once; the
\* next other operation goes on the air.
start_op(s, i) ==
  LET c == s.conn[i]
      atOnce(o) == o = "command" \/ (o = "discover" /\ c.db)
      k == SelectInSeq(c.ops, LAMBDA o : ~atOnce(o))
      done == IF k = 0 THEN c.ops ELSE SubSeq(c.ops, 1, k - 1)
      commands == SelectSeq(done, LAMBDA o : o = "command")
      frames == Len(commands) + (IF k = 0 THEN 0 ELSE 1)
  IN IF c.cur # Nobody \/ c.ops = <<>> \/ c.state # "up" \/ c.closeNow \/ c.encPending
     THEN s
     ELSE acl_flush([Set(s, i, [ops |-> IF k = 0 THEN <<>> ELSE SubSeq(c.ops, k + 1, Len(c.ops)),
                                cur |-> IF k = 0 THEN Nobody ELSE c.ops[k],
                                db |-> c.db \/ (k # 0 /\ c.ops[k] = "discover")])
                     EXCEPT !.frags = @ \o [n \in 1..frames |-> i]])

\* The operation on the air is over, with its result or with an error.
op_done(s, i) == start_op(Set(s, i, [cur |-> Nobody]), i)

\* An answer to the operation on the air: the last one, or one that a long
\* read, a long write or the discovery goes on from with another request.
att_answer(s, i, more) ==
  IF s.conn[i].cur = Nobody THEN s                       \* late: given up
  ELSE IF more THEN acl_flush(l2cap_send(s, i)) ELSE op_done(s, i)

\* The MTU exchange is answered or refused: the connection is up, unless a
\* bonded device refuses it while the link is being encrypted.
att_mtu(s, i, ok) ==
  LET c == s.conn[i] IN
  IF ~ok /\ c.encPending THEN Set(s, i, [mtuRetry |-> TRUE])
  ELSE start_op(Set(s, i, [state |-> "up"]), i)

----------------------------------------------------------------------------
\* Pairing and bonds.
encrypt_with(s, i) == Set(s, i, [needEnc |-> TRUE, encPending |-> TRUE])
pair_done(s, i) == Set(s, i, [smp |-> "idle", asked |-> FALSE])
smp_fail(s, i) == pair_done(acl_flush(l2cap_send(s, i)), i)
smp_start(s, i) == acl_flush(l2cap_send(Set(s, i, [smp |-> "rsp"]), i))

\* bonds[--nbonds] takes the place of the one forgotten.
bond_forget(s, k) ==
  [s EXCEPT !.bonds = IF k = Len(@) THEN Front(@) ELSE [Front(@) EXCEPT ![k] = Last(@)]]

ForgetAddr(s, a) ==
  IF Bonded(s, a) THEN bond_forget(s, CHOOSE k \in 1..Len(s.bonds) : s.bonds[k] = a) ELSE s

\* The bond is kept when the device gave a key; a full table gives up its first.
smp_finish(s, i, keyed) ==
  LET room == IF Len(s.bonds) = MaxBonds THEN bond_forget(s, 1) ELSE s IN
  pair_done(IF keyed /\ ~Bonded(s, s.conn[i].addr)
            THEN [room EXCEPT !.bonds = Append(@, s.conn[i].addr)] ELSE s, i)

\* A PDU of the pairing as the state expects it, next the state it leads to.
smp_rx(s, i, next) ==
  LET t == Set(s, i, [smp |-> next]) IN
  CASE next = "enc" -> encrypt_with(t, i)
    [] next = "dhkey" -> Set(t, i, [needDh |-> TRUE])
    [] OTHER -> acl_flush(l2cap_send(t, i))

\* A Security Request: with a bond the link is encrypted, else paired.
security_request(s, i) ==
  LET c == s.conn[i] IN
  IF c.smp # "idle" \/ c.encPending THEN s
  ELSE IF Bonded(s, c.addr) THEN (IF c.enc THEN s ELSE encrypt_with(s, i))
  ELSE smp_start(s, i)

dhkey_done(s, ok) ==
  LET i == s.dh
      t == [s EXCEPT !.dh = Nobody] IN
  IF i = Nobody THEN t
  ELSE IF s.conn[i].smp # "dhkey" THEN t
  ELSE IF ~ok THEN smp_fail(t, i)
  ELSE acl_flush(l2cap_send(Set(t, i, [smp |-> "eb"]), i))

\* Encryption Change: status is "ok", "missing" (the device forgot us) or
\* "failed"; keys says whether the device still distributes keys.
encrypted(s, i, status, keys) ==
  LET c == s.conn[i]
      retry == c.mtuRetry /\ c.state = "mtu"
      t == Set(IF retry THEN acl_flush(l2cap_send(s, i)) ELSE s, i, [encPending |-> FALSE])
      u == IF retry THEN Set(t, i, [mtuRetry |-> FALSE]) ELSE t
      v == CASE status = "ok" /\ c.smp = "enc" ->
                  IF keys THEN Set(u, i, [enc |-> TRUE, smp |-> "keys"])
                  ELSE smp_finish(Set(u, i, [enc |-> TRUE]), i, TRUE)
             [] status = "ok" /\ c.asked /\ c.smp = "idle" -> pair_done(Set(u, i, [enc |-> TRUE]), i)
             [] status = "ok" -> Set(u, i, [enc |-> TRUE])
             [] c.smp = "enc" -> pair_done(u, i)
             [] OTHER -> LET w == IF status = "missing" THEN ForgetAddr(u, c.addr) ELSE u
                         IN IF c.asked THEN pair_done(w, i) ELSE w
  IN start_op(v, i)

----------------------------------------------------------------------------
\* Requests.
HandleConnect(s, a) ==
  IF by_addr(s, a) # {} \/ in_state(s, "free") = {} THEN s      \* already, or HCI_E_LIMIT
  ELSE Set(s, Min(in_state(s, "free")), [state |-> "wait", addr |-> a])

HandleDisconnect(s, i) ==
  CASE s.conn[i].state = "wait" -> free_conn(s, i)
    [] s.conn[i].state = "connecting" -> Set(s, i, [cancel |-> TRUE])
    [] s.conn[i].state = "closing" -> s
    [] OTHER -> Set(s, i, [closeNow |-> TRUE])

HandlePair(s, i) ==
  LET c == s.conn[i]
      t == Set(s, i, [asked |-> TRUE]) IN
  IF c.state \notin {"mtu", "up"} THEN s                       \* answered: unknown connection
  ELSE IF c.smp # "idle" THEN t
  ELSE IF Bonded(s, c.addr)
       THEN (IF c.enc THEN pair_done(t, i) ELSE IF c.encPending THEN t ELSE encrypt_with(t, i))
       ELSE smp_start(t, i)

HandleUnpair(s, a) ==
  LET t == ForgetAddr(s, a)
      is == {i \in by_addr(s, a) : Live(s.conn[i])} IN
  [t EXCEPT !.conn = [i \in Slot |-> IF i \in is THEN [closeNow |-> TRUE] @@ @[i] ELSE @[i]]]

op_queue(s, i, kind) ==
  IF s.conn[i].state # "up" THEN s                             \* answered with an error
  ELSE start_op(Set(s, i, [ops |-> Append(s.conn[i].ops, kind)]), i)

handle_request(s, r) ==
  LET is == by_addr(s, r.addr)
      i == CHOOSE j \in is : TRUE IN
  CASE r.kind = "connect" -> HandleConnect(s, r.addr)
    [] r.kind = "unpair" -> HandleUnpair(s, r.addr)
    [] is = {} -> s                                            \* answered at once
    [] r.kind = "disconnect" -> HandleDisconnect(s, i)
    [] r.kind = "pair" -> HandlePair(s, i)
    [] OTHER -> op_queue(s, i, r.kind)

----------------------------------------------------------------------------
Becomes(s) == ble' = s
Same == UNCHANGED <<queue, requested, secured, dhJob, owed>>

request == \E r \in [kind : Kinds, addr : Addr] :
             /\ requested < MaxRequests
             /\ queue' = Append(queue, r) /\ requested' = requested + 1
             /\ UNCHANGED <<ble, secured, dhJob, owed>>

HandleRequest == /\ queue # <<>>
                 /\ Becomes(handle_request(ble, Head(queue)))
                 /\ queue' = Tail(queue)
                 /\ UNCHANGED <<requested, secured, dhJob, owed>>

\* The loop's scan decision: off while a connection waits or is being made.
Won == ble.want /\ in_state(ble, "wait") = {} /\ in_state(ble, "connecting") = {}
apply == /\ ble.on # Won
         /\ ble' = [ble EXCEPT !.on = Won]
         /\ Same

connect_next == \E refused \in BOOLEAN :
  /\ ~ble.on /\ in_state(ble, "wait") # {} /\ in_state(ble, "connecting") = {}
  /\ LET i == Min(in_state(ble, "wait")) IN
     ble' = IF refused THEN free_conn(ble, i) ELSE Set(ble, i, [state |-> "connecting"])
  /\ Same

UpkeepDhKey(i) == \E refused \in BOOLEAN :
  LET c == ble.conn[i]
      t == Set(ble, i, [needDh |-> FALSE]) IN
  /\ c.needDh /\ ble.dh = Nobody /\ Live(c)
  /\ refused \/ ~dhJob                                        \* one computation in the controller
  /\ Becomes(IF refused THEN smp_fail(t, i) ELSE [t EXCEPT !.dh = i])
  /\ dhJob' = (dhJob \/ ~refused)
  /\ UNCHANGED <<queue, requested, secured, owed>>

\* Once the device has been heard: started before its first packet, the link
\* failed.  A bonded device that stays silent is not encrypted, and its MTU
\* exchange is put off until it is: the link stays as it is.
UpkeepEncrypt(i) == \E refused \in BOOLEAN :
  LET c == ble.conn[i]
      t == Set(ble, i, [needEnc |-> FALSE]) IN
  /\ c.needEnc /\ c.heard /\ c.state \in {"mtu", "up"}
  /\ Becomes(IF refused THEN encrypted(t, i, "failed", FALSE) ELSE t)
  /\ Same

SmpTimeout(i) == /\ ble.conn[i].smp # "idle"
                 /\ Becomes(smp_fail(ble, i)) /\ Same

ConnectTimeout(i) == /\ ble.conn[i].state = "connecting" /\ ~ble.conn[i].cancel
                     /\ Becomes(Set(ble, i, [cancel |-> TRUE])) /\ Same

MtuTimeout(i) == /\ ble.conn[i].state = "mtu"
                 /\ Becomes(att_mtu(ble, i, FALSE)) /\ Same

\* Fault: an operation the device never answers is waited for.
AttNoTimeout(i) == FALSE /\ Becomes(ble) /\ Same

AttTimeout(i) == /\ ble.conn[i].state = "up" /\ ble.conn[i].cur # Nobody
                 /\ Becomes(op_done(Set(ble, i, [closeNow |-> TRUE]), i)) /\ Same

Close(i) == /\ ble.conn[i].closeNow /\ ble.conn[i].state \in {"mtu", "up"}
            /\ Becomes(Set(ble, i, [closeNow |-> FALSE, state |-> "closing"])) /\ Same

\* The disconnection is never confirmed: the link is forgotten after 5 s.
Forget(i) == /\ ble.conn[i].state = "closing"
             /\ ble' = free_conn(ble, i) /\ owed' = owed + ble.conn[i].unacked
             /\ UNCHANGED <<queue, requested, secured, dhJob>>

----------------------------------------------------------------------------
\* The controller and the devices.
conn_complete(i) == \E ok \in BOOLEAN :
  LET t == Set(ble, i, [state |-> "mtu"])
      u == IF Bonded(ble, ble.conn[i].addr) THEN encrypt_with(t, i) ELSE t IN
  /\ ble.conn[i].state = "connecting"
  /\ Becomes(IF ~ok THEN free_conn(ble, i)
           ELSE IF ble.conn[i].cancel THEN Set(t, i, [closeNow |-> TRUE])
           ELSE acl_flush(l2cap_send(u, i)))
  /\ Same

Disconnected(i) == /\ Live(ble.conn[i])
                   /\ ble' = free_conn(ble, i)
                         /\ Same

\* Number Of Completed Packets, of a live link or of one that was given up.
Completed(s) == [s EXCEPT !.credits = Min({@ + 1, AclNum})]

NumCompleted(i) ==
  /\ ble.conn[i].unacked > 0
  /\ Becomes(acl_flush([Completed(ble) EXCEPT !.conn[i].unacked = @ - 1]))
  /\ Same

StrayCompleted == /\ owed > 0 /\ owed' = owed - 1
                  /\ Becomes(acl_flush(Completed(ble)))
                  /\ UNCHANGED <<queue, requested, secured, dhJob>>

EncChange(i) == \E status \in {"ok", "missing", "failed"}, keys \in BOOLEAN :
  /\ Live(ble.conn[i]) /\ ble.conn[i].encPending /\ ~ble.conn[i].needEnc
  /\ Becomes(encrypted(ble, i, status, keys)) /\ Same

DhKeyComplete == \E ok \in BOOLEAN :
  /\ dhJob /\ dhJob' = FALSE
  /\ Becomes(dhkey_done(ble, ok))
  /\ UNCHANGED <<queue, requested, secured, owed>>

\* acl_rx: whatever a device sends, it has been heard.
Heard(i) == Set(ble, i, [heard |-> TRUE])

DeviceAtt(i) == /\ Live(ble.conn[i]) /\ Len(ble.frags) < MaxFrags
                /\ \/ /\ ble.conn[i].state = "mtu"
                      /\ \E ok \in BOOLEAN : Becomes(att_mtu(Heard(i), i, ok))
                   \/ \E more \in BOOLEAN : Becomes(att_answer(Heard(i), i, more))
                /\ Same

DeviceSmp(i) ==
  LET c == ble.conn[i] IN
  /\ Live(c) /\ Len(ble.frags) < MaxFrags
  /\ \/ c.smp \in DOMAIN SmpNext /\ \E n \in SmpNext[c.smp] : Becomes(smp_rx(Heard(i), i, n))
     \/ c.smp = "keys" /\ \E keyed \in BOOLEAN : Becomes(smp_finish(Heard(i), i, keyed))
     \/ c.smp # "idle" /\ \/ Becomes(pair_done(Heard(i), i))         \* Pairing Failed
                          \/ Becomes(smp_fail(Heard(i), i))          \* an unexpected PDU
  /\ Same

SecurityRequest(i) ==
  /\ Live(ble.conn[i]) /\ Len(ble.frags) < MaxFrags /\ secured < MaxSecure
  /\ secured' = secured + 1 /\ Becomes(security_request(Heard(i), i))
  /\ UNCHANGED <<queue, requested, dhJob, owed>>

\* The controller stops answering: every connection goes, setup() starts afresh.
Lost == /\ ble' = [ble EXCEPT !.conn = [i \in Slot |-> Free], !.frags = <<>>,
                              !.credits = AclNum, !.dh = Nobody, !.on = FALSE]
        /\ dhJob' = FALSE /\ owed' = 0
        /\ UNCHANGED <<queue, requested, secured>>

Upkeep == \E i \in Slot : \/ UpkeepDhKey(i) \/ UpkeepEncrypt(i) \/ SmpTimeout(i)
                          \/ ConnectTimeout(i) \/ MtuTimeout(i) \/ AttTimeout(i)
                          \/ Close(i) \/ Forget(i)
Events == \E i \in Slot : \/ conn_complete(i) \/ Disconnected(i) \/ NumCompleted(i)
                          \/ EncChange(i) \/ DeviceAtt(i) \/ DeviceSmp(i)
                          \/ SecurityRequest(i)

BNext == \/ request \/ HandleRequest \/ apply \/ connect_next
         \/ Upkeep \/ Events \/ StrayCompleted \/ DhKeyComplete \/ Lost
BSpec == BInit /\ [][BNext]_bvars

----------------------------------------------------------------------------
\* No packet buffer of the controller is lost with a connection that ends: those
\* the thread may fill and those it waits for are never fewer than the
\* controller has, or sending would stop for good (free_conn, acl_flush,
\* EV_NUM_COMPLETED).
NoBufferLost == ble.credits + SumFunctionOnSet([i \in Slot |-> ble.conn[i].unacked], Slot) >= AclNum

\* What Home Assistant asked for comes to an end: every connection gets up or
\* is reported gone, a pairing asked for and every GATT operation is answered
\* (handle_request, upkeep's timeouts, encrypted, start_op).  The exception is
\* upkeep's own: a bonded device that never sent anything is waited for.
Silent(c) == c.state = "mtu" /\ c.needEnc /\ ~c.heard
Settled == \A i \in Slot : LET c == ble.conn[i] IN
             Silent(c) \/ (c.state \in {"free", "up"} /\ ~c.asked /\ c.cur = Nobody /\ c.ops = <<>>)

=============================================================================
