--------------------------------- MODULE Sendspin ---------------------------------
(* The Sendspin player (sendspin.c): every server on the LAN may dial this Echo;    *)
(* each connection has a session thread (serve, on_json) and a time thread, and at  *)
(* most one session is admitted: it holds the stream, the clock and the screen.     *)
(* A session is keyed by the published Sentinel key, by the pairing token's key or  *)
(* by a long-term key from a pairing (cat); the setting "unpaired access" decides   *)
(* whether a session without a long-term key may play.  Server messages are         *)
(* handled in the steps between which another thread can act: server/activate is    *)
(* checked against the setting, arbitrated under adm_lock, then applied.            *)
(* Session i is server i's connection.  Left out: the clock filter, decoding and    *)
(* resampling (data), the contents of metadata and covers.                          *)
EXTENDS Integers, Sequences, FiniteSets

CONSTANTS
  Server,      \* the servers on the LAN
  Spec10,      \* those that speak spec 1.0, the others the dialect of aiosendspin 9
  QueueMax,    \* QUEUE_MAX: chunks of decoded audio held
  MaxRecords,  \* MAX_RECORDS: pairing records kept
  MaxLive,     \* the length of live: sessions the switch of unpaired access finds
  MaxMsgs,     \* bound: server messages and settings in a behaviour
  Nobody

ASSUME SendspinAssumption ==
  /\ Spec10 \subseteq Server /\ Nobody \notin Server /\ {QueueMax, MaxRecords, MaxLive, MaxMsgs} \subseteq Nat

VARIABLES
  sess,        \* struct session, per server
  adm,         \* admitted
  unpaired,    \* unpaired_ok
  setter,      \* where sendspin_unpaired(0/1) is: "", "idle" and "playing" (its two loops)
  records,     \* servers with a long-term key, newest first
  lastServer,  \* last_playback_server
  stream,      \* stream_on
  queue,       \* q_head: the server each chunk came from
  output,      \* the player thread's output is open
  playing,     \* group_playing of the admitted session's group
  resume,      \* paused_by_button_at: the button resumes
  screen,      \* the server whose music the screen shows
  msgs

pvars == <<sess, adm, unpaired, setter, records, lastServer, stream, queue, output, playing, resume, screen, msgs>>

NoMsg == [rank |-> 0, player |-> FALSE, first |-> FALSE]
\* listed: it has a place in live; step: where the session thread is in the message it handles; proved (a ghost): the server used a key of its own,
\* the token's or a long-term one, on this connection.
Closed == [up |-> FALSE, cat |-> "sentinel", activated |-> FALSE, rank |-> 0, player |-> FALSE, pairing |-> FALSE,
           quiet |-> FALSE, owed |-> FALSE, sent |-> FALSE, held |-> FALSE, closing |-> FALSE, step |-> "", msg |-> NoMsg,
           proved |-> FALSE, listed |-> FALSE]
Keyed(s, cat) == [s EXCEPT !.cat = cat, !.proved = @ \/ cat # "sentinel"]
\* A session that finds live full goes on without a place in it.
Room == Cardinality({j \in Server : sess[j].listed}) < MaxLive
Fresh(cat) == Keyed([Closed EXCEPT !.up = TRUE, !.listed = Room], cat)

PInit ==
  /\ sess = [i \in Server |-> Closed] /\ adm = Nobody /\ unpaired \in BOOLEAN /\ setter = "" /\ records \in {<<>>} \union {<<i>> : i \in Spec10}  \* as load_identity read them
  /\ lastServer \in Server \union {Nobody} /\ stream = FALSE /\ queue = <<>> /\ output = FALSE
  /\ playing = FALSE /\ resume = FALSE /\ screen = Nobody /\ msgs = 0

Paired == {records[k] : k \in DOMAIN records}
Reading(i) == sess[i].up /\ ~sess[i].closing /\ sess[i].step = ""
Receive(i) == Reading(i) /\ msgs < MaxMsgs /\ msgs' = msgs + 1
goodbye(s) == [s EXCEPT !.closing = TRUE, !.step = ""]

\* psk_select: the keys a server may name in message 1 that are found here.  One that is not: the Sentinel's.
psk_select(i) == {"sentinel", "pairing"} \union (IF i \in Paired THEN {"longterm"} ELSE {})

\* record_put: one record per server, newest first, the oldest evicted.
record_put(i) == LET r == <<i>> \o SelectSeq(records, LAMBDA x : x # i)
                 IN IF Len(r) > MaxRecords THEN SubSeq(r, 1, MaxRecords) ELSE r
record_drop(i) == SelectSeq(records, LAMBDA x : x # i)

\* listen_thread, serve, handshake: a connection is up once its handshake is done.
Connect(i) ==
  /\ ~sess[i].up /\ msgs < MaxMsgs /\ msgs' = msgs + 1
  /\ \E cat \in psk_select(i) : sess' = [sess EXCEPT ![i] = Fresh(cat)]
  /\ UNCHANGED <<adm, unpaired, setter, records, lastServer, stream, queue, output, playing, resume, screen>>

\* server/activate: the quiet period of a re-handshake ends; a session that may not play or pair is closed
\* before arbitration.
activate(i) ==
  /\ Receive(i)
  /\ \E rank \in 0..2, roles \in {"left out", "player", "none"} :      \* roles left out stay as they are
       LET s == [sess[i] EXCEPT !.quiet = FALSE, !.rank = rank, !.activated = TRUE]
           turned == ~unpaired /\ s.cat # "longterm" /\ (rank = 2 \/ roles = "player")
           refused == i \in Spec10 /\ rank = 1 /\ s.cat = "longterm"
       IN sess' = [sess EXCEPT ![i] = IF turned \/ refused THEN goodbye(s)
                     ELSE [s EXCEPT !.step = "arbitrate",
                             !.msg = [rank |-> rank, player |-> IF roles = "left out" THEN s.player ELSE roles = "player",
                                      first |-> ~sess[i].activated]]]
  /\ UNCHANGED <<adm, unpaired, setter, records, lastServer, stream, queue, output, playing, resume, screen>>

\* arbitrate, for the first activate of a connection: the busier server wins, a newcomer as busy too; of two idle
\* ones the one that played here last.
Wins(i) ==
  \/ adm = Nobody \/ adm = i
  \/ /\ adm # Nobody
     /\ IF sess[i].rank = 0 /\ sess[adm].rank = 0 THEN i = lastServer ELSE sess[i].rank >= sess[adm].rank
arbitrate(i) ==
  /\ sess[i].step = "arbitrate"
  /\ IF ~sess[i].msg.first
     THEN /\ sess' = [sess EXCEPT ![i].step = IF adm = i THEN "apply" ELSE ""]
          /\ UNCHANGED <<adm, stream, queue, screen>>
     ELSE IF Wins(i)
     THEN /\ sess' = [sess EXCEPT ![i].step = "apply", ![IF adm = Nobody THEN i ELSE adm].closing = IF adm \in {Nobody, i} THEN @ ELSE TRUE]
          /\ adm' = i
          /\ IF adm = i THEN UNCHANGED <<stream, queue, screen>>
             ELSE stream' = FALSE /\ queue' = <<>> /\ screen' = IF adm = Nobody THEN screen ELSE Nobody
     ELSE sess' = [sess EXCEPT ![i] = goodbye(@)] /\ UNCHANGED <<adm, stream, queue, screen>>
  /\ UNCHANGED <<unpaired, setter, records, lastServer, output, playing, resume, msgs>>

\* The rest of server/activate: the last server, the roles, a client/state held back, the pairing.
apply(i) ==
  /\ sess[i].step = "apply"
  /\ LET s == sess[i]  m == s.msg
         owes == s.owed /\ s.player /\ m.player
     IN /\ sess' = [sess EXCEPT ![i] = [s EXCEPT !.step = "", !.player = m.player, !.owed = s.owed /\ ~owes,
                                          !.sent = IF m.player /\ ~s.player THEN FALSE ELSE s.sent,
                                          !.held = s.held /\ m.player,
                                          !.pairing = m.rank = 1 /\ s.cat = "pairing", !.msg = NoMsg]]
        /\ lastServer' = IF m.rank = 2 THEN i ELSE lastServer
        /\ IF s.player /\ ~m.player THEN stream' = FALSE /\ queue' = <<>> ELSE UNCHANGED <<stream, queue>>
        /\ screen' = IF screen = i /\ ~m.player THEN Nobody ELSE screen
  /\ playing' = (playing /\ sess[i].msg.player)
  /\ UNCHANGED <<adm, unpaired, setter, records, output, resume, msgs>>

\* server/pair-finalize, pair/abort, server/unpair.
pair_end(i) ==
  /\ Receive(i) /\ sess[i].pairing
  /\ sess' = [sess EXCEPT ![i].pairing = FALSE]
  /\ records' \in {record_put(i), records}
  /\ UNCHANGED <<adm, unpaired, setter, lastServer, stream, queue, output, playing, resume, screen>>
unpair(i) ==
  /\ Receive(i) /\ sess[i].cat = "longterm"
  /\ records' = record_drop(i) /\ sess' = [sess EXCEPT ![i] = goodbye(@)]
  /\ UNCHANGED <<adm, unpaired, setter, lastServer, stream, queue, output, playing, resume, screen>>

\* noise/handshake in band: to another key of ours, or the connection closes.  Nothing else is sent until the next
\* server/activate.
rehandshake(i) ==
  /\ Receive(i)
  /\ \/ sess' = [sess EXCEPT ![i] = [goodbye(@) EXCEPT !.activated = FALSE, !.quiet = TRUE]]
     \/ \E cat \in psk_select(i) : sess' = [sess EXCEPT ![i] = Keyed([@ EXCEPT !.activated = FALSE, !.quiet = TRUE], cat)]
  /\ UNCHANGED <<adm, unpaired, setter, records, lastServer, stream, queue, output, playing, resume, screen>>

\* send_state from a server/command, from the time thread's first report, and after a volume change here
\* (sendspin_volume_changed): held back (owed) in a quiet period.
send_state(i) ==
  /\ adm = i /\ sess[i].up /\ sess[i].player
  /\ \/ Receive(i)                                                                \* server/command
     \/ sess[i].activated /\ ~sess[i].pairing /\ ~sess[i].sent /\ UNCHANGED msgs  \* time_thread
     \/ sess[i].activated /\ sess[i].sent /\ UNCHANGED msgs                       \* sendspin_volume_changed
  /\ sess' = [sess EXCEPT ![i].sent = TRUE, ![i].owed = sess[i].quiet]
  /\ UNCHANGED <<adm, unpaired, setter, records, lastServer, stream, queue, output, playing, resume, screen>>

\* stream/start: the session was admitted when the message came; the stream goes on once the decoder is open.
stream_start(i) ==
  /\ \/ /\ Receive(i) /\ adm = i /\ sess[i].player
        /\ sess' = [sess EXCEPT ![i].step = "start"] /\ UNCHANGED <<stream, queue>>
     \/ /\ sess[i].step = "start" /\ UNCHANGED msgs
        /\ sess' = [sess EXCEPT ![i].step = ""]
        /\ stream' = TRUE /\ queue' = IF stream THEN queue ELSE <<>>
  /\ UNCHANGED <<adm, unpaired, setter, records, lastServer, output, playing, resume, screen>>
\* stream/clear and stream/end.
stream_end(i) ==
  /\ Receive(i) /\ adm = i
  /\ queue' = <<>> /\ stream' \in {stream, FALSE}
  /\ UNCHANGED <<sess, adm, unpaired, setter, records, lastServer, output, playing, resume, screen>>

\* on_message, audio: decoded and queued while the stream is on; dropped where the queue is full.
on_audio(i) ==
  /\ Reading(i) /\ adm = i /\ sess[i].player /\ stream
  /\ queue' = IF Len(queue) < QueueMax THEN Append(queue, i) ELSE queue
  /\ queue' # queue
  /\ UNCHANGED <<sess, adm, unpaired, setter, records, lastServer, stream, output, playing, resume, screen, msgs>>

\* group/update, and server/state's metadata: shown now, or held until its time (1.0) and shown by the time thread
\* if the session is still admitted.
group_update(i) ==
  /\ Receive(i) /\ adm = i
  /\ playing' \in BOOLEAN
  /\ screen' = i
  /\ UNCHANGED <<sess, adm, unpaired, setter, records, lastServer, stream, queue, output, resume>>
on_metadata(i) ==
  /\ Receive(i) /\ adm = i
  /\ \/ screen' = i /\ sess' = [sess EXCEPT ![i].held = FALSE]
     \/ i \in Spec10 /\ UNCHANGED screen /\ sess' = [sess EXCEPT ![i].held = TRUE]
  /\ UNCHANGED <<adm, unpaired, setter, records, lastServer, stream, queue, output, playing, resume>>
meta_tick(i) ==
  /\ sess[i].up /\ sess[i].held
  /\ sess' = [sess EXCEPT ![i].held = FALSE]
  /\ screen' = IF adm = i THEN i ELSE screen
  /\ UNCHANGED <<adm, unpaired, setter, records, lastServer, stream, queue, output, playing, resume, msgs>>

\* serve ends: we closed it, or the server is gone or breaks the protocol.
serve_end(i) ==
  /\ sess[i].up /\ sess[i].step = ""
  /\ sess[i].closing \/ msgs < MaxMsgs
  /\ msgs' = IF sess[i].closing THEN msgs ELSE msgs + 1
  /\ sess' = [sess EXCEPT ![i] = Closed]
  /\ IF adm = i THEN adm' = Nobody /\ stream' = FALSE /\ queue' = <<>> /\ screen' = Nobody
     ELSE UNCHANGED <<adm, stream, queue, screen>>
  /\ UNCHANGED <<unpaired, setter, records, lastServer, output, playing, resume>>

--------------------------------------------------------------------------------------
\* sendspin_unpaired: the setting; on a change what waits without a role is closed; switched off, what plays goes.
Unpaired(i) == sess[i].up /\ sess[i].cat # "longterm" /\ ~sess[i].pairing /\ ~sess[i].closing

\* Fault: switched off, only what waits without a role is closed.
unpaired_idle_only ==
  \/ /\ setter = "" /\ msgs < MaxMsgs /\ msgs' = msgs + 1
     /\ unpaired' = ~unpaired /\ setter' = "idle" /\ UNCHANGED <<sess, adm, stream, queue, screen>>
  \/ /\ setter = "idle" /\ setter' = ""
     /\ sess' = [i \in Server |-> IF Unpaired(i) /\ sess[i].listed /\ ~sess[i].player THEN [sess[i] EXCEPT !.closing = TRUE] ELSE sess[i]]
     /\ UNCHANGED <<unpaired, adm, stream, queue, screen, msgs>>

sendspin_unpaired ==
  \/ /\ setter = "" /\ msgs < MaxMsgs /\ msgs' = msgs + 1
     /\ unpaired' = ~unpaired /\ setter' = "idle"
     /\ UNCHANGED <<sess, adm, stream, queue, screen>>
  \/ /\ setter = "idle" /\ setter' = IF unpaired THEN "" ELSE "playing"
     /\ sess' = [i \in Server |-> IF Unpaired(i) /\ sess[i].listed /\ ~sess[i].player THEN [sess[i] EXCEPT !.closing = TRUE] ELSE sess[i]]
     /\ UNCHANGED <<unpaired, adm, stream, queue, screen, msgs>>
  \/ /\ setter = "playing" /\ setter' = ""
     /\ IF adm # Nobody /\ Unpaired(adm)
          THEN /\ sess' = [sess EXCEPT ![adm].closing = TRUE]
               /\ adm' = Nobody /\ stream' = FALSE /\ queue' = <<>> /\ screen' = Nobody
          ELSE UNCHANGED <<sess, adm, stream, queue, screen>>
     /\ UNCHANGED <<unpaired, msgs>>
SetUnpaired == sendspin_unpaired /\ UNCHANGED <<records, lastServer, output, playing, resume>>

\* The button and "stop" pause the group, the button resumes it; another source pauses it for good.
send_pause == adm # Nobody /\ sess[adm].activated /\ playing /\ stream
sendspin_button ==
  /\ adm # Nobody /\ sess[adm].activated
  /\ IF playing /\ stream THEN resume' = TRUE ELSE resume /\ resume' = FALSE
  /\ UNCHANGED <<sess, adm, unpaired, setter, records, lastServer, stream, queue, output, playing, screen, msgs>>
sendspin_pause ==
  /\ send_pause /\ resume' = FALSE
  /\ UNCHANGED <<sess, adm, unpaired, setter, records, lastServer, stream, queue, output, playing, screen, msgs>>

\* The player thread: the output opens with the first chunk and closes when the stream is off.
player_thread ==
  /\ \/ stream /\ queue # <<>> /\ queue' = Tail(queue) /\ output' = TRUE
     \/ ~stream /\ (output \/ queue # <<>>) /\ output' = FALSE /\ queue' = IF queue = <<>> THEN queue ELSE Tail(queue)
  /\ UNCHANGED <<sess, adm, unpaired, setter, records, lastServer, stream, playing, resume, screen, msgs>>

PNext ==
  \/ \E i \in Server :
       \/ Connect(i) \/ activate(i) \/ arbitrate(i) \/ apply(i) \/ pair_end(i) \/ unpair(i) \/ rehandshake(i)
       \/ send_state(i) \/ stream_start(i) \/ stream_end(i) \/ on_audio(i) \/ group_update(i) \/ on_metadata(i)
       \/ meta_tick(i) \/ serve_end(i)
  \/ SetUnpaired \/ sendspin_button \/ sendspin_pause \/ player_thread

PSpec == PInit /\ [][PNext]_pvars

--------------------------------------------------------------------------------------
\* With unpaired access off and the switch done, no server that only ever used the published Sentinel key holds
\* the player role, unless it is being closed (server/activate, arbitrate, sendspin_unpaired).  This is for the
\* sessions in live: the switch does not find one that came when it was full (serve).
NoStrangerPlays ==
  (~unpaired /\ setter = "") =>
    \A i \in Server : sess[i].up /\ sess[i].listed /\ ~sess[i].proved /\ sess[i].player => sess[i].closing
======================================================================================
