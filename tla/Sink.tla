-------------------------------- MODULE Sink --------------------------------
(***************************************************************************)
(* Phones playing on the Echo: the sink half of src/hassmic/a2dp.c.  The  *)
(* controller thread handles HCI events, L2CAP and AVDTP (one operator or *)
(* action per handler); the core's threads set atomics that upkeep takes. *)
(* The phones and the controller are external.  A channel is named by its *)
(* protocol: the first AVDTP channel opened on a link is its signalling   *)
(* channel, the next one the media channel.                               *)
(***************************************************************************)
EXTENDS Naturals, Sequences, FiniteSets, SequencesExt

CONSTANTS Phones, Links,  \* MAX_LINKS places
          MaxKeys,        \* MAX_KEYS
          FirstKeys,      \* state/bt_keys at the start
          MaxAsks,        \* bound: pairing windows and pauses asked for
          MaxCalls,       \* bound: connections the phones make
          MaxChans,       \* bound: channels the phones ask for
          None

VARIABLES link, av, keys, pairing, streaming, yielded, keyReq, remotes, accepted, asks, calls, chans

kvars == <<link, av, keys, pairing, streaming, yielded, keyReq, remotes, accepted, asks, calls, chans>>

NoLink == [phone |-> None, enc |-> FALSE, pend |-> FALSE, auth |-> FALSE, wait |-> {}, conf |-> {},
           sig |-> FALSE, ctl |-> FALSE, ctlAt |-> FALSE, named |-> FALSE, told |-> FALSE]
NoStream == [l |-> None, state |-> "idle", media |-> FALSE]

KInit == /\ link = [l \in Links |-> NoLink] /\ av = NoStream /\ keys = FirstKeys
         /\ pairing = FALSE /\ streaming = FALSE /\ yielded = FALSE /\ keyReq = "none"
         /\ remotes = 0 /\ accepted = {} /\ asks = 0 /\ calls = 0 /\ chans = 0

Used(l) == link[l].phone # None
Known(p) == \E k \in 1..Len(keys) : keys[k] = p
Room == \E l \in Links : ~Used(l)
Set(l, f) == link' = [link EXCEPT ![l] = f @@ @]
Audio == UNCHANGED <<av, streaming, yielded>>
Keys == UNCHANGED <<keys, pairing>>
Asked == UNCHANGED <<keyReq, accepted, asks, calls, chans>>

----------------------------------------------------------------------------
\* Link keys, the pairing window, connections.
key_forget(ks, k) == IF k = Len(ks) THEN Front(ks) ELSE [Front(ks) EXCEPT ![k] = Last(ks)]
Forgotten(p) == IF Known(p) THEN key_forget(keys, CHOOSE k \in 1..Len(keys) : keys[k] = p) ELSE keys

a2dp_pair == /\ asks < MaxAsks /\ asks' = asks + 1
             /\ pairing' = ~pairing
             /\ UNCHANGED <<link, av, keys, streaming, yielded, keyReq, remotes, accepted, calls, chans>>
PairTimeout == /\ pairing /\ pairing' = FALSE
               /\ UNCHANGED <<link, av, keys, streaming, yielded, keyReq, remotes, accepted, asks, calls, chans>>

ConnRequest(p) ==
  /\ calls < MaxCalls /\ calls' = calls + 1
  /\ \A l \in Links : link[l].phone # p
  /\ accepted' = IF Room /\ (pairing \/ Known(p)) THEN accepted \cup {p} ELSE accepted
  /\ UNCHANGED <<link, remotes, keyReq, asks, chans>> /\ Audio /\ Keys
\* Accepted by upkeep; a place may be gone by then.
ConnComplete(p) ==
  /\ p \in accepted /\ accepted' = accepted \ {p}
  /\ IF Room THEN Set(CHOOSE l \in Links : ~Used(l) /\ \A k \in Links : ~Used(k) => l <= k, [phone |-> p])
             ELSE UNCHANGED link
  /\ UNCHANGED <<remotes, keyReq, asks, calls, chans>> /\ Audio /\ Keys

\* EV_LINK_KEY_NOTIFY: a full table gives up its first key; one device per window.
LinkKey(l) ==
  LET p == link[l].phone
      room == IF Len(keys) = MaxKeys THEN key_forget(keys, 1) ELSE keys IN
  /\ Used(l) /\ ~link[l].enc /\ (pairing \/ Known(p))
  /\ keys' = IF Known(p) THEN keys ELSE Append(room, p)
  /\ pairing' = FALSE
  /\ UNCHANGED <<link, remotes>> /\ Audio /\ Asked

\* The channels that waited for the security of the link go on or are refused.
Resolved(l, ok) == [link[l] EXCEPT !.pend = FALSE, !.auth = FALSE, !.wait = {},
                                   !.conf = IF ok THEN @ \cup link[l].wait ELSE @]
pending_resolve(l, ok) == link' = [link EXCEPT ![l] = Resolved(l, ok)]

AuthUpkeep(l) == /\ Used(l) /\ link[l].pend /\ ~link[l].auth
                 /\ Set(l, [auth |-> TRUE]) /\ UNCHANGED remotes /\ Audio /\ Keys /\ Asked
PendTimeout(l) == /\ Used(l) /\ link[l].pend
                  /\ pending_resolve(l, FALSE) /\ UNCHANGED remotes /\ Audio /\ Keys /\ Asked
\* Authentication failed (the key may be missing on the other side), or the
\* encryption that follows it changed.
AuthFailed(l) == /\ Used(l) /\ link[l].auth
                 /\ pending_resolve(l, FALSE)
                 /\ \E missing \in BOOLEAN : keys' = IF missing THEN Forgotten(link[l].phone) ELSE keys
                 /\ UNCHANGED <<remotes, pairing>> /\ Audio /\ Asked
EncChange(l) == \E ok \in BOOLEAN :
                 /\ Used(l) /\ ~link[l].enc
                 /\ link' = [link EXCEPT ![l] = [Resolved(l, ok) EXCEPT !.enc = ok]]
                 /\ UNCHANGED remotes /\ Audio /\ Keys /\ Asked

----------------------------------------------------------------------------
\* L2CAP channels.
Open(l) == link[l].conf \cup link[l].wait
conn_request(l) == \E psm \in {"avdtp", "avctp"} :
  /\ Used(l) /\ psm \notin Open(l) /\ chans < MaxChans /\ chans' = chans + 1
  /\ IF link[l].enc THEN Set(l, [conf |-> link[l].conf \cup {psm}])
     ELSE Set(l, [wait |-> link[l].wait \cup {psm}, pend |-> TRUE])
  /\ UNCHANGED remotes /\ Audio /\ Keys /\ UNCHANGED <<keyReq, accepted, asks, calls>>
\* The device has not opened AVRCP: we do.
avrcp_upkeep(l) ==
  /\ Used(l) /\ link[l].ctlAt
  /\ Set(l, [ctlAt |-> FALSE,
             conf |-> IF link[l].enc /\ ~link[l].ctl /\ "avctp" \notin Open(l)
                      THEN link[l].conf \cup {"avctp"} ELSE link[l].conf])
  /\ UNCHANGED remotes /\ Audio /\ Keys /\ Asked

maybe_tell(r) == [r EXCEPT !.told = @ \/ (r.sig /\ r.named)]
chan_opened(l) == \E psm \in link[l].conf :
  LET r == [link[l] EXCEPT !.conf = @ \ {psm}]
      first == psm = "avdtp" /\ ~r.sig
      media == psm = "avdtp" /\ r.sig /\ av.l = l /\ av.state = "open" IN
  /\ link' = [link EXCEPT ![l] =
       CASE psm = "avctp" -> [r EXCEPT !.ctl = TRUE]
         [] first -> maybe_tell([r EXCEPT !.sig = TRUE, !.ctlAt = ~r.ctl])
         [] OTHER -> r]
  /\ remotes' = IF psm = "avctp" /\ ~r.ctl THEN remotes + 1 ELSE remotes
  /\ av' = IF media THEN [av EXCEPT !.media = TRUE] ELSE av
  /\ UNCHANGED <<streaming, yielded>> /\ Keys /\ Asked
\* A channel the device refused, or closed before it was configured.
ChanRefused(l) == \E psm \in link[l].conf :
  /\ Set(l, [conf |-> link[l].conf \ {psm}]) /\ UNCHANGED remotes /\ Audio /\ Keys /\ Asked

av_reset == av' = NoStream /\ streaming' = FALSE
CtlClosed(l) == /\ link[l].ctl /\ Set(l, [ctl |-> FALSE]) /\ remotes' = remotes - 1
                /\ Audio /\ Keys /\ Asked
SigClosed(l) == /\ link[l].sig /\ Set(l, [sig |-> FALSE, told |-> FALSE])
                /\ IF av.l = l THEN av_reset ELSE UNCHANGED <<av, streaming>>
                /\ UNCHANGED <<remotes, yielded>> /\ Keys /\ Asked
MediaClosed(l) == /\ av.l = l /\ av.media
                  /\ av' = [av EXCEPT !.media = FALSE,
                                      !.state = IF @ \in {"open", "streaming"} THEN "configured" ELSE @]
                  /\ streaming' = (streaming /\ av'.state = "streaming")
                  /\ UNCHANGED <<link, remotes, yielded>> /\ Keys /\ Asked
\* The link is gone, with its channels and its stream.
link_gone(l) == /\ Used(l) /\ link' = [link EXCEPT ![l] = NoLink]
                /\ remotes' = IF link[l].ctl THEN remotes - 1 ELSE remotes
                /\ IF av.l = l THEN av_reset ELSE UNCHANGED <<av, streaming>>
                /\ UNCHANGED yielded /\ Keys /\ Asked
RemoteName(l) == /\ Used(l) /\ ~link[l].named
                 /\ link' = [link EXCEPT ![l] = maybe_tell([@ EXCEPT !.named = TRUE])]
                 /\ UNCHANGED remotes /\ Audio /\ Keys /\ Asked

----------------------------------------------------------------------------
\* AVDTP signals of the phone, those that change anything.
SetConf(l) == av.l = None /\ av' = [av EXCEPT !.l = l, !.state = "configured"] /\ UNCHANGED <<streaming, yielded>>
Reconf(l) == av.l = l /\ av.state = "open" /\ av_reset /\ UNCHANGED yielded     \* a codec that does not open
AvOpen(l) == av.l = l /\ av.state = "configured" /\ av' = [av EXCEPT !.state = "open"] /\ UNCHANGED <<streaming, yielded>>
Start(l) == /\ av.l = l /\ av.state = "open"
            /\ av' = [av EXCEPT !.state = "streaming"] /\ streaming' = TRUE /\ yielded' = FALSE
Suspend(l) == /\ av.l = l /\ av.state = "streaming"
              /\ av' = [av EXCEPT !.state = "open"] /\ streaming' = FALSE /\ UNCHANGED yielded
CloseAbort(l) == av.l = l /\ av_reset /\ UNCHANGED yielded
av_rx(l) == /\ link[l].sig
            /\ \/ SetConf(l) \/ Reconf(l) \/ AvOpen(l) \/ Start(l) \/ Suspend(l) \/ CloseAbort(l)
            /\ UNCHANGED <<link, remotes>> /\ Keys /\ Asked

----------------------------------------------------------------------------
\* Another source takes over (a2dp_pause, a2dp_stop) and gives way again.
a2dp_pause == /\ streaming /\ asks < MaxAsks /\ asks' = asks + 1
              /\ IF remotes > 0 THEN keyReq' = "pause" /\ UNCHANGED yielded
                                ELSE yielded' = TRUE /\ UNCHANGED keyReq
              /\ UNCHANGED <<link, av, keys, pairing, streaming, remotes, accepted, calls, chans>>
a2dp_unyield == /\ yielded /\ yielded' = FALSE
                /\ UNCHANGED <<link, av, keys, pairing, streaming, keyReq, remotes, accepted, asks, calls, chans>>
\* The key is pressed on the streaming device, or on any that has AVRCP.
KeyUpkeep == /\ keyReq # "none" /\ keyReq' = "none"
             /\ UNCHANGED <<link, av, keys, pairing, streaming, yielded, remotes, accepted, asks, calls, chans>>

KNext == \/ a2dp_pair \/ PairTimeout \/ a2dp_pause \/ a2dp_unyield \/ KeyUpkeep
         \/ \E p \in Phones : ConnRequest(p) \/ ConnComplete(p)
         \/ \E l \in Links : \/ LinkKey(l) \/ AuthUpkeep(l) \/ PendTimeout(l) \/ AuthFailed(l)
                             \/ EncChange(l) \/ conn_request(l) \/ avrcp_upkeep(l) \/ chan_opened(l)
                             \/ ChanRefused(l) \/ CtlClosed(l) \/ SigClosed(l) \/ MediaClosed(l)
                             \/ link_gone(l) \/ RemoteName(l) \/ av_rx(l)
KSpec == KInit /\ [][KNext]_kvars

\* What the other threads go by is what the radio has: core_music follows the
\* stream's state, avrcp_links counts the remote controls, a stream has a link
\* with its signalling channel, and a device announced is still there.
SinkTold ==
  /\ streaming = (av.state = "streaming")
  /\ remotes = Cardinality({l \in Links : link[l].ctl})
  /\ av.l # None => link[av.l].sig
  /\ \A l \in Links : link[l].told => link[l].sig /\ link[l].named
=============================================================================
