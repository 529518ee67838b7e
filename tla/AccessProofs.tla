---------------------------- MODULE AccessProofs ----------------------------
(***************************************************************************)
(* Who is let in, and who is given what: proofs about Music Assistant's    *)
(* tokens and lists (Mass), Amazon's registration (Davs), the page's       *)
(* requests (Web), the music servers (Sendspin) and the Echos' networks    *)
(* (ArbNet), for any values of their parameters.                           *)
(***************************************************************************)
EXTENDS Mass, Davs, Web, Sendspin, ArbNet, TLAPS, FiniteSetTheorems, WellFoundedInduction

(***************************************************************************)
(* mass.c: any addresses, any number of slots and of changed settings,     *)
(* lists and covers                                                        *)
(***************************************************************************)

Address == Host \cup {Unset}

SessionPhase == {"idle", "begin", "connect", "info", "auth", "in", "up", "shut"}

MassTypeOK ==
  /\ url \in Address /\ token \in Address /\ peer \in Address \cup {"stopped"} /\ gen \in Nat
  /\ ses \in [at : SessionPhase, host : Address, tok : Address, seen : Nat]
  /\ up \in BOOLEAN /\ upGen \in Nat
  /\ pend \in [1..Slots -> Nat] /\ nextId \in 0 .. Slots - 1 /\ reqs \in Nat
  /\ asking \in [at : {"idle", "register", "put"}, req : Nat, slot : 0 .. Slots]

\* A token is the current address's; the one a session took is its host's.  A
\* session that saw the newest settings has their token.
MassTokens ==
  /\ token # Unset => token = url
  /\ ses.tok # Unset => ses.tok = ses.host
  /\ ses.seen <= gen
  /\ ses.at \notin {"idle", "begin"} /\ ses.seen = gen => ses.tok = token
  /\ up => ses.at \in {"up", "shut"} /\ upGen = ses.seen

\* A cover's request, and all that was sent.
Covers ==
  /\ img # Unset /\ img.tok # Unset => img.tok = img.host
  /\ TokenToItsHost

\* A request between its slot and the wire still has the slot, or its list has
\* ended meanwhile.
Lists ==
  /\ waiting \subseteq Nat \ {0}
  /\ asking.at = "idle" => asking.req = 0
  /\ asking.at = "put" => asking.slot \in 1..Slots /\ (pend[asking.slot] = asking.req \/ asking.req \notin waiting)
  /\ NoListForgotten

MassInv == MassTypeOK /\ MassTokens /\ Covers /\ Lists

\* With a token the session's address is the token's.
LEMMA TargetIsAddress ==
  ASSUME MassTypeOK, MassTokens PROVE target \in Address /\ (target # Unset /\ token # Unset => target = token)
BY DEF MassTypeOK, MassTokens, target, Address

\* No session has no token.
LEMMA NoSessionType ==
  /\ NoSession \in [at : SessionPhase, host : Address, tok : Address, seen : Nat]
  /\ NoSession.at = "idle" /\ NoSession.tok = Unset /\ NoSession.seen = 0
BY DEF NoSession, SessionPhase, Address

\* The lowest of some slots.
LEMMA LowestSlot ==
  ASSUME NEW F, F \subseteq 1..Slots, F # {} PROVE (CHOOSE x \in F : \A y \in F : x <= y) \in F
<1>1. F \subseteq Nat
  BY MassAssumption
<1>2. PICK x \in F : \A y \in F : ~(<<y, x>> \in OpToRel(<, Nat))
  BY <1>1, WFMin, NatLessThanWellFounded
<1>3. ASSUME NEW y \in F, y < x PROVE FALSE
  <2>1. <<y, x>> \in Nat \X Nat /\ <<y, x>>[1] < <<y, x>>[2]
    BY <1>1, <1>3
  <2>2. <<y, x>> \in OpToRel(<, Nat)
    BY <2>1, Zenon DEF OpToRel
  <2> QED
    BY <1>2, <2>2
<1>4. \A y \in F : x <= y
  BY <1>1, <1>3
<1> QED
  BY <1>4

\* At the start there is no session, no list is waited for and no cover.
LEMMA MassInitHolds == AInit => MassInv
<1> SUFFICES ASSUME AInit PROVE MassInv
  OBVIOUS
<1>1. 0 \in 0 .. Slots - 1 /\ 0 \in 0 .. Slots /\ Slots \in Nat
  BY MassAssumption
<1>2. MassTypeOK
  BY <1>1, NoSessionType DEF AInit, MassTypeOK, Address, NotAsking
<1>3. MassTokens
  BY NoSessionType DEF AInit, MassTokens
<1>4. Covers
  BY DEF AInit, Covers, TokenToItsHost
<1>5. Lists
  BY DEF AInit, Lists, NotAsking, NoListForgotten
<1> QED
  BY <1>2, <1>3, <1>4, <1>5 DEF MassInv

\* New settings: the session's are old then.
LEMMA SettingsStep ==
  ASSUME MassInv, (\E u \in Host \cup {Unset}, t \in {"keep", "drop", "new"} : mass_set(u, t))
                 \/ (\E h \in Host : mass_peer(h)) \/ mass_stop
  PROVE  MassInv'
<1>1. UNCHANGED <<sent, ses, up, upGen, open, pend, asking, waiting, nextId, reqs, wanted, img, covers>>
  BY DEF mass_set, mass_peer, mass_stop, conn, uis, pics
<1>2. /\ url' \in Address /\ token' \in Address /\ peer' \in Address \cup {"stopped"} /\ gen' \in Nat
      /\ token' # Unset => token' = url'
      /\ gen' = gen + 1 \/ (gen' = gen /\ token' = token)
  BY DEF MassInv, MassTypeOK, MassTokens, mass_set, mass_peer, mass_stop, Address
<1>3. ses.seen \in Nat /\ gen \in Nat /\ ses.seen <= gen
  BY DEF MassInv, MassTypeOK, MassTokens
<1>4. MassTypeOK'
  BY <1>1, <1>2 DEF MassInv, MassTypeOK
<1>5. MassTokens'
  BY <1>1, <1>2, <1>3 DEF MassInv, MassTokens
<1>6. Covers' /\ Lists'
  BY <1>1 DEF MassInv, Covers, TokenToItsHost, Lists, NoListForgotten
<1> QED
  BY <1>4, <1>5, <1>6 DEF MassInv

\* The session goes on: it ends, or takes the address and the token together.
LEMMA SessionGoesOn ==
  ASSUME MassInv, thread_main \/ session \/ ws_connect \/ login \/ auth \/ logged_in \/ ws_shut
  PROVE  MassInv'
<1>1. UNCHANGED <<url, token, peer, gen, pend, asking, waiting, nextId, reqs, wanted, img, covers>>
  BY DEF thread_main, session, ws_connect, login, auth, logged_in, ws_shut, uis, pics
<1>2. /\ MassTypeOK /\ MassTokens /\ gen \in Nat /\ ses.at \in SessionPhase /\ ses.host \in Address /\ ses.tok \in Address
      /\ ses.seen \in Nat
  BY DEF MassInv, MassTypeOK
<1>3. /\ ses' \in [at : SessionPhase, host : Address, tok : Address, seen : Nat]
      /\ ses'.tok # Unset => ses'.tok = ses'.host
      /\ ses'.seen <= gen
      /\ ses'.at \notin {"idle", "begin"} /\ ses'.seen = gen => ses'.tok = token
  <2>1. CASE ses' = NoSession
    BY <1>2, <2>1, NoSessionType
  <2>2. CASE thread_main
    <3>1. ses' = [at |-> "begin", host |-> Unset, tok |-> Unset, seen |-> gen]
      BY <2>2 DEF thread_main, NoSession
    <3> QED
      BY <1>2, <3>1 DEF SessionPhase, Address
  <2>3. CASE target # Unset /\ ses' = [ses EXCEPT !.at = "connect", !.host = target, !.tok = token]
    <3>1. ses' = [at |-> "connect", host |-> target, tok |-> token, seen |-> ses.seen]
      BY <1>2, <2>3 DEF MassTypeOK
    <3>2. target \in Address /\ token \in Address /\ (token # Unset => target = token) /\ ses.seen <= gen
      BY <1>2, <2>3, TargetIsAddress DEF MassTypeOK, MassTokens
    <3> QED
      BY <1>2, <3>1, <3>2 DEF SessionPhase
  <2>4. ASSUME NEW a \in SessionPhase \ {"idle", "begin"}, ses.at \notin {"idle", "begin"}, ses' = [ses EXCEPT !.at = a]
        PROVE  /\ ses' \in [at : SessionPhase, host : Address, tok : Address, seen : Nat]
               /\ ses'.tok # Unset => ses'.tok = ses'.host
               /\ ses'.seen <= gen
               /\ ses'.seen = gen => ses'.tok = token
    <3>1. ses' = [at |-> a, host |-> ses.host, tok |-> ses.tok, seen |-> ses.seen]
      BY <1>2, <2>4 DEF MassTypeOK
    <3> QED
      BY <1>2, <2>4, <3>1 DEF MassTokens
  <2>5. /\ {"info", "auth", "in", "up", "shut"} \subseteq SessionPhase \ {"idle", "begin"}
    BY DEF SessionPhase
  <2>6. \/ ses' = NoSession \/ thread_main
        \/ target # Unset /\ ses' = [ses EXCEPT !.at = "connect", !.host = target, !.tok = token]
        \/ ses.at \notin {"idle", "begin"} /\ \E a \in {"info", "auth", "in", "up", "shut"} : ses' = [ses EXCEPT !.at = a]
    BY DEF session, ws_connect, login, auth, logged_in, ws_shut
  <2> QED
    BY <2>1, <2>2, <2>3, <2>4, <2>5, <2>6
<1>4. up' \in BOOLEAN /\ upGen' \in Nat /\ (up' => ses'.at \in {"up", "shut"} /\ upGen' = ses'.seen)
  <2>1. CASE logged_in
    <3>1. ses' = [ses EXCEPT !.at = "up"] /\ up' = TRUE /\ upGen' = ses.seen
      BY <2>1 DEF logged_in
    <3> QED
      BY <1>2, <3>1 DEF MassTypeOK
  <2>2. CASE ws_shut
    <3>1. ses' = [ses EXCEPT !.at = "shut"] /\ UNCHANGED <<up, upGen>>
      BY <2>2 DEF ws_shut
    <3> QED
      BY <1>2, <3>1 DEF MassTypeOK, MassTokens
  <2>3. CASE thread_main \/ session \/ ws_connect \/ login \/ auth
    <3>1. ses.at \notin {"up", "shut"} /\ UNCHANGED <<up, upGen>>
      BY <2>3 DEF thread_main, session, ws_connect, login, auth
    <3> QED
      BY <1>2, <3>1 DEF MassTypeOK, MassTokens
  <2> QED
    BY <2>1, <2>2, <2>3
<1>5. MassTypeOK' /\ MassTokens'
  BY <1>1, <1>2, <1>3, <1>4 DEF MassTypeOK, MassTokens
<1>6. sent' = sent \/ (ses.tok # Unset /\ sent' = sent \cup {<<ses.tok, ses.host>>})
  BY DEF thread_main, session, ws_connect, login, auth, logged_in, ws_shut
<1>7. Covers'
  BY <1>1, <1>2, <1>6 DEF MassInv, Covers, TokenToItsHost, MassTokens
<1>8. Lists'
  BY <1>1 DEF MassInv, Lists, NoListForgotten
<1> QED
  BY <1>5, <1>7, <1>8 DEF MassInv

\* An answer, or the session's end: what leaves its slot is not waited for.
LEMMA ResultStep == ASSUME MassInv, NEW k \in 1..Slots, on_result(k) PROVE MassInv'
<1>1. /\ pend' = [pend EXCEPT ![k] = 0] /\ waiting' = waiting \ {pend[k]}
      /\ ~(asking.at = "put" /\ asking.slot = k)
      /\ UNCHANGED <<asking, nextId, reqs, url, token, peer, gen, sent, ses, up, upGen, open, wanted, img, covers>>
  BY DEF on_result, conn, pics
<1>2. pend' \in [1..Slots -> Nat] /\ pend'[k] = 0 /\ \A j \in 1..Slots : j # k => pend'[j] = pend[j]
  BY <1>1 DEF MassInv, MassTypeOK
<1>3. MassTypeOK' /\ MassTokens' /\ Covers'
  BY <1>1, <1>2 DEF MassInv, MassTypeOK, MassTokens, Covers, TokenToItsHost
<1>4. Lists'
  BY <1>1, <1>2 DEF MassInv, Lists, NoListForgotten
<1> QED
  BY <1>3, <1>4 DEF MassInv

\* The session's end: what waits is told so.
LEMMA EndStep == ASSUME MassInv, session_end PROVE MassInv'
<1>1. /\ ses' = NoSession /\ up' = FALSE /\ waiting' = waiting \ {pend[k] : k \in 1..Slots}
      /\ pend' = [k \in 1..Slots |-> 0]
      /\ UNCHANGED <<url, token, peer, gen, upGen, open, sent, asking, nextId, reqs, wanted, img, covers>>
  BY DEF session_end, pics
<1>2. MassTypeOK'
  BY <1>1, NoSessionType DEF MassInv, MassTypeOK
<1>3. MassTokens'
  BY <1>1, NoSessionType DEF MassInv, MassTypeOK, MassTokens
<1>4. Covers'
  BY <1>1 DEF MassInv, Covers, TokenToItsHost
<1>5. Lists'
  <2>1. /\ waiting' \subseteq waiting /\ \A r \in waiting' : asking.req = r
    BY <1>1 DEF MassInv, Lists, NoListForgotten
  <2>2. asking.at = "put" => asking.slot \in 1..Slots /\ asking.req \notin waiting'
    BY <1>1 DEF MassInv, Lists
  <2> QED
    BY <1>1, <2>1, <2>2 DEF MassInv, Lists, NoListForgotten
<1> QED
  BY <1>2, <1>3, <1>4, <1>5 DEF MassInv

\* The screen's thread: registered before it is sent.
LEMMA AskStep == ASSUME MassInv, mass_ui \/ send_how \/ ws_put \/ mass_replay PROVE MassInv'
<1>1. UNCHANGED <<url, token, peer, gen, sent, ses, up, upGen, open, wanted, img, covers>>
  BY DEF mass_ui, send_how, ws_put, mass_replay, conn, pics
<1>2. MassTokens' /\ Covers'
  BY <1>1 DEF MassInv, MassTokens, Covers, TokenToItsHost
<1>3. /\ pend \in [1..Slots -> Nat] /\ asking \in [at : {"idle", "register", "put"}, req : Nat, slot : 0 .. Slots]
      /\ nextId \in 0 .. Slots - 1 /\ reqs \in Nat /\ Lists /\ Slots \in Nat \ {0}
  BY MassAssumption DEF MassInv, MassTypeOK
<1>4. ASSUME pend' \in [1..Slots -> Nat], asking' \in [at : {"idle", "register", "put"}, req : Nat, slot : 0 .. Slots],
             nextId' \in 0 .. Slots - 1, reqs' \in Nat
      PROVE  MassTypeOK'
  BY <1>1, <1>4 DEF MassInv, MassTypeOK
<1>5. 0 \in 0 .. Slots
  BY <1>3
<1>6. NotAsking = [at |-> "idle", req |-> 0, slot |-> 0]
  BY DEF NotAsking
<1>7. CASE mass_ui
  <2>1. /\ asking.at = "idle" /\ reqs' = reqs + 1 /\ UNCHANGED <<pend, nextId>>
        /\ \/ asking' = [NotAsking EXCEPT !.at = "register", !.req = reqs + 1] /\ waiting' = waiting \cup {reqs + 1}
           \/ UNCHANGED <<asking, waiting>>
    BY <1>7 DEF mass_ui
  <2>2. CASE UNCHANGED <<asking, waiting>>
    BY <1>2, <1>3, <1>4, <2>1, <2>2 DEF MassInv, Lists, NoListForgotten
  <2>3. CASE asking' = [NotAsking EXCEPT !.at = "register", !.req = reqs + 1] /\ waiting' = waiting \cup {reqs + 1}
    <3>1. asking' = [at |-> "register", req |-> reqs + 1, slot |-> 0]
      BY <1>6, <2>3
    <3>2. MassTypeOK'
      BY <1>3, <1>4, <1>5, <2>1, <3>1
    <3>3. Lists'
      BY <1>3, <2>1, <2>3, <3>1 DEF Lists, NoListForgotten
    <3> QED
      BY <1>2, <3>2, <3>3 DEF MassInv
  <2> QED
    BY <2>1, <2>2, <2>3
<1>8. CASE send_how
  <2> DEFINE free == {x \in 1..Slots : pend[x] = 0}
  <2>1. PICK k : k = IF free # {} THEN CHOOSE x \in free : \A y \in free : x <= y ELSE 1 + nextId'
    OBVIOUS
  <2>2. /\ asking.at = "register" /\ nextId' = (nextId + 1) % Slots /\ waiting' = waiting \ {pend[k]}
        /\ pend' = [pend EXCEPT ![k] = asking.req] /\ asking' = [asking EXCEPT !.at = "put", !.slot = k] /\ reqs' = reqs
    BY <1>8, <2>1 DEF send_how
  <2>3. nextId' \in 0 .. Slots - 1
    BY <1>3, <2>2
  <2>4. k \in 1..Slots
    <3>1. CASE free # {}
      <4>1. free \subseteq 1..Slots
        OBVIOUS
      <4>2. k \in free
        BY <2>1, <3>1, <4>1, LowestSlot
      <4> QED
        BY <4>2
    <3>2. CASE free = {}
      <4>1. PICK n \in 0 .. Slots - 1 : n = nextId'
        BY <2>3
      <4>2. k = 1 + n
        BY <2>1, <3>2, <4>1
      <4> QED
        BY <1>3, <4>2
    <3> QED
      BY <3>1, <3>2
  <2>5. pend' \in [1..Slots -> Nat] /\ pend'[k] = asking.req /\ \A j \in 1..Slots : j # k => pend'[j] = pend[j]
    BY <1>3, <2>2, <2>4
  <2>6. asking' = [at |-> "put", req |-> asking.req, slot |-> k] /\ k \in 0 .. Slots
    <3>1. asking' = [at |-> "put", req |-> asking.req, slot |-> k]
      BY <1>3, <2>2
    <3>2. k \in 0 .. Slots
      BY <1>3, <2>4
    <3> QED
      BY <3>1, <3>2
  <2>7. MassTypeOK'
    BY <1>3, <1>4, <2>2, <2>3, <2>5, <2>6
  <2>8. Lists'
    BY <1>3, <2>2, <2>4, <2>5, <2>6 DEF Lists, NoListForgotten
  <2> QED
    BY <1>2, <2>7, <2>8 DEF MassInv
<1>9. CASE ws_put
  <2>1. /\ asking.at = "put" /\ asking' = NotAsking /\ UNCHANGED <<nextId, reqs>>
        /\ IF open # Unset THEN UNCHANGED <<pend, waiting>>
           ELSE /\ pend' = [pend EXCEPT ![asking.slot] = IF @ = asking.req THEN 0 ELSE @]
                /\ waiting' = waiting \ {asking.req}
    BY <1>9 DEF ws_put
  <2>2. asking.slot \in 1..Slots
    BY <1>3, <2>1 DEF Lists
  <2>3. pend' \in [1..Slots -> Nat] /\ \A j \in 1..Slots : pend'[j] = pend[j] \/ (open = Unset /\ pend[j] = asking.req)
    BY <1>3, <2>1, <2>2
  <2>4. MassTypeOK'
    BY <1>3, <1>4, <1>5, <1>6, <2>1, <2>3
  <2>5. Lists'
    <3>1. asking'.at = "idle" /\ asking'.req = 0
      BY <1>6, <2>1
    <3>2. waiting' \subseteq waiting /\ (open = Unset => asking.req \notin waiting')
      BY <2>1
    <3>3. ASSUME NEW r \in waiting' PROVE \E k \in 1..Slots : pend'[k] = r
      <4>1. CASE r = asking.req
        BY <1>3, <2>1, <2>2, <3>2, <3>3, <4>1 DEF Lists
      <4>2. CASE r # asking.req
        BY <1>3, <2>3, <3>2, <3>3, <4>2 DEF Lists, NoListForgotten
      <4> QED
        BY <4>1, <4>2
    <3> QED
      BY <1>3, <3>1, <3>2, <3>3 DEF Lists, NoListForgotten
  <2> QED
    BY <1>2, <2>4, <2>5 DEF MassInv
<1>10. CASE mass_replay
  <2>1. asking.at = "idle" /\ waiting' = {} /\ pend' = [k \in 1..Slots |-> 0] /\ UNCHANGED <<asking, nextId, reqs>>
    BY <1>10 DEF mass_replay
  <2>2. MassTypeOK'
    BY <1>3, <1>4, <2>1
  <2>3. Lists'
    BY <1>3, <2>1 DEF Lists, NoListForgotten
  <2> QED
    BY <1>2, <2>2, <2>3 DEF MassInv
<1> QED
  BY <1>7, <1>8, <1>9, <1>10

\* A cover: host and token of the same settings.
LEMMA ImageStep == ASSUME MassInv, image_ask \/ image_take \/ http_get PROVE MassInv'
<1>1. UNCHANGED <<url, token, peer, gen, ses, up, upGen, open, pend, asking, waiting, nextId, reqs>>
  BY DEF image_ask, image_take, http_get, conn, uis
<1>2. MassTypeOK' /\ MassTokens' /\ Lists'
  BY <1>1 DEF MassInv, MassTypeOK, MassTokens, Lists, NoListForgotten
<1>3. CASE image_ask
  BY <1>2, <1>3 DEF MassInv, image_ask, Covers, TokenToItsHost
<1>4. CASE image_take
  <2>1. sent' = sent /\ img' = IF up /\ upGen = gen THEN [host |-> ses.host, tok |-> token] ELSE Unset
    BY <1>4 DEF image_take
  <2>2. up /\ upGen = gen /\ token # Unset => ses.host = token
    BY DEF MassInv, MassTokens
  <2> QED
    BY <1>2, <2>1, <2>2 DEF MassInv, Covers, TokenToItsHost
<1>5. CASE http_get
  BY <1>2, <1>5 DEF MassInv, http_get, Covers, TokenToItsHost
<1> QED
  BY <1>3, <1>4, <1>5

\* Every step of mass.c keeps the invariant.
LEMMA MassStep == MassInv /\ [ANext]_avars => MassInv'
<1> SUFFICES ASSUME MassInv, [ANext]_avars PROVE MassInv'
  OBVIOUS
<1>1. CASE UNCHANGED avars
  BY <1>1 DEF avars, MassInv, MassTypeOK, MassTokens, Covers, TokenToItsHost, Lists, NoListForgotten
<1> QED
  BY <1>1, SettingsStep, SessionGoesOn, ResultStep, EndStep, AskStep, ImageStep DEF ANext

\* The session, the settings, the slots and the covers fit together as MassInv
\* says, whatever the page, the UI and the server do and when.
THEOREM MassInvariant == ASpec => []MassInv
BY MassInitHolds, MassStep, PTL DEF ASpec

\* mass_set, session and image_thread send a token only to the address it was
\* given with, however often the address, the token or the suggested server
\* change between the steps of a login or a cover.
THEOREM TokenHolds == ASpec => []TokenToItsHost
<1>1. MassInv => TokenToItsHost
  BY DEF MassInv, Covers
<1> QED
  BY <1>1, MassInvariant, PTL

\* A list the UI waits for has its slot or is on its way to one, with any number
\* of slots and any end of the session between send_how's steps.
THEOREM ListsHold == ASpec => []NoListForgotten
<1>1. MassInv => NoListForgotten
  BY DEF MassInv, Lists
<1> QED
  BY <1>1, MassInvariant, PTL

(***************************************************************************)
(* davs.c: any number of registrations, commands and faults, writes that   *)
(* fail among them.  Tokens in the file that are not the ones in memory are *)
(* of a registration that is gone                                          *)
(***************************************************************************)

States == {"none", "waiting", "busy", "on"}

Phases == {"idle", "codepair", "wait", "register", "refresh_out", "deregister", "deregister_fresh",
           "refresh_fetch", "ask", "download"}

Reg == Nat \cup {Nothing}

KeptTokens == [refresh : Reg, refused : BOOLEAN]

Session == [state : States, cmd : Cmds \cup {Nothing}, refresh : Reg, until : {"past", "future"}, refused : BOOLEAN]

DavsTypeOK ==
  /\ davs \in Session /\ at \in Phases /\ kept \in KeptTokens
  /\ amazon \in [reg : Reg, access : BOOLEAN, made : Nat]
  /\ asked \subseteq Cmds /\ asks \in Nat /\ faults \in Nat

DavsInv ==
  /\ DavsTypeOK
  /\ davs.refresh # Nothing => davs.refresh <= amazon.made
  /\ kept.refresh # Nothing => kept.refresh <= amazon.made
  /\ kept.refresh # Nothing /\ kept.refresh # davs.refresh => amazon.reg # kept.refresh

\* Amazon keeps its registration, loses it or makes a new one.
AmazonMoves ==
  amazon'.made >= amazon.made /\ amazon'.reg \in {amazon.reg, Nothing, amazon.made + 1}

\* A step that leaves the tokens in memory, saved or not.
Leaves ==
  davs'.refresh = davs.refresh /\ kept'.refresh \in {kept.refresh, davs.refresh} /\ AmazonMoves

\* ... that forgets them, of a registration that is gone.
Forgets ==
  /\ davs'.refresh = Nothing /\ kept'.refresh \in {kept.refresh, Nothing} /\ amazon'.made = amazon.made
  /\ davs.refresh # Nothing => amazon'.reg # davs.refresh
  /\ amazon'.reg \in {amazon.reg, Nothing}

\* ... that takes those of a new one.
Renews ==
  /\ davs'.refresh = amazon.made + 1 /\ kept'.refresh \in {kept.refresh, amazon.made + 1}
  /\ amazon'.reg = amazon.made + 1 /\ amazon'.made = amazon.made + 1

\* ... that takes the file's, at a start.
Loads ==
  davs_start /\ davs'.refresh = kept.refresh /\ kept' = kept /\ amazon' = amazon

\* A change of the state or of the token's time leaves the registration.
LEMMA Parts ==
  ASSUME DavsTypeOK
  PROVE  /\ \A s \in States : [davs EXCEPT !.state = s] \in Session /\ [davs EXCEPT !.state = s].refresh = davs.refresh
         /\ \A u \in {"past", "future"} :
               [davs EXCEPT !.until = u] \in Session /\ [davs EXCEPT !.until = u].refresh = davs.refresh
         /\ Registered \in States
<1>1. davs \in Session
  BY DEF DavsTypeOK
<1> QED
  BY <1>1 DEF Session, Registered, States

\* The faults are counted.
LEMMA FaultCounted == ASSUME DavsTypeOK, Fault \/ Fine PROVE faults' \in Nat
BY DEF DavsTypeOK, Fault, Fine

\* A write takes what it is given or leaves the file.
LEMMA tokens_file_Effect ==
  ASSUME DavsTypeOK, NEW k \in KeptTokens, tokens_file(k)
  PROVE  kept' \in {kept, k} /\ kept' \in KeptTokens /\ faults' \in Nat
BY FaultCounted DEF tokens_file, DavsTypeOK, Fine, Fault

\* tokens_clear forgets the tokens in memory and unlinks the file.
LEMMA tokens_clear_Effect ==
  ASSUME DavsTypeOK, tokens_clear
  PROVE  /\ davs' \in Session /\ at' \in Phases /\ kept' \in KeptTokens /\ davs'.refresh = Nothing
         /\ kept'.refresh \in {kept.refresh, Nothing} /\ faults' \in Nat /\ UNCHANGED <<asked, asks>>
<1>1. davs \in Session /\ kept \in KeptTokens
  BY DEF DavsTypeOK
<1>2. /\ davs' = [davs EXCEPT !.state = "none", !.refresh = Nothing, !.until = "past"] /\ at' = "idle"
      /\ UNCHANGED <<asked, asks>>
  BY DEF tokens_clear, Go
<1>5. kept' \in KeptTokens /\ kept'.refresh \in {kept.refresh, Nothing} /\ faults' \in Nat
  <2>1. tokens_file([refresh |-> Nothing, refused |-> FALSE])
    BY DEF tokens_clear
  <2>2. [refresh |-> Nothing, refused |-> FALSE] \in KeptTokens
    BY DEF KeptTokens, Reg
  <2> QED
    BY <2>1, <2>2, tokens_file_Effect
<1>3. davs' = [state |-> "none", cmd |-> davs.cmd, refresh |-> Nothing, until |-> "past", refused |-> davs.refused]
  BY <1>1, <1>2 DEF Session
<1>4. davs' \in Session
  BY <1>1, <1>3 DEF Session, States, Reg
<1> QED
  BY <1>2, <1>3, <1>4, <1>5 DEF Phases

\* A download that ends leaves the tokens.
LEMMA Fetch_ends_Effect ==
  ASSUME DavsInv, NEW r \in BOOLEAN, Fetch_ends(r)
  PROVE  DavsTypeOK' /\ Leaves
<1>1. /\ DavsTypeOK /\ davs \in Session /\ kept \in KeptTokens /\ amazon.made \in Nat /\ faults \in Nat
      /\ asked \subseteq Cmds /\ asks \in Nat
  BY DEF DavsInv, DavsTypeOK
<1>2. /\ davs' = [davs EXCEPT !.state = "on", !.refused = r] /\ at' = "idle" /\ UNCHANGED <<amazon, asked, asks>>
      /\ UNCHANGED <<kept, faults>> \/ tokens_file([refresh |-> davs'.refresh, refused |-> davs'.refused])
  BY DEF Fetch_ends, Go, tokens_save
<1>3. davs' = [state |-> "on", cmd |-> davs.cmd, refresh |-> davs.refresh, until |-> davs.until, refused |-> r]
  BY <1>1, <1>2 DEF Session
<1>4. davs' \in Session /\ davs'.refresh = davs.refresh /\ davs'.refused = r /\ davs.refresh \in Reg
  BY <1>1, <1>3 DEF Session, States
<1>5. kept' \in KeptTokens /\ kept'.refresh \in {kept.refresh, davs.refresh} /\ faults' \in Nat
  <2>1. [refresh |-> davs'.refresh, refused |-> davs'.refused] \in KeptTokens
    BY <1>4 DEF KeptTokens
  <2> QED
    BY <1>1, <1>2, <1>4, <2>1, tokens_file_Effect
<1> QED
  BY <1>1, <1>2, <1>4, <1>5 DEF Phases, Leaves, AmazonMoves, DavsTypeOK

\* token_refresh takes a new access token and leaves the registration's.
LEMMA token_refresh_Effect ==
  ASSUME DavsInv, NEW p, NEW q \in Phases, token_refresh(p, q)
  PROVE  DavsTypeOK' /\ Leaves
<1>1. /\ DavsTypeOK /\ davs \in Session /\ kept \in KeptTokens
      /\ amazon \in [reg : Reg, access : BOOLEAN, made : Nat] /\ asked \subseteq Cmds /\ asks \in Nat
  BY DEF DavsInv, DavsTypeOK
<1>2. /\ davs' = [davs EXCEPT !.until = "future"] /\ at' = q /\ UNCHANGED <<asked, asks>>
      /\ amazon' = [amazon EXCEPT !.access = TRUE]
      /\ tokens_file([refresh |-> davs.refresh, refused |-> davs.refused])
  BY DEF token_refresh, Go, tokens_save
<1>3. davs' \in Session /\ davs'.refresh = davs.refresh
  BY <1>1, <1>2 DEF Session
<1>4. /\ amazon' \in [reg : Reg, access : BOOLEAN, made : Nat] /\ amazon'.made = amazon.made /\ amazon.made \in Nat
      /\ amazon'.reg = amazon.reg
  BY <1>1, <1>2
<1>5. kept' \in KeptTokens /\ kept'.refresh \in {kept.refresh, davs.refresh} /\ faults' \in Nat
  <2>1. [refresh |-> davs.refresh, refused |-> davs.refused] \in KeptTokens
    BY <1>1 DEF KeptTokens, Session
  <2> QED
    BY <1>1, <1>2, <2>1, tokens_file_Effect
<1> QED
  BY <1>1, <1>2, <1>3, <1>4, <1>5 DEF DavsTypeOK, Leaves, AmazonMoves

\* A new registration has a number that no kept token has.
LEMMA NewReg_Effect ==
  ASSUME DavsTypeOK, NewReg
  PROVE  /\ amazon' \in [reg : Reg, access : BOOLEAN, made : Nat]
         /\ amazon'.reg = amazon.made + 1 /\ amazon'.made = amazon.made + 1 /\ amazon.made \in Nat
<1>1. amazon.made \in Nat
  BY DEF DavsTypeOK
<1>2. amazon' = [reg |-> amazon.made + 1, access |-> TRUE, made |-> amazon.made + 1]
  BY DEF NewReg
<1> QED
  BY <1>1, <1>2 DEF Reg

\* Amazon's side taken away.
LEMMA AmazonLess ==
  ASSUME DavsTypeOK, \/ amazon' = amazon \/ amazon' = [amazon EXCEPT !.access = FALSE]
                 \/ amazon' = [amazon EXCEPT !.reg = Nothing, !.access = FALSE]
  PROVE  /\ amazon' \in [reg : Reg, access : BOOLEAN, made : Nat] /\ amazon'.made = amazon.made /\ amazon.made \in Nat
         /\ amazon'.reg \in {amazon.reg, Nothing}
<1>1. amazon \in [reg : Reg, access : BOOLEAN, made : Nat] /\ Nothing \in Reg
  BY DEF DavsTypeOK, Reg
<1>2. CASE amazon' = amazon
  BY <1>1, <1>2
<1>3. CASE amazon' = [amazon EXCEPT !.access = FALSE]
  BY <1>1, <1>3
<1>4. CASE amazon' = [amazon EXCEPT !.reg = Nothing, !.access = FALSE]
  <2>1. amazon' = [reg |-> Nothing, access |-> FALSE, made |-> amazon.made]
    BY <1>1, <1>4
  <2> QED
    BY <1>1, <2>1
<1> QED
  BY <1>2, <1>3, <1>4

\* The page's commands and the worker's start on one leave the tokens.
LEMMA PageStep ==
  ASSUME DavsInv, (\E c \in Cmds : ask(c) \/ command(c)) \/ worker PROVE DavsTypeOK' /\ Leaves
<1>1. /\ davs \in Session /\ kept \in KeptTokens /\ at \in Phases /\ asked \subseteq Cmds /\ asks \in Nat /\ faults \in Nat
      /\ amazon \in [reg : Reg, access : BOOLEAN, made : Nat]
  BY DEF DavsInv, DavsTypeOK
<1>2. UNCHANGED <<kept, amazon, faults>> /\ amazon.made \in Nat
  BY <1>1 DEF ask, command, worker
<1>3. CASE \E c \in Cmds : ask(c)
  BY <1>1, <1>2, <1>3 DEF ask, DavsTypeOK, Leaves, AmazonMoves
<1>4. ASSUME NEW c \in Cmds, command(c) PROVE DavsTypeOK' /\ Leaves
  <2>1. asked' \subseteq Cmds /\ UNCHANGED <<at, asks>>
    BY <1>1, <1>4 DEF command
  <2>2. davs' \in Session /\ davs'.refresh = davs.refresh
    <3>1. CASE davs' = davs
      BY <1>1, <3>1
    <3>2. ASSUME NEW s \in States, davs' = [davs EXCEPT !.cmd = c, !.state = s]
          PROVE  davs' \in Session /\ davs'.refresh = davs.refresh
      <4>1. davs' = [state |-> s, cmd |-> c, refresh |-> davs.refresh, until |-> davs.until, refused |-> davs.refused]
        BY <1>1, <3>2 DEF Session
      <4> QED
        BY <1>1, <4>1 DEF Session
    <3>3. davs.state \in States /\ "waiting" \in States /\ "busy" \in States
      BY <1>1 DEF Session, States
    <3>4. davs' = davs \/ \E s \in {"waiting", "busy", davs.state} : davs' = [davs EXCEPT !.cmd = c, !.state = s]
      BY <1>4 DEF command
    <3> QED
      BY <3>1, <3>2, <3>3, <3>4
  <2> QED
    BY <1>1, <1>2, <2>1, <2>2 DEF DavsTypeOK, Leaves, AmazonMoves
<1>5. CASE worker
  <2>1. PICK d : d = [davs EXCEPT !.cmd = Nothing]
    OBVIOUS
  <2>2. d \in Session /\ d.refresh = davs.refresh
    BY <1>1, <2>1 DEF Session
  <2>3. davs.cmd \in Cmds
    BY <1>1, <1>5 DEF worker, Session
  <2>4. /\ davs' = d \/ davs' = [d EXCEPT !.state = Registered] \/ davs' = [d EXCEPT !.state = "busy"]
        /\ at' = Phase(davs.cmd) /\ UNCHANGED <<asked, asks>>
    BY <1>5, <2>1 DEF worker, Go
  <2>5. Registered \in States /\ "busy" \in States
    BY DEF Registered, States
  <2>6. davs' \in Session /\ davs'.refresh = davs.refresh
    BY <2>2, <2>4, <2>5 DEF Session
  <2>7. at' \in Phases
    BY <2>3, <2>4 DEF Phase, Phases, Cmds
  <2> QED
    BY <1>1, <1>2, <2>4, <2>6, <2>7 DEF DavsTypeOK, Leaves, AmazonMoves
<1> QED
  BY <1>3, <1>4, <1>5

\* login_run leaves the tokens or takes those of a new registration.
LEMMA LoginStep == ASSUME DavsInv, Login PROVE DavsTypeOK' /\ (Leaves \/ Renews)
<1>1. /\ DavsTypeOK /\ davs \in Session /\ kept \in KeptTokens /\ asked \subseteq Cmds /\ asks \in Nat
      /\ amazon \in [reg : Reg, access : BOOLEAN, made : Nat] /\ amazon.made \in Nat
  BY DEF DavsInv, DavsTypeOK
<1>2. UNCHANGED <<asked, asks>> /\ faults' \in Nat
  <2>1. UNCHANGED <<asked, asks>> /\ (Fault \/ Fine)
    BY DEF Login, codepair, login_aborted, login_late, register_call, not_entered, registered, register_failed,
           Give_up, Go, request_failed, tokens_save, tokens_file
  <2> QED
    BY <1>1, <2>1, FaultCounted
<1>3. at' \in Phases
  BY DEF Login, codepair, login_aborted, login_late, register_call, not_entered, registered, register_failed,
         Give_up, Go, Phases
<1>4. CASE registered
  <2>1. /\ NewReg /\ davs' = [davs EXCEPT !.state = "on", !.refresh = amazon'.reg, !.until = "future"]
        /\ tokens_file([refresh |-> davs'.refresh, refused |-> davs'.refused])
    BY <1>4 DEF registered, Go, tokens_save
  <2>2. /\ amazon' \in [reg : Reg, access : BOOLEAN, made : Nat] /\ amazon'.reg = amazon.made + 1
        /\ amazon'.made = amazon.made + 1
    BY <1>1, <2>1, NewReg_Effect
  <2>3. PICK n \in Nat : n = amazon.made + 1
    BY <1>1
  <2>4. davs' = [state |-> "on", cmd |-> davs.cmd, refresh |-> n, until |-> "future", refused |-> davs.refused]
    BY <1>1, <2>1, <2>2, <2>3 DEF Session
  <2>5. davs' \in Session /\ davs'.refresh = n /\ davs'.refused \in BOOLEAN
    BY <1>1, <2>4 DEF Session, States, Reg
  <2>6. kept' \in KeptTokens /\ kept'.refresh \in {kept.refresh, n}
    <3>1. [refresh |-> davs'.refresh, refused |-> davs'.refused] \in KeptTokens
      BY <2>5 DEF KeptTokens, Reg
    <3> QED
      BY <1>1, <2>1, <2>5, <3>1, tokens_file_Effect
  <2> QED
    BY <1>1, <1>2, <1>3, <2>2, <2>3, <2>5, <2>6 DEF DavsTypeOK, Renews
<1>5. CASE ~registered
  <2>1. /\ davs' = davs \/ (\E s \in {"waiting", Registered} : davs' = [davs EXCEPT !.state = s])
        /\ UNCHANGED kept /\ (UNCHANGED amazon \/ NewReg)
    BY <1>5 DEF Login, codepair, login_aborted, login_late, register_call, not_entered, register_failed, Give_up, Go
  <2>2. "waiting" \in States /\ Registered \in States
    BY <1>1, Parts DEF States
  <2>3. davs' \in Session /\ davs'.refresh = davs.refresh
    BY <1>1, <2>1, <2>2, Parts
  <2>4. amazon' \in [reg : Reg, access : BOOLEAN, made : Nat] /\ AmazonMoves
    BY <1>1, <2>1, NewReg_Effect DEF AmazonMoves
  <2> QED
    BY <1>1, <1>2, <1>3, <2>1, <2>3, <2>4 DEF DavsTypeOK, Leaves
<1> QED
  BY <1>4, <1>5

\* logout_run leaves the tokens or forgets those of a registration that is gone.
LEMMA LogoutStep == ASSUME DavsInv, Logout PROVE DavsTypeOK' /\ (Leaves \/ Forgets)
<1>1. /\ DavsTypeOK /\ davs \in Session /\ kept \in KeptTokens /\ asked \subseteq Cmds /\ asks \in Nat
      /\ amazon \in [reg : Reg, access : BOOLEAN, made : Nat] /\ amazon.made \in Nat
  BY DEF DavsInv, DavsTypeOK
<1>2. CASE refresh_out
  <2>1. "deregister_fresh" \in Phases
    BY DEF Phases
  <2> QED
    BY <1>2, <2>1, token_refresh_Effect DEF refresh_out
<1>3. CASE refresh_out_refused \/ deregistered \/ deregister_gone
  <2>1. /\ tokens_clear
        /\ \/ ~Live /\ amazon' = amazon
           \/ Live /\ amazon' = [amazon EXCEPT !.reg = Nothing, !.access = FALSE]
    BY <1>3 DEF refresh_out_refused, deregistered, deregister_gone
  <2>2. /\ davs' \in Session /\ at' \in Phases /\ kept' \in KeptTokens /\ davs'.refresh = Nothing
        /\ kept'.refresh \in {kept.refresh, Nothing} /\ faults' \in Nat /\ UNCHANGED <<asked, asks>>
    BY <1>1, <2>1, tokens_clear_Effect
  <2>3. /\ amazon' \in [reg : Reg, access : BOOLEAN, made : Nat] /\ amazon'.made = amazon.made
        /\ amazon'.reg \in {amazon.reg, Nothing}
    BY <1>1, <2>1, AmazonLess
  <2>4. davs.refresh # Nothing => amazon'.reg # davs.refresh
    BY <1>1, <2>1 DEF Live
  <2> QED
    BY <1>1, <2>2, <2>3, <2>4 DEF DavsTypeOK, Forgets
<1>4. CASE refresh_out_failed \/ deregister_401 \/ deregister_failed
  <2>1. /\ davs' = davs \/ davs' = [davs EXCEPT !.until = "past"]
        /\ at' \in {"idle", "refresh_out"} /\ UNCHANGED <<kept, asked, asks>> /\ (Fault \/ Fine)
        /\ amazon' = amazon \/ amazon' = [amazon EXCEPT !.reg = Nothing, !.access = FALSE]
    BY <1>4 DEF refresh_out_failed, deregister_401, deregister_failed, Go, request_failed
  <2>2. davs' \in Session /\ davs'.refresh = davs.refresh
    BY <1>1, <2>1, Parts
  <2>3. amazon' \in [reg : Reg, access : BOOLEAN, made : Nat] /\ AmazonMoves
    BY <1>1, <2>1, AmazonLess DEF AmazonMoves
  <2>4. faults' \in Nat
    BY <1>1, <2>1, FaultCounted
  <2> QED
    BY <1>1, <2>1, <2>2, <2>3, <2>4 DEF DavsTypeOK, Leaves, Phases
<1> QED
  BY <1>2, <1>3, <1>4 DEF Logout

\* fetch_run leaves the tokens.
LEMMA FetchStep == ASSUME DavsInv, Fetch PROVE DavsTypeOK' /\ Leaves
<1>1. /\ DavsTypeOK /\ davs \in Session /\ kept \in KeptTokens /\ asked \subseteq Cmds /\ asks \in Nat
      /\ amazon \in [reg : Reg, access : BOOLEAN, made : Nat] /\ amazon.made \in Nat /\ davs.refused \in BOOLEAN
  BY DEF DavsInv, DavsTypeOK, Session
<1>2. CASE refresh_fetch
  <2>1. "ask" \in Phases
    BY DEF Phases
  <2> QED
    BY <1>2, <2>1, token_refresh_Effect DEF refresh_fetch
<1>3. CASE refresh_fetch_failed \/ fetch_refused \/ fetch_failed \/ (Fine /\ (Fetch_fails \/ (Go(davs, "download") /\ UNCHANGED <<kept, amazon>>)))
  <2>1. (Fault \/ Fine) /\ (Fetch_fails \/ (Go(davs, "download") /\ UNCHANGED <<kept, amazon>>))
    BY <1>3 DEF refresh_fetch_failed, fetch_refused, fetch_failed, request_failed
  <2>2. faults' \in Nat
    BY <1>1, <2>1, FaultCounted
  <2>3. /\ davs' = davs \/ davs' = [davs EXCEPT !.state = "on"]
        /\ at' \in Phases /\ UNCHANGED <<kept, amazon, asked, asks>>
    BY <2>1 DEF Fetch_fails, Go, Phases
  <2>4. davs' \in Session /\ davs'.refresh = davs.refresh
    BY <1>1, <2>3, Parts DEF States
  <2> QED
    BY <1>1, <2>2, <2>3, <2>4 DEF DavsTypeOK, Leaves, AmazonMoves
<1>4. CASE \E r \in BOOLEAN : Fetch_ends(r)
  BY <1>4, Fetch_ends_Effect
<1> QED
  BY <1>2, <1>3, <1>4 DEF Fetch, fetch_asked, download

\* A start loads the file's tokens; an hour, a token that lapses and a device
\* that is removed leave them.
LEMMA OutsideStep == ASSUME DavsInv, davs_start \/ HourPasses \/ Lapses \/ Removed PROVE DavsTypeOK' /\ (Leaves \/ Loads)
<1>1. /\ DavsTypeOK /\ davs \in Session /\ kept \in KeptTokens /\ at \in Phases /\ asked \subseteq Cmds /\ asks \in Nat
      /\ amazon \in [reg : Reg, access : BOOLEAN, made : Nat] /\ amazon.made \in Nat
  BY DEF DavsInv, DavsTypeOK
<1>2. faults' \in Nat /\ UNCHANGED <<kept, asks>>
  BY <1>1, FaultCounted DEF davs_start, HourPasses, Lapses, Removed
<1>3. amazon' \in [reg : Reg, access : BOOLEAN, made : Nat] /\ AmazonMoves
  BY <1>1, AmazonLess DEF davs_start, HourPasses, Lapses, Removed, AmazonMoves
<1>4. CASE davs_start
  <2>1. PICK until \in {"past", "future"} : davs' = tokens_load(until)
    BY <1>4 DEF davs_start
  <2>2. davs' = [state |-> IF kept.refresh = Nothing THEN "none" ELSE "on", cmd |-> Nothing,
                 refresh |-> kept.refresh, until |-> until, refused |-> kept.refused]
    BY <2>1 DEF tokens_load
  <2>4. davs' \in Session /\ davs'.refresh = kept.refresh /\ UNCHANGED <<kept, amazon>>
    BY <1>1, <1>4, <2>2 DEF Session, KeptTokens, States, davs_start
  <2>5. at' \in Phases /\ asked' \subseteq Cmds
    BY <1>4 DEF davs_start, Phases
  <2> QED
    BY <1>1, <1>2, <1>3, <1>4, <2>4, <2>5 DEF DavsTypeOK, Loads
<1>5. CASE ~davs_start
  <2>1. UNCHANGED <<at, asked>> /\ (davs' = davs \/ davs' = [davs EXCEPT !.until = "past"])
    BY <1>5 DEF HourPasses, Lapses, Removed
  <2>2. davs' \in Session /\ davs'.refresh = davs.refresh
    BY <1>1, <2>1, Parts
  <2> QED
    BY <1>1, <1>2, <1>3, <2>1, <2>2 DEF DavsTypeOK, Leaves
<1> QED
  BY <1>4, <1>5

\* Every step leaves the tokens, forgets dead ones, takes new ones or loads
\* the file's.
LEMMA TokenSteps == ASSUME DavsInv, [DNext]_dvars PROVE DavsTypeOK' /\ (Leaves \/ Forgets \/ Renews \/ Loads)
<1>1. CASE UNCHANGED dvars
  <2>1. amazon.made \in Nat
    BY DEF DavsInv, DavsTypeOK
  <2> QED
    BY <1>1, <2>1 DEF dvars, DavsInv, DavsTypeOK, Leaves, AmazonMoves
<1> QED
  BY <1>1, PageStep, LoginStep, LogoutStep, FetchStep, OutsideStep DEF DNext

\* Every step of davs.c keeps the invariant, and a token that is still of use.
LEMMA DavsStep == DavsInv /\ [DNext]_dvars => DavsInv' /\ KeepsLiveTokens
<1> SUFFICES ASSUME DavsInv, [DNext]_dvars PROVE DavsInv' /\ KeepsLiveTokens
  OBVIOUS
<1>1. DavsTypeOK' /\ (Leaves \/ Forgets \/ Renews \/ Loads)
  BY TokenSteps
<1>2. /\ davs.refresh # Nothing => davs.refresh <= amazon.made
      /\ kept.refresh # Nothing => kept.refresh <= amazon.made
      /\ kept.refresh # Nothing /\ kept.refresh # davs.refresh => amazon.reg # kept.refresh
      /\ amazon.made \in Nat /\ davs.refresh \in Reg /\ kept.refresh \in Reg /\ amazon'.made \in Nat
      /\ Nothing \notin Nat
  BY <1>1, DavsAssumption DEF DavsInv, DavsTypeOK, Session, KeptTokens
<1>3. CASE Leaves
  BY <1>1, <1>2, <1>3 DEF Leaves, AmazonMoves, DavsInv, KeepsLiveTokens, Reg
<1>4. CASE Forgets
  BY <1>1, <1>2, <1>4 DEF Forgets, DavsInv, KeepsLiveTokens, Reg
<1>5. CASE Renews
  BY <1>1, <1>2, <1>5 DEF Renews, DavsInv, KeepsLiveTokens, Reg
<1>6. CASE Loads
  BY <1>1, <1>2, <1>6 DEF Loads, DavsInv, KeepsLiveTokens, Reg
<1> QED
  BY <1>1, <1>3, <1>4, <1>5, <1>6

\* At the start there is no registration.
LEMMA DavsInitHolds == DInit => DavsInv
<1> SUFFICES ASSUME DInit PROVE DavsInv
  OBVIOUS
<1>1. /\ davs = [state |-> "none", cmd |-> Nothing, refresh |-> Nothing, until |-> "past", refused |-> FALSE]
      /\ at = "idle" /\ kept = [refresh |-> Nothing, refused |-> FALSE]
      /\ amazon = [reg |-> Nothing, access |-> FALSE, made |-> 0] /\ asked = {} /\ asks = 0 /\ faults = 0
  BY DEF DInit
<1>2. DavsTypeOK
  BY <1>1 DEF DavsTypeOK, Session, States, Phases, KeptTokens, Reg
<1> QED
  BY <1>1, <1>2 DEF DavsInv

\* The tokens of davs.c are of registrations Amazon made, and where the file's
\* are not the ones in memory, as after a write that failed, Amazon no longer
\* holds the file's: over every lost answer, failed write and restart.
THEOREM DavsInvariant == DSpec => []DavsInv
<1>1. DavsInv /\ [DNext]_dvars => DavsInv'
  BY DavsStep
<1> QED
  BY <1>1, DavsInitHolds, PTL DEF DSpec

\* logout_run, login_run and davs_start never lose a token that can still take
\* the Echo off the account, for any number of registrations and faults, unless
\* its save failed and hassmic restarted before the next one.
THEOREM TokensHold == DSpec => LiveTokensKept
<1>1. DavsInv /\ [DNext]_dvars => [KeepsLiveTokens]_dvars
  BY DavsStep
<1> QED
  BY <1>1, DavsInvariant, PTL DEF DSpec, LiveTokensKept

(***************************************************************************)
(* web.c: any browsers, window and requests, any writes that fail.  A      *)
(* request counts once as long as no start reads a file left behind        *)
(***************************************************************************)

\* signed_ok's tables: what must not be done twice puts its counter on disk.
LEMMA Kept == ASSUME NEW n \in 1 .. MaxCtr, Does(n) PROVE persist(n)
<1> DEFINE a == AskFor[n].api
           c == AskFor[n].call
<1>1. a \in DOMAIN Apis /\ c \in DOMAIN Apis[a]
  BY WebAssumption
<1>2. a \in {"artifact", "sound", "pack", "timer", "mww", "ring", "davs", "wifi", "screen", "mass", "page"}
  BY <1>1 DEF Apis
<1>3. CASE a = "artifact"
  <2>1. Apis[a] = artifact_api
    BY <1>3 DEF Apis
  <2> QED
    BY <1>1, <2>1 DEF artifact_api, Does, Harmless, persist
<1>4. CASE a = "sound"
  <2>1. Apis[a] = sound_api
    BY <1>4 DEF Apis
  <2> QED
    BY <1>1, <2>1 DEF sound_api, Does, Harmless, persist
<1>5. CASE a = "pack"
  <2>1. Apis[a] = sound_pack_api
    BY <1>5 DEF Apis
  <2> QED
    BY <1>1, <2>1 DEF sound_pack_api, Does, Harmless, persist
<1>6. CASE a = "timer"
  <2>1. Apis[a] = timer_sound_api
    BY <1>6 DEF Apis
  <2> QED
    BY <1>1, <2>1 DEF timer_sound_api, Does, Harmless, persist
<1>7. CASE a = "mww"
  <2>1. Apis[a] = mww_api
    BY <1>7 DEF Apis
  <2> QED
    BY <1>1, <2>1 DEF mww_api, Does, Harmless, persist
<1>8. CASE a = "ring"
  <2>1. Apis[a] = ring_api
    BY <1>8 DEF Apis
  <2> QED
    BY <1>1, <2>1 DEF ring_api, Does, Harmless, persist
<1>9. CASE a = "davs"
  <2>1. Apis[a] = davs_api
    BY <1>9 DEF Apis
  <2> QED
    BY <1>1, <2>1 DEF davs_api, Does, Harmless, persist
<1>10. CASE a = "wifi"
  <2>1. Apis[a] = wifi_api
    BY <1>10 DEF Apis
  <2> QED
    BY <1>1, <2>1 DEF wifi_api, Does, Harmless, persist
<1>11. CASE a = "screen"
  <2>1. Apis[a] = screen_api
    BY <1>11 DEF Apis
  <2> QED
    BY <1>1, <2>1 DEF screen_api, Does, Harmless, persist
<1>12. CASE a = "mass"
  <2>1. Apis[a] = mass_api
    BY <1>12 DEF Apis
  <2> QED
    BY <1>1, <2>1 DEF mass_api, Does, Harmless, persist
<1>13. CASE a = "page"
  <2>1. Apis[a] = page_api
    BY <1>13 DEF Apis
  <2> QED
    BY <1>1, <2>1 DEF page_api, Does, Harmless, persist
<1> QED
  BY <1>2, <1>3, <1>4, <1>5, <1>6, <1>7, <1>8, <1>9, <1>10, <1>11, <1>12, <1>13

\* The least counter of a window.
LEMMA Lowest == ASSUME NEW S \in SUBSET Nat, S # {} PROVE Min(S) \in S /\ \A y \in S : Min(S) <= y
<1>1. \E x \in S : \A y \in S : ~(<<y, x>> \in OpToRel(<, Nat))
  BY WFMin, NatLessThanWellFounded
<1>3. PICK x \in S : \A y \in S : ~(<<y, x>> \in OpToRel(<, Nat))
  BY <1>1
<1>4. ASSUME NEW y \in S PROVE x =< y
  <2>1. ~(y < x)
    BY <1>3, <1>4 DEF OpToRel
  <2> QED
    BY <2>1
<1>2. \E z \in S : \A y \in S : z =< y
  BY <1>4
<1> QED
  BY <1>2 DEF Min

Client == [pub : Browsers, ctr : Nat, floor : Nat, seen : {S \in SUBSET Nat : IsFiniteSet(S)}]
Line == [pub : Browsers, ctr : Nat]

\* What is done is below the floor or in the window, and not above the counter on disk; who is not approved has done nothing.
Below(c, d, n) == n <= d.ctr /\ (n <= c.floor \/ n \in c.seen)
Good(cs, ds, dn) ==
  /\ cs \in Seq(Client) /\ ds \in Seq(Line) /\ Len(ds) = Len(cs) /\ dn \in [Browsers -> SUBSET Nat]
  /\ \A i \in 1 .. Len(cs) : ds[i].pub = cs[i].pub /\ ds[i].ctr <= cs[i].ctr
  /\ \A i, j \in 1 .. Len(cs) : cs[i].pub = cs[j].pub => i = j
  /\ \A i \in 1 .. Len(cs) : \A n \in dn[cs[i].pub] : Below(cs[i], ds[i], n)
  /\ \A b \in Browsers : dn[b] = {} \/ \E i \in 1 .. Len(cs) : cs[i].pub = b

\* In memory it is always so; in the file unless the last write failed.
Held(cs, ds, dn, behind) == Good(cs, Lines(cs), dn) /\ (behind \/ Good(cs, ds, dn))

WGood ==
  /\ Held(clients, disk, done, saves.behind) /\ ~twice
  /\ loginAsk.state = "waits" => loginAsk.pub \in Browsers

WInv == saves \in [failed : Nat, behind : BOOLEAN, stale : BOOLEAN] /\ (saves.stale \/ WGood)

\* The lines save_clients writes: one for each approved browser, in their order.
LEMMA LinesType ==
  ASSUME NEW cs \in Seq(Client)
  PROVE  /\ Lines(cs) \in Seq(Line) /\ Len(Lines(cs)) = Len(cs)
         /\ \A i \in 1 .. Len(cs) : Lines(cs)[i].pub = cs[i].pub /\ Lines(cs)[i].ctr = cs[i].ctr
<1>1. DOMAIN cs = 1 .. Len(cs) /\ Len(cs) \in Nat /\ \A i \in 1 .. Len(cs) : cs[i] \in Client
  OBVIOUS
<1>2. \A i \in 1 .. Len(cs) : [pub |-> cs[i].pub, ctr |-> cs[i].ctr] \in Line
  BY <1>1 DEF Client, Line
<1>3. Lines(cs) \in [1 .. Len(cs) -> Line]
  BY <1>1, <1>2 DEF Lines
<1> QED
  BY <1>1, <1>3 DEF Lines

\* save_clients: the file only gets ahead.
LEMMA Saved == ASSUME NEW cs, NEW ds, NEW dn, Good(cs, ds, dn) PROVE Good(cs, Lines(cs), dn)
<1>1. cs \in Seq(Client) /\ \A i \in 1 .. Len(cs) : cs[i] \in Client /\ ds[i] \in Line
  BY DEF Good
<1>2. \A i \in 1 .. Len(cs) : \A n \in dn[cs[i].pub] : Below(cs[i], Lines(cs)[i], n)
  <2>1. SUFFICES ASSUME NEW i \in 1 .. Len(cs), NEW n \in dn[cs[i].pub] PROVE Below(cs[i], Lines(cs)[i], n)
    OBVIOUS
  <2>2. n \in Nat /\ cs[i].ctr \in Nat /\ ds[i].ctr \in Nat /\ ds[i].ctr <= cs[i].ctr /\ Below(cs[i], ds[i], n)
    BY <1>1 DEF Good, Client, Line
  <2> QED
    BY <1>1, <2>2, LinesType DEF Below
<1>4. \A i \in 1 .. Len(cs) : cs[i].ctr \in Nat
  BY <1>1 DEF Client
<1>3. \A i \in 1 .. Len(cs) : Lines(cs)[i].ctr <= cs[i].ctr
  BY <1>1, <1>4, LinesType
<1> QED
  BY <1>1, <1>2, <1>3, LinesType DEF Good

\* ctr_take: the window and the floor still cover what they covered, and the request.
LEMMA Takes ==
  ASSUME NEW c \in Client, NEW n \in Nat
  PROVE  LET t == ctr_take(c, n) IN
           /\ t \in Client /\ t.pub = c.pub /\ t.ctr >= c.ctr /\ t.ctr >= n /\ n \in t.seen
           /\ \A m \in Nat : m <= c.floor \/ m \in c.seen => m <= t.floor \/ m \in t.seen
<1> DEFINE full == Cardinality(c.seen) = CtrWindow
           low == Min(c.seen)
<1>1. c.seen \in SUBSET Nat /\ IsFiniteSet(c.seen) /\ c.floor \in Nat /\ c.ctr \in Nat /\ c.pub \in Browsers
  BY DEF Client
<1>2. full => low \in c.seen /\ low \in Nat
  <2>1. full => c.seen # {}
    BY WebAssumption, FS_EmptySet
  <2> QED
    BY <1>1, <2>1, Lowest
<1>3. PICK S : S = (IF full THEN c.seen \ {low} ELSE c.seen) \cup {n}
  OBVIOUS
<1>4. PICK f : f = IF full /\ low > c.floor THEN low ELSE c.floor
  OBVIOUS
<1>5. PICK k : k = IF n > c.ctr THEN n ELSE c.ctr
  OBVIOUS
<1>6. ctr_take(c, n) = [c EXCEPT !.seen = S, !.floor = f, !.ctr = k]
  BY <1>3, <1>4, <1>5, Zenon DEF ctr_take
<1>7. S \in SUBSET Nat /\ n \in S
  BY <1>1, <1>3
<1>8. IsFiniteSet(S)
  <2>1. IsFiniteSet(c.seen \ {low})
    BY <1>1, FS_RemoveElement
  <2> QED
    BY <1>1, <1>3, <2>1, FS_AddElement
<1>9. f \in Nat /\ k \in Nat /\ k >= c.ctr /\ k >= n
  BY <1>1, <1>2, <1>4, <1>5
<1>10. PICK F : F = {T \in SUBSET Nat : IsFiniteSet(T)}
  OBVIOUS
<1>11. S \in F /\ c \in [pub : Browsers, ctr : Nat, floor : Nat, seen : F]
  BY <1>7, <1>8, <1>10 DEF Client
<1>12. PICK t : t = [c EXCEPT !.seen = S, !.floor = f, !.ctr = k]
  OBVIOUS
<1>13. /\ t \in [pub : Browsers, ctr : Nat, floor : Nat, seen : F]
       /\ t.pub = c.pub /\ t.ctr = k /\ t.floor = f /\ t.seen = S
  BY <1>9, <1>11, <1>12
<1>14. t \in Client
  BY <1>10, <1>13 DEF Client
<1>15. ASSUME NEW m \in Nat, m <= c.floor \/ m \in c.seen PROVE m <= f \/ m \in S
  <2>1. CASE full /\ m = low
    BY <1>1, <1>2, <1>4, <2>1
  <2>2. CASE ~(full /\ m = low) /\ m \in c.seen
    BY <1>3, <2>2
  <2>3. CASE m <= c.floor
    BY <1>1, <1>2, <1>4, <2>3
  <2> QED
    BY <1>15, <2>1, <2>2, <2>3
<1> QED
  BY <1>6, <1>7, <1>9, <1>12, <1>13, <1>14, <1>15

\* The approved browsers alone: one entry each, and each covers what its browser has done.
Sound(cs, dn) ==
  /\ cs \in Seq(Client) /\ dn \in [Browsers -> SUBSET Nat]
  /\ \A i, j \in 1 .. Len(cs) : cs[i].pub = cs[j].pub => i = j
  /\ \A i \in 1 .. Len(cs) : \A n \in dn[cs[i].pub] : Below(cs[i], cs[i], n)
Has(cs, b) == \E i \in DOMAIN cs : cs[i].pub = b
Forget(cs, dn) == [b \in Browsers |-> IF \E i \in DOMAIN cs : cs[i].pub = b THEN dn[b] ELSE {}]

\* What the file's counter covers the browser's own counter covers as well.
LEMMA GoodIsSound == ASSUME NEW cs, NEW ds, NEW dn, Good(cs, ds, dn) PROVE Sound(cs, dn)
<1>1. cs \in Seq(Client) /\ \A i \in 1 .. Len(cs) : cs[i] \in Client /\ ds[i] \in Line
  BY DEF Good
<1>2. ASSUME NEW i \in 1 .. Len(cs), NEW n \in dn[cs[i].pub] PROVE Below(cs[i], cs[i], n)
  <2>1. n \in Nat /\ cs[i].ctr \in Nat /\ ds[i].ctr \in Nat /\ ds[i].ctr <= cs[i].ctr /\ Below(cs[i], ds[i], n)
    BY <1>1 DEF Good, Client, Line
  <2> QED
    BY <2>1 DEF Below
<1> QED
  BY <1>1, <1>2 DEF Good, Sound

\* A list written to disk, when what others did is forgotten.
LEMMA SoundIsGood == ASSUME NEW cs, NEW dn, Sound(cs, dn) PROVE Good(cs, Lines(cs), Forget(cs, dn))
<1>7. cs \in Seq(Client) /\ DOMAIN cs = 1 .. Len(cs) /\ \A i \in 1 .. Len(cs) : cs[i] \in Client
  BY DEF Sound
<1>1. /\ cs \in Seq(Client) /\ DOMAIN cs = 1 .. Len(cs)
      /\ \A i \in 1 .. Len(cs) : cs[i] \in Client /\ cs[i].pub \in Browsers /\ cs[i].ctr \in Nat
  BY <1>7 DEF Client
<1>2. Forget(cs, dn) \in [Browsers -> SUBSET Nat]
  BY DEF Sound, Forget
<1>3. \A i \in 1 .. Len(cs) : Forget(cs, dn)[cs[i].pub] = dn[cs[i].pub]
  BY <1>1 DEF Forget
<1>4. \A b \in Browsers : Forget(cs, dn)[b] = {} \/ \E i \in 1 .. Len(cs) : cs[i].pub = b
  BY <1>1 DEF Forget
<1>5. ASSUME NEW i \in 1 .. Len(cs), NEW n \in Forget(cs, dn)[cs[i].pub] PROVE Below(cs[i], Lines(cs)[i], n)
  <2>1. Below(cs[i], cs[i], n)
    BY <1>3 DEF Sound
  <2> QED
    BY <1>1, <2>1, LinesType DEF Below
<1>6. \A i \in 1 .. Len(cs) : Lines(cs)[i].pub = cs[i].pub /\ Lines(cs)[i].ctr <= cs[i].ctr
  BY <1>1, LinesType
<1> QED
  BY <1>1, <1>2, <1>4, <1>5, <1>6, LinesType DEF Good, Sound

\* memmove: what is left of a list without one of its entries.
LEMMA WithoutSound ==
  ASSUME NEW cs, NEW dn, Sound(cs, dn), NEW k \in 1 .. Len(cs)
  PROVE  /\ Sound(Without(cs, k), dn)
         /\ \A b : Has(Without(cs, k), b) <=> b # cs[k].pub /\ Has(cs, b)
<1> DEFINE ws == Without(cs, k)
           from(i) == IF i < k THEN i ELSE i + 1
<1>1. cs \in Seq(Client) /\ Len(cs) \in Nat /\ DOMAIN cs = 1 .. Len(cs) /\ \A i \in 1 .. Len(cs) : cs[i] \in Client
  BY DEF Sound
<1>2. /\ \A i \in 1 .. Len(cs) - 1 : from(i) \in 1 .. Len(cs) /\ from(i) # k
      /\ \A i, j \in 1 .. Len(cs) - 1 : from(i) = from(j) => i = j
      /\ \A i \in 1 .. Len(cs) : i # k => \E j \in 1 .. Len(cs) - 1 : from(j) = i
  <2>1. \A i \in 1 .. Len(cs) - 1 : from(i) \in 1 .. Len(cs) /\ from(i) # k
    BY <1>1
  <2>2. \A i, j \in 1 .. Len(cs) - 1 : from(i) = from(j) => i = j
    BY <1>1
  <2>3. ASSUME NEW i \in 1 .. Len(cs), i # k PROVE \E j \in 1 .. Len(cs) - 1 : from(j) = i
    <3>1. CASE i < k
      <4>1. i \in 1 .. Len(cs) - 1 /\ from(i) = i
        BY <1>1, <3>1
      <4> QED
        BY <4>1
    <3>2. CASE i > k
      <4>1. i - 1 \in 1 .. Len(cs) - 1 /\ from(i - 1) = i
        BY <1>1, <3>2
      <4> QED
        BY <4>1
    <3> QED
      BY <1>1, <2>3, <3>1, <3>2
  <2> QED
    BY <2>1, <2>2, <2>3
<1>3. ws = [i \in 1 .. Len(cs) - 1 |-> cs[from(i)]]
  BY DEF Without
<1> HIDE DEF ws, from
<1>4. ws \in [1 .. Len(cs) - 1 -> Client]
  BY <1>1, <1>2, <1>3
<1>5. Len(cs) - 1 \in Nat
  BY <1>1
<1>6. ws \in Seq(Client) /\ Len(ws) = Len(cs) - 1 /\ DOMAIN ws = 1 .. Len(cs) - 1
  BY <1>4, <1>5
<1>7. \A i \in 1 .. Len(ws) : ws[i] = cs[from(i)] /\ from(i) \in 1 .. Len(cs) /\ from(i) # k
  BY <1>2, <1>3, <1>6
<1>8. \A i, j \in 1 .. Len(ws) : ws[i].pub = ws[j].pub => i = j
  <2>1. SUFFICES ASSUME NEW i \in 1 .. Len(ws), NEW j \in 1 .. Len(ws), ws[i].pub = ws[j].pub PROVE i = j
    OBVIOUS
  <2>2. from(i) = from(j)
    BY <1>7, <2>1 DEF Sound
  <2> QED
    BY <1>2, <1>6, <2>2
<1>9. \A i \in 1 .. Len(ws) : \A n \in dn[ws[i].pub] : Below(ws[i], ws[i], n)
  BY <1>7 DEF Sound
<1>10. Sound(ws, dn)
  BY <1>6, <1>8, <1>9 DEF Sound
<1>11. ASSUME NEW b PROVE Has(ws, b) <=> b # cs[k].pub /\ Has(cs, b)
  <2>1. ASSUME NEW i \in DOMAIN ws, ws[i].pub = b PROVE b # cs[k].pub /\ \E j \in DOMAIN cs : cs[j].pub = b
    <3>1. ws[i] = cs[from(i)] /\ from(i) \in 1 .. Len(cs) /\ from(i) # k
      BY <1>6, <1>7, <2>1
    <3> QED
      BY <1>1, <2>1, <3>1 DEF Sound
  <2>2. ASSUME NEW i \in DOMAIN cs, cs[i].pub = b, b # cs[k].pub PROVE \E j \in DOMAIN ws : ws[j].pub = b
    <3>1. PICK j \in 1 .. Len(cs) - 1 : from(j) = i
      BY <1>1, <1>2, <2>2
    <3> QED
      BY <1>6, <1>7, <2>2, <3>1
  <2> QED
    BY <2>1, <2>2 DEF Has
<1> QED
  BY <1>10, <1>11 DEF ws

\* The oldest goes.
LEMMA TailSound ==
  ASSUME NEW cs, NEW dn, Sound(cs, dn), cs # <<>>
  PROVE  Sound(Tail(cs), dn) /\ \A b : Has(Tail(cs), b) => Has(cs, b)
<1>1. cs \in Seq(Client) /\ Len(cs) \in Nat /\ Len(cs) # 0
  BY DEF Sound
<1>2. PICK k \in 1 .. Len(cs) : k = 1
  BY <1>1
<1>3. PICK ts, ws : ts = Tail(cs) /\ ws = Without(cs, k)
  OBVIOUS
<1>4. ts \in Seq(Client) /\ Len(ts) = Len(cs) - 1 /\ \A i \in 1 .. Len(cs) - 1 : ts[i] = cs[i + 1]
  BY <1>1, <1>3
<1>5. ws = [i \in 1 .. Len(cs) - 1 |-> cs[IF i < k THEN i ELSE i + 1]]
  BY <1>3 DEF Without
<1>6. \A i \in 1 .. Len(cs) - 1 : ws[i] = cs[i + 1]
  BY <1>1, <1>2, <1>5
<1>7. ts = ws
  <2>1. PICK m : m = Len(cs) - 1
    OBVIOUS
  <2>2. ts = [i \in 1 .. m |-> ts[i]]
    BY <1>4, <2>1
  <2>3. ws = [i \in 1 .. m |-> ws[i]]
    BY <1>5, <2>1
  <2> QED
    BY <1>4, <1>6, <2>1, <2>2, <2>3
<1>8. Sound(Without(cs, k), dn) /\ \A b : Has(Without(cs, k), b) <=> b # cs[k].pub /\ Has(cs, b)
  BY WithoutSound
<1> QED
  BY <1>3, <1>7, <1>8, Zenon

\* add_client's new entry: the browser has done nothing yet.
LEMMA AppendSound ==
  ASSUME NEW cs, NEW dn, Sound(cs, dn), NEW b \in Browsers, dn[b] = {}, \A i \in 1 .. Len(cs) : cs[i].pub # b
  PROVE  Sound(Append(cs, [pub |-> b, ctr |-> 0, floor |-> 0, seen |-> {}]), dn)
<1>1. PICK c : c = [pub |-> b, ctr |-> 0, floor |-> 0, seen |-> {}]
  OBVIOUS
<1>2. c \in Client /\ c.pub = b
  <2>1. {} \in {S \in SUBSET Nat : IsFiniteSet(S)}
    BY FS_EmptySet
  <2> QED
    BY <1>1, <2>1 DEF Client
<1>3. PICK as : as = Append(cs, c)
  OBVIOUS
<1>4. cs \in Seq(Client) /\ Len(cs) \in Nat
  BY DEF Sound
<1>5. as \in Seq(Client) /\ Len(as) = Len(cs) + 1 /\ (\A i \in 1 .. Len(cs) : as[i] = cs[i]) /\ as[Len(cs) + 1] = c
  BY <1>2, <1>3, <1>4
<1>6. \A i, j \in 1 .. Len(as) : as[i].pub = as[j].pub => i = j
  <2>1. SUFFICES ASSUME NEW i \in 1 .. Len(as), NEW j \in 1 .. Len(as), as[i].pub = as[j].pub PROVE i = j
    OBVIOUS
  <2>2. (i \in 1 .. Len(cs) \/ i = Len(cs) + 1) /\ (j \in 1 .. Len(cs) \/ j = Len(cs) + 1)
    BY <1>4, <1>5
  <2> QED
    BY <1>2, <1>5, <2>1, <2>2 DEF Sound
<1>7. \A i \in 1 .. Len(as) : \A n \in dn[as[i].pub] : Below(as[i], as[i], n)
  <2>1. SUFFICES ASSUME NEW i \in 1 .. Len(as), NEW n \in dn[as[i].pub] PROVE Below(as[i], as[i], n)
    OBVIOUS
  <2>2. i \in 1 .. Len(cs) \/ i = Len(cs) + 1
    BY <1>4, <1>5
  <2>3. i \in 1 .. Len(cs)
    BY <1>2, <1>5, <2>1, <2>2
  <2> QED
    BY <1>5, <2>1, <2>3 DEF Sound
<1> QED
  BY <1>1, <1>3, <1>5, <1>6, <1>7 DEF Sound

Taken(cs, k, n) == [cs EXCEPT ![k] = ctr_take(cs[k], n)]

\* signed_ok's ctr_take on one entry of the list leaves it a good list.
LEMMA TakenGood ==
  ASSUME NEW cs, NEW ds, NEW dn, Good(cs, ds, dn), NEW k \in 1 .. Len(cs), NEW n \in Nat
  PROVE  LET ts == Taken(cs, k, n) IN
           /\ Good(ts, ds, dn) /\ Len(ts) = Len(cs) /\ \A i \in 1 .. Len(cs) : ts[i].pub = cs[i].pub
           /\ ts[k].ctr >= n /\ n \in ts[k].seen
<1>9. PICK ts : ts = [cs EXCEPT ![k] = ctr_take(cs[k], n)]
  OBVIOUS
<1>1. cs \in Seq(Client) /\ Len(cs) \in Nat /\ \A i \in 1 .. Len(cs) : cs[i] \in Client /\ ds[i] \in Line
  BY DEF Good
<1>2. PICK t : t = ctr_take(cs[k], n)
  OBVIOUS
<1>3. /\ t \in Client /\ t.pub = cs[k].pub /\ t.ctr >= cs[k].ctr /\ t.ctr >= n /\ n \in t.seen
      /\ \A m \in Nat : m <= cs[k].floor \/ m \in cs[k].seen => m <= t.floor \/ m \in t.seen
  BY <1>1, <1>2, Takes, Zenon
<1>4. ts \in Seq(Client) /\ Len(ts) = Len(cs) /\ ts[k] = t /\ \A i \in 1 .. Len(cs) : i # k => ts[i] = cs[i]
  BY <1>1, <1>2, <1>3, <1>9
<1>5. \A i \in 1 .. Len(cs) : ts[i].pub = cs[i].pub
  BY <1>3, <1>4
<1>6. ASSUME NEW i \in 1 .. Len(cs) PROVE ds[i].pub = ts[i].pub /\ ds[i].ctr <= ts[i].ctr
  <2>1. cs[i].ctr \in Nat /\ ts[i].ctr \in Nat /\ ds[i].ctr \in Nat
    <3>1. ts[i] \in Client
      BY <1>4
    <3> QED
      BY <1>1, <3>1 DEF Client, Line
  <2>2. ts[i].ctr >= cs[i].ctr
    BY <1>3, <1>4, <2>1
  <2> QED
    BY <1>5, <2>1, <2>2 DEF Good
<1>7. ASSUME NEW i \in 1 .. Len(cs), NEW m \in dn[ts[i].pub] PROVE Below(ts[i], ds[i], m)
  <2>1. m \in dn[cs[i].pub]
    BY <1>5, <1>7
  <2>2. Below(cs[i], ds[i], m)
    BY <2>1 DEF Good
  <2>3. CASE i = k
    <3>1. m \in Nat
      <4>1. cs[i].pub \in Browsers
        BY <1>1 DEF Client
      <4> QED
        BY <2>1, <4>1 DEF Good
    <3> QED
      BY <1>3, <1>4, <2>2, <2>3, <3>1 DEF Below
  <2>4. CASE i # k
    BY <1>4, <2>2, <2>4
  <2> QED
    BY <2>3, <2>4
<1>8. Good(ts, ds, dn)
  <2>1. ds \in Seq(Line) /\ Len(ds) = Len(ts) /\ dn \in [Browsers -> SUBSET Nat]
    BY <1>4 DEF Good
  <2>2. \A i, j \in 1 .. Len(ts) : ts[i].pub = ts[j].pub => i = j
    BY <1>4, <1>5 DEF Good
  <2>3. \A b \in Browsers : dn[b] = {} \/ \E i \in 1 .. Len(ts) : ts[i].pub = b
    BY <1>4, <1>5 DEF Good
  <2>4. \A i \in 1 .. Len(ts) : ds[i].pub = ts[i].pub /\ ds[i].ctr <= ts[i].ctr
    BY <1>4, <1>6
  <2>5. \A i \in 1 .. Len(ts) : \A m \in dn[ts[i].pub] : Below(ts[i], ds[i], m)
    BY <1>4, <1>7
  <2> QED
    BY <1>4, <2>1, <2>2, <2>3, <2>4, <2>5 DEF Good
<1>10. ts = Taken(cs, k, n)
  BY <1>9 DEF Taken
<1> QED
  BY <1>3, <1>4, <1>5, <1>8, <1>10

\* A request that counts, written to disk with its counter.
LEMMA MarkedGood ==
  ASSUME NEW cs, NEW dn, Good(cs, Lines(cs), dn), NEW k \in 1 .. Len(cs), NEW n \in Nat, cs[k].ctr >= n, n \in cs[k].seen,
         NEW dm, dm = [dn EXCEPT ![cs[k].pub] = dn[cs[k].pub] \cup {n}]
  PROVE  Good(cs, Lines(cs), dm)
<1>1. cs \in Seq(Client) /\ \A i \in 1 .. Len(cs) : cs[i] \in Client
  BY DEF Good
<1>2. \A i \in 1 .. Len(cs) : cs[i].pub \in Browsers /\ cs[i].ctr \in Nat
  BY <1>1 DEF Client
<1>3. dm \in [Browsers -> SUBSET Nat]
  BY <1>2 DEF Good
<1>4. ASSUME NEW i \in 1 .. Len(cs), NEW m \in dm[cs[i].pub] PROVE Below(cs[i], Lines(cs)[i], m)
  <2>1. CASE m \in dn[cs[i].pub]
    BY <2>1 DEF Good
  <2>2. CASE m \notin dn[cs[i].pub]
    <3>1. cs[i].pub = cs[k].pub /\ m = n
      BY <1>2, <1>4, <2>2 DEF Good
    <3>2. i = k
      BY <3>1 DEF Good
    <3> QED
      BY <1>1, <1>2, <3>1, <3>2, LinesType DEF Below
  <2> QED
    BY <2>1, <2>2
<1>5. \A b \in Browsers : dm[b] = {} \/ \E i \in 1 .. Len(cs) : cs[i].pub = b
  BY <1>2 DEF Good
<1> QED
  BY <1>1, <1>3, <1>4, <1>5 DEF Good

\* client_of finds the entry of a browser that has one.
LEMMA Position ==
  ASSUME WGood, NEW b, Known(b)
  PROVE  client_of(b) \in 1 .. Len(clients) /\ clients[client_of(b)].pub = b
<1>1. DOMAIN clients = 1 .. Len(clients)
  BY DEF WGood, Held, Good
<1> QED
  BY <1>1 DEF Known, client_of

\* ctr_fresh: what was done does not count again.
LEMMA NotAgain ==
  ASSUME WGood, NEW b \in Browsers, NEW n \in Nat, Known(b), ctr_fresh(clients[client_of(b)], n) PROVE n \notin done[b]
<1>1. PICK k \in 1 .. Len(clients) : clients[k].pub = b /\ ctr_fresh(clients[k], n)
  BY Position
<1>2. n \in done[b] => Below(clients[k], Lines(clients)[k], n)
  BY <1>1 DEF WGood, Held, Good
<1>3. clients[k] \in Client
  BY <1>1 DEF WGood, Held, Good
<1>4. clients[k].floor \in Nat
  BY <1>3 DEF Client
<1> QED
  BY <1>1, <1>2, <1>4 DEF Below, ctr_fresh

\* A write that fails leaves the file behind.
LEMMA FailEffect ==
  ASSUME saves \in [failed : Nat, behind : BOOLEAN, stale : BOOLEAN], save_fails
  PROVE  saves' \in [failed : Nat, behind : BOOLEAN, stale : BOOLEAN] /\ saves'.behind /\ saves'.stale = saves.stale
<1>1. saves' = [failed |-> saves.failed + 1, behind |-> TRUE, stale |-> saves.stale]
  BY DEF save_fails
<1> QED
  BY <1>1

\* save_clients writes the list, or the file stays behind.
LEMMA SaveEffect ==
  ASSUME NEW cs, NEW dn, Good(cs, Lines(cs), dn), save_clients(cs), saves \in [failed : Nat, behind : BOOLEAN, stale : BOOLEAN]
  PROVE  Held(cs, disk', dn, saves'.behind)
<1>1. CASE disk' = Lines(cs)
  BY <1>1, Zenon DEF Held
<1>2. CASE save_fails
  <2>1. saves'.behind
    BY <1>2, FailEffect
  <2> QED
    BY <2>1, Zenon DEF Held
<1> QED
  BY <1>1, <1>2 DEF save_clients

\* signed_ok's window and file; who asks is on the list.
LEMMA SignedStep ==
  ASSUME WGood, saves \in [failed : Nat, behind : BOOLEAN, stale : BOOLEAN],
         NEW b \in Browsers, NEW n \in 1 .. MaxCtr, signed_ok(b, n)
  PROVE  /\ Held(clients', disk', done', saves'.behind) /\ ~twice'
<1>1. Known(b) /\ ctr_fresh(clients[client_of(b)], n) /\ n \in Nat
  BY DEF signed_ok
<1>2. PICK k \in 1 .. Len(clients) : k = client_of(b) /\ clients[k].pub = b
  BY <1>1, Position
<1>3. clients' = [clients EXCEPT ![k] = ctr_take(clients[k], n)]
  BY <1>2 DEF signed_ok
<1>4. PICK ts : ts = clients' /\ ts = Taken(clients, k, n)
  BY <1>3 DEF Taken
<1>5. /\ Good(ts, Lines(clients), done) /\ Len(ts) = Len(clients) /\ ts[k].pub = b /\ ts[k].ctr >= n /\ n \in ts[k].seen
  <2>1. Good(clients, Lines(clients), done)
    BY DEF WGood, Held
  <2>2. /\ Good(ts, Lines(clients), done) /\ Len(ts) = Len(clients)
        /\ \A i \in 1 .. Len(clients) : ts[i].pub = clients[i].pub
        /\ ts[k].ctr >= n /\ n \in ts[k].seen
    <3>1. LET us == Taken(clients, k, n) IN
            /\ Good(us, Lines(clients), done) /\ Len(us) = Len(clients)
            /\ \A i \in 1 .. Len(clients) : us[i].pub = clients[i].pub
            /\ us[k].ctr >= n /\ n \in us[k].seen
      BY <1>1, <2>1, TakenGood, Zenon
    <3> QED
      BY <1>4, <3>1, Zenon
  <2> QED
    BY <1>2, <2>2
<1>6. Good(ts, Lines(ts), done)
  BY <1>5, Saved
<1>7. CASE ~Does(n)
  <2>1. done' = done /\ twice' = twice
    BY <1>7 DEF signed_ok
  <2>2. CASE persist(n)
    <3>1. save_clients(ts)
      BY <1>2, <1>3, <1>4, <2>2 DEF signed_ok
    <3> QED
      BY <1>4, <1>6, <2>1, <3>1, SaveEffect DEF WGood
  <2>3. CASE ~persist(n)
    <3>1. UNCHANGED <<disk, saves>>
      BY <2>3 DEF signed_ok
    <3>2. saves.behind \/ Good(ts, disk, done)
      BY <1>1, <1>4, TakenGood DEF WGood, Held
    <3> QED
      BY <1>4, <1>6, <2>1, <3>1, <3>2 DEF Held, WGood
  <2> QED
    BY <2>2, <2>3
<1>8. CASE Does(n)
  <2>1. save_clients(ts)
    BY <1>2, <1>3, <1>4, <1>8, Kept DEF signed_ok
  <2>2. done' = [done EXCEPT ![ts[k].pub] = done[ts[k].pub] \cup {n}]
    BY <1>5, <1>8 DEF signed_ok
  <2>3. k \in 1 .. Len(ts)
    BY <1>5
  <2>4. Good(ts, Lines(ts), done')
    BY <1>1, <1>5, <1>6, <2>2, <2>3, MarkedGood
  <2>5. ~twice'
    <3>1. twice' = (twice \/ n \in done[b])
      BY <1>8 DEF signed_ok
    <3>2. n \notin done[b]
      BY <1>1, NotAgain
    <3> QED
      BY <3>1, <3>2, Zenon DEF WGood
  <2> QED
    BY <1>4, <2>1, <2>4, <2>5, SaveEffect
<1> QED
  BY <1>7, <1>8

\* add_client: the oldest may go, and whoever is new has done nothing yet.
LEMMA AddStep ==
  ASSUME WGood, saves \in [failed : Nat, behind : BOOLEAN, stale : BOOLEAN], NEW b \in Browsers, add_client(b)
  PROVE  Held(clients', disk', done', saves'.behind)
<1>1. Sound(clients, done)
  BY GoodIsSound DEF WGood, Held
<1>2. PICK rest : rest = IF Len(clients) = MaxClients THEN Tail(clients) ELSE clients
  OBVIOUS
<1>3. PICK cs : cs = IF Known(b) THEN clients ELSE Append(rest, [pub |-> b, ctr |-> 0, floor |-> 0, seen |-> {}])
  OBVIOUS
<1>4. clients' = cs /\ save_clients(cs) /\ done' = Forget(cs, done)
  BY <1>2, <1>3, Zenon DEF add_client, Forgotten, Forget
<1>5. Sound(cs, done)
  <2>1. CASE Known(b)
    BY <1>1, <1>3, <2>1
  <2>2. CASE ~Known(b)
    <3>1. clients \in Seq(Client) /\ Len(clients) \in Nat /\ DOMAIN clients = 1 .. Len(clients)
      BY <1>1 DEF Sound
    <3>2. done[b] = {} /\ \A i \in 1 .. Len(clients) : clients[i].pub # b
      BY <2>2, <3>1 DEF Known, WGood, Held, Good
    <3>3. Sound(rest, done) /\ \A i \in 1 .. Len(rest) : rest[i].pub # b
      <4>1. CASE Len(clients) # MaxClients
        BY <1>1, <1>2, <3>2, <4>1
      <4>2. CASE Len(clients) = MaxClients
        <5>1. clients # <<>> /\ 1 \in 1 .. Len(clients)
          BY <3>1, <4>2, WebAssumption
        <5>3. Sound(rest, done) /\ \A c : Has(rest, c) => Has(clients, c)
          BY <1>1, <1>2, <4>2, <5>1, TailSound
        <5>4. DOMAIN rest = 1 .. Len(rest)
          BY <5>3 DEF Sound
        <5> QED
          BY <3>1, <3>2, <5>3, <5>4 DEF Has
      <4> QED
        BY <4>1, <4>2
    <3> QED
      BY <1>3, <2>2, <3>2, <3>3, AppendSound
  <2> QED
    BY <2>1, <2>2
<1>6. Good(cs, Lines(cs), Forget(cs, done))
  BY <1>5, SoundIsGood, Zenon
<1> QED
  BY <1>4, <1>6, SaveEffect

\* revoke: the request counts first, then the entry goes and the file is saved.
LEMMA RevokeStep ==
  ASSUME WGood, saves \in [failed : Nat, behind : BOOLEAN, stale : BOOLEAN],
         NEW b \in Browsers, NEW who \in Browsers, NEW n \in 1 .. MaxCtr, revoke(b, n, who)
  PROVE  Held(clients', disk', done', saves'.behind) /\ ~twice'
<1>1. Known(b) /\ ctr_fresh(clients[client_of(b)], n) /\ n \in Nat
  BY DEF revoke
<1>2. PICK k \in 1 .. Len(clients) : k = client_of(b) /\ clients[k].pub = b
  BY <1>1, Position
<1>3. PICK ts : ts = [clients EXCEPT ![k] = ctr_take(clients[k], n)]
  OBVIOUS
<1>4. PICK dm : dm = [done EXCEPT ![b] = done[b] \cup {n}]
  OBVIOUS
<1>5. PICK cs : cs = IF Known(who) THEN Without(ts, client_of(who)) ELSE ts
  OBVIOUS
<1>6. /\ clients' = cs /\ (save_clients(cs) \/ save_fails) /\ done' = [dm EXCEPT ![who] = {}]
      /\ twice' = (twice \/ n \in done[b])
  BY <1>2, <1>3, <1>4, <1>5, Zenon DEF revoke
<1>15. ASSUME Good(cs, Lines(cs), done') PROVE Held(clients', disk', done', saves'.behind)
  <2>1. CASE save_clients(cs)
    BY <1>6, <1>15, <2>1, SaveEffect
  <2>2. CASE save_fails
    BY <1>6, <1>15, <2>2 DEF save_fails, Held
  <2> QED
    BY <1>6, <2>1, <2>2
<1>7. ~twice'
  <2>1. n \notin done[b]
    BY <1>1, NotAgain
  <2> QED
    BY <1>6, <2>1, Zenon DEF WGood
<1>13. Good(clients, Lines(clients), done)
  BY DEF WGood, Held
<1>14. /\ Good(ts, Lines(clients), done) /\ Len(ts) = Len(clients) /\ \A i \in 1 .. Len(clients) : ts[i].pub = clients[i].pub
       /\ ts[k].ctr >= n /\ n \in ts[k].seen
  <2>1. ts = Taken(clients, k, n)
    BY <1>3 DEF Taken
  <2> QED
    BY <1>1, <1>13, <2>1, TakenGood
<1>8. /\ Good(ts, Lines(clients), done) /\ Len(ts) = Len(clients) /\ ts[k].pub = b /\ ts[k].ctr >= n /\ n \in ts[k].seen
      /\ \A i \in 1 .. Len(clients) : ts[i].pub = clients[i].pub
  BY <1>2, <1>14, Zenon
<1>9. Good(ts, Lines(ts), dm)
  <2>1. Good(ts, Lines(ts), done)
    BY <1>8, Saved
  <2> QED
    BY <1>1, <1>4, <1>8, <2>1, MarkedGood
<1>10. DOMAIN ts = 1 .. Len(ts) /\ dm \in [Browsers -> SUBSET Nat] /\ DOMAIN clients = 1 .. Len(clients)
  BY <1>9, <1>13 DEF Good
<1>11. CASE ~Known(who)
  <2>1. \A i \in 1 .. Len(ts) : ts[i].pub # who
    BY <1>8, <1>10, <1>11 DEF Known
  <2>2. dm[who] = {}
    BY <1>9, <2>1 DEF Good
  <2>3. done' = dm
    BY <1>6, <1>10, <2>2
  <2> QED
    BY <1>5, <1>7, <1>9, <1>11, <1>15, <2>3
<1>12. CASE Known(who)
  <2>1. PICK w \in 1 .. Len(ts) : w = client_of(who) /\ ts[w].pub = who
    BY <1>8, <1>12, Position
  <2>2. Sound(ts, dm)
    BY <1>9, GoodIsSound
  <2>3. Sound(cs, dm) /\ \A c : Has(cs, c) <=> c # who /\ Has(ts, c)
    <3>1. Sound(Without(ts, w), dm) /\ \A c : Has(Without(ts, w), c) <=> c # ts[w].pub /\ Has(ts, c)
      BY <2>2, WithoutSound
    <3>2. cs = Without(ts, w)
      BY <1>5, <1>12, <2>1
    <3> QED
      BY <2>1, <3>1, <3>2, Zenon
  <2>4. done' = Forget(cs, dm)
    <3>1. ASSUME NEW c \in Browsers PROVE done'[c] = Forget(cs, dm)[c]
      <4>1. dm[c] = {} \/ Has(ts, c)
        BY <1>9, <1>10 DEF Good, Has
      <4>2. done'[c] = IF c = who THEN {} ELSE dm[c]
        BY <1>6, <1>10
      <4>3. Forget(cs, dm)[c] = IF Has(cs, c) THEN dm[c] ELSE {}
        BY DEF Forget, Has
      <4> QED
        BY <2>3, <4>1, <4>2, <4>3
    <3>2. done' = [c \in Browsers |-> done'[c]]
      BY <1>6, <1>10
    <3>3. Forget(cs, dm) = [c \in Browsers |-> Forget(cs, dm)[c]]
      BY DEF Forget
    <3> QED
      BY <3>1, <3>2, <3>3
  <2>5. Good(cs, Lines(cs), Forget(cs, dm))
    BY <2>3, SoundIsGood, Zenon
  <2> QED
    BY <1>7, <1>15, <2>4, <2>5, Zenon
<1> QED
  BY <1>11, <1>12

\* web_start: the floor is the counter on disk, above all that was done.
LEMMA StartStep ==
  ASSUME Good(clients, disk, done), clients' = load_clients, UNCHANGED <<disk, done>> PROVE Good(clients', disk', done')
<1>1. disk \in Seq(Line) /\ DOMAIN disk = 1 .. Len(disk) /\ Len(disk) \in Nat /\ Len(disk) = Len(clients)
  BY DEF Good
<1>2. \A i \in 1 .. Len(disk) : disk[i] \in Line /\ disk[i].pub = clients[i].pub
  BY <1>1 DEF Good
<1>3. \A i \in 1 .. Len(disk) : disk[i].pub \in Browsers /\ disk[i].ctr \in Nat
  BY <1>2 DEF Line
<1>4. clients' = [i \in 1 .. Len(disk) |-> [pub |-> disk[i].pub, ctr |-> disk[i].ctr, floor |-> disk[i].ctr, seen |-> {}]]
  BY <1>1 DEF load_clients
<1>5. ASSUME NEW i \in 1 .. Len(disk)
      PROVE  [pub |-> disk[i].pub, ctr |-> disk[i].ctr, floor |-> disk[i].ctr, seen |-> {}] \in Client
  <2>1. {} \in {S \in SUBSET Nat : IsFiniteSet(S)}
    BY FS_EmptySet
  <2> QED
    BY <1>3, <2>1 DEF Client
<1>6. clients' \in [1 .. Len(disk) -> Client]
  BY <1>4, <1>5
<1>7. clients' \in Seq(Client) /\ Len(clients') = Len(disk)
  BY <1>1, <1>6
<1>8. \A i \in 1 .. Len(disk) : clients'[i].pub = disk[i].pub /\ clients'[i].ctr = disk[i].ctr
      /\ clients'[i].floor = disk[i].ctr
  BY <1>4
<1>9. \A i, j \in 1 .. Len(disk) : clients'[i].pub = clients'[j].pub => i = j
  BY <1>1, <1>2, <1>8 DEF Good
<1>10. ASSUME NEW i \in 1 .. Len(disk), NEW n \in done[clients'[i].pub] PROVE Below(clients'[i], disk[i], n)
  <2>1. Below(clients[i], disk[i], n)
    BY <1>1, <1>2, <1>8, <1>10 DEF Good
  <2> QED
    BY <1>8, <2>1 DEF Below
<1>11. \A b \in Browsers : done[b] = {} \/ \E i \in 1 .. Len(disk) : clients'[i].pub = b
  BY <1>1, <1>2, <1>8 DEF Good
<1>12. \A i \in 1 .. Len(disk) : disk[i].pub = clients'[i].pub /\ disk[i].ctr <= clients'[i].ctr
  BY <1>3, <1>8
<1> QED
  BY <1>1, <1>7, <1>9, <1>10, <1>11, <1>12 DEF Good

\* Before any browser is approved nothing was done.
LEMMA WInitHolds == WInit => WInv
<1> SUFFICES ASSUME WInit PROVE WInv
  OBVIOUS
<1>1. /\ clients = <<>> /\ disk = <<>> /\ loginAsk.state = "none" /\ done = [b \in Browsers |-> {}] /\ ~twice
      /\ saves = [failed |-> 0, behind |-> FALSE, stale |-> FALSE]
  BY DEF WInit, Idle
<1>2. clients \in Seq(Client) /\ disk \in Seq(Line) /\ Len(clients) = 0 /\ Len(disk) = 0
  BY <1>1
<1>3. Good(clients, disk, done)
  BY <1>1, <1>2 DEF Good
<1>4. Good(clients, Lines(clients), done)
  BY <1>3, Saved
<1> QED
  BY <1>1, <1>3, <1>4 DEF WInv, WGood, Held

\* Every step of web.c keeps the invariant.
LEMMA WStep == WInv /\ [WNext]_wvars => WInv'
<1> SUFFICES ASSUME WInv, [WNext]_wvars PROVE WInv'
  OBVIOUS
<1> DEFINE Type == [failed : Nat, behind : BOOLEAN, stale : BOOLEAN]
<1>20. saves \in Type
  BY DEF WInv
<1>21. saves' \in Type /\ (saves.stale => saves'.stale)
  <2>1. CASE save_fails
    BY <1>20, <2>1, FailEffect
  <2>2. CASE \E cs : save_clients(cs)
    BY <1>20, <2>1, <2>2 DEF save_clients
  <2>3. CASE UNCHANGED saves
    BY <1>20, <2>3
  <2>4. CASE web_start
    BY <1>20, <2>4 DEF web_start
  <2>5. ASSUME NEW b, add_client(b) PROVE \E cs : save_clients(cs)
    BY <2>5 DEF add_client
  <2>6. ASSUME NEW b, NEW n, signed_ok(b, n) PROVE UNCHANGED saves \/ \E cs : save_clients(cs)
    BY <2>6 DEF signed_ok
  <2>7. ASSUME NEW b, NEW n, NEW who, revoke(b, n, who) PROVE save_fails \/ \E cs : save_clients(cs)
    BY <2>7 DEF revoke
  <2>8. CASE listener \/ closed \/ expiry \/ \E b \in Browsers : login_ask(b) \/ vouch_nonce(b)
    BY <2>3, <2>8 DEF listener, closed, expiry, login_expire, login_ask, vouch_nonce
  <2>9. CASE web_approve
    BY <2>2, <2>3, <2>5, <2>9 DEF web_approve
  <2>10. ASSUME NEW b \in Browsers, vouch_login(b) PROVE saves' \in Type /\ (saves.stale => saves'.stale)
    BY <2>2, <2>3, <2>5, <2>10 DEF vouch_login
  <2>11. ASSUME NEW b \in Browsers, NEW n \in 1 .. MaxCtr, handle(b, n) \/ adb_ask(b, n)
         PROVE  saves' \in Type /\ (saves.stale => saves'.stale)
    BY <2>2, <2>3, <2>6, <2>11 DEF handle, adb_ask
  <2>12. CASE UNCHANGED wvars
    BY <2>3, <2>12 DEF wvars
  <2> QED
    BY <2>1, <2>2, <2>4, <2>7, <2>8, <2>9, <2>10, <2>11, <2>12 DEF WNext
<1>22. CASE saves.stale
  BY <1>21, <1>22 DEF WInv
<1> SUFFICES ASSUME ~saves.stale PROVE WInv'
  BY <1>22
<1>23. WGood
  BY DEF WInv
<1>0. ASSUME Held(clients', disk', done', saves'.behind), ~twice', loginAsk'.state = "waits" => loginAsk'.pub \in Browsers
      PROVE  WInv'
  BY <1>0, <1>21 DEF WInv, WGood, Held, Good, Below, Lines
<1>1. ASSUME UNCHANGED <<clients, disk, saves, done, twice>>, loginAsk'.state = "waits" => loginAsk'.pub \in Browsers
      PROVE  WInv'
  BY <1>0, <1>1, <1>23 DEF WGood
<1>2. CASE listener \/ closed
  BY <1>23, <1>1, <1>2 DEF listener, closed, WGood
<1>3. CASE expiry
  <2>1. loginAsk' = [loginAsk EXCEPT !.state = "refused"] /\ UNCHANGED <<clients, disk, saves, done, twice>>
        /\ loginAsk.state = "waits"
    BY <1>3 DEF expiry, login_expire, Settle
  <2>2. loginAsk'.state = "waits" => loginAsk'.pub \in Browsers
    BY <1>23, <2>1 DEF WGood
  <2> QED
    BY <1>1, <2>1, <2>2
<1>4. CASE web_approve
  <2>1. loginAsk.state = "waits" /\ loginAsk' = [loginAsk EXCEPT !.state = "approved"] /\ UNCHANGED twice
    BY <1>4 DEF web_approve, Settle
  <2>2. loginAsk'.state = "waits" => loginAsk'.pub \in Browsers
    BY <1>23, <2>1 DEF WGood
  <2>3. Held(clients', disk', done', saves'.behind)
    <3>1. loginAsk.pub \in Browsers
      BY <1>23, <2>1 DEF WGood
    <3>2. CASE add_client(loginAsk.pub)
      BY <1>20, <1>23, <3>1, <3>2, AddStep
    <3>3. CASE UNCHANGED <<clients, disk, saves, done>>
      BY <1>23, <3>3 DEF WGood
    <3> QED
      BY <1>4, <3>2, <3>3 DEF web_approve
  <2> QED
    BY <1>23, <1>0, <2>1, <2>2, <2>3 DEF WGood
<1>5. CASE web_start
  <2>1. clients' = load_clients /\ UNCHANGED <<disk, done, twice>> /\ saves'.stale = (saves.stale \/ saves.behind)
    BY <1>5, <1>20 DEF web_start
  <2>2. loginAsk'.state # "waits"
    BY <1>5 DEF web_start, Idle
  <2>3. CASE saves.behind
    BY <1>21, <2>1, <2>3 DEF WInv
  <2>4. CASE ~saves.behind
    <3>1. Good(clients', disk', done')
      BY <1>23, <2>1, <2>4, StartStep DEF WGood, Held
    <3>2. Held(clients', disk', done', saves'.behind)
      BY <3>1, Saved, Zenon DEF Held
    <3> QED
      BY <1>0, <1>23, <2>1, <2>2, <3>2 DEF WGood
  <2> QED
    BY <2>3, <2>4
<1>6. ASSUME NEW b \in Browsers, login_ask(b) PROVE WInv'
  <2>1. UNCHANGED <<clients, disk, saves, done, twice>>
    BY <1>6 DEF login_ask
  <2>2. \/ UNCHANGED loginAsk
        \/ loginAsk.state = "waits" /\ loginAsk' = [loginAsk EXCEPT !.state = "refused"]
        \/ loginAsk' = [pub |-> b, state |-> "waits", kind |-> "login"]
    BY <1>6 DEF login_ask, Settle, Ask
  <2>3. loginAsk'.state = "waits" => loginAsk'.pub \in Browsers
    <3>1. CASE UNCHANGED loginAsk
      BY <1>23, <3>1 DEF WGood
    <3>2. CASE loginAsk.state = "waits" /\ loginAsk' = [loginAsk EXCEPT !.state = "refused"]
      BY <1>23, <3>2 DEF WGood
    <3>3. CASE loginAsk' = [pub |-> b, state |-> "waits", kind |-> "login"]
      BY <3>3
    <3> QED
      BY <2>2, <3>1, <3>2, <3>3
  <2> QED
    BY <1>1, <2>1, <2>3
<1>7. ASSUME NEW b \in Browsers, vouch_nonce(b) PROVE WInv'
  BY <1>23, <1>1, <1>7 DEF vouch_nonce, WGood
<1>8. ASSUME NEW b \in Browsers, vouch_login(b) PROVE WInv'
  <2>1. UNCHANGED <<loginAsk, twice>>
    BY <1>8 DEF vouch_login
  <2>2. add_client(b) \/ UNCHANGED <<clients, disk, saves, done>>
    BY <1>8 DEF vouch_login
  <2>3. Held(clients', disk', done', saves'.behind)
    BY <1>20, <1>23, <2>2, AddStep DEF WGood
  <2> QED
    BY <1>23, <1>0, <2>1, <2>3 DEF WGood
<1>9. ASSUME NEW b \in Browsers, NEW n \in 1 .. MaxCtr, handle(b, n) PROVE WInv'
  <2>1. signed_ok(b, n) /\ UNCHANGED loginAsk
    BY <1>9 DEF handle
  <2> QED
    BY <1>0, <1>20, <1>23, <2>1, SignedStep DEF WGood
<1>10. ASSUME NEW b \in Browsers, NEW n \in 1 .. MaxCtr, adb_ask(b, n) PROVE WInv'
  <2>1. signed_ok(b, n)
    BY <1>10 DEF adb_ask
  <2>2. UNCHANGED loginAsk \/ loginAsk' = [pub |-> b, state |-> "waits", kind |-> "adb"]
    BY <1>10 DEF adb_ask, Ask
  <2>3. loginAsk'.state = "waits" => loginAsk'.pub \in Browsers
    BY <1>23, <2>2 DEF WGood
  <2> QED
    BY <1>0, <1>20, <1>23, <2>1, <2>3, SignedStep
<1>11. ASSUME NEW b \in Browsers, NEW who \in Browsers, NEW n \in 1 .. MaxCtr, revoke(b, n, who) PROVE WInv'
  <2>1. UNCHANGED loginAsk
    BY <1>11 DEF revoke
  <2> QED
    BY <1>0, <1>11, <1>20, <1>23, <2>1, RevokeStep DEF WGood
<1>12. CASE UNCHANGED wvars
  BY <1>23, <1>1, <1>12 DEF wvars, WGood
<1> QED
  BY <1>2, <1>3, <1>4, <1>5, <1>6, <1>7, <1>8, <1>9, <1>10, <1>11, <1>12 DEF WNext

\* web.c, for any browsers, any window, any requests and any writes that fail:
\* until a start reads a file left behind, what a browser has done is below its
\* floor or in its window, and, unless the last write failed, not above its
\* counter in the file.
THEOREM CountersInvariant == WSpec => []WInv
  BY WInitHolds, WStep, PTL DEF WSpec

\* signed_ok, save_clients and load_clients: no request that changes something is
\* taken twice from a browser that stays approved, over any number of restarts
\* and with its requests late, early or again, as long as no restart comes while
\* the last write of the file has failed.
THEOREM OnceEachHolds == WSpec => []OnceEach
<1>1. WInv => OnceEach
  BY DEF WInv, WGood, OnceEach
<1> QED
  BY <1>1, CountersInvariant, PTL

(***************************************************************************)
(* sendspin.c: any servers.  One that is not let in does not play          *)
(***************************************************************************)

Message == [rank : 0 .. 2, player : BOOLEAN, first : BOOLEAN]

Sess == [up : BOOLEAN, cat : {"sentinel", "pairing", "longterm"}, activated : BOOLEAN, rank : 0 .. 2,
         player : BOOLEAN, pairing : BOOLEAN, quiet : BOOLEAN, owed : BOOLEAN, sent : BOOLEAN, held : BOOLEAN,
         closing : BOOLEAN, step : {"", "arbitrate", "apply", "start"}, msg : Message, proved : BOOLEAN,
         listed : BOOLEAN]

PType ==
  /\ sess \in [Server -> Sess] /\ adm \in Server \cup {Nobody} /\ unpaired \in BOOLEAN
  /\ setter \in {"", "idle", "playing"}

\* A session in live that only ever used the Sentinel key and plays, or is to once its server/activate is done.
Stranger(s) ==
  s.up /\ s.listed /\ ~s.proved /\ ~s.closing /\ (s.player \/ (s.step \in {"arbitrate", "apply"} /\ s.msg.player))

\* Who has a key of his own proved it, and who plays is admitted or being closed.
Admitted(i, s) ==
  s.up => /\ s.pairing \/ s.cat # "sentinel" => s.proved
          /\ s.player \/ s.step = "apply" => adm = i \/ s.closing

\* With unpaired access off: once the idle ones are closed a stranger plays already; in the end there is none.
Tame(s) ==
  ~unpaired => /\ setter = "playing" /\ Stranger(s) => s.player
               /\ setter = "" => ~Stranger(s)

PInv == PType /\ \A i \in Server : Admitted(i, sess[i]) /\ Tame(sess[i])

\* A connection that is closed is a session, one that is not up.
LEMMA ClosedType == Closed \in Sess /\ ~Closed.up
  BY DEF Closed, Sess, Message, NoMsg

\* At the start no server is connected.
LEMMA PInitHolds == PInit => PInv
  BY ClosedType DEF PInit, PInv, PType, Admitted, Tame, Stranger

\* A step that changes one session, not who is admitted and not the setting.
LEMMA OneSession ==
  ASSUME PInv, NEW i \in Server, NEW t \in Sess, sess' = [sess EXCEPT ![i] = t], UNCHANGED <<adm, unpaired, setter>>,
         Admitted(i, t), Tame(t)
  PROVE  PInv'
<1>1. PType'
  BY DEF PInv, PType
<1>2. ASSUME NEW j \in Server PROVE Admitted(j, sess'[j]) /\ Tame(sess'[j])
  <2>1. CASE j = i
    <3>1. sess'[j] = t
      BY <2>1 DEF PInv, PType
    <3> QED
      BY <2>1, <3>1, Zenon
  <2>2. CASE j # i
    <3>1. sess'[j] = sess[j]
      BY <2>2 DEF PInv, PType
    <3> QED
      BY <3>1, Zenon DEF PInv
  <2> QED
    BY <2>1, <2>2
<1>3. ASSUME NEW j \in Server PROVE Admitted(j, sess[j])' /\ Tame(sess[j])'
  BY <1>2 DEF Admitted, Tame, Stranger
<1> QED
  BY <1>1, <1>3 DEF PInv

\* A step that leaves the sessions, who is admitted and the setting.
LEMMA NoSession_ == ASSUME PInv, UNCHANGED <<sess, adm, unpaired, setter>> PROVE PInv'
  BY DEF PInv, PType, Admitted, Tame, Stranger

\* What a connected server has is a session.
LEMMA SessionType == ASSUME PInv, NEW i \in Server PROVE sess[i] \in Sess
  BY DEF PInv, PType

\* Keyed: the key a session uses, and whether it ever used one of its own.
LEMMA KeyedFields ==
  ASSUME NEW s \in Sess, NEW cat \in {"sentinel", "pairing", "longterm"}
  PROVE  LET t == Keyed(s, cat) IN
           /\ t \in Sess /\ t.cat = cat /\ (t.proved <=> (s.proved \/ cat # "sentinel"))
           /\ t.up = s.up /\ t.player = s.player /\ t.pairing = s.pairing /\ t.closing = s.closing
           /\ t.step = s.step /\ t.msg = s.msg /\ t.listed = s.listed
<1>1. PICK b \in BOOLEAN : b = (s.proved \/ cat # "sentinel")
  BY Zenon
<1>2. Keyed(s, cat) = [s EXCEPT !.cat = cat, !.proved = b]
  BY <1>1, Zenon DEF Keyed
<1>3. b <=> s.proved \/ cat # "sentinel"
  BY <1>1, Zenon
<1>4. [s EXCEPT !.cat = cat, !.proved = b].proved = b
  BY DEF Sess
<1>5. Keyed(s, cat).proved <=> s.proved \/ cat # "sentinel"
  BY <1>2, <1>3, <1>4, Zenon
<1> QED
  BY <1>2, <1>5 DEF Sess

\* Connect: a new connection plays nothing yet.
LEMMA ConnectStep == ASSUME PInv, NEW i \in Server, Connect(i) PROVE PInv'
<1>1. PICK cat \in psk_select(i) : sess' = [sess EXCEPT ![i] = Fresh(cat)]
  BY DEF Connect
<1>2. cat \in {"sentinel", "pairing", "longterm"}
  BY <1>1 DEF psk_select
<1>3. PICK o : o = [Closed EXCEPT !.up = TRUE, !.listed = Room]
  OBVIOUS
<1>4. o \in Sess /\ ~o.player /\ ~o.pairing /\ o.step = ""
  <2>1. PICK b \in BOOLEAN : b = Room
    <3>1. Room \in BOOLEAN
      BY DEF Room
    <3> QED
      BY <3>1
  <2>2. o = [Closed EXCEPT !.up = TRUE, !.listed = b]
    BY <1>3, <2>1
  <2> QED
    BY <2>2, ClosedType DEF Closed, Sess
<1>5. Fresh(cat) = Keyed(o, cat)
  BY <1>3, Zenon DEF Fresh
<1>6. PICK t : t = Keyed(o, cat)
  OBVIOUS
<1>9. /\ t \in Sess /\ t.cat = cat /\ (t.proved <=> (o.proved \/ cat # "sentinel"))
      /\ t.player = o.player /\ t.pairing = o.pairing /\ t.step = o.step
  BY <1>2, <1>4, <1>6, KeyedFields, Zenon
<1>7. t \in Sess /\ t.cat = cat /\ (t.proved <=> (o.proved \/ cat # "sentinel")) /\ ~t.player /\ ~t.pairing /\ t.step = ""
  BY <1>4, <1>9, Zenon
<1>8. Admitted(i, t) /\ Tame(t)
  BY <1>7 DEF Admitted, Tame, Stranger
<1> QED
  BY <1>1, <1>5, <1>6, <1>7, <1>8, OneSession DEF Connect

\* server/activate: with the setting off only a key of its own lets a server have the player's role.
LEMMA ActivateStep == ASSUME PInv, NEW i \in Server, activate(i) PROVE PInv'
<1> DEFINE s == sess[i]
<1>1. PICK rank \in 0..2, roles \in {"left out", "player", "none"} :
        LET a == [s EXCEPT !.quiet = FALSE, !.rank = rank, !.activated = TRUE]
            turned == ~unpaired /\ a.cat # "longterm" /\ (rank = 2 \/ roles = "player")
            refused == i \in Spec10 /\ rank = 1 /\ a.cat = "longterm"
        IN sess' = [sess EXCEPT ![i] = IF turned \/ refused THEN goodbye(a)
                     ELSE [a EXCEPT !.step = "arbitrate",
                             !.msg = [rank |-> rank, player |-> IF roles = "left out" THEN a.player ELSE roles = "player",
                                      first |-> ~s.activated]]]
  BY Zenon DEF activate
<1>2. s \in Sess /\ s.up /\ ~s.closing /\ s.step = ""
  BY SessionType DEF activate, Receive, Reading
<1>3. PICK a : a = [s EXCEPT !.quiet = FALSE, !.rank = rank, !.activated = TRUE]
  OBVIOUS
<1>4. a \in Sess /\ a.cat = s.cat /\ a.player = s.player /\ a.pairing = s.pairing /\ a.proved = s.proved /\ a.listed = s.listed /\ a.up
      /\ ~a.closing /\ a.step = ""
  BY <1>2, <1>3 DEF Sess
<1>5. PICK m : m = [rank |-> rank, player |-> IF roles = "left out" THEN a.player ELSE roles = "player",
                    first |-> ~s.activated]
  OBVIOUS
<1>6. m \in Message /\ (m.player => roles = "player" \/ s.player)
  BY <1>2, <1>4, <1>5 DEF Message, Sess
<1>7. s.pairing \/ s.cat # "sentinel" => s.proved
  BY <1>2 DEF PInv, Admitted
<1>8. UNCHANGED <<adm, unpaired, setter>>
  BY DEF activate
<1>9. CASE sess' = [sess EXCEPT ![i] = goodbye(a)]
  <2>1. goodbye(a) \in Sess /\ goodbye(a).closing /\ goodbye(a).cat = a.cat /\ goodbye(a).pairing = a.pairing
        /\ goodbye(a).proved = a.proved
    BY <1>4 DEF goodbye, Sess
  <2>2. Admitted(i, goodbye(a)) /\ Tame(goodbye(a))
    BY <1>4, <1>7, <2>1 DEF Admitted, Tame, Stranger
  <2> QED
    BY <1>8, <1>9, <2>1, <2>2, OneSession
<1>10. CASE sess' = [sess EXCEPT ![i] = [a EXCEPT !.step = "arbitrate", !.msg = m]]
            /\ ~(~unpaired /\ a.cat # "longterm" /\ roles = "player")
  <2>1. PICK t : t = [a EXCEPT !.step = "arbitrate", !.msg = m]
    OBVIOUS
  <2>2. t \in Sess /\ t.step = "arbitrate" /\ t.msg = m /\ t.cat = a.cat /\ t.pairing = a.pairing
        /\ t.proved = a.proved /\ t.listed = a.listed /\ t.up
        /\ t.player = a.player /\ ~t.closing
    BY <1>4, <1>6, <2>1 DEF Sess
  <2>3. Admitted(i, t)
    BY <1>2, <1>4, <1>7, <2>2 DEF PInv, Admitted
  <2>4. Tame(t)
    <3>1. Tame(s)
      BY DEF PInv
    <3>2. ~unpaired /\ Stranger(t) => s.player
      BY <1>4, <1>6, <1>7, <1>10, <2>2 DEF Stranger, Sess
    <3>3. s.player /\ s.listed /\ ~s.proved => Stranger(s)
      BY <1>2 DEF Stranger
    <3> QED
      BY <1>4, <2>2, <3>1, <3>2, <3>3 DEF Tame, Stranger
  <2> QED
    BY <1>8, <1>10, <2>1, <2>2, <2>3, <2>4, OneSession
<1> DEFINE turned == ~unpaired /\ a.cat # "longterm" /\ (rank = 2 \/ roles = "player")
           refused == i \in Spec10 /\ rank = 1 /\ a.cat = "longterm"
<1>11. sess' = [sess EXCEPT ![i] = IF turned \/ refused THEN goodbye(a) ELSE [a EXCEPT !.step = "arbitrate", !.msg = m]]
  BY <1>1, <1>3, <1>5, Zenon
<1> QED
  BY <1>9, <1>10, <1>11

\* goodbye: a session being closed is no stranger any more.
LEMMA GoodbyeHolds ==
  ASSUME PInv, NEW i \in Server, NEW s \in Sess, s.pairing \/ s.cat # "sentinel" => s.proved
  PROVE  goodbye(s) \in Sess /\ goodbye(s).closing /\ Admitted(i, goodbye(s)) /\ Tame(goodbye(s))
<1>1. PICK t : t = goodbye(s)
  OBVIOUS
<1>2. t \in Sess /\ t.closing /\ t.cat = s.cat /\ t.pairing = s.pairing /\ t.proved = s.proved /\ t.listed = s.listed
  BY <1>1 DEF goodbye, Sess
<1>3. Admitted(i, t) /\ Tame(t)
  BY <1>2 DEF Admitted, Tame, Stranger
<1> QED
  BY <1>1, <1>2, <1>3, Zenon

\* arbitrate: the winner is admitted, and the one that was is being closed.
LEMMA ArbitrateStep == ASSUME PInv, NEW i \in Server, arbitrate(i) PROVE PInv'
<1>1. sess[i] \in Sess /\ sess[i].step = "arbitrate" /\ UNCHANGED <<unpaired, setter>>
  BY SessionType DEF arbitrate
<1>2. Admitted(i, sess[i]) /\ Tame(sess[i])
  BY DEF PInv
<1>3. CASE ~sess[i].msg.first
  <2>1. PICK p : p = IF adm = i THEN "apply" ELSE ""
    OBVIOUS
  <2>2. PICK t : t = [sess[i] EXCEPT !.step = p]
    OBVIOUS
  <2>3. sess' = [sess EXCEPT ![i] = t] /\ adm' = adm
    BY <1>3, <2>1, <2>2 DEF arbitrate
  <2>4. /\ t \in Sess /\ t.step = p /\ t.up = sess[i].up /\ t.player = sess[i].player /\ t.pairing = sess[i].pairing
        /\ t.cat = sess[i].cat /\ t.proved = sess[i].proved /\ t.listed = sess[i].listed /\ t.closing = sess[i].closing /\ t.msg = sess[i].msg
    BY <1>1, <2>1, <2>2 DEF Sess
  <2>5. Admitted(i, t)
    BY <1>2, <2>1, <2>4 DEF Admitted
  <2>6. Tame(t)
    BY <1>1, <1>2, <2>1, <2>4 DEF Tame, Stranger
  <2> QED
    BY <1>1, <2>3, <2>4, <2>5, <2>6, OneSession
<1>4. CASE sess[i].msg.first /\ ~Wins(i)
  <2>1. sess' = [sess EXCEPT ![i] = goodbye(sess[i])] /\ adm' = adm
    BY <1>4 DEF arbitrate
  <2>2. CASE sess[i].up
    <3>1. sess[i].pairing \/ sess[i].cat # "sentinel" => sess[i].proved
      BY <1>2, <2>2 DEF Admitted
    <3> QED
      BY <1>1, <2>1, <3>1, GoodbyeHolds, OneSession
  <2>3. CASE ~sess[i].up
    <3>1. PICK t : t = goodbye(sess[i])
      OBVIOUS
    <3>2. t \in Sess /\ ~t.up
      BY <1>1, <2>3, <3>1 DEF goodbye, Sess
    <3>3. Admitted(i, t) /\ Tame(t)
      BY <3>2 DEF Admitted, Tame, Stranger
    <3> QED
      BY <1>1, <2>1, <3>1, <3>2, <3>3, OneSession
  <2> QED
    BY <2>2, <2>3
<1>5. CASE sess[i].msg.first /\ Wins(i)
  <2>1. adm' = i /\ sess' = [sess EXCEPT ![i].step = "apply",
                     ![IF adm = Nobody THEN i ELSE adm].closing = IF adm \in {Nobody, i} THEN @ ELSE TRUE]
    BY <1>5 DEF arbitrate
  <2>2. PICK t : t = [sess[i] EXCEPT !.step = "apply"]
    OBVIOUS
  <2>3. /\ t \in Sess /\ t.step = "apply" /\ t.up = sess[i].up /\ t.player = sess[i].player /\ t.pairing = sess[i].pairing
        /\ t.cat = sess[i].cat /\ t.proved = sess[i].proved /\ t.listed = sess[i].listed /\ t.closing = sess[i].closing /\ t.msg = sess[i].msg
    BY <1>1, <2>2 DEF Sess
  <2>4. sess'[i] = t
    BY <2>1, <2>2, SendspinAssumption DEF PInv, PType, Sess
  <2>5. ASSUME NEW j \in Server, j # i
        PROVE  sess'[j] = IF j = adm THEN [sess[j] EXCEPT !.closing = TRUE] ELSE sess[j]
    BY <2>1, <2>5, SendspinAssumption DEF PInv, PType, Sess
  <2>6. ASSUME NEW j \in Server, j # i
        PROVE  /\ sess'[j] \in Sess
               /\ sess'[j].up => /\ sess'[j].pairing \/ sess'[j].cat # "sentinel" => sess'[j].proved
                                 /\ sess'[j].player \/ sess'[j].step = "apply" => sess'[j].closing
               /\ Tame(sess'[j])
    <3>1. sess[j] \in Sess /\ Admitted(j, sess[j]) /\ Tame(sess[j])
      BY SessionType DEF PInv
    <3>2. CASE j = adm
      <4>1. PICK u : u = [sess[j] EXCEPT !.closing = TRUE]
        OBVIOUS
      <4>2. u \in Sess /\ u.closing /\ u.up = sess[j].up /\ u.pairing = sess[j].pairing /\ u.cat = sess[j].cat
            /\ u.proved = sess[j].proved /\ u.listed = sess[j].listed
        BY <3>1, <4>1 DEF Sess
      <4>3. Tame(u)
        BY <4>2 DEF Tame, Stranger
      <4>4. sess'[j] = u
        BY <2>5, <2>6, <3>2, <4>1
      <4>5. u.up => (u.pairing \/ u.cat # "sentinel" => u.proved)
        BY <3>1, <4>2 DEF Admitted
      <4> QED
        BY <4>2, <4>3, <4>4, <4>5, Zenon
    <3>3. CASE j # adm
      <4>1. sess'[j] = sess[j]
        BY <2>5, <2>6, <3>3
      <4>2. sess[j].up => /\ sess[j].pairing \/ sess[j].cat # "sentinel" => sess[j].proved
                          /\ sess[j].player \/ sess[j].step = "apply" => sess[j].closing
        BY <3>1, <3>3 DEF Admitted
      <4> QED
        BY <3>1, <4>1, <4>2, Zenon
    <3> QED
      BY <3>2, <3>3
  <2>7. PType'
    <3>1. DOMAIN sess' = Server /\ sess' = [j \in Server |-> sess'[j]]
      BY <2>1 DEF PInv, PType
    <3>2. \A j \in Server : sess'[j] \in Sess
      BY <2>3, <2>4, <2>6
    <3>3. sess' \in [Server -> Sess]
      BY <3>1, <3>2
    <3> QED
      BY <1>1, <2>1, <3>3 DEF PInv, PType
  <2>8. ASSUME NEW j \in Server PROVE Admitted(j, sess[j])' /\ Tame(sess[j])'
    <3>1. CASE j = i
      <4>1. t.up => (t.pairing \/ t.cat # "sentinel" => t.proved)
        BY <1>2, <2>3 DEF Admitted
      <4>2. Admitted(j, sess[j])'
        BY <2>1, <2>4, <3>1, <4>1 DEF Admitted
      <4>3. Tame(t)
        BY <1>1, <1>2, <2>3 DEF Tame, Stranger
      <4>4. Tame(sess[j])'
        BY <1>1, <2>4, <3>1, <4>3 DEF Tame, Stranger
      <4> QED
        BY <4>2, <4>4
    <3>2. CASE j # i
      <4>1. Admitted(j, sess[j])'
        BY <2>6, <3>2 DEF Admitted
      <4>2. Tame(sess[j])'
        BY <1>1, <2>6, <3>2 DEF Tame, Stranger
      <4> QED
        BY <4>1, <4>2
    <3> QED
      BY <3>1, <3>2
  <2> QED
    BY <2>7, <2>8 DEF PInv
<1> QED
  BY <1>3, <1>4, <1>5

\* A step that changes of one session only what decides neither its role nor its key.
LEMMA Aside ==
  ASSUME PInv, NEW i \in Server, NEW t \in Sess, sess' = [sess EXCEPT ![i] = t], UNCHANGED <<adm, unpaired, setter>>,
         t.up = sess[i].up, t.cat = sess[i].cat, t.player = sess[i].player, t.proved = sess[i].proved, t.listed = sess[i].listed,
         t.closing = sess[i].closing, t.msg = sess[i].msg, t.pairing => sess[i].pairing,
         t.step = sess[i].step \/ t.step \in {"", "start"}
  PROVE  PInv'
<1>1. Admitted(i, sess[i]) /\ Tame(sess[i])
  BY DEF PInv
<1>2. Admitted(i, t)
  BY <1>1 DEF Admitted
<1>3. Stranger(t) => Stranger(sess[i])
  BY DEF Stranger
<1>4. Tame(t)
  BY <1>1, <1>3 DEF Tame
<1> QED
  BY <1>2, <1>4, OneSession

\* The steps of a session that touch neither its role nor its key.
LEMMA AsideSteps ==
  ASSUME PInv, NEW i \in Server,
         pair_end(i) \/ send_state(i) \/ stream_start(i) \/ on_metadata(i) \/ meta_tick(i)
  PROVE  PInv'
<1> DEFINE s == sess[i]
<1>0. s \in Sess
  BY SessionType
<1>1. CASE pair_end(i)
  <2>1. PICK t : t = [s EXCEPT !.pairing = FALSE]
    OBVIOUS
  <2>2. t \in Sess /\ t.up = s.up /\ t.cat = s.cat /\ t.player = s.player /\ t.proved = s.proved /\ t.listed = s.listed /\ t.closing = s.closing
        /\ t.msg = s.msg /\ ~t.pairing /\ t.step = s.step
    BY <1>0, <2>1 DEF Sess
  <2>3. sess' = [sess EXCEPT ![i] = t]
    BY <1>1, <2>1 DEF pair_end
  <2>4. UNCHANGED <<adm, unpaired, setter>>
    BY <1>1 DEF pair_end
  <2> QED
    BY <2>2, <2>3, <2>4, Aside
<1>2. CASE send_state(i)
  <2>1. PICK t : t = [s EXCEPT !.sent = TRUE, !.owed = s.quiet]
    OBVIOUS
  <2>2. t \in Sess /\ t.up = s.up /\ t.cat = s.cat /\ t.player = s.player /\ t.proved = s.proved /\ t.listed = s.listed /\ t.closing = s.closing
        /\ t.msg = s.msg /\ t.pairing = s.pairing /\ t.step = s.step
    BY <1>0, <2>1 DEF Sess
  <2>3. sess' = [sess EXCEPT ![i] = t]
    BY <1>2, <2>1 DEF send_state, PInv, PType, Sess
  <2>4. UNCHANGED <<adm, unpaired, setter>>
    BY <1>2 DEF send_state
  <2> QED
    BY <2>2, <2>3, <2>4, Aside
<1>3. ASSUME NEW b \in BOOLEAN, sess' = [sess EXCEPT ![i].held = b], UNCHANGED <<adm, unpaired, setter>> PROVE PInv'
  <2>1. PICK t : t = [s EXCEPT !.held = b]
    OBVIOUS
  <2>2. t \in Sess /\ t.up = s.up /\ t.cat = s.cat /\ t.player = s.player /\ t.proved = s.proved /\ t.listed = s.listed /\ t.closing = s.closing
        /\ t.msg = s.msg /\ t.pairing = s.pairing /\ t.step = s.step
    BY <1>0, <2>1 DEF Sess
  <2>3. sess' = [sess EXCEPT ![i] = t]
    BY <1>3, <2>1
  <2> QED
    BY <1>3, <2>2, <2>3, Aside
<1>4. ASSUME NEW p \in {"", "start"}, sess' = [sess EXCEPT ![i].step = p], UNCHANGED <<adm, unpaired, setter>> PROVE PInv'
  <2>1. PICK t : t = [s EXCEPT !.step = p]
    OBVIOUS
  <2>2. t \in Sess /\ t.up = s.up /\ t.cat = s.cat /\ t.player = s.player /\ t.proved = s.proved /\ t.listed = s.listed /\ t.closing = s.closing
        /\ t.msg = s.msg /\ t.pairing = s.pairing /\ t.step = p
    BY <1>0, <2>1 DEF Sess
  <2>3. sess' = [sess EXCEPT ![i] = t]
    BY <1>4, <2>1
  <2> QED
    BY <1>4, <2>2, <2>3, Aside
<1>5. CASE stream_start(i)
  BY <1>4, <1>5 DEF stream_start
<1>6. CASE on_metadata(i)
  BY <1>3, <1>6 DEF on_metadata
<1>7. CASE meta_tick(i)
  BY <1>3, <1>7 DEF meta_tick
<1> QED
  BY <1>1, <1>2, <1>5, <1>6, <1>7

\* The rest of server/activate: the role it asked for, which arbitration admitted.
LEMMA ApplyStep == ASSUME PInv, NEW i \in Server, apply(i) PROVE PInv'
<1> DEFINE s == sess[i]
<1>1. s \in Sess /\ s.step = "apply" /\ UNCHANGED <<adm, unpaired, setter>> /\ Admitted(i, s) /\ Tame(s)
  BY SessionType DEF apply, PInv
<1>2. PICK o \in BOOLEAN, n \in BOOLEAN, h \in BOOLEAN, p \in BOOLEAN :
        /\ sess' = [sess EXCEPT ![i] = [s EXCEPT !.step = "", !.player = s.msg.player, !.owed = o, !.sent = n, !.held = h,
                                                !.pairing = p, !.msg = NoMsg]]
        /\ p => s.cat = "pairing"
  <2> DEFINE o == s.owed /\ ~(s.owed /\ s.player /\ s.msg.player)
             n == IF s.msg.player /\ ~s.player THEN FALSE ELSE s.sent
             h == s.held /\ s.msg.player
             p == s.msg.rank = 1 /\ s.cat = "pairing"
  <2>1. o \in BOOLEAN /\ h \in BOOLEAN /\ p \in BOOLEAN
    BY Zenon
  <2>2. n \in BOOLEAN
    BY <1>1 DEF Sess
  <2>3. sess' = [sess EXCEPT ![i] = [s EXCEPT !.step = "", !.player = s.msg.player, !.owed = o, !.sent = n, !.held = h,
                                                !.pairing = p, !.msg = NoMsg]]
    BY Zenon DEF apply
  <2>4. p => s.cat = "pairing"
    BY Zenon
  <2> HIDE DEF o, n, h, p
  <2> QED
    BY <2>1, <2>2, <2>3, <2>4, Zenon
<1>4. s.msg \in Message
  BY <1>1 DEF Sess
<1>9. NoMsg \in Message
  BY DEF NoMsg, Message
<1>10. PICK mp \in BOOLEAN : mp = s.msg.player
  BY <1>4 DEF Message
<1>11. PICK nm \in Message : nm = NoMsg
  BY <1>9
<1>3. PICK t : t = [s EXCEPT !.step = "", !.player = mp, !.owed = o, !.sent = n, !.held = h, !.pairing = p, !.msg = nm]
  OBVIOUS
<1>5. /\ t \in Sess /\ t.up = s.up /\ t.cat = s.cat /\ t.player = mp /\ t.proved = s.proved /\ t.listed = s.listed /\ t.closing = s.closing
      /\ t.pairing = p /\ t.step = ""
  <2>1. PICK a : a = [s EXCEPT !.step = "", !.player = mp]
    OBVIOUS
  <2>2. /\ a \in Sess /\ a.up = s.up /\ a.cat = s.cat /\ a.player = mp /\ a.proved = s.proved /\ a.listed = s.listed /\ a.closing = s.closing
        /\ a.step = ""
    BY <1>1, <2>1 DEF Sess
  <2>3. PICK d : d = [a EXCEPT !.owed = o, !.sent = n]
    OBVIOUS
  <2>4. /\ d \in Sess /\ d.up = s.up /\ d.cat = s.cat /\ d.player = mp /\ d.proved = s.proved /\ d.listed = s.listed /\ d.closing = s.closing
        /\ d.step = ""
    BY <2>2, <2>3 DEF Sess
  <2>5. t = [d EXCEPT !.held = h, !.pairing = p, !.msg = nm]
    BY <1>3, <2>1, <2>3, Zenon
  <2> QED
    BY <2>4, <2>5 DEF Sess
<1>6. Admitted(i, t)
  BY <1>1, <1>2, <1>5 DEF Admitted
<1>7. Stranger(t) => Stranger(s) /\ t.player
  BY <1>1, <1>5, <1>10 DEF Stranger
<1>8. Tame(t)
  BY <1>1, <1>7 DEF Tame
<1>12. sess' = [sess EXCEPT ![i] = t]
  BY <1>2, <1>3, <1>10, <1>11, Zenon
<1> QED
  BY <1>1, <1>5, <1>6, <1>8, <1>12, OneSession

\* server/unpair, and noise/handshake in band.
LEMMA KeySteps == ASSUME PInv, NEW i \in Server, unpair(i) \/ rehandshake(i) PROVE PInv'
<1> DEFINE s == sess[i]
<1>1. s \in Sess /\ s.up /\ ~s.closing /\ s.step = "" /\ UNCHANGED <<adm, unpaired, setter>> /\ Admitted(i, s) /\ Tame(s)
  BY SessionType DEF unpair, rehandshake, Receive, Reading, PInv
<1>2. s.pairing \/ s.cat # "sentinel" => s.proved
  BY <1>1 DEF Admitted
<1>3. CASE sess' = [sess EXCEPT ![i] = goodbye(s)]
  BY <1>1, <1>2, <1>3, GoodbyeHolds, OneSession
<1>4. CASE sess' = [sess EXCEPT ![i] = [goodbye(s) EXCEPT !.activated = FALSE, !.quiet = TRUE]]
  <2>1. PICK g : g = goodbye(s)
    OBVIOUS
  <2>2. g \in Sess /\ g.closing /\ g.cat = s.cat /\ g.pairing = s.pairing /\ g.proved = s.proved /\ g.listed = s.listed
    BY <1>1, <2>1 DEF goodbye, Sess
  <2>3. PICK t : t = [g EXCEPT !.activated = FALSE, !.quiet = TRUE]
    OBVIOUS
  <2>4. t \in Sess /\ t.closing /\ t.cat = s.cat /\ t.pairing = s.pairing /\ t.proved = s.proved /\ t.listed = s.listed
    BY <2>2, <2>3 DEF Sess
  <2>5. Admitted(i, t) /\ Tame(t)
    BY <1>2, <2>4 DEF Admitted, Tame, Stranger
  <2> QED
    BY <1>1, <1>4, <2>1, <2>3, <2>4, <2>5, OneSession
<1>5. ASSUME NEW cat \in psk_select(i),
             sess' = [sess EXCEPT ![i] = Keyed([s EXCEPT !.activated = FALSE, !.quiet = TRUE], cat)]
      PROVE  PInv'
  <2>1. cat \in {"sentinel", "pairing", "longterm"}
    BY <1>5 DEF psk_select
  <2>2. PICK g : g = [s EXCEPT !.activated = FALSE, !.quiet = TRUE]
    OBVIOUS
  <2>3. /\ g \in Sess /\ g.up = s.up /\ g.player = s.player /\ g.proved = s.proved /\ g.listed = s.listed /\ g.closing = s.closing
        /\ g.pairing = s.pairing /\ g.step = s.step
    BY <1>1, <2>2 DEF Sess
  <2>4. PICK t : t = Keyed(g, cat)
    OBVIOUS
  <2>5. /\ t \in Sess /\ t.cat = cat /\ (t.proved <=> (g.proved \/ cat # "sentinel"))
        /\ t.up = g.up /\ t.player = g.player /\ t.pairing = g.pairing /\ t.closing = g.closing /\ t.step = g.step
        /\ t.listed = g.listed
    BY <2>1, <2>3, <2>4, KeyedFields, Zenon
  <2>6. Admitted(i, t)
    <3>1. t.pairing \/ t.cat # "sentinel" => t.proved
      BY <1>2, <2>3, <2>5, Zenon
    <3>2. t.player \/ t.step = "apply" => adm = i \/ t.closing
      BY <1>1, <2>3, <2>5 DEF Admitted
    <3> QED
      BY <3>1, <3>2 DEF Admitted
  <2>7. ~t.proved => ~s.proved
    BY <2>3, <2>5, Zenon
  <2>8. Stranger(t) => Stranger(s) /\ (s.player => t.player)
    BY <1>1, <2>3, <2>5, <2>7 DEF Stranger
  <2>9. Tame(t)
    BY <1>1, <2>8 DEF Tame
  <2> QED
    BY <1>1, <1>5, <2>2, <2>4, <2>5, <2>6, <2>9, OneSession
<1> QED
  BY <1>3, <1>4, <1>5 DEF unpair, rehandshake

\* serve ends: nobody is admitted in its place, and who else played was being closed already.
LEMMA ServeEndStep == ASSUME PInv, NEW i \in Server, serve_end(i) PROVE PInv'
<1>1. sess' = [sess EXCEPT ![i] = Closed] /\ UNCHANGED <<unpaired, setter>> /\ adm' = IF adm = i THEN Nobody ELSE adm
  BY DEF serve_end
<1>2. PType'
  BY <1>1, ClosedType DEF PInv, PType
<1>3. ASSUME NEW j \in Server PROVE Admitted(j, sess[j])' /\ Tame(sess[j])'
  <2>1. CASE j = i
    <3>1. sess'[j] = Closed
      BY <1>1, <2>1 DEF PInv, PType
    <3>2. ~sess'[j].up
      BY <3>1, ClosedType
    <3> QED
      BY <3>2 DEF Admitted, Tame, Stranger
  <2>2. CASE j # i
    <3>1. sess'[j] = sess[j]
      BY <1>1, <2>2 DEF PInv, PType
    <3>2. Admitted(j, sess[j]) /\ Tame(sess[j])
      BY DEF PInv
    <3>3. Admitted(j, sess[j])'
      BY <1>1, <2>2, <3>1, <3>2 DEF Admitted
    <3>4. Tame(sess[j])'
      BY <1>1, <3>1, <3>2 DEF Tame, Stranger
    <3> QED
      BY <3>3, <3>4
  <2> QED
    BY <2>1, <2>2
<1> QED
  BY <1>2, <1>3 DEF PInv

\* sendspin_unpaired, the setting: the first loop has yet to run.
LEMMA SettingStep ==
  ASSUME PInv, UNCHANGED <<sess, adm>>, unpaired' = ~unpaired, setter' = "idle" PROVE PInv'
<1>1. PType'
  <2>1. unpaired' \in BOOLEAN
    BY Zenon
  <2> QED
    BY <2>1 DEF PInv, PType
<1>2. ASSUME NEW j \in Server PROVE Admitted(j, sess[j])' /\ Tame(sess[j])'
  BY DEF PInv, Admitted, Tame
<1> QED
  BY <1>1, <1>2 DEF PInv

\* The first loop: of those without a key of their own only what plays is left.
LEMMA IdleStep ==
  ASSUME PInv, setter = "idle", setter' = IF unpaired THEN "" ELSE "playing", UNCHANGED <<unpaired, adm>>,
         sess' = [i \in Server |-> IF Unpaired(i) /\ sess[i].listed /\ ~sess[i].player THEN [sess[i] EXCEPT !.closing = TRUE] ELSE sess[i]]
  PROVE  PInv'
<1>1. ASSUME NEW j \in Server
      PROVE  /\ sess'[j] \in Sess
             /\ Admitted(j, sess'[j])
             /\ Stranger(sess'[j]) => sess'[j].player
  <2>1. sess[j] \in Sess /\ Admitted(j, sess[j])
    BY SessionType DEF PInv
  <2>2. CASE Unpaired(j) /\ sess[j].listed /\ ~sess[j].player
    <3>1. PICK u : u = [sess[j] EXCEPT !.closing = TRUE]
      OBVIOUS
    <3>2. u \in Sess /\ u.closing /\ u.up = sess[j].up /\ u.pairing = sess[j].pairing /\ u.cat = sess[j].cat
          /\ u.proved = sess[j].proved /\ u.listed = sess[j].listed
      BY <2>1, <3>1 DEF Sess
    <3>3. sess'[j] = u
      BY <2>2, <3>1
    <3>4. Admitted(j, u) /\ ~Stranger(u)
      BY <2>1, <3>2 DEF Admitted, Stranger
    <3> QED
      BY <3>2, <3>3, <3>4, Zenon
  <2>3. CASE ~(Unpaired(j) /\ sess[j].listed /\ ~sess[j].player)
    <3>1. sess'[j] = sess[j]
      BY <2>3
    <3>2. Stranger(sess[j]) => sess[j].player
      BY <2>1, <2>3 DEF Stranger, Unpaired, Admitted
    <3> QED
      BY <2>1, <3>1, <3>2, Zenon
  <2> QED
    BY <2>2, <2>3
<1>2. PType'
  <2>1. sess' \in [Server -> Sess]
    BY <1>1
  <2> QED
    BY <2>1 DEF PInv, PType
<1>3. ASSUME NEW j \in Server PROVE Admitted(j, sess[j])' /\ Tame(sess[j])'
  <2>1. Admitted(j, sess[j])'
    BY <1>1 DEF Admitted
  <2>2. (Stranger(sess[j]) => sess[j].player)'
    BY <1>1 DEF Stranger
  <2>3. Tame(sess[j])'
    BY <2>2 DEF Tame
  <2> QED
    BY <2>1, <2>3
<1> QED
  BY <1>2, <1>3 DEF PInv

\* The second loop, switched off: who is admitted without a key of its own goes, and nobody else plays.
LEMMA PlayingStep ==
  ASSUME PInv, setter = "playing", setter' = "", UNCHANGED unpaired,
         IF adm # Nobody /\ Unpaired(adm) THEN sess' = [sess EXCEPT ![adm].closing = TRUE] /\ adm' = Nobody
                                          ELSE UNCHANGED <<sess, adm>>
  PROVE  PInv'
<1>1. CASE adm # Nobody /\ Unpaired(adm)
  <2>1. adm \in Server
    BY <1>1 DEF PInv, PType
  <2>2. PICK u : u = [sess[adm] EXCEPT !.closing = TRUE]
    OBVIOUS
  <2>3. u \in Sess /\ u.closing /\ u.up = sess[adm].up /\ u.pairing = sess[adm].pairing /\ u.cat = sess[adm].cat
        /\ u.proved = sess[adm].proved /\ u.listed = sess[adm].listed
    BY <2>1, <2>2, SessionType DEF Sess
  <2>4. sess' = [sess EXCEPT ![adm] = u] /\ adm' = Nobody
    BY <1>1, <2>2
  <2>5. PType'
    BY <2>1, <2>3, <2>4 DEF PInv, PType
  <2>6. ASSUME NEW j \in Server PROVE Admitted(j, sess[j])' /\ Tame(sess[j])'
    <3>0. Admitted(j, sess[j]) /\ Tame(sess[j])
      BY DEF PInv
    <3>1. CASE j = adm
      <4>1. sess'[j] = u
        BY <2>1, <2>4, <3>1 DEF PInv, PType
      <4>2. u.up => (u.pairing \/ u.cat # "sentinel" => u.proved)
        BY <2>3, <3>0, <3>1 DEF Admitted
      <4> QED
        BY <2>3, <4>1, <4>2 DEF Admitted, Tame, Stranger
    <3>2. CASE j # adm
      <4>1. sess'[j] = sess[j]
        BY <2>1, <2>4, <3>2 DEF PInv, PType
      <4>2. Admitted(j, sess[j])'
        BY <2>4, <3>0, <3>2, <4>1 DEF Admitted
      <4>3. ~unpaired => ~Stranger(sess[j])
        BY <3>0, <3>2 DEF Tame, Admitted, Stranger
      <4>4. Tame(sess[j])'
        BY <4>1, <4>3 DEF Tame, Stranger
      <4> QED
        BY <4>2, <4>4
    <3> QED
      BY <3>1, <3>2
  <2> QED
    BY <2>5, <2>6 DEF PInv
<1>2. CASE ~(adm # Nobody /\ Unpaired(adm))
  <2>1. UNCHANGED <<sess, adm>>
    BY <1>2
  <2>2. PType'
    BY <2>1 DEF PInv, PType
  <2>3. ASSUME NEW j \in Server PROVE Admitted(j, sess[j])' /\ Tame(sess[j])'
    <3>1. Admitted(j, sess[j]) /\ Tame(sess[j])
      BY DEF PInv
    <3>2. Admitted(j, sess[j])'
      BY <2>1, <3>1 DEF Admitted
    <3>3. ~unpaired => ~Stranger(sess[j])
      <4>1. SUFFICES ASSUME ~unpaired, Stranger(sess[j]) PROVE FALSE
        OBVIOUS
      <4>2. sess[j].player /\ sess[j].up /\ ~sess[j].closing /\ ~sess[j].proved
        BY <3>1, <4>1 DEF Tame, Stranger
      <4>3. adm = j /\ ~sess[j].pairing /\ sess[j].cat = "sentinel"
        BY <3>1, <4>2 DEF Admitted
      <4>4. adm # Nobody /\ Unpaired(adm)
        BY <4>2, <4>3, SendspinAssumption DEF Unpaired
      <4> QED
        BY <1>2, <4>4
    <3>4. Tame(sess[j])'
      BY <2>1, <3>3 DEF Tame, Stranger
    <3> QED
      BY <3>2, <3>4
  <2> QED
    BY <2>2, <2>3 DEF PInv
<1> QED
  BY <1>1, <1>2

\* Every step of sendspin.c keeps the invariant.
LEMMA PStep == PInv /\ [PNext]_pvars => PInv'
<1> SUFFICES ASSUME PInv, [PNext]_pvars PROVE PInv'
  OBVIOUS
<1>1. ASSUME NEW i \in Server, Connect(i) \/ activate(i) \/ arbitrate(i) \/ apply(i) PROVE PInv'
  BY <1>1, ConnectStep, ActivateStep, ArbitrateStep, ApplyStep
<1>2. ASSUME NEW i \in Server, unpair(i) \/ rehandshake(i) \/ serve_end(i) PROVE PInv'
  BY <1>2, KeySteps, ServeEndStep
<1>3. ASSUME NEW i \in Server, pair_end(i) \/ send_state(i) \/ stream_start(i) \/ on_metadata(i) \/ meta_tick(i) PROVE PInv'
  BY <1>3, AsideSteps
<1>4. ASSUME NEW i \in Server, stream_end(i) \/ on_audio(i) \/ group_update(i) PROVE PInv'
  BY <1>4, NoSession_ DEF stream_end, on_audio, group_update
<1>5. CASE SetUnpaired
  <2>1. CASE setter = "" /\ unpaired' = ~unpaired /\ setter' = "idle" /\ UNCHANGED <<sess, adm>>
    BY <2>1, SettingStep
  <2>2. CASE setter = "idle"
    <3>1. /\ setter' = IF unpaired THEN "" ELSE "playing"
          /\ sess' = [i \in Server |-> IF Unpaired(i) /\ sess[i].listed /\ ~sess[i].player THEN [sess[i] EXCEPT !.closing = TRUE] ELSE sess[i]]
          /\ UNCHANGED <<unpaired, adm>>
      BY <1>5, <2>2 DEF SetUnpaired, sendspin_unpaired
    <3> QED
      BY <2>2, <3>1, IdleStep
  <2>3. CASE setter = "playing"
    <3>1. /\ setter' = "" /\ UNCHANGED unpaired
          /\ IF adm # Nobody /\ Unpaired(adm) THEN sess' = [sess EXCEPT ![adm].closing = TRUE] /\ adm' = Nobody
                                               ELSE UNCHANGED <<sess, adm>>
      BY <1>5, <2>3 DEF SetUnpaired, sendspin_unpaired
    <3> QED
      BY <2>3, <3>1, PlayingStep
  <2> QED
    BY <1>5, <2>1, <2>2, <2>3 DEF SetUnpaired, sendspin_unpaired
<1>6. CASE sendspin_button \/ sendspin_pause \/ player_thread
  BY <1>6, NoSession_ DEF sendspin_button, sendspin_pause, player_thread
<1>7. CASE UNCHANGED pvars
  BY <1>7, NoSession_ DEF pvars
<1> QED
  BY <1>1, <1>2, <1>3, <1>4, <1>5, <1>6, <1>7 DEF PNext

\* Who holds the player's role is admitted or being closed, and a server's key is known from this connection.
THEOREM PlayerInvariant == PSpec => []PInv
  BY PInitHolds, PStep, PTL DEF PSpec

\* With unpaired access off and the switch done, no server with a place in live that only used the Sentinel key plays,
\* however many more servers there are without one.
THEOREM NoStrangerPlaysHolds == PSpec => []NoStrangerPlays
<1>1. PInv => NoStrangerPlays
  BY DEF PInv, Tame, Stranger, NoStrangerPlays
<1> QED
  BY <1>1, PlayerInvariant, PTL

(***************************************************************************)
(* arb.c: any house, strangers and networks.  No key for a stranger, none  *)
(* from one, but in the window of an Echo whose buttons were pressed       *)
(***************************************************************************)

Candidate == [seen : BOOLEAN, net : Nat, tag : {"unread", "read", "scanned"}, attested : BOOLEAN]

Key == [to : Echos, from : Echos, net : Nat \ {0}, by : {"lan", "action"}]

NType ==
  /\ net \in [Echos -> Nat] /\ peers \in [House -> SUBSET Echos]
  /\ cands \in [House -> [Echos -> Candidate]]
  /\ tagged \subseteq Echos /\ ha \in BOOLEAN /\ mail \subseteq Key
  /\ pair \in [House -> {"off", "on", "gave"}] /\ preqs \in [House -> SUBSET [from : Echos, net : Nat]]
  /\ looking \subseteq House /\ pairs \in Nat /\ downs \in Nat
  /\ strange \in [sent : Nat, let : BOOLEAN]

\* A stranger's tag is read, never seen to change: it is not attested.
Unattested == \A e \in House, s \in Strangers : cands[e][s].tag # "scanned" /\ ~cands[e][s].attested

\* What a stranger sends comes over the LAN, not through Home Assistant.
OnLan == \A m \in mail : m.from \in Strangers => m.by = "lan"

\* No key the house's Echos hand is a stranger's network's.
Apart == ~strange.let => \A m \in mail, s \in Strangers : m.from \in House => m.net # net[s]

NInv == NType /\ Unattested /\ OnLan /\ Apart /\ OnlyAdopted

\* The house's Echos and the strangers' are different ones.
LEMMA HouseAndStrangers == House \subseteq Echos /\ \A s \in Strangers : s \in Echos /\ s \notin House
  BY ArbNetAssumption DEF Echos

\* At the start nobody of the house is in a network, and no key is on its way.
LEMMA NInitHolds == NInit => NInv
<1> SUFFICES ASSUME NInit PROVE NInv
  OBVIOUS
<1>1. NoCand \in Candidate
  BY DEF NoCand, Candidate
<1>2. PICK n \in [Strangers -> StrangerNets] : net = [e \in Echos |-> IF e \in House THEN 0 ELSE n[e]]
  BY DEF NInit
<1>3. net \in [Echos -> Nat]
  <2>1. ASSUME NEW e \in Echos, e \notin House PROVE n[e] \in Nat
    BY <1>2, <2>1, ArbNetAssumption DEF Echos
  <2> QED
    BY <1>2, <2>1
<1>4. NType
  BY <1>1, <1>3, HouseAndStrangers, ArbNetAssumption DEF NInit, NType, Echos
<1>5. Unattested
  BY HouseAndStrangers DEF NInit, Unattested, NoCand
<1>6. OnLan /\ Apart /\ OnlyAdopted
  BY <1>2, HouseAndStrangers DEF NInit, OnLan, Apart, OnlyAdopted
<1> QED
  BY <1>4, <1>5, <1>6 DEF NInv

\* adopt: an Echo of the house takes a network, the strangers keep theirs.
LEMMA adopt_Effect ==
  ASSUME NInv, NEW e \in House, NEW n \in Nat, adopt(e, n)
  PROVE  /\ net' \in [Echos -> Nat] /\ peers' \in [House -> SUBSET Echos]
         /\ \A s \in Strangers : net'[s] = net[s]
         /\ \A d \in House : net'[d] = IF d = e THEN n ELSE net[d]
<1>1. net' = [net EXCEPT ![e] = n] /\ peers' = [peers EXCEPT ![e] = {}]
  BY DEF adopt
<1> QED
  BY <1>1, HouseAndStrangers DEF NInv, NType

\* Taking a network that is no stranger's keeps the house apart.
LEMMA AdoptHolds ==
  ASSUME NInv, NType', Unattested', NEW e \in House, NEW n \in Nat, adopt(e, n), mail' \subseteq mail,
         strange.let => strange'.let, ~strange'.let => \A s \in Strangers : n # net[s]
  PROVE  NInv'
<1>1. (\A s \in Strangers : net'[s] = net[s]) /\ \A d \in House : net'[d] = IF d = e THEN n ELSE net[d]
  BY adopt_Effect
<1>2. OnLan'
  BY DEF NInv, OnLan
<1>3. Apart'
  BY <1>1 DEF NInv, Apart
<1>4. OnlyAdopted'
  BY <1>1 DEF NInv, OnlyAdopted
<1> QED
  BY <1>2, <1>3, <1>4 DEF NInv

\* push: what is handed goes to an Echo of the house, and is its own network's.
LEMMA Handed_Effect ==
  ASSUME NInv, NEW e \in House, NEW d \in Echos, NEW c \in Candidate, c.attested => d \in House
  PROVE  /\ Handed(e, d, c) \subseteq Key
         /\ \A m \in Handed(e, d, c) : m.to \in House /\ m.from = e
         /\ ~strange.let => \A m \in Handed(e, d, c), s \in Strangers : m.net # net[s]
<1>1. CASE Handed(e, d, c) = {}
  BY <1>1
<1>2. CASE Handed(e, d, c) # {}
  <2>1. PICK by \in {"lan", "action"} : Handed(e, d, c) = {[to |-> d, from |-> e, net |-> net[e], by |-> by]}
    BY <1>2 DEF Handed
  <2>2. net[e] # 0 /\ d \in House
    BY <1>2 DEF Handed, Younger
  <2>3. net[e] \in Nat /\ e \in Echos
    BY HouseAndStrangers DEF NInv, NType
  <2>4. ~strange.let => \A s \in Strangers : net[e] # net[s]
    BY <2>2 DEF NInv, OnlyAdopted
  <2> QED
    BY <2>1, <2>2, <2>3, <2>4 DEF Key
<1> QED
  BY <1>1, <1>2

\* What a step leaves to be shown when it leaves the networks and the keys.
LEMMA NetsKept ==
  ASSUME NInv, NType', Unattested', net' = net, mail' \subseteq mail, strange.let => strange'.let
  PROVE  NInv'
<1>1. OnLan' /\ Apart'
  BY DEF NInv, OnLan, Apart
<1>2. OnlyAdopted'
  BY DEF NInv, OnlyAdopted
<1> QED
  BY <1>1, <1>2 DEF NInv

\* What it leaves to be shown when it adds keys to the mail.
LEMMA MailGrows ==
  ASSUME NInv, NType', Unattested', net' = net, NEW K, mail' = mail \cup K, strange.let => strange'.let,
         \A m \in K : m.from \in Strangers => m.by = "lan",
         ~strange'.let => \A m \in K : m.to \in House /\ (m.from \in House => \A s \in Strangers : m.net # net[s])
  PROVE  NInv'
<1>1. OnLan'
  BY DEF NInv, OnLan
<1>2. Apart'
  BY DEF NInv, Apart
<1>3. OnlyAdopted'
  BY DEF NInv, OnlyAdopted
<1> QED
  BY <1>1, <1>2, <1>3 DEF NInv

\* Every step of arb.c's network part keeps the invariant.
LEMMA NStep == NInv /\ [NNext]_nvars => NInv'
<1> SUFFICES ASSUME NInv, [NNext]_nvars PROVE NInv'
  OBVIOUS
<1>0. NType /\ Unattested /\ OnLan /\ Apart /\ OnlyAdopted
  BY DEF NInv
<1>1. ASSUME NEW e \in House, create(e) PROVE NInv'
  <2>1. PICK n \in Nets \ {net[d] : d \in Echos} : adopt(e, n)
    BY <1>1 DEF create
  <2>2. n \in Nat /\ \A s \in Strangers : n # net[s]
    BY <2>1, HouseAndStrangers, ArbNetAssumption
  <2>3. NType' /\ Unattested'
    BY <1>0, <1>1, <2>1, <2>2, adopt_Effect DEF create, NType, Unattested
  <2> QED
    BY <1>1, <2>1, <2>2, <2>3, AdoptHolds DEF create
<1>2. ASSUME NEW e \in House, discovered(e) PROVE NInv'
  BY <1>0, <1>2 DEF discovered, NInv, NType, Unattested, OnLan, Apart, OnlyAdopted
<1>3. ASSUME NEW e \in House, scan(e) PROVE NInv'
  <2>1. \A d \in House, x \in Echos :
          cands'[d][x] = IF x = e THEN [cands[d][e] EXCEPT !.tag = IF @ = "read" THEN "scanned" ELSE @]
                                   ELSE cands[d][x]
    <3>1. cands' = [d \in House |-> [cands[d] EXCEPT ![e].tag = IF @ = "read" THEN "scanned" ELSE @]]
      BY <1>3 DEF scan
    <3>2. \A d \in House : cands[d] \in [Echos -> Candidate]
      BY <1>0 DEF NType
    <3> QED
      BY <3>1, <3>2, HouseAndStrangers
  <2>2. \A d \in House, x \in Echos : cands[d][x] \in Candidate
    BY <1>0 DEF NType
  <2>3. \A d \in House, x \in Echos : cands'[d][x] \in Candidate
    <3>1. \A d \in House : [cands[d][e] EXCEPT !.tag = IF @ = "read" THEN "scanned" ELSE @] \in Candidate
      BY <2>2, HouseAndStrangers DEF Candidate
    <3> QED
      BY <2>1, <2>2, <3>1
  <2>4. cands' \in [House -> [Echos -> Candidate]]
    BY <1>0, <1>3, <2>3, HouseAndStrangers DEF scan, NType
  <2>5. NType'
    BY <1>0, <1>3, <2>4, HouseAndStrangers DEF scan, NType
  <2>6. Unattested'
    BY <1>0, <2>1, HouseAndStrangers DEF Unattested
  <2> QED
    BY <1>3, <2>5, <2>6, NetsKept DEF scan
<1>4. ASSUME NEW e \in House, arb_pair(e) PROVE NInv'
  BY <1>0, <1>4 DEF arb_pair, NInv, NType, Unattested, OnLan, Apart, OnlyAdopted
<1>5. ASSUME NEW e \in House, pair_give(e) PROVE NInv'
  <2>1. net[e] # 0 /\ net[e] \in Nat /\ e \in Echos /\ (~strange.let => \A s \in Strangers : net[e] # net[s])
    BY <1>0, <1>5, HouseAndStrangers DEF pair_give, NType, OnlyAdopted
  <2>2. UNCHANGED <<net, peers, cands, tagged, ha, preqs, looking, pairs, downs>>
        /\ pair' \in [House -> {"off", "on", "gave"}]
    BY <1>0, <1>5 DEF pair_give, NType
  <2>3. Unattested'
    BY <1>0, <2>2 DEF Unattested
  <2>4. CASE UNCHANGED <<mail, strange>>
    <3>1. NType'
      BY <1>0, <2>2, <2>4 DEF NType
    <3> QED
      BY <2>2, <2>3, <2>4, <3>1, NetsKept
  <2>5. CASE \E q \in Outside(e) :
               /\ mail' = mail \union {[to |-> q.from, from |-> e, net |-> net[e], by |-> "lan"]}
               /\ strange' = [strange EXCEPT !.let = @ \/ q.from \in Strangers]
    <3>1. PICK q \in Outside(e) :
               /\ mail' = mail \union {[to |-> q.from, from |-> e, net |-> net[e], by |-> "lan"]}
               /\ strange' = [strange EXCEPT !.let = @ \/ q.from \in Strangers]
      BY <2>5
    <3> DEFINE k == [to |-> q.from, from |-> e, net |-> net[e], by |-> "lan"]
    <3>2. q.from \in Echos
      BY <1>0, <3>1 DEF Outside, NType
    <3>3. k \in Key
      BY <2>1, <3>2 DEF Key
    <3>4. strange \in [sent : Nat, let : BOOLEAN]
      BY <1>0 DEF NType
    <3>5. strange' \in [sent : Nat, let : BOOLEAN] /\ strange'.let = (strange.let \/ q.from \in Strangers)
      BY <3>1, <3>4, Zenon
    <3>6. NType'
      BY <1>0, <2>2, <3>1, <3>3, <3>5 DEF NType
    <3>7. ~strange'.let => k.to \in House /\ \A s \in Strangers : k.net # net[s]
      BY <2>1, <3>2, <3>5 DEF Echos
    <3>8. mail' = mail \cup {k} /\ k.from = e /\ k.by = "lan"
      BY <3>1
    <3>9. strange.let => strange'.let
      BY <3>5
    <3> HIDE DEF k
    <3> DEFINE K == {k}
    <3>10. /\ mail' = mail \cup K /\ \A m \in K : m.from \in Strangers => m.by = "lan"
           /\ ~strange'.let => \A m \in K : m.to \in House /\ (m.from \in House => \A s \in Strangers : m.net # net[s])
      BY <3>7, <3>8
    <3> HIDE DEF K
    <3> QED
      BY <2>2, <2>3, <3>6, <3>9, <3>10, MailGrows
  <2> QED
    BY <1>5, <2>4, <2>5 DEF pair_give
<1>6. ASSUME NEW e \in House, pairing_end(e) PROVE NInv'
  BY <1>0, <1>6 DEF pairing_end, NInv, NType, Unattested, OnLan, Apart, OnlyAdopted
<1>7. ASSUME NEW e \in House, arb_start(e) PROVE NInv'
  <2>1. NoCand \in Candidate /\ ~NoCand.attested /\ NoCand.tag # "scanned"
    BY DEF NoCand, Candidate
  <2>2. cands' = [cands EXCEPT ![e] = [d \in Echos |-> NoCand]] /\ UNCHANGED <<net, mail, strange>>
    BY <1>7 DEF arb_start
  <2>3. NType'
    BY <1>0, <1>7, <2>1, <2>2 DEF arb_start, Down, NType
  <2>4. Unattested'
    BY <1>0, <2>1, <2>2, HouseAndStrangers DEF NType, Unattested
  <2> QED
    BY <2>2, <2>3, <2>4, NetsKept
<1>8. ASSUME NEW e \in House, NEW d \in Echos \ {e}, beacon(d, e) PROVE NInv'
  <2> DEFINE c == [cands[e][d] EXCEPT !.seen = TRUE, !.net = net[d]]
             off == [cands[e][d] EXCEPT !.seen = FALSE]
  <2>1. UNCHANGED <<net, tagged, ha, pair, preqs, looking, pairs, downs, strange>>
    BY <1>8 DEF beacon
  <2>2. cands[e][d] \in Candidate /\ net[d] \in Nat /\ cands \in [House -> [Echos -> Candidate]]
    BY <1>0 DEF NType
  <2>3. c \in Candidate /\ c.attested = cands[e][d].attested /\ c.tag = cands[e][d].tag
    BY <2>2 DEF Candidate
  <2>4. off \in Candidate /\ off.attested = cands[e][d].attested /\ off.tag = cands[e][d].tag
    BY <2>2 DEF Candidate
  <2>5. c.attested => d \in House
    BY <1>0, <2>3 DEF Unattested, Echos
  <2>6. CASE net[e] # 0 /\ net[d] = net[e]
    <3>1. cands' = [cands EXCEPT ![e][d] = off] /\ mail' = mail /\ peers' = [peers EXCEPT ![e] = @ \cup {d}]
      BY <1>8, <2>2, <2>6 DEF beacon
    <3>2. NType'
      BY <1>0, <2>1, <2>2, <2>4, <3>1 DEF NType
    <3>3. Unattested'
      BY <1>0, <2>2, <2>4, <3>1, HouseAndStrangers DEF Unattested
    <3> QED
      BY <2>1, <3>1, <3>2, <3>3, NetsKept
  <2>7. CASE ~(net[e] # 0 /\ net[d] = net[e])
    <3>1. cands' = [cands EXCEPT ![e][d] = c] /\ mail' = mail \cup Handed(e, d, c) /\ peers' = peers
      BY <1>8, <2>7 DEF beacon
    <3>2. /\ Handed(e, d, c) \in SUBSET Key
          /\ \A m \in Handed(e, d, c) : m.to \in House /\ m.from = e
          /\ ~strange.let => \A m \in Handed(e, d, c), s \in Strangers : m.net # net[s]
      <4> HIDE DEF c
      <4> QED
        BY <2>3, <2>5, Handed_Effect
    <3> HIDE DEF c
    <3>3. NType'
      BY <1>0, <2>1, <2>2, <2>3, <3>1, <3>2 DEF NType
    <3>4. Unattested'
      BY <1>0, <2>2, <2>3, <3>1, HouseAndStrangers DEF Unattested
    <3> QED
      BY <2>1, <3>1, <3>2, <3>3, <3>4, MailGrows, HouseAndStrangers
  <2> QED
    BY <2>6, <2>7
<1>9. ASSUME NEW e \in House, NEW d \in Echos \ {e}, push(e, d) PROVE NInv'
  <2>1. UNCHANGED <<net, peers, cands, tagged, ha, pair, preqs, looking, pairs, downs, strange>>
        /\ mail' = mail \cup Handed(e, d, cands[e][d])
    BY <1>9 DEF push
  <2>2. cands[e][d] \in Candidate
    BY <1>0 DEF NType
  <2>3. cands[e][d].attested => d \in House
    BY <1>0 DEF Unattested, Echos
  <2>4. /\ Handed(e, d, cands[e][d]) \in SUBSET Key
        /\ \A m \in Handed(e, d, cands[e][d]) : m.to \in House /\ m.from = e
        /\ ~strange.let => \A m \in Handed(e, d, cands[e][d]), s \in Strangers : m.net # net[s]
    BY <2>2, <2>3, Handed_Effect
  <2>5. NType' /\ Unattested'
    BY <1>0, <2>1, <2>4 DEF NType, Unattested
  <2> QED
    BY <2>1, <2>4, <2>5, MailGrows, HouseAndStrangers
<1>10. ASSUME NEW e \in House, NEW d \in Echos \ {e}, arb_ha_state(e, d) PROVE NInv'
  <2>1. PICK k : cands' = [cands EXCEPT ![e][d] = k]
             /\ \/ k = [cands[e][d] EXCEPT !.tag = "read"] /\ cands[e][d].tag = "unread"
                \/ k = [cands[e][d] EXCEPT !.attested = TRUE] /\ cands[e][d].tag = "scanned"
                \/ k = cands[e][d]
    BY <1>0, <1>10 DEF arb_ha_state, NType
  <2>2. cands[e][d] \in Candidate /\ cands \in [House -> [Echos -> Candidate]]
    BY <1>0 DEF NType
  <2>3. k \in Candidate
    BY <2>1, <2>2 DEF Candidate
  <2>4. d \in Strangers => ~k.attested /\ k.tag # "scanned"
    BY <1>0, <2>1, <2>2 DEF Unattested, Candidate
  <2>5. NType'
    <3>1. cands' \in [House -> [Echos -> Candidate]]
      BY <2>1, <2>2, <2>3
    <3>2. UNCHANGED <<net, peers, tagged, ha, mail, pair, preqs, looking, pairs, downs, strange>>
      BY <1>10 DEF arb_ha_state
    <3> QED
      BY <1>0, <3>1, <3>2 DEF NType
  <2>6. Unattested'
    BY <1>0, <2>1, <2>2, <2>4, HouseAndStrangers DEF Unattested
  <2> QED
    BY <1>10, <2>5, <2>6, NetsKept DEF arb_ha_state
<1>11. ASSUME NEW e \in House, NEW d \in Echos \ {e}, silent(e, d) PROVE NInv'
  <2>1. cands' = [cands EXCEPT ![e][d] = [cands[e][d] EXCEPT !.seen = FALSE]] /\ UNCHANGED <<net, mail, strange>>
    BY <1>0, <1>11 DEF silent, NType
  <2>2. cands[e][d] \in Candidate /\ cands \in [House -> [Echos -> Candidate]]
    BY <1>0 DEF NType
  <2>3. [cands[e][d] EXCEPT !.seen = FALSE] \in Candidate
        /\ [cands[e][d] EXCEPT !.seen = FALSE].attested = cands[e][d].attested
        /\ [cands[e][d] EXCEPT !.seen = FALSE].tag = cands[e][d].tag
    BY <2>2 DEF Candidate
  <2>4. NType'
    <3>1. cands' \in [House -> [Echos -> Candidate]]
      BY <2>1, <2>2, <2>3
    <3>2. UNCHANGED <<net, tagged, ha, mail, pair, preqs, looking, pairs, strange>> /\ downs' \in Nat
      BY <1>0, <1>11 DEF silent, Down, NType
    <3>3. peers' \in [House -> SUBSET Echos]
      BY <1>0, <1>11 DEF silent, NType
    <3> QED
      BY <1>0, <3>1, <3>2, <3>3 DEF NType
  <2>5. Unattested'
    BY <1>0, <2>1, <2>2, <2>3, HouseAndStrangers DEF Unattested
  <2> QED
    BY <2>1, <2>4, <2>5, NetsKept
<1>12. ASSUME NEW e \in House, NEW d \in Echos, on_pair(d, e), strange' \in [sent : Nat, let : BOOLEAN],
              strange.let => strange'.let, UNCHANGED <<net, peers, cands, tagged, ha, mail, pair, looking, pairs, downs>>
       PROVE  NInv'
  <2>1. net[d] \in Nat
    BY <1>0 DEF NType
  <2>2. NType'
    BY <1>0, <1>12, <2>1 DEF on_pair, NType
  <2> QED
    BY <1>0, <1>12, <2>2, NetsKept DEF Unattested
<1>17. ASSUME NEW e \in House, NEW d \in House \ {e}, pair_request(d, e) PROVE NInv'
  BY <1>0, <1>12, <1>17, HouseAndStrangers DEF pair_request, NType
<1>18. ASSUME Sends PROVE strange' \in [sent : Nat, let : BOOLEAN] /\ strange'.let = strange.let
  BY <1>0, <1>18 DEF Sends, NType
<1>19. ASSUME NEW e \in House, NEW s \in Strangers, stranger_asks(s, e) PROVE NInv'
  BY <1>12, <1>18, <1>19, HouseAndStrangers DEF stranger_asks
<1>20. ASSUME NEW e \in House, NEW s \in Strangers, stranger_gives(s, e) PROVE NInv'
  <2> DEFINE k == [to |-> e, from |-> s, net |-> net[s], by |-> "lan"]
  <2>1. k \in Key /\ k.to = e /\ k.from = s /\ k.by = "lan"
    BY <1>0, <1>20, HouseAndStrangers DEF stranger_gives, NType, Key
  <2>2. mail' = mail \cup {k} /\ UNCHANGED <<net, peers, cands, tagged, ha, pair, preqs, looking, pairs, downs>>
    BY <1>20 DEF stranger_gives
  <2>3. strange' \in [sent : Nat, let : BOOLEAN] /\ strange'.let = strange.let
    BY <1>18, <1>20 DEF stranger_gives
  <2> HIDE DEF k
  <2>4. NType' /\ Unattested'
    BY <1>0, <2>1, <2>2, <2>3 DEF NType, Unattested
  <2> DEFINE K == {k}
  <2>5. /\ mail' = mail \cup K /\ \A m \in K : m.by = "lan" /\ m.to \in House /\ m.from \notin House
    BY <2>1, <2>2, HouseAndStrangers
  <2> HIDE DEF K
  <2> QED
    BY <2>2, <2>3, <2>4, <2>5, MailGrows
<1>21. ASSUME NEW m \in mail, stranger_joins(m) PROVE NInv'
  <2>1. m.to \in Strangers /\ m.net \in Nat /\ m.to \in Echos /\ mail' \subseteq mail /\ net' = [net EXCEPT ![m.to] = m.net]
        /\ UNCHANGED <<peers, cands, tagged, ha, pair, preqs, looking, pairs, downs, strange>>
    BY <1>0, <1>21 DEF stranger_joins, NType, Key
  <2>2. strange.let
    BY <1>0, <2>1, HouseAndStrangers DEF OnlyAdopted
  <2>3. NType' /\ Unattested'
    BY <1>0, <2>1 DEF NType, Unattested
  <2>4. OnLan' /\ Apart' /\ OnlyAdopted'
    BY <1>0, <2>1, <2>2 DEF OnLan, Apart, OnlyAdopted
  <2> QED
    BY <2>3, <2>4 DEF NInv
<1>13. ASSUME NEW m \in mail, lost(m) PROVE NInv'
  <2>1. NType'
    BY <1>0, <1>13 DEF lost, NType
  <2> QED
    BY <1>0, <1>13, <2>1, NetsKept DEF lost, Unattested
<1>14. ASSUME NEW m \in mail, NEW again \in BOOLEAN, arrive(m, again) PROVE NInv'
  <2> DEFINE lets == m.from \in Strangers /\ pair[m.to] # "off" /\ Older(m.net, m.to)
  <2>1. m.to \in House /\ m.net \in Nat /\ m.from \in Echos /\ mail' \subseteq mail
        /\ UNCHANGED <<cands, tagged, ha, preqs, looking, pairs, downs>>
    BY <1>0, <1>14 DEF arrive, NType, Key
  <2>2. strange' \in [sent : Nat, let : BOOLEAN] /\ strange'.let = (strange.let \/ lets)
    <3>1. strange \in [sent : Nat, let : BOOLEAN]
      BY <1>0 DEF NType
    <3>2. strange' = [strange EXCEPT !.let = @ \/ lets]
      BY <1>14 DEF arrive
    <3> HIDE DEF lets
    <3>3. (strange.let \/ lets) \in BOOLEAN
      OBVIOUS
    <3> QED
      BY <3>1, <3>2, <3>3, Zenon
  <2>3. CASE UNCHANGED <<net, peers, pair>>
    <3>1. NType' /\ Unattested'
      BY <1>0, <2>1, <2>2, <2>3 DEF NType, Unattested
    <3> QED
      BY <2>1, <2>2, <2>3, <3>1, NetsKept
  <2>4. CASE Believed(m) /\ Older(m.net, m.to) /\ adopt(m.to, m.net) /\ pair' = [pair EXCEPT ![m.to] = "off"]
    <3>1. NType' /\ Unattested'
      BY <1>0, <2>1, <2>2, <2>4, adopt_Effect DEF NType, Unattested
    <3>2. ASSUME ~strange'.let, NEW s \in Strangers PROVE m.net # net[s]
      <4>1. ~strange.let /\ ~lets
        BY <2>2, <3>2
      <4>2. m.from \notin Strangers
        <5> SUFFICES ASSUME m.from \in Strangers PROVE FALSE
          OBVIOUS
        <5>1. pair[m.to] = "off"
          BY <2>4, <4>1
        <5>2. m.by = "lan" /\ ~cands[m.to][m.from].attested
          BY <1>0, <2>1 DEF OnLan, Unattested
        <5> QED
          BY <2>4, <5>1, <5>2 DEF Believed
      <4>3. m.from \in House
        BY <2>1, <4>2 DEF Echos
      <4> QED
        BY <1>0, <4>1, <4>3 DEF Apart
    <3> QED
      BY <2>1, <2>2, <2>4, <3>1, <3>2, AdoptHolds
  <2> QED
    BY <1>14, <2>3, <2>4 DEF arrive, take_key
<1>15. CASE HaGone \/ HaBack
  <2>1. UNCHANGED <<net, peers, cands, tagged, mail, pair, preqs, looking, pairs, strange>> /\ ha' \in BOOLEAN /\ downs' \in Nat
    <3>1. downs \in Nat
      BY <1>0 DEF NType
    <3>2. CASE HaGone
      <4>1. ha' \in BOOLEAN /\ UNCHANGED <<net, peers, cands, tagged, mail, pair, preqs, looking, pairs, strange>>
            /\ downs' = downs + 1
        BY <3>2, Zenon DEF HaGone, Down
      <4> QED
        BY <3>1, <4>1
    <3>3. CASE HaBack
      <4>1. ha' \in BOOLEAN /\ UNCHANGED <<net, peers, cands, tagged, mail, pair, preqs, looking, pairs, strange>> /\ downs' = downs
        BY <3>3, Zenon DEF HaBack
      <4> QED
        BY <3>1, <4>1
    <3> QED
      BY <1>15, <3>2, <3>3
  <2>2. NType'
    BY <1>0, <2>1 DEF NType
  <2> QED
    BY <1>0, <2>1, <2>2, NetsKept DEF Unattested
<1>16. CASE UNCHANGED nvars
  BY <1>0, <1>16 DEF nvars, NInv, NType, Unattested, OnLan, Apart, OnlyAdopted
<1> QED
  BY <1>1, <1>2, <1>3, <1>4, <1>5, <1>6, <1>7, <1>8, <1>9, <1>10, <1>11, <1>13, <1>14, <1>15, <1>16,
     <1>17, <1>19, <1>20, <1>21 DEF NNext

\* arb.c, for any house, any strangers and any networks: a stranger's tag is never
\* attested, what it sends comes over the LAN, and as long as no pressed Echo's
\* window let one in, no key the house's Echos hand is a stranger's network's.
THEOREM NetInvariant == NSpec => []NInv
  BY NInitHolds, NStep, PTL DEF NSpec

\* arb_ha_state, push and arrive: an Echo of the house never comes into a
\* stranger's network, nor a stranger into the house's, whatever the stranger
\* announces, hands or asks, and whatever is lost or handed again, with Home
\* Assistant there or away; but for a stranger that met the window of an Echo
\* whose buttons were pressed and was the only one outside to ask, or handed a key.
THEOREM OnlyAdoptedHolds == NSpec => []OnlyAdopted
<1>1. NInv => OnlyAdopted
  BY DEF NInv
<1> QED
  BY <1>1, NetInvariant, PTL
=============================================================================
