------------------------------- MODULE Improv -------------------------------
(***************************************************************************)
(* Wi-Fi setup from a phone: improv.c's worker and GATT callbacks, the    *)
(* phone's link and advertising of ble.c (conns[SRV]), and the requests   *)
(* of wifi.c that root's watcher takes.  A turn of the worker holds mu    *)
(* and is one action; timers may have run out whenever it looks.  The     *)
(* phone, the network and root's wifi.sh are external.                    *)
(***************************************************************************)
EXTENDS Naturals, FiniteSets, TLC

CONSTANTS Oobe,          \* core_oobe(): not set up yet
          MaxCommands,   \* bound: commands of the phone
          MaxJobs,       \* bound: requests to root, the web page's included
          MaxOutage,     \* bound: changes of the network by itself
          Nothing

VARIABLES imp,           \* improv.c's state under mu
          phone,         \* the link, the characteristics due to it, the advertising
          wifi,          \* the files wifi.c and root exchange, under state/ and wifi/
          online, commands, outages

ivars == <<imp, phone, wifi, online, commands, outages>>

Chars == {"state", "error", "result"}
IInit == /\ imp = [mode |-> "off", st |-> "authorized", err |-> "none", conn |-> FALSE, cmd |-> Nothing,
                   scan |-> 0, join |-> 0, told |-> "authorized"]
         /\ phone = [up |-> FALSE, due |-> {}, sub |-> FALSE, seen |-> Nothing, want |-> Nothing, on |-> Nothing]
         /\ wifi = [req |-> Nothing, lock |-> FALSE, job |-> Nothing, result |-> Nothing, scan |-> 0, ids |-> 0]
         /\ online = FALSE /\ commands = 0 /\ outages = 0

----------------------------------------------------------------------------
\* wifi.c.  One request waits for root at a time; ids tie answers to requests.
may_ask(w) == w.req = Nothing /\ ~(w.lock /\ w.result # Nothing /\ w.result.state = "switching")
write_req(w, kind) == [w EXCEPT !.ids = @ + 1, !.req = [kind |-> kind, id |-> w.ids + 1]]
SameScan(w) == w.req # Nothing /\ w.req.kind = "scan"               \* asked twice: the same one

wifi_scan_result(id) == wifi.scan = id
\* 0 while it waits or runs, else its outcome; late: not taken for 20 s.
wifi_join_result(id, late) ==
  LET r == wifi.result IN
  IF r = Nothing \/ r.id # id
  THEN IF (wifi.req # Nothing /\ wifi.req.id = id /\ ~late) \/ wifi.lock THEN "waits" ELSE "failed"
  ELSE CASE r.state = "switching" -> IF wifi.lock THEN "waits" ELSE "failed"      \* interrupted
         [] OTHER -> r.state

----------------------------------------------------------------------------
\* improv.c.  A step of the worker carries [i, w, due]: mu's state, the request
\* files, the characteristics to notify.
set_state(s, st) == [s EXCEPT !.i.st = st, !.due = IF st # s.i.st THEN @ \cup {"state"} ELSE @]
set_error(s, e) == [s EXCEPT !.i.err = e, !.due = IF e # s.i.err THEN @ \cup {"error"} ELSE @]
set_result(s) == [s EXCEPT !.due = @ \cup {"result"}]
Unsecured(late) == IF imp.mode = "lost" /\ late THEN "auth_required" ELSE "authorized"

command(s) ==
  LET t == set_error(s, "none")
      authorized == s.i.st \in {"authorized", "provisioned"} IN
  CASE s.i.cmd = Nothing -> s
    [] s.i.cmd = "wifi" ->
         IF ~authorized THEN set_error(t, "not_authorized")
         ELSE IF s.i.join # 0 THEN set_error(t, "unknown")
         ELSE IF ~may_ask(s.w) \/ s.w.ids = MaxJobs THEN set_error(t, "unable")
         ELSE [set_state(t, "provisioning") EXCEPT !.w = write_req(s.w, "join"), !.i.join = s.w.ids + 1]
    [] s.i.cmd = "info" -> set_result(t)
    [] s.i.cmd = "scan" ->
         IF s.i.scan # 0 THEN t
         ELSE IF SameScan(s.w) THEN [t EXCEPT !.i.scan = s.w.req.id]
         ELSE IF ~may_ask(s.w) \/ s.w.ids = MaxJobs THEN set_error(t, "unknown")
         ELSE [t EXCEPT !.w = write_req(s.w, "scan"), !.i.scan = s.w.ids + 1]

ScanStep(s, late) ==
  CASE s.i.scan # 0 /\ wifi_scan_result(s.i.scan) -> [set_result(s) EXCEPT !.i.scan = 0]
    [] s.i.scan # 0 /\ late -> [set_error(s, "unknown") EXCEPT !.i.scan = 0]
    [] OTHER -> s

\* untaken: the request still waits after 20 s; late: JOIN_SECS are over.
JoinStep(s, untaken, late) ==
  LET r == IF s.i.join # imp.join THEN "waits" ELSE wifi_join_result(s.i.join, untaken) IN
  CASE s.i.join = 0 -> s
    [] r = "ok" -> [set_result(set_state(s, "provisioned")) EXCEPT !.i.join = 0]
    [] r = "failed" \/ late ->
         [set_state(set_error(s, "unable"), Unsecured(late)) EXCEPT !.i.join = 0]
    [] OTHER -> s

AuthStep(s, late) ==
  IF s.i.st = "authorized" /\ s.i.mode = "lost" /\ late THEN set_state(s, "auth_required") ELSE s

\* The mode follows the network while nothing is going on.
ModeStep(s, late) ==
  LET busy == s.i.conn \/ s.i.join # 0 \/ s.i.scan # 0
      t == IF ~busy /\ s.i.st = "provisioned" /\ late THEN set_state(s, Unsecured(late)) ELSE s
      want == IF busy \/ t.i.st = "provisioned" THEN t.i.mode
              ELSE IF ~online /\ late THEN (IF Oobe THEN "oobe" ELSE "lost")
              ELSE IF ~online /\ t.i.mode # "off" THEN t.i.mode ELSE "off"
      u == CASE want = "oobe" -> set_state(t, "authorized")
             [] want = "lost" -> set_state(t, IF late THEN "auth_required" ELSE "authorized")
             [] OTHER -> [t EXCEPT !.i.st = "authorized"] IN
  IF want = t.i.mode THEN t ELSE [u EXCEPT !.i.mode = want, !.i.err = "none"]

\* advertise(): what the phones should hear, once the mode or the state changed.
Advertised(i) == IF i.mode = "off" THEN Nothing ELSE i.st

Turn(lateScan, untaken, lateJoin, lateAuth, late) ==
  \E c \in {command([i |-> imp, w |-> wifi, due |-> {}])} :
  \E n \in {ScanStep([c EXCEPT !.i.cmd = Nothing], lateScan)} :
  \E j \in {AuthStep(JoinStep(n, untaken, lateJoin), lateAuth)} :
  \E s \in {ModeStep(j, late)} :
    /\ imp' = [s.i EXCEPT !.told = s.i.st] /\ wifi' = s.w
    /\ phone' = [phone EXCEPT !.due = IF phone.up THEN @ \cup s.due ELSE @,
                              !.want = IF s.i.mode # imp.mode \/ s.i.st # imp.told THEN Advertised(s.i) ELSE @]
    /\ UNCHANGED <<online, commands, outages>>
May(c) == IF c THEN BOOLEAN ELSE {FALSE}           \* a timer that may have run out by now
worker == \E lateScan \in May(imp.scan # 0), untaken, lateJoin \in May(imp.join # 0),
             lateAuth \in May(imp.mode = "lost"), late \in BOOLEAN :
             Turn(lateScan, untaken, lateJoin, lateAuth, late)

\* The action button, while a phone needs it.
improv_authorize == /\ imp.mode = "lost" /\ imp.st = "auth_required"
                    /\ imp' = [imp EXCEPT !.st = "authorized"]
                    /\ phone' = [phone EXCEPT !.due = IF phone.up THEN @ \cup {"state"} ELSE @]
                    /\ UNCHANGED <<wifi, online, commands, outages>>

----------------------------------------------------------------------------
\* ble.c: advertising while no phone is connected, one phone, notifications.
adv_upkeep == /\ phone.on # (IF phone.up THEN Nothing ELSE phone.want)
              /\ phone' = [phone EXCEPT !.on = IF phone.up THEN Nothing ELSE phone.want]
              /\ UNCHANGED <<imp, wifi, online, commands, outages>>
PhoneConnects == /\ phone.on # Nothing /\ ~phone.up
                 /\ phone' = [phone EXCEPT !.up = TRUE, !.on = Nothing] /\ imp' = [imp EXCEPT !.conn = TRUE]
                 /\ UNCHANGED <<wifi, online, commands, outages>>
srv_gone == /\ phone.up
            /\ phone' = [phone EXCEPT !.up = FALSE, !.due = {}, !.sub = FALSE, !.seen = Nothing]
            /\ imp' = [imp EXCEPT !.conn = FALSE]
            /\ UNCHANGED <<wifi, online, commands, outages>>
gatts_notify == /\ phone.up /\ phone.due # {}
                /\ phone' = [phone EXCEPT !.due = {},
                                !.seen = IF phone.sub /\ "state" \in phone.due THEN imp.st ELSE @]
                /\ UNCHANGED <<imp, wifi, online, commands, outages>>
\* The phone subscribes to the characteristics, then reads the state.
gatts_rx == /\ phone.up
            /\ phone' = IF phone.sub THEN [phone EXCEPT !.seen = imp.st] ELSE [phone EXCEPT !.sub = TRUE]
            /\ UNCHANGED <<imp, wifi, online, commands, outages>>
\* A whole command; the one before may still be waiting for the worker.
on_write == \E c \in {"wifi", "info", "scan", "garbled"} :
  /\ phone.up /\ commands < MaxCommands /\ commands' = commands + 1
  /\ LET e == CASE c = "garbled" -> "invalid" [] imp.cmd # Nothing -> "unknown" [] OTHER -> imp.err IN
     /\ imp' = IF e = imp.err /\ c # "garbled" THEN [imp EXCEPT !.cmd = IF @ = Nothing THEN c ELSE @]
               ELSE [imp EXCEPT !.err = e]
     /\ phone' = [phone EXCEPT !.due = IF e # imp.err THEN @ \cup {"error"} ELSE @]
  /\ UNCHANGED <<wifi, online, outages>>

----------------------------------------------------------------------------
\* External: root's watcher and wifi.sh; the settings page; the network.
RootTakes == /\ wifi.req # Nothing /\ ~wifi.lock
             /\ wifi' = [wifi EXCEPT !.req = Nothing, !.lock = TRUE, !.job = wifi.req,
                           !.result = IF wifi.req.kind = "join" THEN [id |-> wifi.req.id, state |-> "switching"] ELSE @]
             /\ UNCHANGED <<imp, phone, online, commands, outages>>
RootAnswers == \E ok \in BOOLEAN :
  LET j == wifi.job IN
  /\ wifi.lock
  /\ wifi' = [wifi EXCEPT !.lock = FALSE, !.job = Nothing,
                !.scan = IF j.kind = "scan" THEN j.id ELSE @,
                !.result = IF j.kind = "join" THEN [id |-> j.id, state |-> IF ok THEN "ok" ELSE "failed"] ELSE @]
  /\ online' = (online \/ (ok /\ j.kind = "join"))
  /\ UNCHANGED <<imp, phone, commands, outages>>
\* The Echo restarts in the middle of a switch: the result file stays.
RootDies == /\ wifi.lock /\ wifi' = [wifi EXCEPT !.lock = FALSE, !.job = Nothing]
            /\ UNCHANGED <<imp, phone, online, commands, outages>>
WebAsks == \E kind \in {"scan", "join"} :
           /\ may_ask(wifi) /\ wifi.ids < MaxJobs
           /\ wifi' = write_req(wifi, kind) /\ UNCHANGED <<imp, phone, online, commands, outages>>
Network == /\ outages < MaxOutage /\ outages' = outages + 1 /\ online' = ~online
           /\ UNCHANGED <<imp, phone, wifi, commands>>

INext == \/ worker \/ improv_authorize \/ adv_upkeep \/ PhoneConnects \/ srv_gone
         \/ gatts_notify \/ gatts_rx \/ on_write \/ RootTakes \/ RootAnswers \/ RootDies \/ WebAsks \/ Network
ISpec == IInit /\ [][INext]_ivars

\* A phone's command always comes to its answer: nothing leaves the worker
\* provisioning, scanning or with the command it holds, whatever root does
\* (the one-command-at-a-time rule of on_write would refuse every later one).
CommandDone == imp.st # "provisioning" /\ imp.scan = 0 /\ imp.cmd = Nothing

\* Phones are told what they will find: the advertising follows the state, and
\* one that subscribed before it read the state is notified of every change it
\* would otherwise never learn of.
PhoneKnows == /\ phone.up \/ phone.on = Advertised(imp)
              /\ phone.seen = Nothing \/ phone.seen = imp.st
=============================================================================
