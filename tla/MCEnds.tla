---- MODULE MCEnds ----
(***************************************************************************)
(* What must come to an end, in every part of the program that waits for   *)
(* something: one part per behaviour (part), each under its own fairness,  *)
(* with its module's parameters set here.  The parts share the variables   *)
(* v1, v2, ...: which variable of its module each one is, its INSTANCE     *)
(* says; the ones it does not have stay 0.  Updates, which a theorem is    *)
(* about, have variables of their own and their parameters in the          *)
(* configuration.                                                          *)
(***************************************************************************)
EXTENDS Integers, Sequences, Update

CONSTANT Nil          \* what the modules call None, Nothing or Nobody

VARIABLES part,       \* the part of the program this behaviour is about
          v1, v2, v3, v4, v5, v6, v7, v8, v9, v10, v11, v12, v13, v14, v15, v16, v17, v18,
          v19, v20, v21    \* its variables

vars == <<part, uvars, v1, v2, v3, v4, v5, v6, v7, v8, v9, v10, v11, v12, v13, v14, v15, v16, v17,
          v18, v19, v20, v21>>

BleKinds == {"connect", "disconnect", "discover", "access", "command", "pair", "unpair"}
PageRequests == <<[api |-> "mww", call |-> "add"], [api |-> "page", call |-> "state"]>>

\* ble.c: one device, every kind of request, one pairing.
Ble == INSTANCE Ble WITH
    Addr <- {1}, Slot <- {1}, AclNum <- 1, MaxBonds <- 1, FirstBonds <- <<1>>, MaxFrags <- 1,
    MaxRequests <- 2, Kinds <- BleKinds, MaxSecure <- 1, Nobody <- Nil,
    ble <- v1, queue <- v2, requested <- v3, secured <- v4, dhJob <- v5, owed <- v6

\* a2dp.c and btout.c: one speaker, switched once.
Speaker == INSTANCE Speaker WITH
    Speakers <- {"s1"}, Prefs <- {[stay |-> FALSE, awake |-> FALSE]}, MaxSwitch <- 0,
    MaxTrouble <- 1, None <- Nil,
    out <- v1, bt <- v2, rt <- v3, output <- v4, switches <- v5, troubles <- v6

\* improv.c: a command of a phone, one outage.
Improv == INSTANCE Improv WITH
    Oobe <- FALSE, MaxCommands <- 1, MaxJobs <- 1, MaxOutage <- 1, Nothing <- Nil,
    imp <- v1, phone <- v2, wifi <- v3, online <- v4, commands <- v5, outages <- v6

\* ringdesign.c: two designs and two packs, root killed once.
Designs == INSTANCE Designs WITH
    Ids <- {1, 2}, Packs <- {1}, MaxEdits <- 2, MaxApplies <- 2, MaxKills <- 1, MaxFails <- 1, None <- Nil,
    lib <- v1, assign <- v2, file <- v3, packs <- v4, applied <- v5, installed <- v6, request <- v7,
    wait <- v8, result <- v9, root <- v10, real <- v11, gone <- v12, doing <- v13, reused <- v14,
    made <- v15, edits <- v16, applies <- v17, kills <- v18, saves <- v19

\* arb.c: two Echos that each may start a network, one away for a while.
ArbNet == INSTANCE ArbNet WITH
    House <- {1, 2}, Strangers <- {}, Nets <- {1, 2}, StrangerNets <- {0}, HasHa <- TRUE,
    Allowed <- FALSE, MaxPairs <- 0, MaxStrange <- 0, MaxDowns <- 1,
    net <- v1, peers <- v2, cands <- v3, tagged <- v4, ha <- v5, mail <- v6, pair <- v7,
    preqs <- v8, looking <- v9, pairs <- v10, downs <- v11, strange <- v12

\* netaddr.c: two addresses, one lease, one client lost.
NetAddr == INSTANCE NetAddr WITH
    Addr <- {1, 2}, MaxLinks <- 1, First <- [p \in {"ha", "ss"} |-> IF p = "ha" THEN 3 ELSE 1],
    MaxWait <- 4, GiveUp <- 2, MaxLeases <- 1, MaxVisits <- 1, MaxLost <- 0,
    own <- v1, last <- v2, links <- v3, listed <- v4, cut <- v5, sched <- v6, mdns <- v7, ha <- v8,
    player <- v9, leases <- v10, visits <- v11, lost <- v12

\* proto_esphome.c: two clients, a key change.
Api == INSTANCE Api WITH
    Slot <- {1, 2}, MaxKey <- 1, MaxConn <- 2, MaxReqs <- 2, NoOne <- 0,
    clients <- v1, va <- v2, key <- v3, link <- v4, scanOn <- v5, bleQ <- v6, bleConns <- v7,
    bt <- v8, conns <- v9, reqs <- v10

\* dropin.c: two Echos, one call, an outage.
DropIn == INSTANCE DropIn WITH
    Echo <- {1, 2}, MaxTries <- 1, MaxMail <- 1, Evq <- 6, Byes <- 1, Ended <- 2, MaxOutage <- 1,
    NoCall <- Nil,
    c <- v1, bye <- v2, ended <- v3, evq <- v4, telling <- v5, core <- v6, mail <- v7, tries <- v8,
    results <- v9, past <- v10, revived <- v11, outages <- v12

\* main.c's timers: two timers, one place in each table.
Timers == INSTANCE Timers WITH
    Ids <- {1, 2}, RingingMax <- 1, RunningMax <- 1, Length <- 1, Stale <- 1, RingTimes <- {0, 1},
    MaxEvents <- 2, MaxNoise <- 1, Never <- 99,
    running <- v1, staleAt <- v2, ringing <- v3, alarm_on <- v4, alarm_until <- v5,
    timer_ring_s <- v6, preview <- v7, earcon <- v8, busy <- v9, dropin_ring <- v10,
    fullRing <- v11, events <- v12, noises <- v13

\* web.c: two browsers, two logins, a restart.
Web == INSTANCE Web WITH
    Browsers <- {1, 2}, MaxClients <- 1, CtrWindow <- 1, MaxCtr <- 2, AskFor <- PageRequests,
    MaxNonces <- 1, MaxConn <- 1, MaxBoots <- 1, MaxFails <- 0, MaxLogins <- 2, NoOne <- 0,
    clients <- v1, disk <- v2, loginAsk <- v3, attention <- v4, nonces <- v5, nconn <- v6, done <- v7,
    twice <- v8, boots <- v9, logins <- v10, saves <- v11

\* main.c's volumes: a curve with one step, one kind of sound.
Volume == INSTANCE Volume WITH
    Full <- 2, Curve <- [v \in 0..2 |-> IF v = 0 THEN 0 ELSE 2], Kinds <- {"sounds"},
    FirstEven <- FALSE, MaxCalls <- 1, MaxStray <- 1, MaxKills <- 0, MaxFails <- 1, MaxLate <- 3,
    Nothing <- Nil,
    vol <- v1, mixer <- v2, speakerF <- v3, musicF <- v4, sync <- v5, up <- v6, ownEver <- v7,
    kept <- v8, calls <- v9, strays <- v10, kills <- v11

\* wake words: three of Alexa's and two microWakeWord models, one of each
\* broken.
Wake == INSTANCE Wake WITH
    Amazon <- <<"alexa", "echo", "bad">>, Mww <- {"m1", "m2"}, Broken <- {"bad", "m2"},
    MaxChanges <- 2, MaxStarts <- 1, None <- "none",
    engine <- v1, local <- v2, next <- v3, refused <- v4, conf <- v5, picks <- v6, models <- v7,
    swap <- v8, act <- v9, switch <- v10, slots <- v11, names <- v12, cap <- v13, asked <- v14,
    changes <- v15, starts <- v16

\* The mute latch: three presses, two changes from Home Assistant.
Mute == INSTANCE Mute WITH
    Button <- TRUE, MaxPress <- 3, MaxSets <- 2, None <- Nil,
    hw <- v1, due <- v2, pressed <- v3, early <- v4, state <- v5, look <- v6, tell <- v7,
    last <- v8, soft <- v9, ring <- v10, ha <- v11, crossed <- v12, presses <- v13, sets <- v14

\* buttons.c: two presses.
Buttons == INSTANCE Buttons WITH
    Short <- 1, Warn <- 2, Reset <- 3, Combo <- 2, Chord <- 0, ActionCombo <- TRUE, MaxClock <- 3,
    MaxPress <- 1, Never <- 99,
    held <- v1, android <- v2, events <- v3, grabbed <- v4, fresh <- v5, at <- v6, down <- v7,
    told <- v8, heldStage <- v9, combo <- v10, ring <- v11, answers <- v12, gestures <- v13,
    paired <- v14, clock <- v15, presses <- v16

\* screen.c: a UI that fails twice.
Screen == INSTANCE Screen WITH
    Pats <- {"a"}, NPat <- 1, Vals <- {1}, Changing <- {"meta", "ctl"}, Rows <- {0}, GiveUp <- 1,
    HungMax <- 1, FifoMax <- 1, CmdQ <- 1, MaxCalls <- 0, MaxSays <- 0, MaxFaults <- 2,
    pat <- v1, item <- v2, music <- v3, unsent <- v4, fifo <- v5, cq <- v6, uiGen <- v7,
    uiDead <- v8, uiUp <- v9, width <- v10, pong <- v11, mark <- v12, gaveUp <- v13, rows <- v14,
    wr <- v15, ui <- v16, pipe <- v17, merged <- v18, calls <- v19, says <- v20, faults <- v21

\* audio_android.c: two buffers each way.
Streams == INSTANCE Streams WITH
    CapNBuf <- 2, PlayNBuf <- 2, StallReads <- 2, Sound <- 3,
    Uses <- {"capture", "voice", "earcon"}, MaxBlocks <- 5, MaxFaults <- 2,
    cap <- v1, rec <- v2, block <- v3, str <- v4, slot <- v5, play <- v6, heard <- v7, ear <- v8,
    use <- v9, recorded <- v10, faults <- v11

\* audio_mixer.c: two attempts, three faults.
Mixer == INSTANCE Mixer WITH
    Sound <- 3, Room <- 2, StallReads <- 2, Attempts <- 2, MaxFaults <- 3,
    mic <- v1, hangs <- v2, ear <- v3, mix <- v4, deaf <- v5, faults <- v6

-----------------------------------------------------------------------------
\* The variables a part does not have.
Zero20 == v20 = 0 /\ v21 = 0
Zero17 == v17 = 0 /\ v18 = 0 /\ v19 = 0 /\ Zero20
Zero15 == v15 = 0 /\ v16 = 0 /\ Zero17
Zero14 == v14 = 0 /\ Zero15
Zero13 == v13 = 0 /\ Zero14
Zero12 == v12 = 0 /\ Zero13
Zero11 == v11 = 0 /\ Zero12
Zero7 == v7 = 0 /\ v8 = 0 /\ v9 = 0 /\ v10 = 0 /\ Zero11
Zero1 == v1 = 0 /\ v2 = 0 /\ v3 = 0 /\ v4 = 0 /\ v5 = 0 /\ v6 = 0 /\ Zero7
Same1 == UNCHANGED <<part, v1, v2, v3, v4, v5, v6, v7, v8, v9, v10, v11, v12, v13, v14, v15, v16, v17, v18, v19, v20, v21>>
Same7 == UNCHANGED <<part, uvars, v7, v8, v9, v10, v11, v12, v13, v14, v15, v16, v17, v18, v19, v20, v21>>
Same11 == UNCHANGED <<part, uvars, v11, v12, v13, v14, v15, v16, v17, v18, v19, v20, v21>>
Same12 == UNCHANGED <<part, uvars, v12, v13, v14, v15, v16, v17, v18, v19, v20, v21>>
Same13 == UNCHANGED <<part, uvars, v13, v14, v15, v16, v17, v18, v19, v20, v21>>
Same14 == UNCHANGED <<part, uvars, v14, v15, v16, v17, v18, v19, v20, v21>>
Same15 == UNCHANGED <<part, uvars, v15, v16, v17, v18, v19, v20, v21>>
Same17 == UNCHANGED <<part, uvars, v17, v18, v19, v20, v21>>
Same20 == UNCHANGED <<part, uvars, v20, v21>>
Same22 == UNCHANGED <<part, uvars>>

Init ==
    /\ UInit
    /\ \/ part = "mixer" /\ Mixer!XInit /\ Zero7
       \/ part = "update" /\ Zero1
       \/ part = "netaddr" /\ NetAddr!NaInit /\ Zero13
       \/ part = "dropin" /\ DropIn!DInit /\ Zero13
       \/ part = "ble" /\ Ble!BInit /\ Zero7
       \/ part = "speaker" /\ Speaker!SInit /\ Zero7
       \/ part = "improv" /\ Improv!IInit /\ Zero7
       \/ part = "designs" /\ Designs!GInit /\ Zero20
       \/ part = "arbnet" /\ ArbNet!NInit /\ Zero13
       \/ part = "api" /\ Api!CInit /\ Zero11
       \/ part = "timers" /\ Timers!TInit /\ Zero14
       \/ part = "web" /\ Web!WInit /\ Zero12
       \/ part = "volume" /\ Volume!VInit /\ Zero12
       \/ part = "wake" /\ Wake!WInit /\ Zero17
       \/ part = "mute" /\ Mute!MInit /\ Zero15
       \/ part = "buttons" /\ Buttons!BInit /\ Zero17
       \/ part = "screen" /\ Screen!SInit
       \/ part = "streams" /\ Streams!PInit /\ Zero12

Next ==
    \/ part = "ble" /\ Ble!BNext /\ Same7
    \/ part = "speaker" /\ Speaker!SNext /\ Same7
    \/ part = "improv" /\ Improv!INext /\ Same7
    \/ part = "update" /\ UNext /\ Same1
    \/ part = "designs" /\ Designs!GNext /\ Same20
    \/ part = "arbnet" /\ ArbNet!NNext /\ Same13
    \/ part = "netaddr" /\ NetAddr!NaNext /\ Same13
    \/ part = "api" /\ Api!CNext /\ Same11
    \/ part = "dropin" /\ DropIn!DNext /\ Same13
    \/ part = "timers" /\ Timers!TNext /\ Same14
    \/ part = "web" /\ Web!WNext /\ Same12
    \/ part = "volume" /\ Volume!VNext /\ Same12
    \/ part = "wake" /\ Wake!WNext /\ Same17
    \/ part = "mute" /\ Mute!MNext /\ Same15
    \/ part = "buttons" /\ Buttons!BNext /\ Same17
    \/ part = "screen" /\ Screen!SNext /\ Same22
    \/ part = "streams" /\ Streams!PNext /\ Same12
    \/ part = "mixer" /\ Mixer!XNext /\ Same7

-----------------------------------------------------------------------------
\* ble.c's thread turns and its timers run out, and the controller reports what
\* it was told to do; a device owes nothing.
BleFair ==
    /\ WF_(Ble!bvars)(part = "ble" /\ Ble!HandleRequest)
    /\ WF_(Ble!bvars)(part = "ble" /\ Ble!apply)
    /\ WF_(Ble!bvars)(part = "ble" /\ Ble!connect_next)
    /\ \A i \in {1} : /\ WF_(Ble!bvars)(part = "ble" /\ Ble!UpkeepDhKey(i))
                      /\ WF_(Ble!bvars)(part = "ble" /\ Ble!UpkeepEncrypt(i))
                      /\ WF_(Ble!bvars)(part = "ble" /\ Ble!SmpTimeout(i))
                      /\ WF_(Ble!bvars)(part = "ble" /\ Ble!ConnectTimeout(i))
                      /\ WF_(Ble!bvars)(part = "ble" /\ Ble!MtuTimeout(i))
                      /\ WF_(Ble!bvars)(part = "ble" /\ Ble!AttTimeout(i))
                      /\ WF_(Ble!bvars)(part = "ble" /\ Ble!Close(i))
                      /\ WF_(Ble!bvars)(part = "ble" /\ Ble!Forget(i))
                      /\ WF_(Ble!bvars)(part = "ble" /\ Ble!conn_complete(i))
                      /\ WF_(Ble!bvars)(part = "ble" /\ Ble!EncChange(i))

\* a2dp.c's timers run out; the controller answers a page, an inquiry, an
\* authentication and a disconnection; a route asked for again and again is set.
SpeakerFair ==
    /\ WF_(Speaker!svars)(part = "speaker" /\ Speaker!SearchUpkeep)
    /\ WF_(Speaker!svars)(part = "speaker" /\ Speaker!SearchTimeout)
    /\ WF_(Speaker!svars)(part = "speaker" /\ Speaker!PageUpkeep)
    /\ WF_(Speaker!svars)(part = "speaker" /\ Speaker!OffUpkeep)
    /\ WF_(Speaker!svars)(part = "speaker" /\ Speaker!EncUpkeep)
    /\ WF_(Speaker!svars)(part = "speaker" /\ Speaker!SigUpkeep)
    /\ WF_(Speaker!svars)(part = "speaker" /\ Speaker!SigTimeout)
    /\ WF_(Speaker!svars)(part = "speaker" /\ Speaker!ConfigUpkeep)
    /\ WF_(Speaker!svars)(part = "speaker" /\ Speaker!CmdTimeout)
    /\ WF_(Speaker!svars)(part = "speaker" /\ Speaker!MediaTimeout)
    /\ WF_(Speaker!svars)(part = "speaker" /\ Speaker!out_inquiry_done)
    /\ WF_(Speaker!svars)(part = "speaker" /\ Speaker!PageAnswer)
    /\ WF_(Speaker!svars)(part = "speaker" /\ Speaker!Secured)
    /\ WF_(Speaker!svars)(part = "speaker" /\ Speaker!Disconnect)
    /\ WF_(Speaker!svars)(part = "speaker" /\ Speaker!RouteDecide)
    /\ WF_(Speaker!svars)(part = "speaker" /\ Speaker!CheckDue)
    /\ WF_(Speaker!svars)(part = "speaker" /\ Speaker!RouteChecked)
    /\ WF_(Speaker!svars)(part = "speaker" /\ Speaker!ModeSet)
    /\ WF_(Speaker!svars)(part = "speaker" /\ Speaker!RouteSet)

StrongSpeaker == SF_(Speaker!svars)(part = "speaker" /\ Speaker!RouteTaken)

\* improv.c's worker turns every second at the latest, and its timers run out.
ImprovFair ==
    /\ WF_(Improv!ivars)(part = "improv" /\ Improv!Turn(TRUE, TRUE, TRUE, TRUE, TRUE))
    /\ WF_(Improv!ivars)(part = "improv" /\ Improv!adv_upkeep)
    /\ WF_(Improv!ivars)(part = "improv" /\ Improv!gatts_notify)

\* ota.c's threads run and give up after 60 s; root's loop looks every 2 s.
UpdateFair ==
    /\ WF_(uvars)(part = "update" /\ look)
    /\ WF_(uvars)(part = "update" /\ fetch)
    /\ WF_(uvars)(part = "update" /\ installed)
    /\ WF_(uvars)(part = "update" /\ RootStep)
    /\ \A c \in Threads : /\ WF_(uvars)(part = "update" /\ stage(c))
                                 /\ WF_(uvars)(part = "update" /\ StoreBundle(c))
                                 /\ WF_(uvars)(part = "update" /\ StoreSig(c))
                                 /\ WF_(uvars)(part = "update" /\ StoreRequest(c))
                                 /\ WF_(uvars)(part = "update" /\ Replied(c))

\* The tick comes every second, and root's loop looks for requests.
DesignsFair ==
    /\ WF_(Designs!gvars)(part = "designs" /\ Designs!ask_root)
    /\ WF_(Designs!gvars)(part = "designs" /\ Designs!rd_tick)
    /\ WF_(Designs!gvars)(part = "designs" /\ Designs!ring_reload)
    /\ WF_(Designs!gvars)(part = "designs" /\ Designs!rd_start)
    /\ WF_(Designs!gvars)(part = "designs" /\ Designs!RootStep)

\* arb.c's loop beacons, scans, polls and hands keys for ever; Wi-Fi does not
\* drop every one of them; Home Assistant comes back and answers.
ArbNetFair ==
    /\ WF_(ArbNet!nvars)(part = "arbnet" /\ ArbNet!HaBack)
    /\ \A e \in {1, 2} : /\ WF_(ArbNet!nvars)(part = "arbnet" /\ ArbNet!create(e))
                         /\ WF_(ArbNet!nvars)(part = "arbnet" /\ ArbNet!discovered(e))
                         /\ WF_(ArbNet!nvars)(part = "arbnet" /\ ArbNet!scan(e))
                         /\ WF_(ArbNet!nvars)(part = "arbnet" /\ ArbNet!pairing_end(e))
    /\ \A p \in {<<1, 2>>, <<2, 1>>} : /\ WF_(ArbNet!nvars)(part = "arbnet" /\ ArbNet!beacon(p[2], p[1]))
                                       /\ WF_(ArbNet!nvars)(part = "arbnet" /\ ArbNet!push(p[1], p[2]))
                                       /\ WF_(ArbNet!nvars)(part = "arbnet" /\ ArbNet!arb_ha_state(p[1], p[2]))
    /\ \A m \in ArbNet!Keys : WF_(ArbNet!nvars)(part = "arbnet" /\ ArbNet!arrive(m, FALSE))

\* The address is looked at every few seconds, one announcement of many is
\* heard, Home Assistant dials again and a dead link's thread ends.
NetAddrFair ==
    /\ WF_(NetAddr!netvars)(part = "netaddr" /\ NetAddr!Poll)
    /\ WF_(NetAddr!netvars)(part = "netaddr" /\ NetAddr!HaDials)
    /\ WF_(NetAddr!netvars)(part = "netaddr" /\ NetAddr!HaHearsShutdown)
    /\ \A l \in NetAddr!Link : WF_(NetAddr!netvars)(part = "netaddr" /\ NetAddr!serve_thread_ends(l))

StrongNetAddr == SF_(NetAddr!netvars)(part = "netaddr" /\ NetAddr!Heard)

\* The announcer, the playback of an announcement and the Bluetooth thread go
\* on.
ApiFair ==
    /\ WF_(Api!vars)(part = "api" /\ Api!bt_try)
    /\ WF_(Api!vars)(part = "api" /\ Api!announce)
    /\ WF_(Api!vars)(part = "api" /\ Api!BleThread)

\* dropin.c's loop runs; its timers fire when their condition lasts.
DropInFair ==
    /\ \A e \in {1, 2} : /\ WF_(DropIn!dvars)(part = "dropin" /\ DropIn!tell_core(e))
                         /\ WF_(DropIn!dvars)(part = "dropin" /\ DropIn!invite_first(e))
                         /\ WF_(DropIn!dvars)(part = "dropin" /\ DropIn!call_timeout(e))
                         /\ WF_(DropIn!dvars)(part = "dropin" /\ DropIn!ring_timeout(e))
                         /\ WF_(DropIn!dvars)(part = "dropin" /\ DropIn!lost(e))

\* The clock goes on, the earcon thread turns, a pipeline or a call's ring
\* ends.
TimersFair ==
    /\ WF_(Timers!vars)(part = "timers" /\ Timers!Tick)
    /\ WF_(Timers!vars)(part = "timers" /\ Timers!Quiet)
    /\ WF_(Timers!vars)(part = "timers" /\ Timers!LoopStep)

\* The expiry thread wakes every second, and LOGIN_MS pass.
WebFair ==
    /\ WF_(Web!wvars)(part = "web" /\ Web!expiry)

\* volume_sync's thread turns, and a tool that was started ends.
VolumeFair ==
    /\ WF_(Volume!vars)(part = "volume" /\ Volume!SyncThread)
    /\ WF_(Volume!vars)(part = "volume" /\ Volume!set_prop)

\* The capture thread turns; a restart asked for is made.
WakeFair ==
    /\ WF_(Wake!wvars)(part = "wake" /\ Wake!wake_steps)
    /\ WF_(Wake!wvars)(part = "wake" /\ Wake!rename_in)
    /\ WF_(Wake!wvars)(part = "wake" /\ Wake!RestartAsked)

\* The driver follows the latch; the latch is looked at again and again
\* between the reports.
MuteFair ==
    /\ WF_(Mute!mvars)(part = "mute" /\ Mute!driver)
    /\ WF_(Mute!mvars)(part = "mute" /\ Mute!early_press)
    /\ WF_(Mute!mvars)(part = "mute" /\ Mute!settle)
    /\ WF_(Mute!mvars)(part = "mute" /\ Mute!latch_report)
    /\ WF_(Mute!mvars)(part = "mute" /\ Mute!mute_latch)

StrongMute == SF_(Mute!mvars)(part = "mute" /\ Mute!latch_check)

\* buttons.c's reader and its timer go on.
ButtonsFair ==
    /\ WF_(Buttons!buttonvars)(part = "buttons" /\ Buttons!GrabStep)
    /\ WF_(Buttons!buttonvars)(part = "buttons" /\ Buttons!Stages)
    /\ WF_(Buttons!buttonvars)(part = "buttons" /\ Buttons!reader)

\* screen.c's writer and readers turn, a UI that works answers, and one that
\* hangs is noticed.
ScreenFair ==
    /\ WF_(Screen!svars)(part = "screen" /\ Screen!writer)
    /\ WF_(Screen!svars)(part = "screen" /\ Screen!UiReady)
    /\ WF_(Screen!svars)(part = "screen" /\ Screen!UiPong)
    /\ WF_(Screen!svars)(part = "screen" /\ Screen!Reads)

StrongScreen == SF_(Screen!svars)(part = "screen" /\ Screen!HangNoticed)

\* OpenSL ES calls back unless it stalls; the sound's and the capture thread
\* go on.
StreamsFair ==
    /\ WF_(Streams!streamvars)(part = "streams" /\ Streams!SoundStep)
    /\ WF_(Streams!streamvars)(part = "streams" /\ Streams!SoundPlays)
    /\ WF_(Streams!streamvars)(part = "streams" /\ Streams!CaptureStep)
    /\ WF_(Streams!streamvars)(part = "streams" /\ Streams!Records)

\* The mixer takes what is written unless it hangs; the sound's and the
\* capture thread go on.
MixerFair ==
    /\ WF_(Mixer!mixvars)(part = "mixer" /\ Mixer!ear_steps)
    /\ WF_(Mixer!mixvars)(part = "mixer" /\ Mixer!mixer_plays)
    /\ WF_(Mixer!mixvars)(part = "mixer" /\ Mixer!CaptureStep)

Fairness ==
    /\ BleFair /\ SpeakerFair /\ ImprovFair /\ UpdateFair
    /\ DesignsFair /\ ArbNetFair /\ NetAddrFair /\ ApiFair
    /\ DropInFair /\ TimersFair /\ WebFair /\ VolumeFair
    /\ WakeFair /\ MuteFair /\ ButtonsFair /\ ScreenFair
    /\ StreamsFair /\ MixerFair

Spec == Init /\ [][Next]_vars /\ Fairness

-----------------------------------------------------------------------------
\* Bluetooth: a connection, a pairing or a GATT operation asked for ends
\* (ble.c's upkeep and timeouts) unless a bonded device never sends anything, and
\* a speaker that is wanted is tried again and again (a2dp.c's out_upkeep) unless
\* it configures us and then does not open the stream.
BluetoothSettles == /\ []<>(part = "ble" => Ble!Settled)
                    /\ (StrongSpeaker => []<>(part = "speaker" => Speaker!Retried))

\* What a phone, the page or Home Assistant set going on the device is done or
\* given up: a Wi-Fi command, and the phone learns of it (improv.c), an install
\* (ota.c), a design put on the ring (ringdesign.c).
SetupAndUpdatesEnd == /\ []<>(part = "improv" => Improv!CommandDone)
                      /\ []<>(part = "improv" => Improv!PhoneKnows)
                      /\ []<>(part = "update" => InstallOver)
                      /\ []<>(part = "designs" => Designs!ApplyAnswered)

\* Whoever the device is to be found by finds it: the Echos of a house end in
\* one network (arb.c), Home Assistant and the music server come back after a
\* change of address (netaddr.c), and a Bluetooth announcement that
\* waits goes out (proto_esphome.c).
PeersFound == /\ <>[](part = "arbnet" => ArbNet!Merged)
              /\ (StrongNetAddr => []<>(part = "netaddr" => NetAddr!HaBack))
              /\ (StrongNetAddr => []<>(part = "netaddr" => NetAddr!PlayerBack))
              /\ []<>(part = "api" => Api!AnnouncementGone)

\* Nothing rings, calls or asks for attention for ever (dropin.c's tick and
\* lost, earcon_thread and timers_prune, web.c's expiry).
CallsAndRingsEnd == /\ []<>(part = "dropin" => DropIn!NobodyAlone)
                    /\ []<>(part = "dropin" => DropIn!NoneWaits)
                    /\ []<>(part = "timers" => Timers!RungOut)
                    /\ []<>(part = "web" => Web!AttentionOver)

\* What the device does comes to agree with what it was told: the mixer's
\* volume (volume_sync), the wake word loaded, the mute shown, the keys let go
\* of, the screen, and every sound's and recording's thread.
OutputsFollow == /\ <>[](part = "volume" => Volume!VolumeSettled)
                 /\ []<>(part = "wake" => Wake!LoadingOver)
                 /\ (StrongMute => <>[](part = "mute" => Mute!MuteTold))
                 /\ []<>(part = "buttons" => Buttons!GrabOver)
                 /\ (StrongScreen => []<>(part = "screen" => Screen!ScreenUp))
                 /\ []<>(part = "streams" => Streams!AudioOver)
                 /\ []<>(part = "mixer" => Mixer!MixerOver)
=============================================================================
