---- MODULE MCHouse ----
(***************************************************************************)
(* The parts of the program around the wake word and the session, but for  *)
(* the ones in MCAccess: one part per behaviour (part).  They share the    *)
(* variables v1, v2, ...: which variable of its module each one is, and    *)
(* with which parameters, a part's INSTANCE says; the ones it does not     *)
(* have stay 0.                                                            *)
(***************************************************************************)
EXTENDS Integers, Sequences

CONSTANT Nil          \* what the modules call None, Nothing or Nobody

VARIABLES part,       \* the part of the program this behaviour is about
          v1, v2, v3, v4, v5, v6, v7, v8, v9, v10, v11, v12, v13, v14, v15, v16, v17, v18,
          v19, v20, v21, v22    \* its variables

vars == <<part, v1, v2, v3, v4, v5, v6, v7, v8, v9, v10, v11, v12, v13, v14, v15, v16, v17, v18,
          v19, v20, v21, v22>>

\* ble.c: two devices, two connections, one packet buffer in the controller.
Ble == INSTANCE Ble WITH
    Addr <- {1, 2}, Slot <- {1, 2}, AclNum <- 1, MaxBonds <- 1, FirstBonds <- <<1>>, MaxFrags <- 1,
    MaxRequests <- 3, Kinds <- {"connect", "disconnect", "access"}, MaxSecure <- 0, Nobody <- Nil,
    ble <- v1, queue <- v2, requested <- v3, secured <- v4, dhJob <- v5, owed <- v6

\* a2dp.c and btout.c: one speaker, switched once.
Speaker == INSTANCE Speaker WITH
    Speakers <- {"s1"}, Prefs <- {[stay |-> TRUE, awake |-> TRUE]}, MaxSwitch <- 1, MaxTrouble <- 0,
    None <- Nil,
    out <- v1, bt <- v2, rt <- v3, output <- v4, switches <- v5, troubles <- v6

\* a2dp.c and btout.c: one failure of the speaker, the radio or the server.
SpeakerFails == INSTANCE Speaker WITH
    Speakers <- {"s1"}, Prefs <- {[stay |-> TRUE, awake |-> TRUE]}, MaxSwitch <- 0, MaxTrouble <- 1,
    None <- Nil,
    out <- v1, bt <- v2, rt <- v3, output <- v4, switches <- v5, troubles <- v6

\* a2dp.c: two phones of which one may be remembered.
Sink == INSTANCE Sink WITH
    Phones <- {1, 2}, Links <- {1, 2}, MaxKeys <- 1, FirstKeys <- <<1>>, MaxAsks <- 1,
    MaxCalls <- 2, MaxChans <- 3, None <- Nil,
    link <- v1, av <- v2, keys <- v3, pairing <- v4, streaming <- v5, yielded <- v6, keyReq <- v7,
    remotes <- v8, accepted <- v9, asks <- v10, calls <- v11, chans <- v12

\* soundpack.c, sounds.c, mww_store.c: two packs, one sound, one power cut.
Library == INSTANCE Library WITH
    Packs <- {1, 2}, Sounds <- {1}, LibMax <- 1, MaxCalls <- 2, MaxCuts <- 1, Nothing <- Nil,
    pack <- v1, packF <- v2, meant <- v3, op <- v4, own <- v5, gen <- v6, cache <- v7, saving <- v8,
    dir <- v9, dirF <- v10, files <- v11, filesF <- v12, swap <- v13, calls <- v14, cuts <- v15

\* proto_esphome.c: two clients, a key change.
Api == INSTANCE Api WITH
    Slot <- {1, 2}, MaxKey <- 1, MaxConn <- 2, MaxReqs <- 3, NoOne <- 0,
    clients <- v1, va <- v2, key <- v3, link <- v4, scanOn <- v5, bleQ <- v6, bleConns <- v7,
    bt <- v8, conns <- v9, reqs <- v10

\* settings.c: two changes after a start.
Settings == INSTANCE Settings WITH
    Full <- 2, HasAuto <- TRUE, HasSound <- FALSE, MaxCalls <- 2, MaxStarts <- 1, Nothing <- Nil,
    val <- v1, volume <- v2, config <- v3, old <- v4, preset <- v5, saved <- v6, ha <- v7,
    asked <- v8, calls <- v9, starts <- v10

\* settings.c: one change between two starts.
SettingsStart == INSTANCE Settings WITH
    Full <- 2, HasAuto <- TRUE, HasSound <- FALSE, MaxCalls <- 1, MaxStarts <- 2, Nothing <- Nil,
    val <- v1, volume <- v2, config <- v3, old <- v4, preset <- v5, saved <- v6, ha <- v7,
    asked <- v8, calls <- v9, starts <- v10

\* main.c's timers: two timers, one place in each table.
Timers == INSTANCE Timers WITH
    Ids <- {1, 2}, RingingMax <- 1, RunningMax <- 1, Length <- 1, Stale <- 1, RingTimes <- {0, 1},
    MaxEvents <- 3, MaxNoise <- 1, Never <- 99,
    running <- v1, staleAt <- v2, ringing <- v3, alarm_on <- v4, alarm_until <- v5,
    timer_ring_s <- v6, preview <- v7, earcon <- v8, busy <- v9, dropin_ring <- v10,
    fullRing <- v11, events <- v12, noises <- v13

\* dropin.c: one call between two Echos, an outage.
DropIn == INSTANCE DropIn WITH
    Echo <- {1, 2}, MaxTries <- 1, MaxMail <- 1, Evq <- 6, Byes <- 1, Ended <- 2, MaxOutage <- 1,
    NoCall <- Nil,
    c <- v1, bye <- v2, ended <- v3, evq <- v4, telling <- v5, core <- v6, mail <- v7, tries <- v8,
    results <- v9, past <- v10, revived <- v11, outages <- v12

\* dropin.c: two calls, of one Echo or crossing each other.
DropInCrossed == INSTANCE DropIn WITH
    Echo <- {1, 2}, MaxTries <- 2, MaxMail <- 1, Evq <- 6, Byes <- 0, Ended <- 2, MaxOutage <- 0,
    NoCall <- Nil,
    c <- v1, bye <- v2, ended <- v3, evq <- v4, telling <- v5, core <- v6, mail <- v7, tries <- v8,
    results <- v9, past <- v10, revived <- v11, outages <- v12

\* dropin.c's jitter buffer: three places, four frames.
CallAudio == INSTANCE CallAudio WITH
    JB <- 3, PREBUF <- 2, MAXBUF <- 2, MaxCalls <- 1, MaxSeq <- 4,
    gen <- v1, live <- v2, tx <- v3, mic <- v4, air <- v5, jb <- v6, ends <- v7, out <- v8,
    got <- v9, over <- v10, played <- v11, missed <- v12

\* main.c's volumes: a curve with one step, one kind of sound.
Volume == INSTANCE Volume WITH
    Full <- 2, Curve <- [v \in 0..2 |-> IF v = 0 THEN 0 ELSE 2], Kinds <- {"sounds"},
    FirstEven <- FALSE, MaxCalls <- 2, MaxStray <- 0, MaxKills <- 1, MaxFails <- 1, MaxLate <- 2,
    Nothing <- Nil,
    vol <- v1, mixer <- v2, speakerF <- v3, musicF <- v4, sync <- v5, up <- v6, ownEver <- v7,
    kept <- v8, calls <- v9, strays <- v10, kills <- v11

\* audio_android.c: two levels, the server failing once.
ShowVolume == INSTANCE ShowVolume WITH
    Level <- {1, 2}, MaxCalls <- 4, MaxFaults <- 1, MaxKills <- 1, None <- Nil,
    vols <- v1, loaded <- v2, pushed <- v3, want <- v4, store <- v5, taken <- v6, volFile <- v7,
    index <- v8, policy <- v9, routeFile <- v10, moves <- v11, astray <- v12, untold <- v13,
    calls <- v14, faults <- v15, kills <- v16, unsaved <- v17

\* wake words: three of Alexa's and two microWakeWord models, one of each
\* broken.
Wake == INSTANCE Wake WITH
    Amazon <- <<"alexa", "echo", "bad">>, Mww <- {"m1", "m2"}, Broken <- {"bad", "m2"},
    MaxChanges <- 3, MaxStarts <- 1, None <- "none",
    engine <- v1, local <- v2, next <- v3, refused <- v4, conf <- v5, picks <- v6, models <- v7,
    swap <- v8, act <- v9, switch <- v10, slots <- v11, names <- v12, cap <- v13, asked <- v14,
    changes <- v15, starts <- v16

\* buttons.c: two presses.
Buttons == INSTANCE Buttons WITH
    Short <- 1, Warn <- 2, Reset <- 3, Combo <- 2, Chord <- 0, ActionCombo <- TRUE, MaxClock <- 3,
    MaxPress <- 2, Never <- 99,
    held <- v1, android <- v2, events <- v3, grabbed <- v4, fresh <- v5, at <- v6, down <- v7,
    told <- v8, heldStage <- v9, combo <- v10, ring <- v11, answers <- v12, gestures <- v13,
    paired <- v14, clock <- v15, presses <- v16

\* The mute latch: three presses, two changes from Home Assistant.
Mute == INSTANCE Mute WITH
    Button <- TRUE, MaxPress <- 3, MaxSets <- 2, None <- Nil,
    hw <- v1, due <- v2, pressed <- v3, early <- v4, state <- v5, look <- v6, tell <- v7,
    last <- v8, soft <- v9, ring <- v10, ha <- v11, crossed <- v12, presses <- v13, sets <- v14

\* ring.c and ledq.c: a queue of three, batches of two.
Led == INSTANCE Led WITH
    Beams <- {-1, 1}, Sets <- {"stock", "designs"}, QMax <- 3, Batch <- 2, MaxCalls <- 2,
    MaxHangs <- 1, MaxRestarts <- 1,
    took <- v1, disk <- v2, shown <- v3, light <- v4, lit <- v5, flash <- v6, queue <- v7,
    batch <- v8, again <- v9, on <- v10, beam <- v11, neverOff <- v12, orphan <- v13, calls <- v14,
    hangs <- v15, restarts <- v16

\* ringdesign.c: two designs and two packs, root killed once.
Designs == INSTANCE Designs WITH
    Ids <- {1, 2}, Packs <- {1, 2}, MaxEdits <- 4, MaxApplies <- 2, MaxKills <- 1, MaxFails <- 1, None <- Nil,
    lib <- v1, assign <- v2, file <- v3, packs <- v4, applied <- v5, installed <- v6, request <- v7,
    wait <- v8, result <- v9, root <- v10, real <- v11, gone <- v12, doing <- v13, reused <- v14,
    made <- v15, edits <- v16, applies <- v17, kills <- v18, saves <- v19

\* screen.c: two calls, a UI that fails once.
Screen == INSTANCE Screen WITH
    Pats <- {"a"}, NPat <- 1, Vals <- {1}, Changing <- {"meta", "ctl"}, Rows <- {0}, GiveUp <- 2,
    HungMax <- 1, FifoMax <- 1, CmdQ <- 1, MaxCalls <- 2, MaxSays <- 0, MaxFaults <- 1,
    pat <- v1, item <- v2, music <- v3, unsent <- v4, fifo <- v5, cq <- v6, uiGen <- v7,
    uiDead <- v8, uiUp <- v9, width <- v10, pong <- v11, mark <- v12, gaveUp <- v13, rows <- v14,
    wr <- v15, ui <- v16, pipe <- v17, merged <- v18, calls <- v19, says <- v20, faults <- v21

\* screen.c: one call, the other items and two heights.
ScreenItems == INSTANCE Screen WITH
    Pats <- {"a"}, NPat <- 1, Vals <- {1}, Changing <- {"art", "home", "band", "core"},
    Rows <- {0, 1}, GiveUp <- 2, HungMax <- 1, FifoMax <- 1, CmdQ <- 1, MaxCalls <- 1, MaxSays <- 0,
    MaxFaults <- 1,
    pat <- v1, item <- v2, music <- v3, unsent <- v4, fifo <- v5, cq <- v6, uiGen <- v7,
    uiDead <- v8, uiUp <- v9, width <- v10, pong <- v11, mark <- v12, gaveUp <- v13, rows <- v14,
    wr <- v15, ui <- v16, pipe <- v17, merged <- v18, calls <- v19, says <- v20, faults <- v21

\* screen.c: a command of the UI.
ScreenSays == INSTANCE Screen WITH
    Pats <- {"a"}, NPat <- 1, Vals <- {1}, Changing <- {"meta"}, Rows <- {0}, GiveUp <- 2,
    HungMax <- 1, FifoMax <- 1, CmdQ <- 1, MaxCalls <- 0, MaxSays <- 1, MaxFaults <- 1,
    pat <- v1, item <- v2, music <- v3, unsent <- v4, fifo <- v5, cq <- v6, uiGen <- v7,
    uiDead <- v8, uiUp <- v9, width <- v10, pong <- v11, mark <- v12, gaveUp <- v13, rows <- v14,
    wr <- v15, ui <- v16, pipe <- v17, merged <- v18, calls <- v19, says <- v20, faults <- v21

\* audio_android.c: two buffers each way.
Streams == INSTANCE Streams WITH
    CapNBuf <- 2, PlayNBuf <- 2, StallReads <- 2, Sound <- 3,
    Uses <- {"capture", "voice", "earcon"}, MaxBlocks <- 5, MaxFaults <- 2,
    cap <- v1, rec <- v2, block <- v3, str <- v4, slot <- v5, play <- v6, heard <- v7, ear <- v8,
    use <- v9, recorded <- v10, faults <- v11

\* audio_mixer.c: two attempts, three faults.
Mixer == INSTANCE Mixer WITH
    Sound <- 3, Room <- 2, StallReads <- 2, Attempts <- 2, MaxFaults <- 3,
    mic <- v1, hangs <- v2, ear <- v3, mix <- v4, deaf <- v5, faults <- v6

\* main.c's capture thread: a ring of four, one wake, one switch of word.
Capture == INSTANCE Capture WITH
    Ring <- 4, After <- 1, Late <- 1, AfeWait <- 1, Window <- 1, MaxPos <- 6,
    MaxWakes <- 1, MaxRuns <- 1, MaxSwitches <- 1,
    pos <- v1, pc <- v2, stream <- v3, replay <- v4, whole <- v5, barge <- v6, kwEnd <- v7,
    det <- v8, score <- v9, round <- v10, afe <- v11, aligner <- v12, job <- v13, answers <- v14,
    freed <- v15, switch <- v16, side <- v17, sent <- v18, broken <- v19, wakes <- v20, runs <- v21,
    switches <- v22

\* main.c's capture thread: a ring of four, two wakes.
CaptureAgain == INSTANCE Capture WITH
    Ring <- 4, After <- 1, Late <- 1, AfeWait <- 1, Window <- 1, MaxPos <- 5,
    MaxWakes <- 2, MaxRuns <- 1, MaxSwitches <- 0,
    pos <- v1, pc <- v2, stream <- v3, replay <- v4, whole <- v5, barge <- v6, kwEnd <- v7,
    det <- v8, score <- v9, round <- v10, afe <- v11, aligner <- v12, job <- v13, answers <- v14,
    freed <- v15, switch <- v16, side <- v17, sent <- v18, broken <- v19, wakes <- v20, runs <- v21,
    switches <- v22

-----------------------------------------------------------------------------
\* The variables a part does not have.
Zero22 == v22 = 0
Zero20 == v20 = 0 /\ v21 = 0 /\ Zero22
Zero18 == v18 = 0 /\ v19 = 0 /\ Zero20
Zero17 == v17 = 0 /\ Zero18
Zero16 == v16 = 0 /\ Zero17
Zero15 == v15 = 0 /\ Zero16
Zero14 == v14 = 0 /\ Zero15
Zero13 == v13 = 0 /\ Zero14
Zero12 == v12 = 0 /\ Zero13
Zero11 == v11 = 0 /\ Zero12
Zero7 == v7 = 0 /\ v8 = 0 /\ v9 = 0 /\ v10 = 0 /\ Zero11
Same7 == UNCHANGED <<part, v7, v8, v9, v10, v11, v12, v13, v14, v15, v16, v17, v18, v19, v20, v21, v22>>
Same11 == UNCHANGED <<part, v11, v12, v13, v14, v15, v16, v17, v18, v19, v20, v21, v22>>
Same12 == UNCHANGED <<part, v12, v13, v14, v15, v16, v17, v18, v19, v20, v21, v22>>
Same13 == UNCHANGED <<part, v13, v14, v15, v16, v17, v18, v19, v20, v21, v22>>
Same14 == UNCHANGED <<part, v14, v15, v16, v17, v18, v19, v20, v21, v22>>
Same15 == UNCHANGED <<part, v15, v16, v17, v18, v19, v20, v21, v22>>
Same16 == UNCHANGED <<part, v16, v17, v18, v19, v20, v21, v22>>
Same17 == UNCHANGED <<part, v17, v18, v19, v20, v21, v22>>
Same18 == UNCHANGED <<part, v18, v19, v20, v21, v22>>
Same20 == UNCHANGED <<part, v20, v21, v22>>
Same22 == UNCHANGED <<part, v22>>
Same23 == UNCHANGED part

Init ==
    \/ part = "ble" /\ Ble!BInit /\ Zero7
    \/ part = "speaker" /\ Speaker!SInit /\ Zero7
    \/ part = "speaker2" /\ SpeakerFails!SInit /\ Zero7
    \/ part = "sink" /\ Sink!KInit /\ Zero13
    \/ part = "library" /\ Library!LInit /\ Zero16
    \/ part = "api" /\ Api!CInit /\ Zero11
    \/ part = "settings" /\ Settings!ZInit /\ Zero11
    \/ part = "settings2" /\ SettingsStart!ZInit /\ Zero11
    \/ part = "timers" /\ Timers!TInit /\ Zero14
    \/ part = "dropin" /\ DropIn!DInit /\ Zero13
    \/ part = "dropin2" /\ DropInCrossed!DInit /\ Zero13
    \/ part = "calls" /\ CallAudio!JInit /\ Zero13
    \/ part = "volume" /\ Volume!VInit /\ Zero12
    \/ part = "showvol" /\ ShowVolume!VInit /\ Zero18
    \/ part = "wake" /\ Wake!WInit /\ Zero17
    \/ part = "buttons" /\ Buttons!BInit /\ Zero17
    \/ part = "mute" /\ Mute!MInit /\ Zero15
    \/ part = "led" /\ Led!LInit /\ Zero17
    \/ part = "designs" /\ Designs!GInit /\ Zero20
    \/ part = "screen" /\ Screen!SInit /\ Zero22
    \/ part = "screen2" /\ ScreenItems!SInit /\ Zero22
    \/ part = "screen3" /\ ScreenSays!SInit /\ Zero22
    \/ part = "streams" /\ Streams!PInit /\ Zero12
    \/ part = "mixer" /\ Mixer!XInit /\ Zero7
    \/ part = "capture" /\ Capture!CapInit
    \/ part = "capture2" /\ CaptureAgain!CapInit

Next ==
    \/ part = "ble" /\ Ble!BNext /\ Same7
    \/ part = "speaker" /\ Speaker!SNext /\ Same7
    \/ part = "speaker2" /\ SpeakerFails!SNext /\ Same7
    \/ part = "sink" /\ Sink!KNext /\ Same13
    \/ part = "library" /\ Library!LNext /\ Same16
    \/ part = "api" /\ Api!CNext /\ Same11
    \/ part = "settings" /\ Settings!ZNext /\ Same11
    \/ part = "settings2" /\ SettingsStart!ZNext /\ Same11
    \/ part = "timers" /\ Timers!TNext /\ Same14
    \/ part = "dropin" /\ DropIn!DNext /\ Same13
    \/ part = "dropin2" /\ DropInCrossed!DNext /\ Same13
    \/ part = "calls" /\ CallAudio!JNext /\ Same13
    \/ part = "volume" /\ Volume!VNext /\ Same12
    \/ part = "showvol" /\ ShowVolume!VNext /\ Same18
    \/ part = "wake" /\ Wake!WNext /\ Same17
    \/ part = "buttons" /\ Buttons!BNext /\ Same17
    \/ part = "mute" /\ Mute!MNext /\ Same15
    \/ part = "led" /\ Led!LNext /\ Same17
    \/ part = "designs" /\ Designs!GNext /\ Same20
    \/ part = "screen" /\ Screen!SNext /\ Same22
    \/ part = "screen2" /\ ScreenItems!SNext /\ Same22
    \/ part = "screen3" /\ ScreenSays!SNext /\ Same22
    \/ part = "streams" /\ Streams!PNext /\ Same12
    \/ part = "mixer" /\ Mixer!XNext /\ Same7
    \/ part = "capture" /\ Capture!CapNext /\ Same23
    \/ part = "capture2" /\ CaptureAgain!CapNext /\ Same23

Spec == Init /\ [][Next]_vars

-----------------------------------------------------------------------------
\* What is linked to this Echo is in step with it: no packet buffer is lost
\* (ble.c), the HAL is told of a speaker exactly while its stream is there, and
\* of a phone that plays (a2dp.c), a client has the key that holds now
\* (proto_esphome.c), Home Assistant is told one result of every call and knows
\* its state, a call that ended is not taken up again, and what is heard is in
\* order (dropin.c).
LinksKept ==
    /\ part = "ble" => Ble!NoBufferLost
    /\ part = "speaker" => Speaker!ReadyIsReady
    /\ part = "speaker2" => SpeakerFails!ReadyIsReady
    /\ part = "sink" => Sink!SinkTold
    /\ part = "api" => Api!ClientsAgree
    /\ part = "dropin" => DropIn!OneResultEach /\ DropIn!CoreFollows /\ DropIn!NoRevival
    /\ part = "dropin2" => DropInCrossed!OneResultEach /\ DropInCrossed!CoreFollows /\ DropInCrossed!NoRevival
    /\ part = "calls" => CallAudio!FramesInOrder

\* What is installed is whole and the one that was asked for: sound packs,
\* sounds and models (soundpack.c, sounds.c, mww_store.c), and the designs on
\* the ring (ringdesign.c), whatever dies when; but for the ring's files that
\* could not be written and an install nobody was told of (InstalledIsReal).
InstalledWhole == /\ part = "library" => Library!NamedIsWhole /\ Library!CachedIsNewest
                  /\ part = "designs" => Designs!InstalledIsReal /\ Designs!PacksTrue

\* No step loses what was to be kept: the settings over a start (settings.c),
\* a ring before its time (main.c).
StepsKeep == [][/\ part = "settings" => Settings!StartKeeps
                /\ part = "settings2" => SettingsStart!StartKeeps
                /\ part = "timers" => Timers!RingsItsTime]_vars

\* What Home Assistant lists is what is in force (settings.c), what listens is
\* the wake word that was picked (main.c, wake.c), the Echo never plays at a
\* Bluetooth speaker's volume (main.c), and the level told last is the one the
\* audio server has (audio_android.c).
SettingsAgree == /\ part = "settings" => Settings!Taken /\ Settings!ListedIsRead
                 /\ part = "settings2" => SettingsStart!Taken /\ SettingsStart!ListedIsRead
                 /\ part = "wake" => Wake!ListensAsPicked
                 /\ part = "volume" => Volume!NeverTheSpeakers
                 /\ part = "showvol" => ShowVolume!VolumeReached

\* What is pressed and what is shown are what is so: no key stays down for
\* Android and a press is told once (buttons.c), the ring shows whether the
\* microphones are off (main.c), no pattern stays and the light is kept apart
\* from the patterns (ring.c, ledq.c), the screen shows what the program says,
\* and nothing is taken from a UI that was let go of (screen.c).
ShownIsSo ==
    /\ part = "buttons" => Buttons!NoStuckKey /\ Buttons!PressToldOnce
    /\ part = "mute" => Mute!MuteShown
    /\ part = "led" => Led!NoPatternLeft /\ Led!LightApart
    /\ part = "screen" => Screen!UiFollows /\ Screen!NoStaleUi
    /\ part = "screen2" => ScreenItems!UiFollows /\ ScreenItems!NoStaleUi
    /\ part = "screen3" => ScreenSays!UiFollows /\ ScreenSays!NoStaleUi

\* Audio is neither lost nor overwritten on its way (audio_android.c), a sound
\* that was played was played to its end (audio_mixer.c), the request is sent
\* from its first word, and neither the aligner nor the front end is let go of
\* while it is in use (capture_thread).
AudioWhole ==
    /\ part = "streams" => Streams!AudioInOrder
    /\ part = "mixer" => Mixer!SoundWhole
    /\ part = "capture" => Capture!RequestWhole /\ Capture!AlignerLives /\ Capture!FrontEndLetGo
    /\ part = "capture2" => CaptureAgain!RequestWhole /\ CaptureAgain!AlignerLives /\ CaptureAgain!FrontEndLetGo
=============================================================================
