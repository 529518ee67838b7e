# A TLA+ verification of hassmic

hassmic turns an Amazon Echo into a voice satellite of Home Assistant. The
daemon (`src/src/hassmic/`, C, one process with some twenty threads) listens
for the wake word, streams the request to Home Assistant, plays the answer,
agrees with the other Echos in the house on which of them answers, and keeps
its state over hard power cuts. Shell scripts running as root
(`src/scripts/system/`) supervise and update it.

This directory holds TLA+ modules of the parts where interleavings, lost
messages and power cuts decide about correctness, TLC configurations that check
them on small instances, and TLAPS proofs of the results that hold for every
size. Paths below are relative to the repository's root (`src/hassmic/…` is the
daemon, `PROJECT.json` writes the same file as `src/src/hassmic/…`).

## 1. Inventory

### Parts that are modelled

**State files** (`statefile.c`). State: a counter `seq`, the flags `busy[100]`
of temp numbers in flight. Operations: `statefile_open`, `_commit`, `_abort`,
`_write`. Used by every part that keeps something, from several threads. Hard:
power cuts between any two system calls on a file system that orders nothing by
itself, two threads writing one file, numbers that come round again. Correct
when the file is always the complete old or new content, a writer never loses
its temp file to another, and an acknowledged write stays.

**Arbitration: counter and identity** (`arb.c`: `load`, `identity`, `save`,
`next_ctr`, `adopt`, `peer`, `fresh`). State: the device's key and the file
`state/arbitration` (reserved counter, network), `ctr`, `ctr_saved`, the table
`peers[16]`. Hard: the counter must not go back through crashes and lost files,
or every member drops the Echo's packets for good; copies and old packets must
not be taken twice. The file is written through the state files.

**Arbitration: wake word rounds** (`arb.c`: `arb_claim`, `beaten`, `waited`,
`arb_settled`, `arb_decide`, `on_packet`; `main.c`: `wake_heard`, `score_wait`,
the capture thread). State: `round_`, the ring `claims[16]`, per peer the last
counter. Two or more Echos hear one wake word, broadcast claims (three copies
within 80 ms), wait for a window, and each decides alone. Hard: loss, delay,
reordering, Echos that do not know each other yet, late scores. Correct when
one answers, it is the one that heard best, and above all never nobody.

**Voice session** (`main.c`) **with the ESPHome API's voice assistant and
media** (`proto_esphome.c`). State under `core_lock`: the pipeline state
(IDLE, LISTENING, THINKING, SPEAKING), `streaming`, `flush_playback`,
`barge_in`, the marks of a wake word heard at Home Assistant (`wake_wait`,
`wake_cut`, `run_over`, `wake_fails`), `cancelled`, `tts_expected`, `tts_url`,
the one fetch slot (`media_busy`, `media_playing`, `media_cur`). Around it: a
fetch thread per reply, the playback thread with its queue, the capture thread,
the buttons, and Home Assistant's connection. Hard: everything may come between
a handler and the threads it started. Correct when the session always comes
back to rest, nothing stays cut, busy or listening, and a cancelled reply is
not spoken.

**The parts around them**, each with a module of its own (section 3):

| Part | State | What is hard, and what makes it correct |
|---|---|---|
| Arbitration: networks, keys, pairing (`arb.c`) | network and key, offers, who was adopted | two networks that meet, keys handed over while one is away; keys only to Echos of the house, and the house ends in one network |
| Kiosk mode (`arb.c`) | claims of loudness | broadcasts lost and late, windows that begin apart; one answers, the one that heard best |
| Drop In (`dropin.c`) | the call, the queue to the core, the jitter buffer | both call, both hang up, messages lost; one result per call, nobody left alone, audio in order |
| Timers, volumes, wake words, capture (`main.c`) | tables, levels and their files, words loaded, the microphone's ring | threads that look first and lock later, kills between file and mixer, a word switched while it is used |
| ESPHome clients (`proto_esphome.c`) | connections, key, subscriptions | a key that changes under connections, announcements cut |
| Settings (`settings.c`) | the file and every setting | settings that depend on each other, presets, imports, starts |
| Bluetooth (`ble.c`, `a2dp.c`, `btout.c`) | connections, GATT queues, bonds, packet buffers; the source's and the sink's state machines; the HAL and the route | asynchronous events between any two steps, devices that vanish or never answer |
| Setup (`improv.c`, `wifi.c`), updates (`update.c`, `ota.c`), models (`artifacts.c`, `davs.c`), sounds (`soundpack.c`, `sounds.c`, `mww_store.c`) | requests to root, staged files, tokens, folders | power cuts and kills between files, late and lost answers |
| Web page (`web.c`) | browsers' keys and counters, logins | approval against timeout, replays after a restart |
| Music (`sendspin.c`, `mass.c`) | sessions, who is admitted, requests | take-over, access withdrawn while playing, a session that ends between a request's steps |
| Ring, screen, buttons, mute (`ring.c`, `ledq.c`, `ringdesign.c`, `screen.c`, `buttons.c`) | patterns, queue, designs, the UI's process, keys down, latch | processes that hang, restart or die; what is shown is what holds |
| Audio (`audio_android.c`, `audio_mixer.c`) | slots, blocks, streams | callbacks against writers, servers that stall |
| Address changes (`netaddr.c`) | links, peers expected | Home Assistant ignores the first announcement |

## 2. Plan

Most important first. Each module names its constants and assumptions, has one
action per operation and no `RECURSIVE` operator where theorems follow.

1. **done** `StateFile` and `ArbCounter`, with proofs; `ArbVote` with proofs;
   `ArbRound`; `Session`.
2. **done** one module for every part of the table above, the compositions
   `MCAccess` and `MCHouse` (safety) and `MCEnds` (liveness).
3. **done** proofs about `ArbRound` (its invariants, and that it implements
   `ArbVote`), `Session`, `Mass`, `Davs` and `Kiosk` (section 6).
4. **done** proofs about the parts that decide who is let in and what is
   installed: `Web!OnceEach`, `Sendspin!NoStrangerPlays`, `ArbNet!OnlyAdopted`,
   `Update!OkIsMine`, `Models!InstalledIsWhole`.
5. **done** the proof of `Session!NoCancelledReply` from the order of Home
   Assistant's events.
6. **open** the invariants of the parts that `MCHouse` takes as instances, first
   `Mixer!SoundWhole` and `Mute!MuteShown`.

## 3. The modules

### StateFile — `statefile.c`

Every system call of `statefile_write` is a step of the writer (`pc`): draw a
number, take it if free, unlink what an earlier process left, create, fill,
fsync, rename, sync the folder; each may fail where the code checks for
failure. The folder exists twice (`path`, `temp` in memory, `flashPath`,
`flashTemp` on the flash), and so does each file's content (`cache`, `flash`).
`WritebackData` and `WritebackFolder` move them to the flash at any time (ext4
without `auto_da_alloc`: no order between data and rename). `Killed` ends the
process, `PowerCut` also forgets what the flash does not hold. Content is
"empty", "part" or "full": the bytes do not matter to the properties. `rank`,
`renames` and `acked` are history.

### ArbCounter — the counter of `arb.c`

A start runs through `Load`, `LoadIdentity`/`NewIdentity`/`NoIdentity`,
`Reserve`; `next_ctr` draws a counter and saves a new block before the old one
runs out, `Send` broadcasts. `LoseState` and `LoseKey` lose one of the two
files, `Crash` happens between any two steps. `Receive` takes any packet ever
sent, in any order and any number of times, if `fresh`; a full table forgets a
peer. Devices in `Failing` may fail to write; for the others a save succeeds.
Authentication is a packet's network: only members of it take it.

### ArbVote — what a round promises

Outcomes and marks (priority and score as one number), without time or packets:
an Echo goes quiet only for one that answers or that claimed and is better.

### ArbRound — wake word rounds

`Say` is the talker, the `Heard…` actions are what the wake word engine's report
does in `wake_heard`, `ScoreWait` the wait for the front end's score, `Decide`
the end of a round in the capture thread, `Receive` and `Drop` are `on_packet`,
`Beacon` is `arb.c`'s thread. `air` holds packets for `MaxDelay` ticks, from
which they reach each Echo at any time, again, or never. `Tick` cannot pass a
due time, because the capture thread looks at both in every block of audio.
Learned windows and the rivals' estimate are inputs (any window of `Windows`,
any set of members to wait for): the properties must not depend on them.

### Session — pipeline, playback, Home Assistant's events

Each handler that runs under `core_lock` is one operator from the locked fields
`c` to the locked fields after it, composed as the C functions call each other
(`core_pipeline_finish`, `pipeline_start`, `cancel`, `wake_listen`, …), and one
action. What runs outside the lock is split: a fetch thread looks at its URL,
fetches, begins, feeds, ends, pushes; the playback thread takes a `Q_STOP` and
then waits for the lock. Home Assistant is external and modelled as the stream
of events its connection delivers in order: those of the run it reports on
(`ha`), which may be older than the run last asked for. `InFlight` bounds how
many events of an aborted or replaced run are still on their way. Both settings
are in the initial states: the wake word heard here (`local`), or at Home
Assistant, where a run is open beside every reply. Windows of time (4 s after a
cut, 10 s of `stop_heard`) are inputs: either outcome may happen. Left out:
audio items of the queue, sounds, the ring's light, timers, Drop In, "do not
disturb".

### The parts around the session

Each of these modules has its state, `…Init`, one action per operation and
`…Next`; what is external (a phone, a speaker, a server, root's scripts, the
controller, Amazon) is a set of actions of its own, marked so in the map.
Common conventions: what runs under one lock is one action; a thread that
unlocks, waits or calls out between two steps has a `pc` or phase; a timeout
may fire whenever its condition holds, unless a property depends on its length,
where there is a clock in ticks; audio is a sequence of numbered frames; a file
written by `statefile.c` is replaced at once or, where the write fails, left as it
was, which `StateFile` justifies. A caller that only logs the failure goes on in the
model too (`Davs!tokens_save`, `Web!save_clients`, `Designs!put_back`,
`Volume!write_file`, `ShowVolume!vol_save`); what it then no longer promises is
listed in section 4.

| Module | Source | Actions follow | Checked property |
|---|---|---|---|
| `Ble` | `ble.c` | Home Assistant's requests, `upkeep`'s steps, HCI events, SMP and ATT with their timeouts, `free_conn` | `NoBufferLost`: credits, packets in flight and queued add up; `Settled` |
| `Speaker` | `a2dp.c` (source), `btout.c` | `out_*` and its timers, `hal_thread`, `route_thread` | `ReadyIsReady`: the HAL is told of a speaker exactly while its stream is there; `Retried` |
| `Sink` | `a2dp.c` (sink) | HCI, L2CAP, AVDTP and AVRCP handlers of two phones | `SinkTold`: a phone that plays is reported, one that is gone is not |
| `Improv` | `improv.c`, `wifi.c` | the worker's turn, GATT callbacks, root's watcher | `CommandDone`, `PhoneKnows` |
| `Update` | `ota.c`, `update.c` | a push's and the download's thread, each file stored, root's installer, restarts | `OkIsMine`, `InstallOver` |
| `Models` | `artifacts.c`, `davs.c` | begin, pieces, commit, marking, root's installation | `InstalledIsWhole` |
| `Davs` | `davs.c` | the worker's requests and their answers or loss | `LiveTokensKept` |
| `Library` | `soundpack.c`, `sounds.c`, `mww_store.c` | every write, rename, unlink and sync, kills and power cuts | `NamedIsWhole`, `CachedIsNewest` |
| `Web` | `web.c` | logins, the button, requests with counters, revoking, starts | `OnceEach`, `AttentionOver` |
| `Api` | `proto_esphome.c` | connections, handshakes, key change, subscriptions, Bluetooth requests | `ClientsAgree`, `AnnouncementGone` |
| `Settings` | `settings.c` | page, entities, import, export, preset, load and save | `Taken`, `ListedIsRead`, `StartKeeps` |
| `ArbNet` | `arb.c` | beacons, offers, pushes, Home Assistant's answers, pairing, merging; the keys and requests to pair strangers send | `OnlyAdopted`, `Merged` |
| `Kiosk` | `arb.c` | claims, their copies, the decision, switching the mode | `KioskOne` |
| `DropIn` | `dropin.c` | the page's and the button's calls, each message, the loop's timers | `OneResultEach`, `CoreFollows`, `NoRevival`, `NobodyAlone`, `NoneWaits` |
| `CallAudio` | `dropin.c` | `send_frame`, `on_audio`, the playout thread | `FramesInOrder` |
| `Sendspin` | `sendspin.c` | hellos, activation, pairing, streams, `sendspin_unpaired` | `NoStrangerPlays` |
| `Mass` | `mass.c` | the session thread, a request's steps, covers | `TokenToItsHost`, `NoListForgotten` |
| `Volume` | `main.c`, `audio_mixer.c` | the volume calls, `core_speaker`, `volume_sync`, the mixer's tools that nobody waits for, kills | `NeverTheSpeakers`, `VolumeSettled` |
| `ShowVolume` | `audio_android.c` | the volume's thread, the route and its file | `VolumeReached` |
| `Timers` | `main.c` | Home Assistant's timer events, the alarm's loop | `RingsItsTime`, `RungOut` |
| `Wake` | `main.c`, `wake.c` | picks, loading and its failures, engine changes | `ListensAsPicked`, `LoadingOver` |
| `Capture` | `main.c` | a block of audio, requests, the aligner's thread, the front end | `RequestWhole`, `AlignerLives`, `FrontEndLetGo` |
| `Buttons`, `Mute` | `buttons.c`, `main.c` | the reader, stages of a hold, the grab; latch, early press, soft mute | `NoStuckKey`, `PressToldOnce`, `GrabOver`; `MuteShown`, `MuteTold` |
| `Led` | `ring.c`, `ledq.c` | patterns, the light, the queue's batches, hangs, ledcontroller's restart | `NoPatternLeft`, `LightApart` |
| `Designs` | `ringdesign.c` | library, assignments, packs, Apply, root and the script at a start | `InstalledIsReal`, `PacksTrue`, `ApplyAnswered` |
| `Screen` | `screen.c` | writer, reader, what changes, the UI's failures | `UiFollows`, `NoStaleUi`, `ScreenUp` |
| `Streams`, `Mixer` | `audio_android.c`, `audio_mixer.c` | writers, callbacks, stalls, reopening | `AudioInOrder`, `AudioOver`; `SoundWhole`, `MixerOver` |
| `NetAddr` | `netaddr.c` | the poll, links, announcements, Home Assistant dialling | `HaBack`, `PlayerBack` |

**Compositions.** The parts meet only through what the properties above state,
so `MCAccess`, `MCHouse` and `MCEnds` put them side by side: a behaviour is that of
one part, chosen in the first state (`part`). `Mass`, `Davs`, `Kiosk`, `ArbNet`,
`Sendspin`, `Web` and `Models`, which theorems are about, are extended by
`MCAccess`, and `Update` by `MCEnds`: they keep their own variables, their
parameters are in `Access.cfg` and `Ends.cfg`, their assumptions are evaluated
there, and each of their properties is checked by its own name. `MCAccess` also has
`ArbNet` with other parameters (`ArbPair`, Echos paired by their buttons, so that
`OnlyAdopted` is checked of both) and `ArbRound` with two utterances (`Spaced`,
`NoSilenceSpaced`). The variables of the other parts are mapped onto shared ones
(`v1`, `v2`, …) by their `INSTANCE … WITH`, and the properties of `MCHouse` gather
what one group of parts promises:

| Property | Parts |
|---|---|
| `LinksKept` | `Ble!NoBufferLost`, `Speaker!ReadyIsReady`, `Sink!SinkTold`, `Api!ClientsAgree`, `DropIn!OneResultEach`, `!CoreFollows`, `!NoRevival`, `CallAudio!FramesInOrder` |
| `InstalledWhole` | `Library!NamedIsWhole`, `!CachedIsNewest`, `Designs!InstalledIsReal`, `!PacksTrue` |
| `SettingsAgree` | `Settings!Taken`, `!ListedIsRead`, `Wake!ListensAsPicked`, `Volume!NeverTheSpeakers`, `ShowVolume!VolumeReached` |
| `ShownIsSo` | `Buttons!NoStuckKey`, `!PressToldOnce`, `Mute!MuteShown`, `Led!NoPatternLeft`, `!LightApart`, `Screen!UiFollows`, `!NoStaleUi` |
| `AudioWhole` | `Streams!AudioInOrder`, `Mixer!SoundWhole`, `Capture!RequestWhole`, `!AlignerLives`, `!FrontEndLetGo` |
| `StepsKeep` (action) | `Settings!StartKeeps`, `Timers!RingsItsTime` |

## 4. The runs

| Run | Instance | Shows |
|---|---|---|
| `StateFile` | 2 writers, 2 temp numbers, 3 writes | `OldOrNew`, `OwnTemp`, `AckedStays` through failures, kills and power cuts at every step |
| `ArbCounter` | 2 Echos, blocks of 2, counters to 3, 2 identities, 2 networks, table of 1 | `CounterNeverGoesBack`, `OnDiskBeforeUse`, `TakenOnce` |
| `ArbRoundTimely` | 3 Echos, 2 scores, windows longer than delay and spread | `OneAnswers`, `BestAnswers`, `SettledIsFinal` |
| `ArbRoundLossy` | 2 Echos, loss, delay, unknown members, a front end, a ring of 1 claim | `NoSilence`, `ImplementsVote`, `EveryClaimDecided` |
| `Session` | 2 fetch threads, 2 runs (3 with the wake word at Home Assistant), 2 late events | `SpeakingEnds`, `FlushEnds`, `WakeCutEnds`, `SlotFreed`, `MicOnlyWhenListening`, `NoCancelledReply`, `ReturnsToIdle` |
| `Access` | `Mass`: 2 hosts, 1 slot, 2 changes of address or token, 2 lists, 1 cover; `Davs`: 3 registrations, 5 commands, 3 faults or failed writes; `Kiosk`: 2 devices, 2 loudnesses, a window of 5 with delays of 1, a table of 1, 2 switches of the mode; `ArbNet`: 2 Echos and a stranger's, in an older or a younger network, that sends a key or a request, with Home Assistant and (`ArbPair`) with 2 pairing gestures instead; `Sendspin`: 2 servers, one of the older specification, a table of 1 session; `Web`: 2 browsers, 1 place, a window of 1, 4 requests, 1 failed write, 1 restart; `Models`: 2 files, 2 copies, 1 download; `Spaced`: 2 utterances further apart than the look-back | `TokenToItsHost`, `NoListForgotten`, `LiveTokensKept`, `KioskOne`, `OnlyAdopted`, `NoStrangerPlays`, `OnceEach`, `InstalledIsWhole`; `NoSilenceSpaced`: the first utterance's claims do not silence the second (1.9 million states, three minutes) |
| `House` | the other parts around the session, two of each thing where two can meet | `LinksKept`, `InstalledWhole`, `SettingsAgree`, `ShownIsSo`, `AudioWhole`, `StepsKeep` (2.3 million states, three minutes) |
| `Ends` | the parts that wait for something; `Update`: 2 bundles, 1 restart, 2 requests | `OkIsMine` of `Update`; `BluetoothSettles`, `SetupAndUpdatesEnd`, `PeersFound`, `CallsAndRingsEnd`, `OutputsFollow` (208,000 states, two minutes) |
| `ArbRoundBeacon`, `SessionFlush`, `SessionCut`, `SettingsBand` | violations | the findings below |

**Bounds, and why they are enough.** Two temp numbers and two writers have
numbers come round while in use, and three writes let one writer be overtaken
twice. Blocks of two counters are crossed within three draws, so a crash falls
before, on and after a reservation; a table of one peer is full at once. Three
Echos are needed for one to beat another and lose to a third; two suffice for
loss, since `NoSilence` is about a pair and the contract is proved for any
number. In `ArbRoundTimely` the window (3) is longer than spread plus delay (2)
and the table has room for both claims of each Echo,
the condition under which `arb.c` promises one answer; `RivalsOn` is FALSE there:
with rivals on (the default) a round may wait for nobody, and two Echos may
answer, which is the trade the code makes. `Session` with two fetch threads has
an abandoned fetch beside its successor, and with two runs a cancelled one beside
the next; where the wake word is at Home Assistant the run beside a reply needs a
third. `WAKE_FAILS_MAX` is 1
instead of 3. Counters, runs, utterances and time are capped by the guards of
the actions that would pass them; a system at its cap may stop, hence
`CHECK_DEADLOCK FALSE`. It is also what a quiet house looks like: nobody speaks. The type
invariants of `StateFile`, `ArbCounter`, `ArbRound`, `Session` and the eight parts
`MCAccess` and `MCEnds` extend are parts of the inductive invariants proved in section 6 and no
run repeats them.

`Mass` has fewer slots than lists, so that one is refused, and a second
host to change to while the first is in use. In `Davs` a registration can be replaced twice with a lost answer at
each. In `Kiosk` a device's table holds exactly the other's claim and the last
copy comes in the tick before a window may end; three devices take TLC longer
than five minutes, and the theorem covers any number. In `ArbNet` the
stranger's network is younger than the house's or older, so that either side would
hand the other its key, and the stranger hands one itself; its request to pair comes
in the instance of Echos paired by their buttons (`ArbPair`), where there is a window
to answer it in. In `Sendspin` the second session finds the table full. In `Web` a
place is taken from the browser that had it, a counter falls out of the window and
the file's counter lags behind, by the code's choice or by a write that fails. In `Update` the page's push and the download hand over at once; in `Models`
two copies and a download meet in one folder.

In `House` and `Ends` the values stand beside each part's `INSTANCE`: two
devices, phones, browsers, clients, servers or Echos, tables and queues of one
to three places so that they are full, and one to four calls, faults, kills or
restarts, so that one can come between any two steps of another. A part that is
large in two directions has two instances (`Speaker` switched, and failing;
`Capture` with a switch, and with two wakes; `Settings` with two changes, and
with two starts; `DropIn` with one call, byes sent again and an outage, and with two
calls that follow or cross each other; `Screen` three times). `Capture`'s ring holds
four blocks and five or six are recorded, so that a request's beginning is overwritten;
`Sink` has two phones, one remembered, with a call each and three channels between
them (`MaxChans`); `Mixer`'s ring (`Room`, 2) is smaller than a sound (3), so that a
write waits. One file write may fail where a module has `MaxFails`, one tool set the
mixer for each of its two controls and a third after it in `Ends` (`MaxLate`, 2
and 3). Liveness runs are a size smaller: one drop-in call, no kill in `Volume`.

**What the properties of `Access`, `House` and `Ends` leave aside**: cases in which the code
itself promises nothing, reached by the model and named in the property's comment.

- A write that failed and is only logged. `LiveTokensKept` leaves out the restart
  that reads a file still behind (`davs.c:387,391`), `OnceEach` ends with such a
  restart (`web.c:148,150`): a request done before it may count again. The ring's
  designs (`InstalledIsReal`) are off after a failed `put_back` or
  `rd_installed_set` (`ringdesign.c:672,223`) until a start whose script installs
  what was applied, and so are they after an install nobody was told of: root gone
  between installing and answering, or hassmic started again while root works on a
  request it had taken (`rd_start` waits only for one still there). `volume.speaker`
  and `volume.music` (`main.c:2820,2703`) and the Echo Show's files
  (`audio_android.c:279,395`) likewise, up to the next write.
- The Dots' volume is set by a tool nobody waits for (`audio_mixer.c:222`,
  `main.c:300`). A `volume_sync` that reads while one is under way takes the old
  level for the user's wish, and may so keep the speaker's; tools may overtake each
  other; and a target that moved and came back between its two looks is not noticed.
  `NeverTheSpeakers` leaves these out, and a death before the first `volume.music`
  after the even steps or separate volumes were switched on.
- `OnlyAdopted`: in the two minutes of a pairing a stranger that asks alone, or that
  hands a key, is taken for the other Echo, as `arb.c:83-85` says.
- `NoStrangerPlays`: `live[16]` full, a further session has no place in it and
  `sendspin_unpaired` does not find it (`sendspin.c:1169,1340`).
- `BluetoothSettles`: a bonded device that never sends anything is not encrypted
  (`ble.c:1288`) and its MTU's timeout comes back to the same wait
  (`ble.c:1307,396`); a speaker that configures us and never opens the stream is
  waited for in `O_ACP` without a time limit (`a2dp.c:1169,1383-1387`).
- `AudioWhole`: a request held up by the reply that is cut for it starts with what
  the ring has left (nothing bounds the cut); an earcon whose stream was drained
  before `q0` was read, or that met a pause of 400 ms, is heard twice
  (`audio_mixer.c:192-194`). `MixerOver`: a write waits for room in the ring of a
  mixer that takes nothing (`audio_mixer.c:185`).

**What the session run leaves aside**, each visible in the configuration: a
player stop before the audio began (`EarlyStop`) and a chime before an
announcement with the wake word at Home Assistant, which are the two findings
below; and in the property `FlushEnds` the case `letGo`, where `cancel`
(`proto_esphome.c:1317`) lets go of a fetch whose audio is just being cut: its
`Q_STOP` never comes and the cut stays until another one does. `NoCancelledReply`
does not count a run Home Assistant had failed before it was cancelled, and holds
for `InFlight` up to 2 only. Events name no run, so `on_event` takes the first
`RUN_START` after a new start for the new run's. If the cancelled run's own
`RUN_START` is what arrives, its later events are heeded; the fourth (start,
`STT_START`, `STT_END`, `INTENT_PROGRESS`) starts its reply, as TLC shows with
`InFlight = 3`. That takes a connection that holds back a whole request while the
user cancels and asks again.

**Fairness.** `ArbRound`: time passes and the capture thread decides, because it
is called for every block of audio; the network owes nothing. `Session`: some
thread of the daemon goes on while one can (`WF_vars(Daemon)`): fetches end since
their sockets have timeouts, the playback thread takes what is queued, the
pipeline's timeout is looked at in every block. Nothing is assumed of Home
Assistant or the talker. `StateFile` and `ArbCounter` have only safety
properties and no fairness.

`Ends` has the fairness of each part in
`MCEnds` (`BleFair`, `SpeakerFair`, …), each with the reason: the part's own
threads turn, its timers run out, its controller, driver or root's loop answers
when it is not the thing that fails. Where a single lost or refused step can
happen again and again, the property assumes that one of many succeeds, as
strong fairness of that step alone: a route asked for (`StrongSpeaker`), an
announcement heard (`StrongNetAddr`), the latch looked at between two reports
(`StrongMute`), a hanging UI noticed (`StrongScreen`). Peers, phones, users and
Home Assistant owe nothing else, except that in `ArbNet` and `NetAddr` Home
Assistant comes back and dials, and not every broadcast is lost.

**Mutants.** For each property of a passing run, `PROJECT.json` names a
definition and a faulty form of it next to it in the module (a dropped fsync, a
number not reduced, a tie decided for nobody, a cancel that keeps the fetch, …)
under which the property fails.

## 5. Findings

- `ArbRoundBeacon`: `arb.c:176` says of a broadcast's copies that "receivers drop
  all but the first". Beacons share the claims' counter, so a beacon that
  overtakes a claim has all its copies dropped. `NoSilence` holds all the same.
- `SessionFlush`: a player stop that comes after `media_start` and before the
  audio sets `flush_playback`; the fetch then skips its URL and pushes no
  `Q_STOP`, the only thing that clears it: every later reply is skipped.
- `SessionCut`: Home Assistant's wake word cuts an announcement between chime
  and message; the message still begins, closes the request's microphone and
  sets SPEAKING again.

- `SettingsBand`: on an Echo Show a level of the band's brightness is gone after
  a start. `settings_save` writes it without `led_auto_brightness`, which the
  device does not have; `settings_load` starts with automatic on and then leaves
  the level out (`settings.c:480,504`), where `main.c:2913` says it "is applied
  again at every start". The `House` run has a device with a light sensor.

Met while modelling; the properties exclude them by a condition their comments
name, by the bounds, or do not speak of them:

- `ota.c`: after a wait of 60 s that gave up, the late answer of that bundle can
  be taken for the next one's (`OkIsMine` holds up to then).
- `dropin.c:592`: a packet exactly `JB` frames older than the newest is filed in
  the newest's place.
- `artifacts.c`: a piece that comes after the commit changes a set already
  marked ready, and its files are not synced before the mark.
- `mww_store.c`: a kill between `swap_in`'s two renames leaves the old model
  only under its hidden name.
- `ledq.c`: a full queue can drop an unset; `ring.c`: a pattern set between
  ledcontroller's restart and `ring_reload` is never unset.
- `screen.c:683`: a player that went and came between two rounds shows the old
  title until the next change.
- `main.c`, wake words: the return to "Alexa" after a failed load overrides a
  pick made meanwhile.
- `arb.c`: a stranger's network in reach keeps the house's Echos from creating
  one of their own, although they cannot join it.
- `btout.c:118`: between the route's change and the volume's, the mixer may
  stand at full scale on the Echo's own speaker.
- `main.c:1782,1786`: `align_busy` is looked at twice; a run that ends in between
  lets the next one use the aligner of the wake word before, against
  `main.c:1619-1620`. `AlignerLives` (none is freed in use) holds.
- Those of "What the properties of `Access`, `House` and `Ends` leave aside" in
  section 4.

## 6. The proofs

TLAPS proves the following for every value of the constants that satisfies the
named assumptions (positive sizes, sets of numbers).

**StateFileProofs**. `TypeCorrect`; `WriterKeepsItsTemp` (`OwnTemp`);
`OldOrNewHolds`; `AckedStaysHolds`. `OwnTemp` is not inductive: that no other
writer touches a temp file needs `Exclusive` (a writer that holds a number has
its flag up, no two hold the same). With `SlotInv == TypeOK /\ Exclusive /\
OwnTemp`, `Complete` says that what is about to be renamed is complete in memory
and on the flash, and so is what either folder names: that gives `OldOrNew`.
`Lag` orders the ranks (flash at most memory, memory at least every write that
waits for its folder sync, acknowledged at most flash) and gives `AckedStays`.

**ArbCounterProofs**. `TypeCorrect`; `CounterRises`
(`CounterNeverGoesBack`); `ReservedBeforeUse` (`OnDiskBeforeUse`);
`TakenOnceHolds`. The invariant `Fresher` follows a start step by step: as long
as an identity's key can come back, every packet sent under it is below the
counter on the disk; identities are used up in order, so a new one has sent
nothing. It is stated for devices whose files can be written: with a flash that
refuses writes `next_ctr` goes on without a reservation and promises nothing. In
the run the failing device is the one that listens and moves between networks.

**ArbVoteProofs**. `TypeCorrect`, `NoSilenceHolds`, `DecisionsStayHolds` of the
contract. `NoSilence` is preserved when a better Echo itself goes quiet because
`Better` is transitive (`BetterIsTransitive`): the one it yields to is better
than everyone who yielded to it.

**ArbRoundProofs**. `TypeCorrect` needs nothing but the assumptions.
Under `Spaced` (one utterance, or utterances further apart than a round, the
network and the look-back together) `Invariant` proves `IInv`: the capture
threads are in step with the utterance (`Threads`, `Punctual`), and what is in the
air or in a table either says of its sender what the sender's own round says
(`AirTrue`, `KeptTrue`) or is too old to count. `NoSilenceHolds` follows: an Echo
that goes quiet was beaten by a claim that is true of a better one, and `Better` is
transitive. Packets may be lost, repeated and overtaken, tables full, members
unknown. The hypothesis cannot go: within the look-back a claim of the utterance
before counts, in the code too (`arb.c:631`). `Implements` shows for one utterance
that every step of `ArbRound` is a step of `ArbVote` or leaves it
(`Vote == INSTANCE ArbVote`, the marks read off the rounds).

Under `Timely` (one utterance, Echos that know each other, nothing lost, windows
longer than spread, front end and delay, tables with room, no beacon in between)
`TimelyInvariant` adds `TInv`: a claim is in the air until every other Echo has it
(`Arrives`), the tables hold at most two of each (`Book`), and whoever answered had
them all (`Chosen`). From it `OneAnswersHolds`, `BestAnswersHolds`,
`SettledIsFinalHolds`. Each conjunct of `Timely` is a case in which the code
itself promises less: a lost claim or an unknown member makes two answer, with
rivals on a round may wait for nobody, and a beacon may overtake a claim
(`ArbRoundBeacon`). `NCLAIM` is 16 in the code, room for eight Echos. The part
`Spaced` of `Access` and the run `ArbRoundTimely` satisfy the hypotheses.

**SessionProofs**, for any number of fetch threads and runs. `Bookkeeping` proves
`SlotInv` without a hypothesis: at most one `Q_STOP` is owed, queued or in the
playback thread's hand (`OnePending`), the fetch slot is taken exactly while a
fetch that nobody let go of runs or that `Q_STOP` is pending (`Slot`), and `Mic`.
`TypeCorrect`, `MicHolds` (`MicOnlyWhenListening`) and `SlotHolds` (`SlotFreed`)
follow. `Invariant` adds `SpeakInv`: SPEAKING has a `Q_STOP` to come (`Speaks`), and
after a cut for Home Assistant's wake word no fetch that counts can begin to speak
(`Cut`, with `Plain`). It assumes `NoChimes`, no announcement with a chime where
Home Assistant hears the wake word; with one the finding `SessionCut` refutes it.
`SpeakingHolds`, `WakeCutHolds`, `CutListensHolds` follow, and with `~EarlyStop`
`FlushHolds` (the finding `SessionFlush` is what `EarlyStop` leads to).
`CutListensHolds` is the property the violation run `SessionCut` checks: without
the chime it holds. `NoCancelledReplyHolds` proves the action property for
`InFlight <= 2` (section 4). Its invariant is `Books`, kept beside `SlotInv`: a thread
that is to reply does so for a run that was reported on and not cancelled, a
cancelled run is an older one or its events are dropped, and one heeded by mistake
has come at most two stages further with each event in flight, which is short of
its reply (`Ledger`). So that a cancel finds every such thread, the run still
expects its reply, or Home Assistant failed or ended it and then the Echo neither
streams nor, once the run is over, listens or thinks (`Open`). Each handler's part
has a lemma that it keeps `Books` for whatever report it is given; an event is then
a step of the report followed by the handler.

**AccessProofs**: who is let in, by the page, by Amazon, by a music server or into
the house's network. Five parts, each with its own inductive invariant.

- `mass.c`, for any hosts, slots and changes. `MassInvariant`: a token is the
  current address's, one a session took is its host's, a session that saw the
  newest settings has their token (`MassTokens`), the image thread's pair belongs
  together (`Covers`), and a request between slot and wire still has its slot or
  its list has ended (`Lists`). `TokenHolds`, `ListsHold`.
- `davs.c`. `DavsInvariant`: memory and file hold tokens of registrations Amazon
  made, and where they differ, after a write that failed, Amazon no longer holds the
  file's. `TokensHold` proves the action property: every step leaves the tokens,
  forgets them once the registration is gone, replaces them by those of a new one,
  which ends the old one at Amazon, or is a start that reads the file; only that
  one, with the file behind, may lose a live one.
- `web.c`, for any browsers, window, requests, failed writes, restarts. `OnceEach` alone is not
  inductive: a request already done could be taken again if its number were
  neither below the floor nor remembered, or if a restart set the floor back.
  `CountersInvariant` proves `WInv`: what a browser has done is below its floor or
  in its window, and not above the counter the file has for it unless its last write
  failed (`Below`, `Good`, `Held`), up to a start that reads a file left behind;
  each approved browser has one entry and the file the same ones; who is not
  approved has done nothing that counts. `ctr_take` keeps that because
  what leaves the window is its minimum and the floor rises to it (`Lowest`, by the
  well-foundedness of the numbers), and a start because it sets the floor to the
  file's counter. `OnceEachHolds`.
- `sendspin.c`, for any servers and any length of `live`. `PlayerInvariant` proves `PInv`: who has a key of
  its own has proved it, who plays is the admitted server or is being closed
  (`Admitted`), and, while unpaired access is switched off, the sessions are clean
  as far as `sendspin_unpaired` has come: after the idle ones are closed, a
  stranger left is one that plays; after the playing one is closed, there is none
  (`Tame`). This is for the sessions listed in `live`. `NoStrangerPlaysHolds`.
- `arb.c`'s network, for any house, strangers and networks. `NetInvariant` proves
  `NInv`: a stranger's tag is read and never seen to change, so it is not attested
  (`Unattested`); what a stranger sends comes over the LAN, where only an attested
  sender is believed outside a pairing (`OnLan`); and, until a pairing's window let
  one in, no key the house's Echos hand is of a stranger's network (`Apart`).
  `OnlyAdoptedHolds`. Strangers send any keys of their networks and any requests to
  pair. That their tags do not change is what Home Assistant, external to the
  model, guarantees: only an Echo it has adopted makes its tag change.

**InstallProofs**: what root installs.

- `ota.c`, `update.c` and root's loop, for any number of bundles and restarts.
  `HandOverInvariant` proves `UInv`: unless a wait gave up or hassmic restarted
  during one, one thread has the lock and is as far with the three files as its `pc`
  says (`Handing`), and a request, or root at work, means that a thread waits whose
  bundle and signature are the staged ones (`Orderly`). `OkIsMineHolds`.
- `artifacts.c`, `davs.c` and root, for any files and versions. `StagedInvariant`
  proves `MInv`: until two sources met (`mixed`) a set marked ready is one version,
  a download that unpacks is alone in its folder (`StagedWhole`), what root has
  copied is of a ready set, and what is in place is one version (`CopiedWhole`).
  `InstalledIsWholeHolds`. Without `mixed` it does not hold, in the code either: a
  piece that comes after the commit changes a set already marked ready (section 5).

**KioskProofs**, for any number of devices. Under `InTime` (the last of three
copies comes before any window of the round is over, and a table has room for the
others' claims) `Invariant` proves, as long as no switch of the mode cut the round:
who took part heard the word within `Spread`; copies to send, in the air and kept
are of claims that were made, and in time; each claim is kept by every device that
listens, on its way, or to be sent again (`Reaches`). At the end of a window only
the first is left, so `kiosk_decide` compares with everyone: `KioskHolds`
(`KioskOne`). That a table never evicts a claim is counting: the claims are of
distinct other devices (`Room`). With the code's 15 ms between copies, its window
of 400 ms (100 at least) and 16 places, `InTime` allows 17 devices and leaves
spread and delay 370 ms together.

**Assumptions on constants.** Sizes and bounds are natural numbers, the ones the code
divides or counts down by are positive; the values that stand for "none" are none of
the others; a house's Echos and strangers are different devices and network 0 means
none. Each is a named `ASSUME` in the module that declares the constants, and TLC
evaluates it in that module's run.

**Only model-checked.** Liveness (`EveryClaimDecided`, `ReturnsToIdle` and all
of `Ends`), which needs fairness and `ENABLED`, out of this prover's reach as are
induction over data and `RECURSIVE` operators (the modules use none).
The parts `MCHouse` takes as instances
(`LinksKept`, `InstalledWhole`, `SettingsAgree`, `ShownIsSo`, `AudioWhole`,
`StepsKeep`), whose invariants have not been strengthened to inductive ones.
`ArbRound`'s properties outside `Spaced` and `Timely`, where the runs say what is
left of them.

## 7. Not modelled

- Signal processing (wake word engines, microphone chain, resampling, gains,
  codecs), which works on samples a model checker cannot tell apart; what it
  reports is an input of `Capture`, `Wake` and `ArbRound`.
- Cryptography (`noise.c`, `ble_crypto.c`, `hash.c`): taken as what it lets
  through.
- Parsing, framing and formatting (`json.c`, `ws.c`, `https.c`, `net.c`, the
  entity lists of `proto_esphome.c`, the pages' JSON in `web.c` and `mass.c`).
- Wyoming (`proto_wyoming.c`, `wyoming.c`), an older protocol with one run at a
  time and none of the commands the session's races come from.
- Drawing (`ring_band.c`, `src/ui`), the browser's page, `adbwifi.c`,
  `wifimotion.c`, `tz.c`, `dha.c`, `clock.c`: no state another part relies on.
- Most of root's scripts: their installers and watchers are actions of `Update`,
  `Models`, `Designs` and `Improv` as far as hassmic sees them; boot counting and
  rollback are not modelled.
- Installers, kernel module, tools, vendored code.
- The learned window's statistics of `arb.c`: any window is an input of
  `ArbRound`.
