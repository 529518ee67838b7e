-------------------------------- MODULE Wake --------------------------------
(***************************************************************************)
(* Which wake words listen (main.c, wake.c).  Home Assistant picks one or  *)
(* two of the list, the page switches the engine and adds or removes       *)
(* microWakeWord models, all under core_lock; the capture thread then      *)
(* loads them, which takes seconds, without it.  A word that does not load *)
(* is given up for Amazon's first, a microWakeWord model with its engine.  *)
(* Switching to or from Home Assistant's wake word takes a restart.        *)
(***************************************************************************)
EXTENDS Naturals, Sequences, SequencesExt, FiniteSets

CONSTANTS Amazon,       \* Amazon's words installed, the firmware's first
          Mww,          \* microWakeWord models there may be
          Broken,       \* words that do not load; the firmware's does
          MaxChanges,   \* bound: picks, switches, models added or removed
          MaxStarts,    \* bound: restarts by root
          None

VARIABLES engine,       \* wake_engine
          local,        \* core_local_wake
          next,         \* wake_next: asked for, from the next start
          refused,      \* wake_refused
          conf, picks,  \* on disk: the engine, the picks of each engine's words
          models,       \* on disk: microWakeWord's models
          swap,         \* one of them between the two renames that replace it
          act,          \* wake_act
          switch,       \* wake_switch
          slots, names, \* what the decoders hold; wake_loaded
          cap,          \* the capture thread: where it is, what it loads
          asked,        \* state/restart
          changes, starts

wvars == <<engine, local, next, refused, conf, picks, models, swap, act, switch, slots, names, cap, asked, changes, starts>>
Config == <<engine, local, next, refused, conf, asked>>

Empty == <<None, None>>
idle == [at |-> "idle", word |-> None]
NamesOf(a) == <<a[1], IF Len(a) > 1 THEN a[2] ELSE None>>

\* wake_words_scan: the engine's words, the saved pick active, else the first;
\* without a microWakeWord model it is Amazon's engine.
EngineOf(e, ms) == IF e = "mww" /\ ms = {} THEN "amazon" ELSE e
List(e, ms) == IF e = "mww" THEN SetToSeq(ms) ELSE Amazon
ActiveOf(list, pick) ==
  LET first == IF pick # <<>> /\ pick[1] \in ToSet(list) THEN pick[1] ELSE list[1]
  IN  IF Len(pick) > 1 /\ pick[2] \in ToSet(list) \ {first} THEN <<first, pick[2]>> ELSE <<first>>
wake_words_scan(e, ms) == LET f == EngineOf(e, ms) IN engine' = f /\ act' = ActiveOf(List(f, ms), picks[f])
wake_list_changed == switch' = TRUE

----------------------------------------------------------------------------
\* core_wake_engine, with core_lock held.  A restart already asked for: another.
Current == IF next # None THEN next ELSE IF local THEN engine ELSE "ha"
restart_for(e) ==
  \/ next' = e /\ conf' = e /\ asked' = TRUE /\ refused' = "" /\ UNCHANGED <<engine, act, switch>>
  \/ next' = None /\ conf' = (IF local THEN engine ELSE "ha") /\ refused' = "restart" /\ UNCHANGED <<engine, act, switch, asked>>
core_wake_engine(e) ==
  IF e = Current THEN UNCHANGED <<engine, next, refused, conf, asked, act, switch>>
  ELSE IF e = "mww" /\ models = {} THEN refused' = "model" /\ UNCHANGED <<engine, next, conf, asked, act, switch>>
  ELSE IF e = "ha" \/ ~local \/ next # None THEN restart_for(e)
  ELSE /\ wake_words_scan(e, models) /\ wake_list_changed /\ conf' = EngineOf(e, models) /\ refused' = ""
       /\ UNCHANGED <<next, asked>>

Change == changes < MaxChanges /\ changes' = changes + 1
page_engine == /\ Change /\ \E e \in {"amazon", "mww", "ha"} : core_wake_engine(e)
               /\ UNCHANGED <<local, picks, models, swap, slots, names, cap, starts>>

\* Home Assistant's selects; the ids come in any order, the first stays first.
core_wake_set ==
  /\ Change /\ local
  /\ \E a \in ToSet(List(engine, models)), b \in ToSet(List(engine, models)) :
       LET asks == IF a = b THEN <<a>> ELSE IF b = act[1] THEN <<b, a>> ELSE <<a, b>>
       IN  /\ asks # act /\ act' = asks /\ picks' = [picks EXCEPT ![engine] = asks] /\ switch' = TRUE
  /\ UNCHANGED <<Config, models, swap, slots, names, cap, starts>>

\* The page adds, replaces or removes a model; core_wake_models_changed after.
core_wake_models_changed(ms) ==
  IF engine = "mww" THEN /\ wake_words_scan("mww", ms) /\ wake_list_changed
                         /\ conf' = IF ms = {} THEN (IF next # None THEN next ELSE "amazon") ELSE conf
                    ELSE UNCHANGED <<engine, act, switch, conf>>
mww_add == /\ Change /\ swap = None
           /\ \E m \in Mww \ models : models' = models \union {m} /\ core_wake_models_changed(models \union {m})
           /\ UNCHANGED <<local, next, refused, picks, swap, slots, names, cap, asked, starts>>
mww_delete == /\ Change /\ swap = None
              /\ \E m \in models : models' = models \ {m} /\ core_wake_models_changed(models \ {m})
              /\ UNCHANGED <<local, next, refused, picks, swap, slots, names, cap, asked, starts>>
rename_away == /\ Change /\ swap = None /\ swap' \in models
               /\ UNCHANGED <<Config, picks, models, act, switch, slots, names, cap, starts>>
rename_in == /\ swap # None /\ swap' = None /\ core_wake_models_changed(models)
             /\ UNCHANGED <<local, next, refused, picks, models, slots, names, cap, asked, changes, starts>>

----------------------------------------------------------------------------
\* The capture thread between two blocks of audio: wake_load.
Capture(at, to) == /\ cap.at = at /\ cap' = to
                   /\ UNCHANGED <<local, picks, models, swap, changes, starts>>
Lockless == UNCHANGED <<engine, next, refused, conf, asked, act, switch>>
wake_open(w) == w \notin Broken /\ w # swap /\ (w \in Mww => w \in models)
At(where, w) == [at |-> where, word |-> w]

wake_load == /\ local /\ switch /\ Capture("idle", At("open", act[1])) /\ switch' = FALSE /\ slots' = Empty
             /\ UNCHANGED <<engine, next, refused, conf, asked, act, names>>
\* A first try, and for a microWakeWord model, which may be being replaced, a
\* second one later: two renames take less than the pause.
open_first ==
  /\ Capture("open", IF wake_open(cap.word) THEN At("second", None)
                     ELSE IF cap.word \in Mww THEN At("retry", cap.word) ELSE At("failed", cap.word))
  /\ slots' = IF wake_open(cap.word) THEN [slots EXCEPT ![1] = cap.word] ELSE slots
  /\ Lockless /\ UNCHANGED names
open_retry ==
  /\ swap = None /\ Capture("retry", IF wake_open(cap.word) THEN At("second", None) ELSE At("failed", cap.word))
  /\ slots' = IF wake_open(cap.word) THEN [slots EXCEPT ![1] = cap.word] ELSE slots
  /\ Lockless /\ UNCHANGED names
\* Given up, with the lock: the engine as it is now, not the word's.
give_up ==
  \/ /\ engine = "mww" /\ Capture("failed", idle) /\ core_wake_engine("amazon") /\ UNCHANGED <<slots, names>>
  \/ /\ engine = "amazon" /\ Capture("failed", At("alexa", Amazon[1])) /\ act' = <<Amazon[1]>>
     /\ UNCHANGED <<engine, next, refused, conf, asked, switch, slots, names>>
open_alexa == /\ Capture("alexa", At("second", None)) /\ slots' = [slots EXCEPT ![1] = cap.word] /\ Lockless /\ UNCHANGED names
\* wake_load_second.
second_word == /\ Capture("second", IF Len(act) > 1 THEN At("open2", act[2]) ELSE At("names", None))
               /\ Lockless /\ UNCHANGED <<slots, names>>
open_second ==
  /\ Capture("open2", IF wake_open(cap.word) THEN At("names", None) ELSE At(IF cap.word \in Mww THEN "retry2" ELSE "alone", cap.word))
  /\ slots' = IF wake_open(cap.word) THEN [slots EXCEPT ![2] = cap.word] ELSE slots
  /\ Lockless /\ UNCHANGED names
open_second_retry ==
  /\ swap = None /\ Capture("retry2", IF wake_open(cap.word) THEN At("names", None) ELSE At("alone", cap.word))
  /\ slots' = IF wake_open(cap.word) THEN [slots EXCEPT ![2] = cap.word] ELSE slots
  /\ Lockless /\ UNCHANGED names
first_alone == /\ Capture("alone", At("names", None))
               /\ act' = IF Len(act) > 1 /\ act[2] = cap.word THEN <<act[1]>> ELSE act
               /\ UNCHANGED <<engine, next, refused, conf, asked, switch, slots, names>>
\* Fault: the wish to load is taken back at the end, with one that came meanwhile.
loaded_at_last == /\ Capture("names", idle) /\ names' = NamesOf(act) /\ switch' = FALSE
                  /\ UNCHANGED <<engine, next, refused, conf, asked, act, slots>>

wake_loaded_set == /\ Capture("names", idle) /\ names' = NamesOf(act) /\ Lockless /\ UNCHANGED slots
wake_steps == wake_load \/ open_first \/ open_retry \/ give_up \/ open_alexa \/ second_word \/ open_second \/ open_second_retry
              \/ first_alone \/ wake_loaded_set

----------------------------------------------------------------------------
\* main: the engine by the file, a word loaded before any thread runs; then
\* settings_load has the engine the file says, if a model failed to load.
StartWord(e) == LET a == ActiveOf(List(e, models), picks[e]) IN
                IF wake_open(a[1]) THEN a ELSE IF e = "mww" THEN <<>> ELSE <<Amazon[1]>>
Second(a) == IF Len(a) > 1 /\ ~wake_open(a[2]) THEN <<a[1]>> ELSE a
Loads(e, a, retry) ==
  /\ slots' = NamesOf(Second(a)) /\ names' = NamesOf(Second(a))
  /\ IF retry THEN wake_words_scan("mww", models) /\ switch' = TRUE
              ELSE engine' = e /\ act' = Second(a) /\ switch' = FALSE
WInit == /\ models \in SUBSET Mww /\ picks = [amazon |-> <<>>, mww |-> <<>>] /\ conf = "amazon" /\ swap = None
         /\ engine = "amazon" /\ local = TRUE /\ next = None /\ refused = "" /\ act = <<Amazon[1]>> /\ switch = FALSE
         /\ slots = NamesOf(act) /\ names = NamesOf(act) /\ cap = idle /\ asked = FALSE /\ changes = 0 /\ starts = 0
Restart ==
  /\ starts < MaxStarts /\ starts' = starts + 1 /\ swap = None
  /\ LET e == EngineOf(IF conf = "mww" THEN "mww" ELSE "amazon", models)
         tried == StartWord(e)
     IN  IF conf = "ha" THEN /\ local' = FALSE /\ engine' = "amazon" /\ slots' = Empty /\ names' = Empty
                             /\ act' = <<Amazon[1]>> /\ switch' = FALSE
         ELSE /\ local' = TRUE
              /\ IF tried # <<>> THEN Loads(e, tried, FALSE) ELSE Loads("amazon", StartWord("amazon"), TRUE)
  /\ next' = None /\ refused' = "" /\ cap' = idle /\ asked' = FALSE
  /\ UNCHANGED <<conf, picks, models, swap, changes>>

WNext == page_engine \/ core_wake_set \/ mww_add \/ mww_delete \/ rename_away \/ rename_in \/ wake_steps \/ Restart
RestartAsked == asked /\ Restart
WSpec == WInit /\ [][WNext]_wvars

----------------------------------------------------------------------------
\* Once loading is over, what listens is what the list says is picked, under
\* the names the runs will carry: a pick, a switch or a model replaced while
\* a word loads is never left half done, and no Echo is left without a wake
\* word.  A restart asked for (or one that could not be) comes first.
ListensAsPicked == local /\ cap.at = "idle" /\ ~switch /\ next = None /\ refused # "restart" =>
                     slots = NamesOf(act) /\ names = slots
\* Loading ends.
LoadingOver == local => cap.at = "idle" /\ ~switch
=============================================================================
