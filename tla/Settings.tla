------------------------------ MODULE Settings ------------------------------
(***************************************************************************)
(* The settings (settings.c) and where they come from and go to: the page, *)
(* Home Assistant's entities (proto_esphome.c), state/config, an export    *)
(* from another Echo, a preset left by the installer, the file of before   *)
(* names.  One setting stands for each way a setting behaves: a switch     *)
(* that seeds others ("split", "link" of one kind of sound), what they     *)
(* seed ("level", "offset"), a pair in which one switches the other off    *)
(* ("led_auto", "led_level"), one that once stood for two ("wake_sound",   *)
(* "sound_touch"), one that may be refused ("timer_sound"), a feature.     *)
(* Every operation holds core_lock.                                        *)
(***************************************************************************)
EXTENDS Integers, Sequences, FiniteSetsExt, SequencesExt

CONSTANTS Full,       \* 100 %
          HasAuto,    \* the model's LEDs follow a light sensor
          HasSound,   \* there is a file for the timer's own sound
          MaxCalls,   \* bound: settings changed
          MaxStarts,  \* bound: restarts
          Nothing

VARIABLES val,        \* what the modules hold
          volume,     \* the music's: the mixer keeps it
          config,     \* state/config, the file of before it, state/preset: lines, or Nothing
          old, preset,
          saved,      \* ghost: the settings as last written
          ha,         \* the entities Home Assistant read when it connected, or Nothing
          asked,      \* ghost: the export being imported, or Nothing
          calls, starts

zvars == <<val, volume, config, old, preset, saved, ha, asked, calls, starts>>

Names == <<"timer_sound", "wake_sound", "sound_touch", "led_auto", "led_level", "feature", "split", "link", "level", "offset">>
Values(n) == CASE n = "led_level" \/ n = "level" -> 0 .. Full
               [] n = "offset" -> (-Full) .. Full
               [] OTHER -> BOOLEAN
Defaults == [timer_sound |-> FALSE, wake_sound |-> TRUE, sound_touch |-> TRUE, led_auto |-> TRUE, led_level |-> Full,
             feature |-> FALSE, split |-> FALSE, link |-> FALSE, level |-> Full, offset |-> 0]

present(n) == n = "led_auto" => HasAuto
exported(n) == n # "level"
feature(n) == n \in {"feature", "split", "link"}
switches(n) == n \in {"split", "link"}

\* What the ring shows while it follows the room is the room's.
Room == 0
get(v, n) == IF n = "led_level" /\ v.led_auto /\ HasAuto THEN Room ELSE v[n]

----------------------------------------------------------------------------
\* put: the module's own setter.
clamp100(x) == Max({0, Min({Full, x})})
put_split(v, on) == IF on = v.split THEN v ELSE [v EXCEPT !.split = on, !.level = IF on THEN volume ELSE @]
put_link(v, on) == IF on = v.link THEN v
                   ELSE IF on THEN [v EXCEPT !.link = TRUE, !.offset = v.level - volume]
                   ELSE [v EXCEPT !.link = FALSE, !.level = clamp100(volume + v.offset)]
core_led_auto(v, on) == [v EXCEPT !.led_auto = on, !.led_level = IF v.led_auto /\ ~on THEN get(v, "led_level") ELSE @]
core_led_brightness(v, x) == [v EXCEPT !.led_auto = FALSE, !.led_level = x]
core_timer_sound(v, own) == IF own /\ ~HasSound THEN v ELSE [v EXCEPT !.timer_sound = own]
put(v, n, x) == CASE n = "split" -> put_split(v, x)
                  [] n = "link" -> put_link(v, x)
                  [] n = "led_auto" -> core_led_auto(v, x)
                  [] n = "led_level" -> core_led_brightness(v, x)
                  [] n = "timer_sound" -> core_timer_sound(v, x)
                  [] OTHER -> [v EXCEPT ![n] = x]

\* A file or an export: its lines in order; two passes, the switches first.
format(v, n) == [name |-> n, value |-> get(v, n)]
settings_text(v) == LET ns == SelectSeq(Names, present) IN [i \in DOMAIN ns |-> format(v, ns[i])]
Export(v) == SelectSeq(settings_text(v), LAMBDA l : exported(l.name) /\ ~(l.name = "led_level" /\ HasAuto /\ v.led_auto))
Pass(lines, first) == SelectSeq(lines, LAMBDA l : switches(l.name) = first)
TwoPasses(lines) == Pass(lines, TRUE) \o Pass(lines, FALSE)
PutAll(v, lines) == FoldSeq(LAMBDA l, w : put(w, l.name, l.value), v, Reverse(TwoPasses(lines)))

----------------------------------------------------------------------------
\* settings_save: the whole file anew, or the old one if it cannot be written.
settings_save(v) == \/ config' = settings_text(v) /\ saved' = [n \in DOMAIN v |-> get(v, n)]
                    \/ UNCHANGED <<config, saved>>

\* "Wake sound" off used to silence the others too.
wake_sound_was_all(v) == IF v.wake_sound THEN v ELSE [v EXCEPT !.sound_touch = FALSE]
Has(lines, n) == \E i \in DOMAIN lines : lines[i].name = n
Value(lines, n) == lines[CHOOSE i \in DOMAIN lines : lines[i].name = n].value

\* The LEDs' level counts only with auto off.
load_leds(v, lines) == LET auto == IF Has(lines, "led_auto") THEN Value(lines, "led_auto") ELSE TRUE IN
                       IF auto THEN v ELSE core_led_brightness(v, Value(lines, "led_level"))
settings_load ==
  IF config = Nothing
  THEN IF old = Nothing THEN val' = Defaults /\ UNCHANGED <<config, saved>>
       ELSE LET v == wake_sound_was_all([Defaults EXCEPT !.wake_sound = old]) IN val' = v /\ settings_save(v)
  ELSE LET plain == SelectSeq(config, LAMBDA l : l.name \notin {"led_auto", "led_level"})
           v == load_leds(PutAll(Defaults, plain), config)
       IN  IF ~Has(config, "sound_touch") /\ ~v.wake_sound
           THEN val' = wake_sound_was_all(v) /\ settings_save(wake_sound_was_all(v))
           ELSE val' = v /\ UNCHANGED <<config, saved>>

\* What Home Assistant lists: a feature's only while it is on.
listed(v) == {"wake_sound", "led_level"} \union (IF HasAuto THEN {"led_auto"} ELSE {})
             \union (IF v.feature THEN {"feature"} ELSE {}) \union (IF v.split /\ ~v.link THEN {"level"} ELSE {})
\* settings_set: a feature that changes has the link closed, to be read again.
entities_changed(changed) == ha' = IF changed THEN Nothing ELSE ha
settings_set(n, x) ==
  LET v == put(val, n, x) IN
  /\ val' = v
  /\ IF n = "timer_sound" /\ v[n] # x THEN UNCHANGED <<config, saved, ha>>
     ELSE settings_save(v) /\ entities_changed(feature(n) /\ val[n] # x)

----------------------------------------------------------------------------
ZInit == /\ val = Defaults /\ volume \in {0, Full} /\ ha = Nothing /\ asked = Nothing /\ calls = 0 /\ starts = 0
         /\ \/ config = Nothing /\ old \in BOOLEAN \union {Nothing}
            \/ \E on \in BOOLEAN :       \* an older version's, with no switch per sound yet
                 /\ config = SelectSeq(settings_text([Defaults EXCEPT !.wake_sound = on]), LAMBDA l : l.name # "sound_touch")
                 /\ old = Nothing
         /\ preset \in {Nothing, Export([Defaults EXCEPT !.split = TRUE, !.link = TRUE, !.offset = 1, !.feature = TRUE])}
         /\ saved = LET ws == IF config # Nothing THEN Value(config, "wake_sound") ELSE old # FALSE IN
                    [Defaults EXCEPT !.wake_sound = ws, !.sound_touch = ws, !.led_level = get(Defaults, "led_level")]

\* main: the settings, then a preset, as an import.  The link comes later.
Started == starts > 0
start == /\ starts < MaxStarts /\ starts' = starts + 1
         /\ settings_load /\ ha' = Nothing /\ asked' = Nothing /\ UNCHANGED <<volume, old, preset, calls>>
settings_preset == /\ Started /\ preset # Nothing /\ asked = Nothing /\ preset' = Nothing /\ asked' = preset
                   /\ LET v == PutAll(val, preset) IN val' = v /\ settings_save(v)
                   /\ UNCHANGED <<volume, old, ha, calls, starts>>
Call == Started /\ preset = Nothing /\ calls < MaxCalls /\ calls' = calls + 1 /\ UNCHANGED <<volume, old, preset, starts>>
\* The page: one setting, or another Echo's export in any order.
page_set == /\ Call /\ asked' = Nothing
            /\ \E i \in DOMAIN Names : present(Names[i]) /\ \E x \in Values(Names[i]) : settings_set(Names[i], x)
Giver == {[Defaults EXCEPT !.split = s, !.link = k, !.offset = IF k THEN -1 ELSE 0, !.led_auto = a, !.led_level = 1, !.wake_sound = ~s] :
          s \in BOOLEAN, k \in BOOLEAN, a \in BOOLEAN}
settings_apply_text == /\ Call
                       /\ \E g \in Giver, turned \in BOOLEAN :
                            LET t == IF turned THEN Reverse(Export(g)) ELSE Export(g)
                                v == PutAll(val, t)
                            IN  /\ val' = v /\ asked' = t /\ settings_save(v)
                                /\ entities_changed(\E i \in DOMAIN Names : feature(Names[i]) /\ v[Names[i]] # val[Names[i]])
\* on_setting: what Home Assistant lists, it may set.
on_setting == /\ Call /\ ha # Nothing /\ asked' = Nothing
              /\ \E n \in (ha \intersect listed(val)) \ {"feature"} : \E x \in Values(n) : settings_set(n, x)
\* SUBSCRIBE and LIST_ENTITIES of a connection.
connect == /\ Started /\ preset = Nothing /\ ha = Nothing /\ ha' = listed(val)
           /\ UNCHANGED <<val, volume, config, old, preset, saved, asked, calls, starts>>
turn_volume == /\ Started /\ calls < MaxCalls /\ calls' = calls + 1 /\ volume' \in 0 .. Full
               /\ UNCHANGED <<val, config, old, preset, saved, ha, asked, starts>>

ZNext == start \/ settings_preset \/ page_set \/ settings_apply_text \/ on_setting \/ connect \/ turn_volume
ZSpec == ZInit /\ [][ZNext]_zvars

----------------------------------------------------------------------------
\* A start brings every setting back as it was last written, whatever the
\* switches seed on the way (settings_load); the LEDs' level while it follows
\* the room is the room's.
Shown(w, n) == present(n) /\ ~(n = "led_level" /\ w.led_auto /\ HasAuto)
Kept(w) == \A n \in DOMAIN saved : Shown(w, n) => w[n] = saved[n]
StartKeeps == starts' > starts => Kept(val')
\* The same of an Echo Show, whose band has no automatic brightness: "our
\* settings file does, and it is applied again at every start" (main.c on the
\* ring's brightness).
BandKept == [][StartKeeps]_zvars
\* Another Echo's export, in whatever order its lines are, gives this one the
\* settings it says, the ones that may be refused apart.
Taken == asked # Nothing => \A i \in DOMAIN asked : LET l == asked[i] IN
           l.name # "timer_sound" => get(val, l.name) = l.value
\* Home Assistant shows the entities there are.
ListedIsRead == ha # Nothing => ha = listed(val)
=============================================================================
