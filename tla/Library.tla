------------------------------ MODULE Library ------------------------------
(***************************************************************************)
(* What the settings page keeps on the flash in folders of several files:  *)
(* the sound packs (soundpack.c), the sounds in use with the cache they    *)
(* are played from (sounds.c), and the microWakeWord models (mww_store.c). *)
(* A file written by statefile.c is there whole or not at all (StateFile); *)
(* unlink, mkdir and rename reach the flash in any order until a sync.  A  *)
(* power cut leaves what the flash has.  Each library runs one operation   *)
(* at a time (its mutex); the steps here are its calls to the file system. *)
(***************************************************************************)
EXTENDS Naturals, FiniteSets

CONSTANTS Packs,          \* 1..SP_PACKS_MAX
          Sounds,         \* sounds one may own
          LibMax,         \* lib_max(), in sounds
          MaxCalls,       \* bound: operations of the page
          MaxCuts,        \* bound: power cuts
          Nothing

VARIABLES pack, packF,    \* each pack's folder, live and on the flash: [name, sounds]
          meant,          \* the sounds a pack was given, as long as it has its name
          op,             \* the operation on the packs
          own, gen,       \* version of each sound in use (0: none), gen[]
          cache,          \* cache[], seen[]: the mixer's [pcm, seen, tried]
          saving,         \* a sound whose file changed, whose gen did not yet
          dir, dirF,      \* the models folder: one id, its .old and its .new, as folder numbers
          files, filesF,  \* each folder's files: "none", "empty" or "whole"
          swap,           \* the operation on the models
          calls, cuts

pvars == <<pack, packF, meant, op>>
svars == <<own, gen, cache, saving>>
wwvars == <<dir, dirF, files, filesF, swap>>
lvars == <<pvars, svars, wwvars, calls, cuts>>

NoPack == [name |-> FALSE, sounds |-> {}]
NoOp == [do |-> "none", id |-> Nothing, at |-> "done", todo |-> {}]
Folders == 1..(MaxCalls + 1)
Both == {"manifest", "model"}
Gone == [f \in Both |-> "none"]
Whole == [f \in Both |-> "whole"]
NoSwap == [at |-> "done", do |-> "none"]
LInit == /\ pack = [p \in Packs |-> NoPack] /\ packF = pack /\ meant = [p \in Packs |-> {}] /\ op = NoOp
         /\ own = [s \in Sounds |-> IF s = CHOOSE t \in Sounds : TRUE THEN 1 ELSE 0] /\ gen = [s \in Sounds |-> 0]
         /\ cache = [s \in Sounds |-> [pcm |-> 0, seen |-> 0, tried |-> FALSE]] /\ saving = Nothing
         /\ dir = [dst |-> 1, old |-> Nothing, new |-> Nothing] /\ dirF = dir
         /\ files = [i \in Folders |-> IF i = 1 THEN Whole ELSE Gone] /\ filesF = files /\ swap = NoSwap
         /\ calls = 0 /\ cuts = 0

Call == calls < MaxCalls /\ calls' = calls + 1 /\ UNCHANGED cuts
Later == UNCHANGED <<calls, cuts>>

----------------------------------------------------------------------------
\* Sound packs.
exists(p) == pack[p].name
total == Cardinality({<<p, s>> \in Packs \X Sounds : exists(p) /\ s \in pack[p].sounds})
room(need, gone) == total - gone + need <= LibMax
PackStep(pk, pf, o) == pack' = pk /\ packF' = pf /\ op' = o /\ UNCHANGED <<svars, wwvars>>
At(step) == op.at = step
Live(p, f) == [pack EXCEPT ![p] = f]
Synced(p) == [packF EXCEPT ![p] = pack[p]]

\* Fault: the sounds go before the name's removal is on the flash.
unlink_unsynced == /\ At("unname") /\ Later /\ UNCHANGED meant
                   /\ PackStep(Live(op.id, [pack[op.id] EXCEPT !.name = FALSE]), packF, [op EXCEPT !.at = "unlink"])

\* remove_pack: the name first, on the flash before the sounds go.
unlink_name == /\ At("unname") /\ Later /\ UNCHANGED meant
               /\ PackStep(Live(op.id, [pack[op.id] EXCEPT !.name = FALSE]), packF, [op EXCEPT !.at = "sync"])
sync_pack == At("sync") /\ Later /\ UNCHANGED meant /\ PackStep(pack, Synced(op.id), [op EXCEPT !.at = "unlink"])
unlink_sounds == /\ At("unlink") /\ Later /\ UNCHANGED meant
                 /\ IF pack[op.id].sounds # {}
                    THEN \E s \in pack[op.id].sounds :
                           PackStep(Live(op.id, [pack[op.id] EXCEPT !.sounds = @ \ {s}]), packF, op)
                    ELSE PackStep(pack, Synced(op.id), IF op.do = "new" THEN [op EXCEPT !.at = "copy"] ELSE NoOp)

\* soundpack_new: with the sounds in use, or empty; the name comes last.
soundpack_new(current) ==
  /\ op = NoOp /\ Call /\ UNCHANGED meant
  /\ \E p \in Packs : /\ ~exists(p) /\ \A q \in Packs : ~exists(q) => p <= q
                      /\ PackStep(pack, packF, [do |-> "new", id |-> p, at |-> "unname",
                                                todo |-> IF current THEN {s \in Sounds : own[s] # 0} ELSE {}])
copy_sound == /\ At("copy") /\ Later /\ UNCHANGED meant
              /\ \E s \in op.todo :
                   LET with == [pack[op.id] EXCEPT !.sounds = @ \union {s}] IN
                   IF room(Cardinality(with.sounds), 0)
                   THEN PackStep(Live(op.id, with), [packF EXCEPT ![op.id].sounds = @ \union {s}], [op EXCEPT !.todo = @ \ {s}])
                   ELSE PackStep(pack, packF, [op EXCEPT !.at = "unname", !.do = "delete"])
name_pack == /\ At("copy") /\ op.todo = {} /\ Later
             /\ \/ /\ PackStep(Live(op.id, [pack[op.id] EXCEPT !.name = TRUE]), [packF EXCEPT ![op.id].name = TRUE], NoOp)
                   /\ meant' = [meant EXCEPT ![op.id] = pack[op.id].sounds]
                \/ PackStep(pack, packF, [op EXCEPT !.at = "unname", !.do = "delete"]) /\ UNCHANGED meant   \* cannot
soundpack_put(p, s) ==
  /\ op = NoOp /\ exists(p) /\ Call
  /\ room(1, IF s \in pack[p].sounds THEN 1 ELSE 0)
  /\ PackStep([pack EXCEPT ![p].sounds = @ \union {s}], [packF EXCEPT ![p].sounds = @ \union {s}], op)
  /\ meant' = [meant EXCEPT ![p] = @ \union {s}]
soundpack_delete(p) == /\ op = NoOp /\ exists(p) /\ Call /\ UNCHANGED meant
                       /\ PackStep(pack, packF, [do |-> "delete", id |-> p, at |-> "unname", todo |-> {}])
\* soundpack_apply: one by one, a sound the pack has saved, another deleted.
soundpack_apply(p) == /\ op = NoOp /\ exists(p) /\ Call /\ UNCHANGED meant
                      /\ PackStep(pack, packF, [do |-> "apply", id |-> p, at |-> "apply", todo |-> Sounds])
\* The flash catches up with one entry of a pack's folder.
Writeback(p) == /\ Later /\ UNCHANGED meant
                /\ \/ PackStep(pack, [packF EXCEPT ![p].name = pack[p].name], op)
                   \/ \E s \in Sounds : PackStep(pack, [packF EXCEPT ![p].sounds =
                                          IF s \in pack[p].sounds THEN @ \union {s} ELSE @ \ {s}], op)

----------------------------------------------------------------------------
\* Sounds in use: the file, then gen; the mixer reads gen, then the file.
Change(s, v) == /\ saving = Nothing /\ own' = [own EXCEPT ![s] = v] /\ saving' = s
                /\ UNCHANGED <<gen, cache, wwvars>>
Uploaded(s) == IF own[s] < 2 THEN own[s] + 1 ELSE 1
sound_own_save(s) == Change(s, Uploaded(s)) /\ Call /\ UNCHANGED pvars
sound_own_delete(s) == Change(s, 0) /\ Call /\ UNCHANGED pvars
apply_sound == /\ At("apply") /\ Later /\ UNCHANGED <<pack, packF, meant>>
               /\ \E s \in op.todo : /\ Change(s, IF s \in pack[op.id].sounds THEN Uploaded(s) ELSE 0)
                                     /\ op' = IF op.todo = {s} THEN NoOp ELSE [op EXCEPT !.todo = @ \ {s}]
gen_add == /\ saving # Nothing /\ saving' = Nothing /\ gen' = [gen EXCEPT ![saving] = @ + 1] /\ Later
           /\ UNCHANGED <<own, cache, pvars, wwvars>>
\* sound_get: the own file, else stock's (0).
sound_get(s) == /\ Later /\ (~cache[s].tried \/ cache[s].seen # gen[s])
                /\ cache' = [cache EXCEPT ![s] = [pcm |-> own[s], seen |-> gen[s], tried |-> TRUE]]
                /\ UNCHANGED <<own, gen, saving, pvars, wwvars>>
\* sound_played: a long one is read again the next time.
sound_played(s) == /\ Later /\ cache[s].pcm # 0 /\ cache' = [cache EXCEPT ![s].tried = FALSE, ![s].pcm = 0]
                   /\ UNCHANGED <<own, gen, saving, pvars, wwvars>>

----------------------------------------------------------------------------
\* microWakeWord models.
Keep(do, at) == swap' = [at |-> at, do |-> do] /\ UNCHANGED <<pvars, svars>>
Fresh == CHOOSE i \in Folders : \A n \in {"dst", "old", "new"} : dir[n] # i /\ dirF[n] # i
SwapAt(step) == swap.at = step

\* mww_add writes .new-<id> with statefile.c; mww_install_dir takes a folder
\* of artifacts.c, whose files may not have reached the flash.
Begin(do, onFlash) ==
  /\ SwapAt("done") /\ Call
  /\ dir' = [dir EXCEPT !.new = Fresh] /\ dirF' = [dirF EXCEPT !.new = Fresh]
  /\ files' = [files EXCEPT ![Fresh] = Whole] /\ filesF' = [filesF EXCEPT ![Fresh] = [f \in Both |-> onFlash]]
  /\ Keep(do, "rm_old")
mww_add == Begin("add", "whole")
mww_install_dir == Begin("install", "empty")
\* rm_dir: file by file, then the folder.
RmDir(name, at, next) ==
  /\ SwapAt(at) /\ Later
  /\ LET i == dir[name] IN
     IF i # Nothing /\ files[i] # Gone
     THEN /\ \E f \in Both : files[i][f] # "none" /\ files' = [files EXCEPT ![i][f] = "none"]
          /\ UNCHANGED <<dir, swap>>
     ELSE dir' = [dir EXCEPT ![name] = Nothing] /\ swap' = [swap EXCEPT !.at = next] /\ UNCHANGED files
  /\ UNCHANGED <<dirF, filesF, pvars, svars>>
\* swap_in: the new files on the flash, the old folder away, the new one in
\* its place, both names on the flash, the old folder gone.
rm_old == RmDir("old", "rm_old", "sync")
sync_files == /\ SwapAt("sync") /\ Later /\ filesF' = [filesF EXCEPT ![dir.new] = Whole] /\ Keep(swap.do, "away")
              /\ UNCHANGED <<dir, dirF, files>>
rename_away == /\ SwapAt("away") /\ Later /\ dir' = [dir EXCEPT !.old = dir.dst, !.dst = Nothing] /\ Keep(swap.do, "in")
               /\ UNCHANGED <<dirF, files, filesF>>
rename_in == /\ SwapAt("in") /\ Later /\ dir' = [dir EXCEPT !.dst = dir.new, !.new = Nothing] /\ Keep(swap.do, "syncdir")
             /\ UNCHANGED <<dirF, files, filesF>>
rename_in_failed == /\ SwapAt("in") /\ Later /\ dir' = [dir EXCEPT !.dst = dir.old, !.old = Nothing] /\ Keep(swap.do, "rm_new")
                    /\ UNCHANGED <<dirF, files, filesF>>
rm_new == RmDir("new", "rm_new", "done")
sync_dir == SwapAt("syncdir") /\ Later /\ dirF' = dir /\ Keep(swap.do, "clean") /\ UNCHANGED <<dir, files, filesF>>
rm_old_again == RmDir("old", "clean", "done")
\* mww_delete: the files go one by one; without its manifest or its model a
\* folder is no model (info_in).  mww_edit writes the manifest anew.
Listed == dir.dst # Nothing /\ \A f \in Both : files[dir.dst][f] # "none"
mww_delete == /\ SwapAt("done") /\ Call /\ dir.dst # Nothing /\ Keep("delete", "rm_dst")
              /\ UNCHANGED <<dir, dirF, files, filesF>>
rm_dst == RmDir("dst", "rm_dst", "done")
mww_edit == /\ SwapAt("done") /\ Call /\ Listed
            /\ files' = [files EXCEPT ![dir.dst]["manifest"] = "whole"]
            /\ filesF' = [filesF EXCEPT ![dir.dst]["manifest"] = "whole"]
            /\ UNCHANGED <<dir, dirF, swap, pvars, svars>>
WritebackDir == dirF' = dir /\ Later /\ UNCHANGED <<dir, files, filesF, swap, pvars, svars>>
WritebackFile(i, f) == /\ filesF' = [filesF EXCEPT ![i][f] = files[i][f]] /\ Later
                       /\ UNCHANGED <<dir, dirF, files, swap, pvars, svars>>

----------------------------------------------------------------------------
PowerCut == /\ cuts < MaxCuts /\ cuts' = cuts + 1 /\ UNCHANGED calls
            /\ pack' = packF /\ op' = NoOp /\ UNCHANGED <<packF, own>>
            /\ meant' = [p \in Packs |-> IF packF[p].name THEN meant[p] ELSE {}]
            /\ gen' = [s \in Sounds |-> 0] /\ saving' = Nothing
            /\ cache' = [s \in Sounds |-> [pcm |-> 0, seen |-> 0, tried |-> FALSE]]
            /\ dir' = dirF /\ files' = filesF /\ swap' = NoSwap /\ UNCHANGED <<dirF, filesF>>

PacksNext == \/ unlink_name \/ sync_pack \/ unlink_sounds \/ copy_sound \/ name_pack
             \/ \E c \in BOOLEAN : soundpack_new(c)
             \/ \E p \in Packs : \/ soundpack_delete(p) \/ soundpack_apply(p) \/ Writeback(p)
                                 \/ \E s \in Sounds : soundpack_put(p, s)
SoundsNext == \/ apply_sound \/ gen_add
              \/ \E s \in Sounds : sound_own_save(s) \/ sound_own_delete(s) \/ sound_get(s) \/ sound_played(s)
ModelsNext == \/ mww_add \/ mww_install_dir \/ rm_old \/ sync_files \/ rename_away \/ rename_in \/ sync_dir
              \/ rm_old_again \/ mww_delete \/ rm_dst \/ mww_edit \/ rename_in_failed \/ rm_new \/ WritebackDir
              \/ \E i \in Folders, f \in Both : WritebackFile(i, f)
LNext == PacksNext \/ SoundsNext \/ ModelsNext \/ PowerCut

LSpec == LInit /\ [][LNext]_lvars

----------------------------------------------------------------------------
\* Whenever the power goes, what has its name is whole: a pack with a name has
\* every sound it was given (soundpack.c writes the name last and removes it
\* first), and a model folder that lists as a model has a model in it, never
\* the empty file an unsynced swap would leave (mww_store.c, swap_in).
NamedIsWhole ==
  /\ \A p \in Packs : packF[p].name => packF[p].sounds = meant[p]
  /\ dirF.dst # Nothing /\ (\A f \in Both : filesF[dirF.dst][f] # "none") => filesF[dirF.dst] = Whole

\* A sound the mixer keeps is the one on the flash, or it knows that it is not
\* (sounds.c bumps gen after the file, and reads it before the file).
CachedIsNewest ==
  \A s \in Sounds : cache[s].tried /\ cache[s].seen = gen[s] /\ saving # s => cache[s].pcm = own[s]

=============================================================================
