------------------------------ MODULE Designs -------------------------------
(***************************************************************************)
(* The light ring's designs (ringdesign.c): a library, which animation     *)
(* shows which design, theme packs, and Apply, which asks root to install  *)
(* the set.  Root (scripts/system/main.sh, external) takes the request,    *)
(* makes the set of the designs applied by then, and answers; the tick     *)
(* reads the answer.  state/ring-applied is what root is asked for,        *)
(* state/ring-installed what is known to be on the ring.                   *)
(***************************************************************************)
EXTENDS Naturals, FiniteSets, FiniteSetsExt

CONSTANTS Ids,          \* design numbers, 1 .. RD_MAX
          Packs,        \* pack numbers
          MaxEdits,     \* bound: designs, packs and assignments changed
          MaxApplies,   \* bound: Apply
          MaxKills,     \* bound: hassmic stopped
          MaxFails,     \* bound: files of put_back and rd_installed_set not written
          None

VARIABLES lib,          \* ring/<id>: the design (when it was first made, when last saved), or None
          assign, file, \* the one slot's design (None: stock's), and ring/assign
          packs,        \* ring/packs/<k>: the designs it has (ghost: when each was made)
          applied, installed,   \* state/ring-applied, state/ring-installed: id and content, or None
          request,      \* state/leds-request
          wait,         \* waiting, wait_id
          result,       \* root's leds.result
          root,         \* what root is at
          real,         \* the set on the system partition
          gone,         \* root is gone for good
          doing,        \* rd_apply between two files, the reload after an answer, or a start
          reused,       \* ghost: a number taken again with every other one in use
          made, edits, applies, kills,
          saves         \* files not written; ghost: a file, or root's answer, is behind since

libvars == <<lib, assign, file, packs, reused, made, edits>>
askvars == <<applied, installed, request, wait, result, doing>>
rootvars == <<root, real, gone>>
gvars == <<libvars, askvars, rootvars, applies, kills, saves>>

Idle == [at |-> "idle", id |-> 0, set |-> None]
draft_applied == IF assign = None THEN None ELSE <<assign, lib[assign]>>
exists(id) == lib[id] # None

GInit == /\ lib = [i \in Ids |-> None] /\ assign = None /\ file = None /\ packs = [k \in Packs |-> {}]
         /\ applied = None /\ installed = None /\ request = None /\ wait = None /\ result = [id |-> 0, word |-> ""]
         /\ root = Idle /\ real = None /\ gone = FALSE /\ doing = "" /\ reused = FALSE
         /\ made = 0 /\ edits = 0 /\ applies = 0 /\ kills = 0 /\ saves = [failed |-> 0, behind |-> FALSE]

----------------------------------------------------------------------------
\* The page's edits, each under the lock; a file may fail to be written.
Edit == doing = "" /\ edits < MaxEdits /\ edits' = edits + 1 /\ UNCHANGED <<askvars, rootvars, applies, kills, saves>>
Named == {t[1] : t \in {applied, installed} \ {None}} \union {h[1] : h \in UNION {packs[k] : k \in Packs}}
rd_save_new ==
  LET free == {i \in Ids : ~exists(i)} IN
  /\ Edit /\ free # {}
  /\ LET id == IF free \ Named # {} THEN Min(free \ Named) ELSE Min(free)
     IN  lib' = [lib EXCEPT ![id] = <<made + 1, made + 1>>] /\ reused' = (reused \/ free \subseteq Named)
  /\ made' = made + 1 /\ UNCHANGED <<assign, file, packs>>
rd_save_again == /\ Edit /\ \E i \in Ids : exists(i) /\ lib' = [lib EXCEPT ![i][2] = made + 1]
                 /\ made' = made + 1 /\ UNCHANGED <<assign, file, packs, reused>>
packs_forget(id, missed) == [k \in Packs |-> IF k \in missed THEN packs[k] ELSE {h \in packs[k] : h[1] # id}]
save_assign(a) == file' = a \/ file' = file
rd_delete == /\ Edit
             /\ \E i \in {j \in Ids : exists(j)}, missed \in SUBSET Packs :
                  /\ lib' = [lib EXCEPT ![i] = None] /\ packs' = packs_forget(i, missed)
                  /\ IF assign = i THEN assign' = None /\ save_assign(None) ELSE UNCHANGED <<assign, file>>
             /\ UNCHANGED <<reused, made>>
rd_assign == /\ Edit /\ \E a \in {None} \union {i \in Ids : exists(i)} : file' = a /\ assign' = a
             /\ UNCHANGED <<lib, packs, reused, made>>
\* A design is in one pack at most; a pack has designs of the library.
pack_normal == (SUBSET {i \in Ids : exists(i)}) \ {{}}
rd_pack_save == /\ Edit
                /\ \E k \in Packs, has \in pack_normal :
                     /\ \A h \in UNION {packs[p] : p \in Packs \ {k}} : h[1] \notin has
                     /\ packs' = [packs EXCEPT ![k] = {<<i, lib[i][1]>> : i \in has}]
                /\ UNCHANGED <<lib, assign, file, reused, made>>
rd_pack_delete == /\ Edit /\ \E k \in Packs : packs[k] # {} /\ packs' = [packs EXCEPT ![k] = {}]
                  /\ UNCHANGED <<lib, assign, file, reused, made>>

----------------------------------------------------------------------------
\* Apply: the designs, then the request, each a file of its own.  Nobody looks
\* whether put_back and rd_installed_set wrote theirs.
Fails == saves.failed < MaxFails /\ saves' = [failed |-> saves.failed + 1, behind |-> TRUE]
put_back == wait' = None /\ ((applied' = installed /\ UNCHANGED saves) \/ (applied' = applied /\ Fails))
rd_installed_set(set) == \/ installed' = set /\ UNCHANGED saves
                         \/ installed' = installed /\ set # installed /\ Fails
rd_apply == /\ doing = "" /\ wait = None /\ applies < MaxApplies /\ applies' = applies + 1
            /\ assign # None => exists(assign)
            /\ \/ applied' = draft_applied /\ doing' = "asking" /\ UNCHANGED <<wait, saves>>
               \/ put_back /\ doing' = doing                           \* not written
            /\ UNCHANGED <<libvars, installed, request, result, rootvars, kills>>
\* The id is never that of root's last answer.
ask_root == /\ doing = "asking" /\ doing' = ""
            /\ \/ request' = applies /\ wait' = applies /\ UNCHANGED <<applied, saves>>
               \/ put_back /\ UNCHANGED request
            /\ UNCHANGED <<libvars, installed, result, rootvars, applies, kills>>

\* installed(): ours if the set is that of the designs known, or of those asked for.
Confirmed(set) == IF set # installed /\ set = applied THEN applied ELSE installed
rd_tick ==
  /\ doing = "" /\ wait # None
  /\ \/ /\ result.id = wait
        /\ \/ result.word = "ok" /\ wait' = None /\ doing' = "reload" /\ UNCHANGED <<applied, installed, saves>>
           \/ result.word = "same" /\ wait' = None /\ rd_installed_set(applied) /\ UNCHANGED <<applied, doing>>
           \/ result.word = "failed" /\ put_back /\ UNCHANGED <<installed, doing>>
        /\ UNCHANGED request
     \/ /\ result.id # wait /\ gone                                    \* no answer for too long
        /\ request' = None /\ put_back /\ UNCHANGED <<installed, doing>>
  /\ UNCHANGED <<libvars, result, rootvars, applies, kills>>
ring_reload == /\ doing = "reload" /\ doing' = "" /\ rd_installed_set(Confirmed(real))
               /\ UNCHANGED <<libvars, applied, request, wait, result, rootvars, applies, kills>>

\* hassmic stops, and its service starts it again: the script may install the
\* designs applied first, after an install under way (its lock; a dead root's
\* is taken over), while root goes on with the requests.
stopped == /\ doing # "down" /\ kills < MaxKills /\ kills' = kills + 1 /\ doing' = "down"
           /\ UNCHANGED <<libvars, applied, installed, request, wait, result, rootvars, applies, saves>>
start_leds == /\ doing = "down" /\ (root.at = "install" => gone) /\ real' = applied /\ doing' = "leds"
              /\ UNCHANGED <<libvars, applied, installed, request, wait, result, root, gone, applies, kills, saves>>
\* ring_start's look at the set, rd_start and, with the page, load_assign.  A
\* request that root has taken by now is not waited for, whatever it installs.
\* After a start whose script installed what was applied, and whose own files
\* were written, nothing is behind.
Untold == root.at \in {"make", "install"} /\ ~gone
rd_start ==
  LET put == request = None /\ applied # Confirmed(real)
      back == [saves EXCEPT !.behind = Untold \/ (doing # "leds" /\ @)] IN
  /\ doing \in {"down", "leds"} /\ doing' = "" /\ wait' = request
  /\ assign' = IF file # None /\ ~exists(file) THEN None ELSE file
  /\ \/ installed' = Confirmed(real) /\ applied' = (IF put THEN installed' ELSE applied) /\ saves' = back
     \/ /\ Fails                                                       \* one of the two not written
        /\ \/ Confirmed(real) # installed /\ installed' = installed /\ applied' = IF request = None THEN installed ELSE applied
           \/ put /\ installed' = Confirmed(real) /\ applied' = applied
  /\ UNCHANGED <<lib, file, packs, reused, made, edits, request, result, rootvars, applies, kills>>

----------------------------------------------------------------------------
\* Root: the request taken, the set made of the designs applied by now,
\* installed or not, the answer.  An Echo whose root is gone answers nothing.
Root(at, to) == ~gone /\ root.at = at /\ root' = to /\ UNCHANGED <<libvars, applied, installed, wait, doing, gone, applies, kills, saves>>
take == Root("idle", [at |-> "make", id |-> request, set |-> None]) /\ request # None /\ request' = None /\ UNCHANGED <<real, result>>
make == Root("make", [root EXCEPT !.at = "install", !.set = applied]) /\ UNCHANGED <<request, real, result>>
install == /\ \/ root.set # real /\ real' = root.set /\ Root("install", [root EXCEPT !.at = "ok"])
              \/ root.set # real /\ real' = real /\ Root("install", [root EXCEPT !.at = "failed"])
              \/ root.set = real /\ real' = real /\ Root("install", [root EXCEPT !.at = "same"])
           /\ UNCHANGED <<request, result>>
answer == /\ root.at \in {"ok", "same", "failed"} /\ Root(root.at, Idle) /\ result' = [id |-> root.id, word |-> root.at]
          /\ UNCHANGED <<request, real>>
root_gone == /\ ~gone /\ gone' = TRUE /\ saves' = [saves EXCEPT !.behind = @ \/ root.at = "ok"]  \* installed, and nobody told
             /\ UNCHANGED <<libvars, askvars, root, real, applies, kills>>
RootStep == take \/ make \/ install \/ answer

GNext == rd_save_new \/ rd_save_again \/ rd_delete \/ rd_assign \/ rd_pack_save \/ rd_pack_delete \/ rd_apply \/ ask_root
         \/ rd_tick \/ ring_reload \/ stopped \/ start_leds \/ rd_start \/ RootStep \/ root_gone
GSpec == GInit /\ [][GNext]_gvars

----------------------------------------------------------------------------
\* With nothing under way, the designs on record as installed are the ring's,
\* and what root would install at the next boot is what is there: a draft that
\* failed, or whose request was cut off, does not stay.  Except after a file
\* that could not be written, or an install nobody was told of (root gone, or
\* hassmic started again while it ran), up to a start whose script installs
\* what was applied.
Rest == doing = "" /\ wait = None /\ request = None /\ (root.at = "idle" \/ gone)
InstalledIsReal == Rest /\ ~saves.behind => applied = installed /\ installed = real
\* A design is in one pack at most, and a pack's design is the one it was
\* given, or gone: a number is not taken again while a pack names it.
PacksTrue == /\ \A k, j \in Packs : k # j => {h[1] : h \in packs[k]} \intersect {h[1] : h \in packs[j]} = {}
             /\ ~reused => \A k \in Packs : \A h \in packs[k] : lib[h[1]] # None => lib[h[1]][1] = h[2]
\* Every Apply is answered.
ApplyAnswered == wait = None
=============================================================================
