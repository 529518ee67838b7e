------------------------------- MODULE Update -------------------------------
(***************************************************************************)
(* Updates: a push from the owner's PC (ota.c's listener thread) and an   *)
(* online update (update.c's thread) stage their bundles in state/ota/,   *)
(* one file after the other under handoff_lock, and poll for the answer   *)
(* of root's installer loop (ota_watch in scripts/system/main.sh), which  *)
(* reads the same files without a lock.  A bundle is a number; both its   *)
(* bytes and its signature are called by it, so a pair that does not      *)
(* belong together does not verify.  The PC, GitHub and root are external.*)
(***************************************************************************)
EXTENDS Naturals, FiniteSets, TLC

CONSTANTS MaxBundles,    \* bound: bundles that arrive
          MaxRestarts,   \* bound: restarts of hassmic that are not an update's
          MaxWants,      \* bound: changes of channel, checks and installs asked for
          NoneYet

VARIABLES client,        \* the two threads that hand bundles over, by name
          lock,          \* handoff_lock's holder
          files,         \* state/ota/: bundle, bundle.sig, request, result
          installer,     \* the installer loop: where it is, what it verified
          upd,           \* update.c: channel, want_check, want_install, in_progress
          current,       \* the bundle root made current
          gaveUp,        \* an answer was not waited for: the wait ended or hassmic restarted
          ids, restarts, wants

uvars == <<client, lock, files, installer, upd, current, gaveUp, ids, restarts, wants>>

Threads == {"push", "online"}
ASSUME UpdateAssumption == NoneYet \notin Threads /\ NoneYet \notin [ok : BOOLEAN, of : Nat] /\ {MaxBundles, MaxRestarts, MaxWants} \subseteq Nat
NoBundle == [pc |-> "idle", b |-> 0, told |-> NoneYet]
UInit == /\ client = [c \in Threads |-> NoBundle] /\ lock = NoneYet
         /\ files = [bundle |-> 0, sig |-> 0, request |-> FALSE, result |-> NoneYet]
         /\ installer = [pc |-> "look", b |-> 0]
         /\ upd = [channel |-> "off", check |-> FALSE, install |-> FALSE, busy |-> FALSE]
         /\ current = 0 /\ gaveUp = FALSE /\ ids = 0 /\ restarts = 0 /\ wants = 0

----------------------------------------------------------------------------
\* ota.c: the hand-over, the same for a push and a download.
GoesTo(c, pc) == client' = [client EXCEPT ![c].pc = pc]
Told(c, r) == client' = [client EXCEPT ![c] = [pc |-> IF c = "push" THEN "idle" ELSE "handed", b |-> @.b, told |-> r]]
Failed == [ok |-> FALSE, of |-> 0]

\* A pushed bundle has arrived whole and verifies; anything else is answered and forgotten.
handle_push == /\ client["push"].pc = "idle" /\ ids < MaxBundles /\ ids' = ids + 1
               /\ client' = [client EXCEPT !["push"] = [pc |-> "lock", b |-> ids + 1, told |-> NoneYet]]
               /\ UNCHANGED <<lock, files, installer, upd, current, gaveUp, restarts, wants>>

\* Fault: the last answer is left where it is.
stage_over(c) == /\ client[c].pc = "lock" /\ lock = NoneYet /\ lock' = c /\ GoesTo(c, "bundle")
                 /\ UNCHANGED <<files, installer, upd, current, gaveUp, ids, restarts, wants>>

stage(c) == /\ client[c].pc = "lock" /\ lock = NoneYet /\ lock' = c
            /\ files' = [files EXCEPT !.result = NoneYet] /\ GoesTo(c, "bundle")
            /\ UNCHANGED <<installer, upd, current, gaveUp, ids, restarts, wants>>
Store(c, at, next, stored) ==
  /\ client[c].pc = at
  /\ \/ files' = stored /\ GoesTo(c, next) /\ UNCHANGED lock
     \/ Told(c, Failed) /\ lock' = NoneYet /\ UNCHANGED files                  \* cannot store
  /\ UNCHANGED <<installer, upd, current, gaveUp, ids, restarts, wants>>
StoreBundle(c) == Store(c, "bundle", "sig", [files EXCEPT !.bundle = client[c].b])
StoreSig(c) == Store(c, "sig", "request", [files EXCEPT !.sig = client[c].b])
StoreRequest(c) == Store(c, "request", "answer", [files EXCEPT !.request = TRUE])
answer(c) == /\ client[c].pc = "answer" /\ files.result # NoneYet
             /\ Told(c, files.result) /\ lock' = NoneYet
             /\ UNCHANGED <<files, installer, upd, current, gaveUp, ids, restarts, wants>>
AnswerTimeout(c) == /\ client[c].pc = "answer" /\ files.result = NoneYet
                    /\ Told(c, Failed) /\ lock' = NoneYet /\ gaveUp' = TRUE
                    /\ UNCHANGED <<files, installer, upd, current, ids, restarts, wants>>

----------------------------------------------------------------------------
\* Fault: what failed is still shown as in progress.
set_failed_busy(u) == u

\* update.c's thread: when asked, and every 6 hours.
set_failed(u) == [u EXCEPT !.busy = FALSE]
thread == /\ client["online"].pc = "idle"
          /\ upd' = [upd EXCEPT !.check = FALSE, !.install = FALSE]
          /\ client' = [client EXCEPT !["online"] =
                          [NoBundle EXCEPT !.pc = CASE upd.channel = "off" -> "idle"
                                                    [] upd.install -> "install" [] OTHER -> "look"]]
          /\ UNCHANGED <<lock, files, installer, current, gaveUp, ids, restarts, wants>>
\* GitHub's list: not reached or nothing usable; nothing newer, or only looked
\* for; else install goes on with the bundle.
look == /\ client["online"].pc \in {"look", "install"}
        /\ \/ upd' = set_failed(upd) /\ GoesTo("online", "idle") /\ UNCHANGED ids
           \/ GoesTo("online", "idle") /\ UNCHANGED <<upd, ids>>
           \/ /\ client["online"].pc = "install" /\ ids < MaxBundles /\ ids' = ids + 1
              /\ upd' = [upd EXCEPT !.busy = TRUE]
              /\ client' = [client EXCEPT !["online"] = [@ EXCEPT !.pc = "fetch", !.b = ids + 1]]
        /\ UNCHANGED <<lock, files, installer, current, gaveUp, restarts, wants>>
fetch == /\ client["online"].pc = "fetch"
         /\ \/ upd' = set_failed(upd) /\ GoesTo("online", "idle")                  \* download, signature or key failed
            \/ GoesTo("online", "lock") /\ UNCHANGED upd
         /\ UNCHANGED <<lock, files, installer, current, gaveUp, ids, restarts, wants>>
installed == /\ client["online"].pc = "handed" /\ GoesTo("online", "idle")
             /\ upd' = IF client["online"].told.ok THEN upd ELSE set_failed(upd)
             /\ UNCHANGED <<lock, files, installer, current, gaveUp, ids, restarts, wants>>

Asked(u) == wants < MaxWants /\ wants' = wants + 1 /\ upd' = u
            /\ UNCHANGED <<client, lock, files, installer, current, gaveUp, ids, restarts>>
update_channel == \E ch \in {"off", "on"} \ {upd.channel} : Asked([upd EXCEPT !.channel = ch, !.check = TRUE])
update_check == Asked([upd EXCEPT !.check = TRUE])
update_install == Asked([upd EXCEPT !.install = TRUE])

----------------------------------------------------------------------------
\* External: root's installer loop.
RootGo(pc) == installer' = [installer EXCEPT !.pc = pc]
ota_watch == /\ installer.pc = "look" /\ files.request
             /\ files' = [files EXCEPT !.request = FALSE, !.result = NoneYet] /\ RootGo("verify")
             /\ UNCHANGED <<client, lock, upd, current, gaveUp, ids, restarts, wants>>
\* otatool verify, then otatool install, which reads and verifies the files again.
RootVerify == /\ installer.pc = "verify"
              /\ RootGo(IF files.bundle # 0 /\ files.bundle = files.sig THEN "install" ELSE "reject")
              /\ UNCHANGED <<client, lock, files, upd, current, gaveUp, ids, restarts, wants>>
RootInstall == /\ installer.pc = "install"
               /\ installer' = IF files.bundle # 0 /\ files.bundle = files.sig
                          THEN [pc |-> "check", b |-> files.bundle] ELSE [installer EXCEPT !.pc = "reject"]
               /\ UNCHANGED <<client, lock, files, upd, current, gaveUp, ids, restarts, wants>>
\* The model it is for, its self-check, its own otatool: refused or made current.
RootCheck == /\ installer.pc = "check"
             /\ \/ RootGo("reject") /\ UNCHANGED current
                \/ RootGo("switched") /\ current' = installer.b
             /\ UNCHANGED <<client, lock, files, upd, gaveUp, ids, restarts, wants>>
RootAnswer == /\ installer.pc \in {"reject", "switched"}
              /\ files' = [files EXCEPT !.bundle = 0, !.sig = 0,
                             !.result = IF installer.pc = "reject" THEN Failed ELSE [ok |-> TRUE, of |-> installer.b]]
              /\ RootGo(IF installer.pc = "reject" THEN "look" ELSE "restart")
              /\ UNCHANGED <<client, lock, upd, current, gaveUp, ids, restarts, wants>>
Restart == /\ client' = [c \in Threads |-> NoBundle] /\ lock' = NoneYet
           /\ upd' = [upd EXCEPT !.check = FALSE, !.install = FALSE, !.busy = FALSE]
           /\ gaveUp' = (gaveUp \/ \E c \in Threads : client[c].pc \in {"bundle", "sig", "request", "answer"})
RootRestarts == /\ installer.pc = "restart" /\ Restart /\ RootGo("look")
                /\ UNCHANGED <<files, current, ids, restarts, wants>>
\* A rename, installed artifacts, a crash: hassmic starts again.
Restarts == /\ restarts < MaxRestarts /\ restarts' = restarts + 1 /\ Restart
            /\ UNCHANGED <<files, installer, current, ids, wants>>

UNext == \/ \E c \in Threads : stage(c) \/ StoreBundle(c) \/ StoreSig(c) \/ StoreRequest(c) \/ answer(c) \/ AnswerTimeout(c)
         \/ handle_push \/ thread \/ look \/ fetch \/ installed \/ update_channel \/ update_check \/ update_install
         \/ ota_watch \/ RootVerify \/ RootInstall \/ RootCheck \/ RootAnswer \/ RootRestarts \/ Restarts
Replied(c) == answer(c) \/ AnswerTimeout(c)
RootStep == RootVerify \/ RootInstall \/ RootCheck \/ RootAnswer \/ RootRestarts
USpec == UInit /\ [][UNext]_uvars

----------------------------------------------------------------------------
\* OK means this bundle: as long as every wait so far ended with root's
\* answer, an OK relayed to the PC or to update.c is about the bundle that was
\* staged, which root has verified and made current.  (After a wait that gave
\* up, the late answer of the earlier bundle can be taken for the next one's.)
OkIsMine == \A c \in Threads : LET t == client[c].told IN
            (~gaveUp /\ t # NoneYet /\ t.ok) => (t.of = client[c].b /\ t.of <= ids)

\* The update entity does not show an installation for ever: a failure at any
\* step clears in_progress, and after an OK root restarts hassmic.
InstallOver == ~upd.busy

=============================================================================
