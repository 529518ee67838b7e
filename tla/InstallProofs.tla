---------------------------- MODULE InstallProofs ---------------------------
(***************************************************************************)
(* What root puts in place: proofs about the hand-over of an update        *)
(* (Update) and of a model set (Models), for any values of their           *)
(* parameters.                                                             *)
(***************************************************************************)
EXTENDS Update, Models, TLAPS

(***************************************************************************)
(* ota.c, update.c and root's loop: any number of bundles and restarts     *)
(***************************************************************************)

Result == [ok : BOOLEAN, of : Nat]
Bundle == [pc : {"idle", "look", "install", "fetch", "lock", "bundle", "sig", "request", "answer", "handed"},
           b : Nat, told : {NoneYet} \cup Result]
Loop == [pc : {"look", "verify", "install", "check", "reject", "switched", "restart"}, b : Nat]
Folder == [bundle : Nat, sig : Nat, request : BOOLEAN, result : {NoneYet} \cup Result]
UType ==
  /\ client \in [Threads -> Bundle] /\ lock \in Threads \cup {NoneYet} /\ ids \in Nat
  /\ files \in Folder
  /\ installer \in Loop
  /\ \A c \in Threads : client[c].b <= ids /\ (client[c].pc \notin {"idle", "handed"} => client[c].told = NoneYet)

Holding == {"bundle", "sig", "request", "answer"}
Busy == installer.pc \in {"verify", "install", "check", "reject", "switched"}

\* Who waits for the answer: his bundle is staged, and it is not answered.
Waits(c) == client[c].pc = "answer" /\ files.bundle = client[c].b /\ files.sig = client[c].b /\ files.result = NoneYet

\* The hand-over of one thread, by where it is.
Handing(c) ==
  /\ client[c].pc \in Holding <=> lock = c
  /\ client[c].pc \in {"bundle", "sig", "request"} => files.result = NoneYet
  /\ client[c].pc \in {"sig", "request"} => files.bundle = client[c].b
  /\ client[c].pc = "request" => files.sig = client[c].b
  /\ client[c].pc = "answer" /\ files.result # NoneYet /\ files.result.ok => files.result.of = client[c].b
  /\ client[c].told # NoneYet /\ client[c].told.ok => client[c].told.of = client[c].b

Orderly ==
  /\ \A c \in Threads : Handing(c)
  /\ files.request \/ Busy => \E c \in Threads : Waits(c)
  /\ Busy => ~files.request
  /\ installer.pc \in {"check", "switched"} => installer.b = files.bundle

UInv == UType /\ (~gaveUp => Orderly)

\* At the start nothing is handed over and root's loop looks.
LEMMA UInitHolds == UInit => UInv
<1> SUFFICES ASSUME UInit PROVE UInv
  OBVIOUS
<1>1. NoBundle \in Bundle /\ NoBundle.pc = "idle" /\ NoBundle.b = 0 /\ NoBundle.told = NoneYet
  BY DEF NoBundle, Bundle
<1>2. UType
  BY <1>1 DEF UInit, UType, Loop, Folder
<1>3. \A c \in Threads : Handing(c)
  BY <1>1, UpdateAssumption DEF UInit, Handing, Holding
<1>4. ~files.request /\ installer.pc = "look"
  BY DEF UInit
<1> QED
  BY <1>2, <1>3, <1>4 DEF UInv, Orderly, Busy

\* stage: the lock is taken and the last answer removed.
LEMMA StageStep == ASSUME UInv, NEW c \in Threads, stage(c) PROVE UInv'
<1>1. /\ client[c].pc = "lock" /\ lock = NoneYet /\ lock' = c /\ files' = [files EXCEPT !.result = NoneYet]
      /\ client' = [client EXCEPT ![c].pc = "bundle"] /\ UNCHANGED <<installer, gaveUp, ids>>
  BY DEF stage, GoesTo
<1>2. UType'
  BY <1>1 DEF UInv, UType, Bundle, Loop, Folder
<1>3. ASSUME ~gaveUp PROVE Orderly'
  <2>0. Orderly
    BY <1>3 DEF UInv
  <2>1. ASSUME NEW d \in Threads PROVE Handing(d)'
    <3>1. Handing(d)
      BY <2>0 DEF Orderly
    <3>2. client'[d].b = client[d].b /\ client'[d].told = client[d].told
          /\ client'[d].pc = IF d = c THEN "bundle" ELSE client[d].pc
      BY <1>1 DEF UInv, UType, Bundle
    <3>3. files'.result = NoneYet /\ files'.bundle = files.bundle /\ files'.sig = files.sig
      BY <1>1 DEF UInv, UType
    <3> QED
      BY <1>1, <3>1, <3>2, <3>3, UpdateAssumption DEF Handing, Holding
  <2>2. ~files.request /\ ~Busy
    BY <1>1, <2>0, UpdateAssumption DEF Orderly, Waits, Handing, Holding
  <2>3. files'.request = files.request
    BY <1>1 DEF UInv, UType
  <2> QED
    BY <1>1, <2>1, <2>2, <2>3 DEF Orderly, Busy
<1> QED
  BY <1>1, <1>2, <1>3 DEF UInv

\* Only one thread is past the lock.
LEMMA Alone_ ==
  ASSUME UType, Orderly, NEW c \in Threads, client[c].pc \in Holding, client[c].pc # "answer" \/ files.result # NoneYet
  PROVE  ~files.request /\ ~Busy
<1>1. SUFFICES ASSUME NEW d \in Threads, Waits(d) PROVE FALSE
  BY DEF Orderly
<1>2. lock = c /\ lock = d
  BY <1>1 DEF Orderly, Handing, Holding, Waits
<1> QED
  BY <1>1, <1>2 DEF Waits

\* A step of a thread that has not staged anything and does not.
LEMMA Apart_ ==
  ASSUME UInv, NEW c \in Threads, NEW t \in Bundle, client' = [client EXCEPT ![c] = t], ids' \in Nat, ids <= ids',
         t.b <= ids',
         UNCHANGED <<lock, files, installer, gaveUp>>,
         client[c].pc \notin Holding, t.pc \notin Holding, t.pc \notin {"idle", "handed"} => t.told = NoneYet,
         t.told = NoneYet \/ (t.told = client[c].told /\ t.b = client[c].b)
  PROVE  UInv'
<1>1. UType'
  <2>1. ASSUME NEW d \in Threads
        PROVE  client'[d].b <= ids' /\ (client'[d].pc \notin {"idle", "handed"} => client'[d].told = NoneYet)
    <3>1. CASE d = c
      BY <3>1 DEF UInv, UType
    <3>2. CASE d # c
      <4>1. client'[d] = client[d] /\ client[d] \in Bundle
        BY <3>2 DEF UInv, UType
      <4>2. client[d].b \in Nat
        BY <4>1 DEF Bundle
      <4> QED
        BY <4>1, <4>2 DEF UInv, UType
    <3> QED
      BY <3>1, <3>2
  <2> QED
    BY <2>1 DEF UInv, UType
<1>2. ASSUME ~gaveUp PROVE Orderly'
  <2>0. Orderly
    BY <1>2 DEF UInv
  <2>1. ASSUME NEW d \in Threads PROVE Handing(d)' /\ (Waits(d) => Waits(d)')
    <3>1. Handing(d)
      BY <2>0 DEF Orderly
    <3>2. CASE d = c
      <4>1. client'[d] = t
        BY <3>2 DEF UInv, UType
      <4>2. ~Waits(d)
        BY <3>2 DEF Waits, Holding
      <4> QED
        BY <3>1, <3>2, <4>1, <4>2 DEF Handing, Holding
    <3>3. CASE d # c
      <4>1. client'[d] = client[d]
        BY <3>3 DEF UInv, UType
      <4> QED
        BY <3>1, <4>1 DEF Handing, Waits
    <3> QED
      BY <3>2, <3>3
  <2> QED
    BY <2>0, <2>1 DEF Orderly, Busy
<1> QED
  BY <1>1, <1>2 DEF UInv

\* A hand-over that is over: told what it is told, and the lock is free.
LEMMA TellStep ==
  ASSUME UInv, NEW c \in Threads, client[c].pc \in Holding, NEW r \in Result, Told(c, r), lock' = NoneYet,
         UNCHANGED <<files, installer, ids>>,
         ~gaveUp' => /\ ~gaveUp
                     /\ r.ok => r.of = client[c].b
                     /\ client[c].pc # "answer" \/ files.result # NoneYet
  PROVE  UInv'
<1>1. PICK t : t = [pc |-> IF c = "push" THEN "idle" ELSE "handed", b |-> client[c].b, told |-> r]
  OBVIOUS
<1>2. client' = [client EXCEPT ![c] = t]
  BY <1>1 DEF Told
<1>3. t \in Bundle /\ t.pc \in {"idle", "handed"} /\ t.b = client[c].b /\ t.told = r
  <2>1. client[c] \in Bundle
    BY DEF UInv, UType
  <2>2. client[c].b \in Nat
    BY <2>1 DEF Bundle
  <2> QED
    BY <1>1, <2>2 DEF Bundle
<1>4. UType'
  BY <1>2, <1>3 DEF UInv, UType
<1>5. ASSUME ~gaveUp' PROVE Orderly'
  <2>0. Orderly /\ UType
    BY <1>5 DEF UInv
  <2>1. ~files.request /\ ~Busy
    BY <1>5, <2>0, Alone_
  <2>2. ASSUME NEW d \in Threads PROVE Handing(d)'
    <3>1. Handing(d) /\ Handing(c)
      BY <2>0 DEF Orderly
    <3>2. CASE d = c
      <4>1. client'[d] = t
        BY <1>2, <3>2 DEF UInv, UType
      <4>2. lock' # d
        BY UpdateAssumption
      <4> QED
        BY <1>3, <1>5, <3>2, <4>1, <4>2 DEF Handing, Holding
    <3>3. CASE d # c
      <4>1. client'[d] = client[d]
        BY <1>2, <3>3 DEF UInv, UType
      <4>2. client[d].pc \notin Holding /\ lock' # d
        BY <3>1, <3>3, UpdateAssumption DEF Handing
      <4> QED
        BY <3>1, <4>1, <4>2 DEF Handing, Holding
    <3> QED
      BY <3>2, <3>3
  <2> QED
    BY <2>0, <2>1, <2>2 DEF Orderly, Busy
<1> QED
  BY <1>4, <1>5 DEF UInv

\* One more file of a hand-over.
LEMMA StoredStep ==
  ASSUME UInv, NEW c \in Threads, NEW next \in {"sig", "request", "answer"}, GoesTo(c, next),
         UNCHANGED <<lock, installer, ids, gaveUp>>,
         \/ client[c].pc = "bundle" /\ next = "sig" /\ files' = [files EXCEPT !.bundle = client[c].b]
         \/ client[c].pc = "sig" /\ next = "request" /\ files' = [files EXCEPT !.sig = client[c].b]
         \/ client[c].pc = "request" /\ next = "answer" /\ files' = [files EXCEPT !.request = TRUE]
  PROVE  UInv'
<1>1. client[c] \in Bundle /\ client[c].b \in Nat
  <2>1. client[c] \in Bundle
    BY DEF UInv, UType
  <2> QED
    BY <2>1 DEF Bundle
<1>2. ASSUME NEW d \in Threads
      PROVE  client'[d].b = client[d].b /\ client'[d].told = client[d].told
             /\ client'[d].pc = IF d = c THEN next ELSE client[d].pc
  BY DEF UInv, UType, Bundle, GoesTo
<1>3. UType'
  <2>1. client' \in [Threads -> Bundle]
    BY <1>1 DEF GoesTo, UInv, UType, Bundle
  <2>2. files' \in Folder
    BY <1>1 DEF UInv, UType, Loop, Folder
  <2> QED
    BY <1>2, <2>1, <2>2 DEF UInv, UType
<1>4. ASSUME ~gaveUp PROVE Orderly'
  <2>0. Orderly /\ UType
    BY <1>4 DEF UInv
  <2>1. ~files.request /\ ~Busy
    BY <2>0, Alone_ DEF Holding
  <2>2. /\ files'.result = files.result
        /\ files'.bundle = IF client[c].pc = "bundle" THEN client[c].b ELSE files.bundle
        /\ files'.sig = IF client[c].pc = "sig" THEN client[c].b ELSE files.sig
        /\ files'.request = IF client[c].pc = "request" THEN TRUE ELSE files.request
    BY DEF UInv, UType, Loop, Folder
  <2>3. ASSUME NEW d \in Threads PROVE Handing(d)'
    <3>1. Handing(d) /\ Handing(c)
      BY <2>0 DEF Orderly
    <3>2. CASE d = c
      BY <1>2, <2>2, <3>1, <3>2 DEF Handing, Holding
    <3>3. CASE d # c
      <4>1. client[d].pc \notin Holding
        BY <3>1, <3>3 DEF Handing, Holding
      <4> QED
        BY <1>2, <3>1, <3>3, <4>1 DEF Handing, Holding
    <3> QED
      BY <3>2, <3>3
  <2>4. client[c].pc = "request" => Waits(c)'
    <3>1. Handing(c)
      BY <2>0 DEF Orderly
    <3> QED
      BY <1>2, <2>2, <3>1 DEF Handing, Waits
  <2> QED
    BY <2>0, <2>1, <2>2, <2>3, <2>4 DEF Orderly, Busy
<1> QED
  BY <1>3, <1>4 DEF UInv

\* A hand-over that fails is told so.
LEMMA FailedType == Failed \in Result /\ ~Failed.ok
  BY DEF Failed, Result

\* ota.c: the steps of a hand-over.
LEMMA HandSteps ==
  ASSUME UInv, NEW c \in Threads, StoreBundle(c) \/ StoreSig(c) \/ StoreRequest(c) \/ answer(c) \/ AnswerTimeout(c)
  PROVE  UInv'
<1>1. CASE StoreBundle(c) \/ StoreSig(c) \/ StoreRequest(c)
  <2>1. /\ client[c].pc \in {"bundle", "sig", "request"} /\ UNCHANGED <<installer, ids, gaveUp>>
        /\ \/ Told(c, Failed) /\ lock' = NoneYet /\ UNCHANGED files
           \/ /\ UNCHANGED lock
              /\ \/ client[c].pc = "bundle" /\ GoesTo(c, "sig") /\ files' = [files EXCEPT !.bundle = client[c].b]
                 \/ client[c].pc = "sig" /\ GoesTo(c, "request") /\ files' = [files EXCEPT !.sig = client[c].b]
                 \/ client[c].pc = "request" /\ GoesTo(c, "answer") /\ files' = [files EXCEPT !.request = TRUE]
    BY <1>1 DEF StoreBundle, StoreSig, StoreRequest, Store
  <2>2. CASE Told(c, Failed) /\ lock' = NoneYet /\ UNCHANGED files
    BY <2>1, <2>2, FailedType, TellStep DEF Holding
  <2>3. CASE UNCHANGED lock /\ client[c].pc = "bundle" /\ GoesTo(c, "sig") /\ files' = [files EXCEPT !.bundle = client[c].b]
    BY <2>1, <2>3, StoredStep
  <2>4. CASE UNCHANGED lock /\ client[c].pc = "sig" /\ GoesTo(c, "request") /\ files' = [files EXCEPT !.sig = client[c].b]
    BY <2>1, <2>4, StoredStep
  <2>5. CASE UNCHANGED lock /\ client[c].pc = "request" /\ GoesTo(c, "answer") /\ files' = [files EXCEPT !.request = TRUE]
    BY <2>1, <2>5, StoredStep
  <2> QED
    BY <2>1, <2>2, <2>3, <2>4, <2>5
<1>2. CASE answer(c)
  <2>1. /\ client[c].pc = "answer" /\ files.result # NoneYet /\ Told(c, files.result) /\ lock' = NoneYet
        /\ UNCHANGED <<files, installer, ids, gaveUp>>
    BY <1>2 DEF answer
  <2>2. files.result \in Result
    BY <2>1 DEF UInv, UType, Loop, Folder
  <2>3. ~gaveUp /\ files.result.ok => files.result.of = client[c].b
    BY <2>1 DEF UInv, Orderly, Handing
  <2> QED
    BY <2>1, <2>2, <2>3, TellStep DEF Holding
<1>3. CASE AnswerTimeout(c)
  <2>1. client[c].pc = "answer" /\ Told(c, Failed) /\ lock' = NoneYet /\ UNCHANGED <<files, installer, ids>> /\ gaveUp'
    BY <1>3 DEF AnswerTimeout
  <2> QED
    BY <2>1, FailedType, TellStep DEF Holding
<1> QED
  BY <1>1, <1>2, <1>3

\* ota.c's listener and update.c's thread before and after the hand-over.
LEMMA ThreadSteps == ASSUME UInv, handle_push \/ thread \/ look \/ fetch \/ installed PROVE UInv'
<1>0. /\ client \in [Threads -> Bundle] /\ ids \in Nat /\ "push" \in Threads /\ "online" \in Threads
      /\ \A c \in Threads : client[c].b \in Nat /\ client[c].b <= ids
      /\ \A c \in Threads : client[c].pc \notin {"idle", "handed"} => client[c].told = NoneYet
  BY DEF UInv, UType, Bundle, Threads
<1>1. ASSUME NEW p \in {"idle", "lock"}, GoesTo("online", p), UNCHANGED <<lock, files, installer, gaveUp, ids>>,
             client["online"].pc \in {"look", "install", "fetch", "handed"}, p = "lock" => client["online"].pc = "fetch"
      PROVE  UInv'
  <2>0. PICK c \in Threads : c = "online"
    BY <1>0
  <2>1. PICK t : t = [client[c] EXCEPT !.pc = p]
    OBVIOUS
  <2>2. t \in Bundle /\ t.pc = p /\ t.b = client[c].b /\ t.told = client[c].told
    BY <1>0, <2>1 DEF Bundle
  <2>3. client' = [client EXCEPT ![c] = t]
    BY <1>1, <2>0, <2>1 DEF GoesTo
  <2>4. ids' \in Nat /\ ids <= ids' /\ t.b <= ids'
    BY <1>0, <1>1, <2>2
  <2>5. client[c].pc \notin Holding /\ t.pc \notin Holding /\ (t.pc \notin {"idle", "handed"} => t.told = NoneYet)
    BY <1>0, <1>1, <2>0, <2>2 DEF Holding
  <2> QED
    BY <1>1, <2>2, <2>3, <2>4, <2>5, Apart_
<1>2. CASE handle_push
  <2>0. PICK c \in Threads : c = "push"
    BY <1>0
  <2>1. PICK t : t = [pc |-> "lock", b |-> ids + 1, told |-> NoneYet]
    OBVIOUS
  <2>2. t \in Bundle /\ t.pc = "lock" /\ t.b = ids + 1 /\ t.told = NoneYet
    BY <1>0, <2>1 DEF Bundle
  <2>3. client' = [client EXCEPT ![c] = t] /\ ids' = ids + 1 /\ client[c].pc = "idle"
        /\ UNCHANGED <<lock, files, installer, gaveUp>>
    BY <1>2, <2>0, <2>1 DEF handle_push
  <2>4. ids' \in Nat /\ ids <= ids' /\ t.b <= ids'
    BY <1>0, <2>2, <2>3
  <2>5. client[c].pc \notin Holding /\ t.pc \notin Holding
    BY <2>2, <2>3 DEF Holding
  <2> QED
    BY <2>2, <2>3, <2>4, <2>5, Apart_
<1>3. CASE thread
  <2>0. PICK c \in Threads : c = "online"
    BY <1>0
  <2>8. PICK q : q = CASE upd.channel = "off" -> "idle" [] upd.install -> "install" [] OTHER -> "look"
    OBVIOUS
  <2>9. q \in {"idle", "install", "look"}
    BY <2>8
  <2>10. client' = [client EXCEPT !["online"] = [NoBundle EXCEPT !.pc = q]]
    BY <1>3, <2>8, Zenon DEF thread
  <2>1. PICK p \in {"idle", "install", "look"} : client' = [client EXCEPT ![c] = [NoBundle EXCEPT !.pc = p]]
    BY <2>0, <2>9, <2>10, Zenon
  <2>2. PICK t : t = [NoBundle EXCEPT !.pc = p]
    OBVIOUS
  <2>3. t \in Bundle /\ t.pc = p /\ t.b = 0 /\ t.told = NoneYet
    BY <2>1, <2>2 DEF NoBundle, Bundle
  <2>4. client[c].pc = "idle" /\ UNCHANGED <<lock, files, installer, gaveUp, ids>>
    BY <1>3, <2>0 DEF thread
  <2>5. ids' \in Nat /\ ids <= ids' /\ t.b <= ids'
    BY <1>0, <2>3, <2>4
  <2>6. client[c].pc \notin Holding /\ t.pc \notin Holding
    BY <2>3, <2>4 DEF Holding
  <2>7. client' = [client EXCEPT ![c] = t]
    BY <2>1, <2>2
  <2> QED
    BY <2>3, <2>4, <2>5, <2>6, <2>7, Apart_
<1>4. CASE look
  <2>1. UNCHANGED <<lock, files, installer, gaveUp>> /\ client["online"].pc \in {"look", "install"}
    BY <1>4 DEF look
  <2>2. CASE GoesTo("online", "idle") /\ UNCHANGED ids
    BY <1>1, <2>1, <2>2
  <2>3. CASE /\ ids' = ids + 1
             /\ client' = [client EXCEPT !["online"] = [client["online"] EXCEPT !.pc = "fetch", !.b = ids + 1]]
    <3>0. PICK c \in Threads : c = "online"
      BY <1>0
    <3>1. PICK n \in Nat : n = ids + 1
      BY <1>0
    <3>2. PICK t : t = [client[c] EXCEPT !.pc = "fetch", !.b = n]
      OBVIOUS
    <3>3. t \in Bundle /\ t.pc = "fetch" /\ t.b = n /\ t.told = client[c].told
      BY <1>0, <3>2 DEF Bundle
    <3>4. client' = [client EXCEPT ![c] = t]
      BY <2>3, <3>0, <3>1, <3>2
    <3>5. ids' \in Nat /\ ids <= ids' /\ t.b <= ids'
      BY <1>0, <2>3, <3>1, <3>3
    <3>6. client[c].pc \notin Holding /\ t.pc \notin Holding /\ t.told = NoneYet
      BY <1>0, <2>1, <3>0, <3>3 DEF Holding
    <3> QED
      BY <2>1, <3>3, <3>4, <3>5, <3>6, Apart_
  <2> QED
    BY <1>4, <2>2, <2>3 DEF look
<1>5. CASE fetch
  BY <1>1, <1>5 DEF fetch
<1>6. CASE installed
  BY <1>1, <1>6 DEF installed
<1> QED
  BY <1>2, <1>3, <1>4, <1>5, <1>6

\* Root's loop: while it is at work, who handed over waits.
LEMMA RootSteps == ASSUME UInv, ota_watch \/ RootVerify \/ RootInstall \/ RootCheck \/ RootAnswer PROVE UInv'
<1>0. /\ UNCHANGED <<client, lock, gaveUp, ids>>
      /\ files \in Folder
      /\ installer \in Loop
  BY DEF UInv, UType, ota_watch, RootVerify, RootInstall, RootCheck, RootAnswer
<1>1. ASSUME files' \in Folder,
             installer' \in Loop
      PROVE  UType'
  BY <1>0, <1>1 DEF UInv, UType
<1>2. ASSUME NEW p \in {"verify", "install", "check", "reject", "switched"}, NEW k \in Nat,
             installer' \in Loop,
             installer'.pc = p, installer'.b = k, UNCHANGED files, Busy,
             p \in {"check", "switched"} => k = files.bundle \/ gaveUp
      PROVE  UInv'
  <2>2. ASSUME ~gaveUp PROVE Orderly'
    <3>1. Orderly
      BY <2>2 DEF UInv
    <3>2. \A c \in Threads : Handing(c)' /\ (Waits(c) => Waits(c)')
      BY <1>0, <1>2, <3>1 DEF Orderly, Handing, Waits
    <3> QED
      BY <1>0, <1>2, <2>2, <3>1, <3>2 DEF Orderly, Busy
  <2> QED
    BY <1>0, <1>1, <1>2, <2>2 DEF UInv
<1>3. CASE ota_watch
  <2>1. installer.pc = "look" /\ files.request /\ files' = [files EXCEPT !.request = FALSE, !.result = NoneYet]
        /\ installer' = [installer EXCEPT !.pc = "verify"]
    BY <1>3 DEF ota_watch, RootGo
  <2>2. /\ files' \in Folder
        /\ ~files'.request /\ files'.result = NoneYet /\ files'.bundle = files.bundle /\ files'.sig = files.sig
    BY <1>0, <2>1 DEF Loop, Folder
  <2>3. installer' \in Loop /\ installer'.pc = "verify"
    BY <1>0, <2>1 DEF Loop, Folder
  <2>4. ASSUME ~gaveUp PROVE Orderly'
    <3>1. Orderly
      BY <2>4 DEF UInv
    <3>2. \A c \in Threads : Handing(c)' /\ (Waits(c) => Waits(c)')
      BY <1>0, <2>2, <3>1 DEF Orderly, Handing, Waits
    <3> QED
      BY <2>1, <2>2, <2>3, <3>1, <3>2 DEF Orderly, Busy
  <2> QED
    BY <1>0, <1>1, <2>2, <2>3, <2>4 DEF UInv
<1>4. CASE RootVerify
  <2>1. installer.pc = "verify" /\ UNCHANGED files
    BY <1>4 DEF RootVerify
  <2>2. PICK p \in {"install", "reject"} : installer' = [installer EXCEPT !.pc = p]
    BY <1>4 DEF RootVerify, RootGo
  <2>3. installer' \in Loop /\ installer'.pc = p /\ installer'.b = installer.b
    BY <1>0, <2>2 DEF Loop, Folder
  <2> QED
    BY <1>0, <1>2, <2>1, <2>2, <2>3 DEF Busy, Loop, Folder
<1>5. CASE RootInstall
  <2>1. installer.pc = "install" /\ UNCHANGED files
    BY <1>5 DEF RootInstall
  <2>2. CASE installer' = [installer EXCEPT !.pc = "reject"]
    <3>1. installer' \in Loop /\ installer'.pc = "reject" /\ installer'.b = installer.b
      BY <1>0, <2>2 DEF Loop, Folder
    <3> QED
      BY <1>0, <1>2, <2>1, <3>1 DEF Busy, Loop, Folder
  <2>3. CASE installer' = [pc |-> "check", b |-> files.bundle]
    <3>1. PICK k \in Nat : k = files.bundle
      BY <1>0 DEF Loop, Folder
    <3>2. installer' \in Loop /\ installer'.pc = "check" /\ installer'.b = k
      BY <1>0, <2>3, <3>1 DEF Loop, Folder
    <3> QED
      BY <1>0, <1>2, <2>1, <3>1, <3>2 DEF Busy
  <2> QED
    BY <1>5, <2>2, <2>3 DEF RootInstall
<1>6. CASE RootCheck
  <2>1. installer.pc = "check" /\ UNCHANGED files
    BY <1>6 DEF RootCheck
  <2>2. PICK p \in {"reject", "switched"} : installer' = [installer EXCEPT !.pc = p]
    BY <1>6 DEF RootCheck, RootGo
  <2>3. installer' \in Loop /\ installer'.pc = p /\ installer'.b = installer.b
    BY <1>0, <2>2 DEF Loop, Folder
  <2>4. ~gaveUp => installer.b = files.bundle
    BY <2>1 DEF UInv, Orderly
  <2> QED
    BY <1>0, <1>2, <2>1, <2>2, <2>3, <2>4 DEF Busy, Loop, Folder
<1>7. CASE RootAnswer
  <2>1. PICK r : r = IF installer.pc = "reject" THEN Failed ELSE [ok |-> TRUE, of |-> installer.b]
    OBVIOUS
  <2>2. /\ installer.pc \in {"reject", "switched"} /\ files' = [files EXCEPT !.bundle = 0, !.sig = 0, !.result = r]
        /\ installer' = [installer EXCEPT !.pc = IF installer.pc = "reject" THEN "look" ELSE "restart"]
    BY <1>7, <2>1 DEF RootAnswer, RootGo
  <2>3. r \in Result /\ (r.ok => installer.pc = "switched" /\ r.of = installer.b)
    <3>1. [ok |-> TRUE, of |-> installer.b] \in Result
      BY <1>0 DEF Result, Loop, Folder
    <3> QED
      BY <2>1, <2>2, <3>1, FailedType
  <2>4. /\ files' \in Folder
        /\ files'.request = files.request /\ files'.result = r
    BY <1>0, <2>2, <2>3 DEF Loop, Folder
  <2>5. installer' \in Loop /\ installer'.pc \in {"look", "restart"}
    BY <1>0, <2>2 DEF Loop, Folder
  <2>6. ASSUME ~gaveUp PROVE Orderly'
    <3>1. Orderly
      BY <2>6 DEF UInv
    <3>2. PICK c \in Threads : Waits(c)
      BY <2>2, <3>1 DEF Orderly, Busy
    <3>3. ASSUME NEW d \in Threads PROVE Handing(d)'
      <4>1. Handing(d) /\ Handing(c)
        BY <3>1 DEF Orderly
      <4>2. CASE d = c
        <5>1. r.ok => r.of = client[c].b
          BY <2>3, <3>1, <3>2 DEF Orderly, Waits
        <5> QED
          BY <1>0, <2>4, <3>2, <4>1, <4>2, <5>1 DEF Handing, Waits
      <4>3. CASE d # c
        <5>1. client[d].pc \notin Holding
          BY <3>2, <4>1, <4>3 DEF Handing, Waits, Holding
        <5> QED
          BY <1>0, <4>1, <5>1 DEF Handing, Holding
      <4> QED
        BY <4>2, <4>3
    <3>4. ~files'.request
      BY <2>2, <2>4, <3>1 DEF Orderly, Busy
    <3> QED
      BY <2>5, <3>3, <3>4 DEF Orderly, Busy
  <2> QED
    BY <1>0, <1>1, <2>4, <2>5, <2>6 DEF UInv
<1> QED
  BY <1>3, <1>4, <1>5, <1>6, <1>7

\* hassmic starts again: a hand-over that was under way is given up.
LEMMA RestartSteps == ASSUME UInv, RootRestarts \/ Restarts PROVE UInv'
<1>1. /\ client' = [c \in Threads |-> NoBundle] /\ lock' = NoneYet /\ UNCHANGED <<files, ids>>
      /\ gaveUp' = (gaveUp \/ \E c \in Threads : client[c].pc \in Holding)
  BY DEF RootRestarts, Restarts, Restart, Holding
<1>2. NoBundle \in Bundle /\ NoBundle.pc = "idle" /\ NoBundle.b = 0 /\ NoBundle.told = NoneYet
  BY DEF NoBundle, Bundle
<1>3. installer' \in Loop
      /\ (installer'.pc = "look" \/ UNCHANGED installer)
  BY DEF UInv, UType, RootRestarts, Restarts, RootGo, Loop, Folder
<1>4. UType'
  BY <1>1, <1>2, <1>3 DEF UInv, UType
<1>5. ASSUME ~gaveUp' PROVE Orderly'
  <2>1. ~gaveUp /\ \A c \in Threads : client[c].pc \notin Holding
    BY <1>1, <1>5, Zenon
  <2>2. Orderly
    BY <2>1 DEF UInv
  <2>3. ~files.request /\ ~Busy
    BY <2>1, <2>2 DEF Orderly, Waits, Holding
  <2>4. \A c \in Threads : Handing(c)'
    BY <1>1, <1>2, UpdateAssumption DEF Handing, Holding
  <2> QED
    BY <1>1, <1>3, <2>2, <2>3, <2>4 DEF Orderly, Busy
<1> QED
  BY <1>4, <1>5 DEF UInv

\* Every step of ota.c, update.c and root's loop keeps the invariant.
LEMMA UStep == UInv /\ [UNext]_uvars => UInv'
<1> SUFFICES ASSUME UInv, [UNext]_uvars PROVE UInv'
  OBVIOUS
<1>1. ASSUME UNCHANGED <<client, lock, files, installer, gaveUp, ids>> PROVE UInv'
  BY <1>1 DEF UInv, UType, Orderly, Handing, Busy, Waits
<1>2. CASE update_channel \/ update_check \/ update_install \/ UNCHANGED uvars
  BY <1>1, <1>2 DEF update_channel, update_check, update_install, Asked, uvars
<1> QED
  BY <1>2, StageStep, HandSteps, ThreadSteps, RootSteps, RestartSteps DEF UNext

\* ota.c and root's loop, for any number of bundles and restarts: unless a thread
\* gave up or was restarted while root had its bundle, root works on the bundle
\* of the one thread that holds the lock and waits for the answer.
THEOREM HandOverInvariant == USpec => []UInv
  BY UInitHolds, UStep, PTL DEF USpec

\* stage, answer and ota_watch: the thread that is told its bundle is installed is
\* told so about its own bundle, not about the other thread's.
THEOREM OkIsMineHolds == USpec => []OkIsMine
<1>1. UInv => OkIsMine
  <2> SUFFICES ASSUME UInv, ~gaveUp, NEW c \in Threads, client[c].told # NoneYet, client[c].told.ok
               PROVE  client[c].told.of = client[c].b /\ client[c].told.of <= ids
    BY DEF OkIsMine
  <2>1. client[c].told.of = client[c].b
    BY DEF UInv, Orderly, Handing
  <2> QED
    BY <2>1 DEF UInv, UType
<1> QED
  BY <1>1, HandOverInvariant, PTL

(***************************************************************************)
(* artifacts.c, davs.c and root: any files, versions and copies            *)
(***************************************************************************)

Some == [Files -> Copies \union {Download, 0}]
OneVersion(x) == \E v \in Copies \union {Download} : x = Version(v)

\* What is staged: never ready but whole, and while a download unpacks nobody else has touched it.
StagedWhole ==
  /\ staging \in [files : {Absent} \union Some, expect : {Absent} \union Some, ready : BOOLEAN]
  /\ staging.expect # Absent => OneVersion(staging.expect)
  /\ staging.ready => OneVersion(staging.files)
  /\ dl \in [at : {"idle", "untar", "staged", "commit"}, todo : SUBSET Files]
  /\ dl.at # "idle" => /\ ~staging.ready /\ copied = Absent /\ staging.files \in Some
                       /\ \A f \in Files \ dl.todo : staging.files[f] = Download
  /\ dl.at \in {"staged", "commit"} => dl.todo = {}
\* What root has copied, and what is in place.
CopiedWhole ==
  /\ copied # Absent => copied \in Some /\ staging.ready /\ \A f \in Files : copied[f] \in {0, staging.files[f]}
  /\ placed # Absent => OneVersion(placed)

MInv == mixed \/ (StagedWhole /\ CopiedWhole)

\* A version has all its files, and is not what an empty folder has.
LEMMA Versions ==
  /\ Empty \in Some /\ \A v \in Copies \union {Download} : Version(v) \in Some
  /\ \A x : OneVersion(x) => x \in Some /\ x # Absent /\ \A f \in Files : x[f] # 0
<1>1. \A v \in Copies \union {Download, 0} : Version(v) \in Some /\ \A f \in Files : Version(v)[f] = v
  BY DEF Version, Some
<1> QED
  BY <1>1, ModelsAssumption DEF Empty, OneVersion, Some

\* Nothing staged: no files, nothing expected, not ready.
LEMMA NotStagedType == NotStaged \in [files : {Absent} \union Some, expect : {Absent} \union Some, ready : BOOLEAN]
                       /\ NotStaged.files = Absent /\ NotStaged.expect = Absent /\ ~NotStaged.ready
  BY DEF NotStaged

\* At the start nothing is staged, copied or in place.
LEMMA MInitHolds == MInit => MInv
<1> SUFFICES ASSUME MInit PROVE MInv
  OBVIOUS
<1>1. dl \in [at : {"idle", "untar", "staged", "commit"}, todo : SUBSET Files] /\ dl.at = "idle"
  BY DEF MInit, AtRest
<1> QED
  BY <1>1, NotStagedType DEF MInit, MInv, StagedWhole, CopiedWhole

\* art_commit: only what is complete and has its digest is ready.
LEMMA CommitWhole ==
  ASSUME StagedWhole, NEW loads \in try_load
  PROVE  LET s == Committed(loads) IN
           /\ s \in [files : {Absent} \union Some, expect : {Absent} \union Some, ready : BOOLEAN]
           /\ s.expect # Absent => OneVersion(s.expect)
           /\ s.ready => OneVersion(s.files)
<1>1. CASE Committed(loads) = staging
  BY <1>1 DEF StagedWhole
<1>2. CASE Committed(loads) = unstage
  BY <1>2, NotStagedType DEF unstage
<1>3. CASE Committed(loads) = [staging EXCEPT !.ready = TRUE] /\ Complete /\ staging.files = staging.expect
  <2>1. PICK s : s = [staging EXCEPT !.ready = TRUE]
    OBVIOUS
  <2>2. /\ s \in [files : {Absent} \union Some, expect : {Absent} \union Some, ready : BOOLEAN]
        /\ s.files = staging.files /\ s.expect = staging.expect
    BY <2>1 DEF StagedWhole
  <2>3. OneVersion(staging.expect)
    BY <1>3 DEF Complete, StagedWhole
  <2> QED
    BY <1>3, <2>1, <2>2, <2>3
<1> QED
  BY <1>1, <1>2, <1>3 DEF Committed, digest

\* No download is under way.
LEMMA Atrest == AtRest \in [at : {"idle", "untar", "staged", "commit"}, todo : SUBSET Files] /\ AtRest.at = "idle"
  BY DEF AtRest

\* A page's steps.
LEMMA PageSteps ==
  ASSUME MInv, ~mixed, ~mixed',
         \/ \E v \in Copies : art_begin(v) \/ \E f \in Files : art_chunk(f, v) \/ Pwrite(f, v)
         \/ art_commit
  PROVE  MInv'
<1>0. StagedWhole /\ CopiedWhole
  BY DEF MInv
<1>1. ASSUME NEW v \in Copies, art_begin(v) PROVE MInv'
  <2>1. dl.at = "idle" /\ copied = Absent /\ UNCHANGED <<dl, copied, placed>>
    <3>1. ~(mixed \/ dl.at # "idle" \/ copied # Absent)
      BY <1>1, Zenon DEF art_begin, Alone
    <3> QED
      BY <1>1, <3>1 DEF art_begin
  <2>2. /\ staging' \in [files : {Absent} \union Some, expect : {Absent} \union Some, ready : BOOLEAN]
        /\ staging'.expect # Absent => OneVersion(staging'.expect)
        /\ ~staging'.ready
    <3>1. CASE staging' = unstage
      BY <3>1, NotStagedType DEF unstage
    <3>2. CASE staging' = [unstage EXCEPT !.files = Empty, !.expect = Version(v)]
      BY <1>1, <3>2, NotStagedType, Versions DEF unstage, OneVersion
    <3> QED
      BY <1>1, <3>1, <3>2 DEF art_begin
  <2> QED
    BY <1>0, <2>1, <2>2 DEF MInv, StagedWhole, CopiedWhole
<1>2. ASSUME NEW f \in Files, NEW v \in Copies, art_chunk(f, v) PROVE MInv'
  BY <1>0, <1>2 DEF art_chunk, MInv, StagedWhole, CopiedWhole
<1>3. ASSUME NEW f \in Files, NEW v \in Copies, Pwrite(f, v) PROVE MInv'
  <2>1. UNCHANGED <<dl, copied, placed>>
    BY <1>3 DEF Pwrite
  <2>2. CASE staging.files = Absent
    BY <1>0, <1>3, <2>1, <2>2 DEF Pwrite, MInv, StagedWhole, CopiedWhole
  <2>3. CASE staging.files # Absent
    <3>1. ~(mixed \/ (dl.at # "idle" \/ (staging.ready /\ staging.files[f] # v)) \/ copied # Absent)
      BY <1>3, <2>3, Zenon DEF Pwrite, Alone
    <3>2. dl.at = "idle" /\ copied = Absent /\ (staging.ready => staging.files[f] = v)
      BY <3>1
    <3>3. staging.files \in Some /\ staging' = [staging EXCEPT !.files[f] = v]
      BY <1>0, <1>3, <2>3 DEF Pwrite, StagedWhole
    <3>4. PICK w : w = [staging.files EXCEPT ![f] = v]
      OBVIOUS
    <3>5. w \in Some /\ (staging.ready => w = staging.files)
      BY <3>2, <3>3, <3>4 DEF Some
    <3>6. staging' = [staging EXCEPT !.files = w]
      BY <3>3, <3>4
    <3>7. /\ staging' \in [files : {Absent} \union Some, expect : {Absent} \union Some, ready : BOOLEAN]
          /\ staging'.expect = staging.expect /\ staging'.ready = staging.ready /\ staging'.files = w
      BY <1>0, <3>5, <3>6 DEF StagedWhole
    <3> QED
      BY <1>0, <2>1, <3>2, <3>5, <3>7 DEF MInv, StagedWhole, CopiedWhole
  <2> QED
    BY <2>2, <2>3
<1>4. CASE art_commit
  <2>1. dl.at = "idle" /\ copied = Absent /\ UNCHANGED <<dl, copied, placed>>
    <3>1. ~(mixed \/ dl.at # "idle" \/ copied # Absent)
      BY <1>4, Zenon DEF art_commit, Alone
    <3> QED
      BY <1>4, <3>1 DEF art_commit, rest
  <2>2. PICK loads \in try_load : staging' = Committed(loads)
    BY <1>4 DEF art_commit
  <2>3. /\ staging' \in [files : {Absent} \union Some, expect : {Absent} \union Some, ready : BOOLEAN]
        /\ staging'.expect # Absent => OneVersion(staging'.expect)
        /\ staging'.ready => OneVersion(staging'.files)
    BY <1>0, <2>2, CommitWhole
  <2> QED
    BY <1>0, <2>1, <2>3 DEF MInv, StagedWhole, CopiedWhole
<1> QED
  BY <1>1, <1>2, <1>3, <1>4

\* A download's steps.
LEMMA DownloadSteps ==
  ASSUME MInv, ~mixed, ~mixed',
         fetch_stage \/ art_staged \/ fetch_commit \/ download_failed \/ \E f \in Files : untar(f)
  PROVE  MInv'
<1>0. StagedWhole /\ CopiedWhole
  BY DEF MInv
<1>1. CASE fetch_stage
  <2>1. copied = Absent /\ UNCHANGED <<copied, placed>>
    <3>1. ~(mixed \/ FALSE \/ copied # Absent)
      BY <1>1, Zenon DEF fetch_stage, Alone
    <3> QED
      BY <1>1, <3>1 DEF fetch_stage
  <2>2. staging' = [unstage EXCEPT !.files = Empty] /\ dl' = [at |-> "untar", todo |-> Files]
    BY <1>1 DEF fetch_stage
  <2>3. /\ staging' \in [files : {Absent} \union Some, expect : {Absent} \union Some, ready : BOOLEAN]
        /\ staging'.files \in Some /\ staging'.expect = Absent /\ ~staging'.ready
    BY <2>2, NotStagedType, Versions DEF unstage
  <2>4. dl' \in [at : {"idle", "untar", "staged", "commit"}, todo : SUBSET Files] /\ dl'.todo = Files /\ dl'.at = "untar"
    BY <2>2
  <2> QED
    BY <1>0, <2>1, <2>3, <2>4 DEF MInv, StagedWhole, CopiedWhole
<1>2. ASSUME NEW f \in Files, untar(f) PROVE MInv'
  <2>1. dl.at = "untar" /\ f \in dl.todo /\ copied = Absent /\ staging.files \in Some /\ ~staging.ready
        /\ UNCHANGED <<copied, placed>>
    BY <1>0, <1>2 DEF untar, Step, StagedWhole
  <2>2. PICK w : w = [staging.files EXCEPT ![f] = Download]
    OBVIOUS
  <2>3. w \in Some /\ \A g \in Files : w[g] = IF g = f THEN Download ELSE staging.files[g]
    BY <2>1, <2>2 DEF Some
  <2>4. staging' = [staging EXCEPT !.files = w]
    BY <1>2, <2>2 DEF untar, Step
  <2>5. /\ staging' \in [files : {Absent} \union Some, expect : {Absent} \union Some, ready : BOOLEAN]
        /\ staging'.expect = staging.expect /\ ~staging'.ready /\ staging'.files = w
    BY <1>0, <2>1, <2>3, <2>4 DEF StagedWhole
  <2>6. /\ dl' = [at |-> IF dl.todo = {f} THEN "staged" ELSE "untar", todo |-> dl.todo \ {f}]
    BY <1>2 DEF untar, Step
  <2>7. /\ dl' \in [at : {"idle", "untar", "staged", "commit"}, todo : SUBSET Files] /\ dl'.todo = dl.todo \ {f}
        /\ dl'.at # "idle" /\ dl'.at # "commit" /\ (dl'.at = "staged" => dl.todo = {f})
    BY <1>0, <2>6 DEF StagedWhole
  <2>8. \A g \in Files \ dl'.todo : w[g] = Download
    BY <1>0, <2>1, <2>3, <2>7 DEF StagedWhole
  <2> QED
    BY <1>0, <2>1, <2>3, <2>5, <2>7, <2>8 DEF MInv, StagedWhole, CopiedWhole
<1>3. CASE art_staged
  <2>1. dl.at = "staged" /\ copied = Absent /\ staging.files \in Some /\ ~staging.ready /\ UNCHANGED <<copied, placed>>
        /\ staging' = [staging EXCEPT !.expect = staging.files] /\ dl' = [dl EXCEPT !.at = "commit"] /\ dl.todo = {}
    BY <1>0, <1>3 DEF art_staged, Step, StagedWhole
  <2>2. OneVersion(staging.files)
    <3>1. staging.files = Version(Download)
      BY <1>0, <2>1 DEF StagedWhole, Version, Some
    <3> QED
      BY <3>1 DEF OneVersion
  <2>3. PICK w \in Some : w = staging.files
    BY <2>1
  <2>4. /\ staging' \in [files : {Absent} \union Some, expect : {Absent} \union Some, ready : BOOLEAN]
        /\ staging'.expect = w /\ ~staging'.ready /\ staging'.files = w
    BY <1>0, <2>1, <2>3 DEF StagedWhole
  <2>5. dl' \in [at : {"idle", "untar", "staged", "commit"}, todo : SUBSET Files] /\ dl'.todo = dl.todo /\ dl'.at = "commit"
    BY <1>0, <2>1 DEF StagedWhole
  <2> QED
    BY <1>0, <2>1, <2>2, <2>3, <2>4, <2>5 DEF MInv, StagedWhole, CopiedWhole
<1>4. CASE fetch_commit
  <2>1. copied = Absent /\ UNCHANGED <<copied, placed>> /\ dl' = AtRest
    BY <1>0, <1>4 DEF fetch_commit, Step, StagedWhole
  <2>2. PICK loads \in try_load : staging' = Committed(loads)
    BY <1>4 DEF fetch_commit, Step
  <2>3. /\ staging' \in [files : {Absent} \union Some, expect : {Absent} \union Some, ready : BOOLEAN]
        /\ staging'.expect # Absent => OneVersion(staging'.expect)
        /\ staging'.ready => OneVersion(staging'.files)
    BY <1>0, <2>2, CommitWhole
  <2> QED
    BY <1>0, <2>1, <2>3, Atrest DEF MInv, StagedWhole, CopiedWhole
<1>5. CASE download_failed
  <2>1. copied = Absent /\ UNCHANGED <<copied, placed>> /\ dl' = AtRest /\ staging' = NotStaged
    BY <1>0, <1>5 DEF download_failed, Step, StagedWhole, unstage
  <2> QED
    BY <1>0, <2>1, Atrest, NotStagedType DEF MInv, StagedWhole, CopiedWhole
<1> QED
  BY <1>1, <1>2, <1>3, <1>4, <1>5

\* Root's steps, and a restart of hassmic.
LEMMA PlaceSteps ==
  ASSUME MInv, ~mixed, ~mixed', art_install \/ RootTakes \/ RootPlaces \/ art_restart \/ \E f \in Files : RootCopies(f)
  PROVE  MInv'
<1>0. StagedWhole /\ CopiedWhole
  BY DEF MInv
<1>1. CASE art_install
  BY <1>0, <1>1 DEF art_install, MInv, StagedWhole, CopiedWhole
<1>2. CASE RootTakes
  <2>1. UNCHANGED <<staging, dl, placed>>
    BY <1>2 DEF RootTakes
  <2>2. CASE UNCHANGED copied
    BY <1>0, <2>1, <2>2 DEF MInv, StagedWhole, CopiedWhole
  <2>3. CASE staging.ready /\ copied' = Empty
    <3>1. Empty \in Some /\ \A f \in Files : Empty[f] = 0
      BY Versions DEF Empty, Version
    <3> QED
      BY <1>0, <2>1, <2>3, <3>1 DEF MInv, StagedWhole, CopiedWhole
  <2> QED
    BY <1>2, <2>2, <2>3 DEF RootTakes
<1>3. ASSUME NEW f \in Files, RootCopies(f) PROVE MInv'
  <2>1. UNCHANGED <<staging, dl, placed>> /\ copied # Absent /\ copied' = [copied EXCEPT ![f] = staging.files[f]]
    BY <1>3 DEF RootCopies
  <2>2. staging.ready /\ copied \in Some /\ staging.files \in Some /\ dl.at = "idle"
    BY <1>0, <2>1, Versions DEF StagedWhole, CopiedWhole
  <2>3. copied' \in Some /\ \A g \in Files : copied'[g] \in {0, staging.files[g]}
    BY <1>0, <2>1, <2>2 DEF Some, CopiedWhole
  <2> QED
    BY <1>0, <2>1, <2>2, <2>3 DEF MInv, StagedWhole, CopiedWhole
<1>4. CASE RootPlaces
  <2>1. copied # Absent /\ copied' = Absent /\ UNCHANGED dl /\ \A f \in Files : ~Left(f)
    BY <1>4 DEF RootPlaces
  <2>2. staging.ready /\ copied \in Some /\ OneVersion(staging.files) /\ staging.files \in Some
        /\ staging.files # Absent /\ dl.at = "idle"
    BY <1>0, <2>1, Versions DEF StagedWhole, CopiedWhole
  <2>3. copied = staging.files
    <3>1. \A f \in Files : copied[f] = staging.files[f]
      BY <1>0, <2>1, <2>2, Versions DEF Left, CopiedWhole
    <3> QED
      BY <2>2, <3>1 DEF Some
  <2>4. CASE UNCHANGED <<placed, staging>>
    BY <1>0, <2>1, <2>4 DEF MInv, StagedWhole, CopiedWhole
  <2>5. CASE placed' = copied /\ staging' = NotStaged
    BY <1>0, <2>1, <2>2, <2>3, <2>5, NotStagedType DEF MInv, StagedWhole, CopiedWhole
  <2> QED
    BY <1>4, <2>4, <2>5 DEF RootPlaces, unstage
<1>5. CASE art_restart
  <2>1. UNCHANGED <<staging, copied, placed>> /\ dl' = AtRest
    BY <1>5 DEF art_restart
  <2> QED
    BY <1>0, <2>1, Atrest DEF MInv, StagedWhole, CopiedWhole
<1> QED
  BY <1>1, <1>2, <1>3, <1>4, <1>5

\* Every step of artifacts.c, davs.c and root keeps the invariant.
LEMMA MStep == MInv /\ [MNext]_mvars => MInv'
<1> SUFFICES ASSUME MInv, [MNext]_mvars PROVE MInv'
  OBVIOUS
<1>1. CASE UNCHANGED mvars
  BY <1>1 DEF mvars, MInv, StagedWhole, CopiedWhole
<1>2. CASE mixed'
  BY <1>2 DEF MInv
<1>3. CASE MNext /\ ~mixed'
  BY <1>3, PageSteps, DownloadSteps, PlaceSteps DEF MNext
<1> QED
  BY <1>1, <1>2, <1>3

\* artifacts.c, for any set of files and any versions: what is marked ready is one
\* version, and root copies from nothing else, while one source is at work.
THEOREM StagedInvariant == MSpec => []MInv
  BY MInitHolds, MStep, PTL DEF MSpec

\* art_begin, art_commit and root's copy: what is put in place is one version with
\* all its files, whatever pieces are lost, late or again and whatever restarts.
THEOREM InstalledIsWholeHolds == MSpec => []InstalledIsWhole
<1>1. MInv => InstalledIsWhole
  BY DEF MInv, CopiedWhole, OneVersion, InstalledIsWhole
<1> QED
  BY <1>1, StagedInvariant, PTL
=============================================================================
