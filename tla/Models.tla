------------------------------- MODULE Models -------------------------------
(***************************************************************************)
(* A model set on its way in: staged piece by piece by a page that copies  *)
(* it from another Echo (artifacts.c), or unpacked by a download (davs.c), *)
(* checked, marked ready, and put in place by root (scripts/device/        *)
(* artifact-install.sh, external), which does not check again.  One id;    *)
(* versions of its files all have the same sizes.                          *)
(***************************************************************************)
EXTENDS Naturals, FiniteSets

CONSTANTS Files,          \* names in the set
          Copies,         \* versions pages copy
          Download,       \* the version Amazon has
          MaxBegins,      \* bound: copies begun
          MaxFetches,     \* bound: downloads, and restarts of hassmic
          Absent

ASSUME ModelsAssumption ==
  0 \notin Copies \union {Download} /\ Absent \notin [Files -> Copies \union {Download, 0}] /\ {MaxBegins, MaxFetches} \subseteq Nat

VARIABLES staging,        \* the staged folder, its .expect and .ready
          pieces,         \* pieces past their check, not written yet
          begun,          \* versions whose pieces may be under way, or come again
          dl,             \* the download: where it is, which files are still to come
          copied,         \* the installer: what it has copied, or Absent
          request, result, placed,
          mixed,          \* a second source touched the staged set
          begins, fetches

mvars == <<staging, pieces, begun, dl, copied, request, result, placed, mixed, begins, fetches>>
rest == <<pieces, begun, dl, copied, request, result, placed, begins, fetches>>

Version(v) == [f \in Files |-> v]
Empty == Version(0)
NotStaged == [files |-> Absent, expect |-> Absent, ready |-> FALSE]
AtRest == [at |-> "idle", todo |-> {}]
MInit == /\ staging = NotStaged /\ pieces = {} /\ begun = {} /\ dl = AtRest
         /\ copied = Absent /\ request = FALSE /\ result = FALSE /\ placed = Absent
         /\ mixed = FALSE /\ begins = 0 /\ fetches = 0

\* A source that is not alone: the other one is at work, root is copying, or
\* the set was found whole already.
Alone(others) == mixed' = (mixed \/ others \/ copied # Absent)
unstage == NotStaged

----------------------------------------------------------------------------
\* A page copies a set: art_begin, art_chunk, art_commit.  The check of a
\* piece holds lk, its write does not.
art_begin(v) ==
  /\ begins < MaxBegins /\ begins' = begins + 1 /\ begun' = begun \union {v}
  /\ staging' \in {unstage,                                                   \* no room
                 [unstage EXCEPT !.files = Empty, !.expect = Version(v)]}
  /\ Alone(dl.at # "idle")
  /\ UNCHANGED <<pieces, dl, copied, request, result, placed, fetches>>
art_chunk(f, v) ==
  /\ v \in begun /\ staging.expect # Absent
  /\ pieces' = pieces \union {<<f, v>>}
  /\ UNCHANGED <<staging, begun, dl, copied, request, result, placed, mixed, begins, fetches>>
Pwrite(f, v) ==
  /\ <<f, v>> \in pieces /\ pieces' = pieces \ {<<f, v>>}
  /\ IF staging.files = Absent THEN UNCHANGED <<staging, mixed>>
     ELSE /\ staging' = [staging EXCEPT !.files[f] = v]
          /\ Alone(dl.at # "idle" \/ (staging.ready /\ staging.files[f] # v))
  /\ UNCHANGED <<begun, dl, copied, request, result, placed, begins, fetches>>

Complete == staging.expect # Absent /\ staging.files # Absent /\ \A f \in Files : staging.files[f] # 0
digest(files) == files                                      \* the names, the sizes and the bytes, of all of them
try_load == BOOLEAN                                         \* whether this Echo's engine loads the set
\* Fault: a set is taken when every file is there, without its digest.
CommittedUnchecked(loads) == IF ~Complete THEN staging ELSE IF ~loads THEN unstage ELSE [staging EXCEPT !.ready = TRUE]

\* What art_commit leaves of the staged set when the engine's answer is LOADS.
Committed(loads) == IF ~Complete THEN staging
                    ELSE IF digest(staging.files) # staging.expect \/ ~loads THEN unstage
                    ELSE [staging EXCEPT !.ready = TRUE]
art_commit == /\ \E loads \in try_load : staging' = Committed(loads)
              /\ Alone(dl.at # "idle")
              /\ UNCHANGED rest

----------------------------------------------------------------------------
\* A download: art_unstage, untar file by file without lk, art_staged (what
\* arrived is what is expected), art_commit; a failure unstages.
fetch_stage == /\ dl.at = "idle" /\ fetches < MaxFetches /\ fetches' = fetches + 1
               /\ staging' = [unstage EXCEPT !.files = Empty] /\ dl' = [at |-> "untar", todo |-> Files]
               /\ Alone(FALSE)
               /\ UNCHANGED <<pieces, begun, copied, request, result, placed, begins>>
Step(st, d) == /\ staging' = st /\ dl' = d /\ Alone(staging.ready \/ staging.files = Absent)
               /\ UNCHANGED <<pieces, begun, copied, request, result, placed, begins, fetches>>
untar(f) == /\ dl.at = "untar" /\ f \in dl.todo /\ staging.files # Absent
            /\ Step([staging EXCEPT !.files[f] = Download],
                    [at |-> IF dl.todo = {f} THEN "staged" ELSE "untar", todo |-> dl.todo \ {f}])
art_staged == /\ dl.at = "staged" /\ staging.files # Absent
              /\ Step([staging EXCEPT !.expect = staging.files], [dl EXCEPT !.at = "commit"])
fetch_commit == /\ dl.at = "commit" /\ \E loads \in try_load : Step(Committed(loads), AtRest)
download_failed == dl.at # "idle" /\ Step(unstage, AtRest)

----------------------------------------------------------------------------
art_install == /\ staging.ready /\ request' = TRUE /\ result' = FALSE
               /\ UNCHANGED <<staging, pieces, begun, dl, copied, placed, mixed, begins, fetches>>
\* External: root takes the request, copies file by file, swaps the folder in.
RootTakes == /\ request /\ copied = Absent /\ request' = FALSE
             /\ IF staging.ready THEN copied' = Empty /\ UNCHANGED result ELSE result' = TRUE /\ UNCHANGED copied
             /\ UNCHANGED <<staging, pieces, begun, dl, placed, mixed, begins, fetches>>
Left(f) == IF staging.files = Absent THEN FALSE ELSE copied[f] = 0 /\ staging.files[f] # 0
RootCopies(f) == /\ copied # Absent /\ Left(f)
                 /\ copied' = [copied EXCEPT ![f] = staging.files[f]]
                 /\ UNCHANGED <<staging, pieces, begun, dl, request, result, placed, mixed, begins, fetches>>
RootPlaces == /\ copied # Absent /\ \A f \in Files : ~Left(f)
              /\ copied' = Absent /\ result' = TRUE
              /\ IF copied = Empty THEN UNCHANGED <<placed, staging>> ELSE placed' = copied /\ staging' = unstage
              /\ UNCHANGED <<pieces, begun, dl, request, mixed, begins, fetches>>
\* hassmic restarts: what is under way in it ends, the staged files stay.
art_restart == /\ fetches < MaxFetches /\ fetches' = fetches + 1 /\ pieces' = {} /\ dl' = AtRest
               /\ UNCHANGED <<staging, begun, copied, request, result, placed, mixed, begins>>

\* Bound: a behaviour is not followed once two sources have met.
MNext == /\ ~mixed
         /\ \/ \E v \in Copies : art_begin(v) \/ \E f \in Files : art_chunk(f, v) \/ Pwrite(f, v)
            \/ art_commit \/ fetch_stage \/ art_staged \/ fetch_commit \/ download_failed
            \/ \E f \in Files : untar(f) \/ RootCopies(f)
            \/ art_install \/ RootTakes \/ RootPlaces \/ art_restart

MSpec == MInit /\ [][MNext]_mvars

----------------------------------------------------------------------------
\* What root puts in place is one version, whole: until a page and a download
\* write the set at once, or something is written to a set found whole or being
\* copied (mixed), no piece that was lost, came late or came again from an
\* earlier copy, no refused or interrupted set, and no restart reaches the
\* models folder (art_commit checks, art_begin takes .ready back, root copies
\* unchecked).
InstalledIsWhole == placed # Absent /\ ~mixed => \E v \in Copies \union {Download} : placed = Version(v)

=============================================================================
