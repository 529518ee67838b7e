---- MODULE MCAccess ----
(***************************************************************************)
(* The parts of the program the theorems on access and installs are about, *)
(* with their own variables and their parameters in the configuration: one *)
(* part per behaviour (part), the others at their start.  Music Assistant  *)
(* and the registration, kiosk mode, the Echos' network with Home          *)
(* Assistant or paired by their buttons, the music servers, the page, the  *)
(* models; and the wake word rounds of two utterances, whose variables are *)
(* r1, r2, ...                                                             *)
(***************************************************************************)
EXTENDS Integers, Sequences, Mass, Davs, Kiosk, ArbNet, Sendspin, Web, Models

VARIABLES part,       \* the part of the program this behaviour is about
          r1, r2, r3, r4, r5, r6, r7, r8, r9, r10, r11, r12, r13

rvars == <<r1, r2, r3, r4, r5, r6, r7, r8, r9, r10, r11, r12, r13>>

vars == <<part, avars, dvars, kioskvars, nvars, pvars, wvars, mvars, rvars>>

\* web.c: four requests, of which a page asks in its order or not.
PageRequests == <<[api |-> "mww", call |-> "add"], [api |-> "page", call |-> "adb"],
                  [api |-> "page", call |-> "state"], [api |-> "page", call |-> "revoke"]>>

\* arb.c: the same Echos without Home Assistant, paired by their buttons.
ArbPair == INSTANCE ArbNet WITH HasHa <- FALSE, Allowed <- FALSE, MaxPairs <- 2

\* arb.c: two utterances further apart than a round's look-back, with packets
\* lost, late and repeated.
Spaced == INSTANCE ArbRound WITH
    Echo <- {1, 2}, Keyword <- {"alexa"}, Scores <- {1}, Prio <- {0}, LOOKBACK <- 1, NCLAIM <- 2,
    Windows <- {1}, AFE_WAIT <- 0, RivalsOn <- TRUE, Acquainted <- TRUE, Beacons <- 0, MaxDelay <- 1,
    Lossless <- FALSE, Spread <- 1, Gap <- 5, MaxSay <- 2, MaxTime <- 8,
    now <- r1, said <- r2, phase <- r3, det <- r4, pend <- r5, round <- r6, claims <- r7,
    counts <- r8, ctr <- r9, last <- r10, air <- r11, out <- r12, dropped <- r13

-----------------------------------------------------------------------------
Init == /\ \/ part = "arbpair" /\ ArbPair!NInit
           \/ part \in {"mass", "davs", "kiosk", "arbnet", "sendspin", "web", "models", "spaced"} /\ NInit
        /\ AInit /\ DInit /\ KInit /\ PInit /\ WInit /\ MInit /\ Spaced!Init
        \* Of the starts of another part this one is at one.
        /\ part # "arbnet" => \A e \in Strangers, n \in StrangerNets : net[e] >= n
        /\ part # "sendspin" => unpaired = FALSE /\ records = <<>> /\ lastServer = Nobody

Next ==
    /\ UNCHANGED part
    /\ \/ part = "mass" /\ ANext /\ UNCHANGED <<dvars, kioskvars, nvars, pvars, wvars, mvars, rvars>>
       \/ part = "davs" /\ DNext /\ UNCHANGED <<avars, kioskvars, nvars, pvars, wvars, mvars, rvars>>
       \/ part = "kiosk" /\ KNext /\ UNCHANGED <<avars, dvars, nvars, pvars, wvars, mvars, rvars>>
       \/ part = "arbnet" /\ NNext /\ UNCHANGED <<avars, dvars, kioskvars, pvars, wvars, mvars, rvars>>
       \/ part = "arbpair" /\ ArbPair!NNext /\ UNCHANGED <<avars, dvars, kioskvars, pvars, wvars, mvars, rvars>>
       \/ part = "sendspin" /\ PNext /\ UNCHANGED <<avars, dvars, kioskvars, nvars, wvars, mvars, rvars>>
       \/ part = "web" /\ WNext /\ UNCHANGED <<avars, dvars, kioskvars, nvars, pvars, mvars, rvars>>
       \/ part = "models" /\ MNext /\ UNCHANGED <<avars, dvars, kioskvars, nvars, pvars, wvars, rvars>>
       \/ part = "spaced" /\ Spaced!Next /\ UNCHANGED <<avars, dvars, kioskvars, nvars, pvars, wvars, mvars>>

Spec == Init /\ [][Next]_vars

-----------------------------------------------------------------------------
\* Of two utterances further apart than the look-back, the claims of the first
\* leave nobody silent at the second, however late they come (arb.c, beaten).
NoSilenceSpaced == part = "spaced" => Spaced!NoSilence
=============================================================================
