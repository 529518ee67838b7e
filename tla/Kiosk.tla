-------------------------------- MODULE Kiosk --------------------------------
(***************************************************************************)
(* A wake word settled the Kiosk Satellite way (arb.c): every device that  *)
(* heard the phrase broadcasts its loudness three times, keeps the claims  *)
(* it hears, and at the end of its own window answers if none of them beat *)
(* it.  Nothing else is exchanged.  Wi-Fi drops and delays broadcasts.     *)
(* A claim is its device and loudness; the phrase is the same for all, and *)
(* the JSON (parsed strictly, everything else refused) is left out.        *)
(***************************************************************************)
EXTENDS Integers, Sequences, FiniteSets

CONSTANTS Dev,           \* the devices' ids, compared as the code compares names
          Loud,          \* loudnesses
          Window,        \* kwindow
          Spread,        \* the devices hear the word within this much of each other
          Delay,         \* a broadcast takes at most this long
          NClaim,        \* claims a device keeps
          MaxSwitch      \* bound on changes of the mode

ASSUME KioskAssumption ==
    /\ Dev \subseteq Int /\ IsFiniteSet(Dev) /\ Loud \subseteq Int
    /\ {Window, Spread, Delay, NClaim, MaxSwitch} \subseteq Nat /\ NClaim > 0

VARIABLES now,
          rnd,           \* each device's round: when it heard the word, its loudness, how it went
          claims,        \* the claims each keeps, the newest last
          copies,        \* copies still to send, and when
          air,           \* broadcasts on their way
          mode,          \* the device settles rounds this way, its socket open
          switches, cut

kioskvars == <<now, rnd, claims, copies, air, mode, switches, cut>>

NoRound == [at |-> 0, e |-> 0, how |-> "none"]

KInit ==
    /\ now = 0
    /\ rnd = [d \in Dev |-> NoRound]
    /\ claims = [d \in Dev |-> <<>>]
    /\ copies = [d \in Dev |-> [left |-> 0, at |-> 0]]
    /\ air = {}
    /\ mode = [d \in Dev |-> TRUE]
    /\ switches = 0 /\ cut = FALSE

\* A copy to every other device whose port is open.
kiosk_send(d, e, n) ==
    air' = air \cup {[from |-> d, to |-> t, e |-> e, n |-> n, by |-> now + Delay] :
                     t \in {x \in Dev \ {d} : mode[x]}}

\* The word heard, loud enough: our claim, the first copy now.  The devices
\* of a house hear it within Spread.
kiosk_claim(d) ==
    /\ rnd[d].how = "none"
    /\ \A o \in Dev : rnd[o].how # "none" => now - rnd[o].at <= Spread
    /\ \E e \in Loud :
         IF mode[d]
         THEN /\ rnd' = [rnd EXCEPT ![d] = [at |-> now, e |-> e, how |-> "open"]]
              /\ kiosk_send(d, e, 1)
              /\ copies' = [copies EXCEPT ![d] = [left |-> 2, at |-> now + 1]]
         ELSE /\ rnd' = [rnd EXCEPT ![d] = [at |-> now, e |-> e, how |-> "alone"]]
              /\ UNCHANGED <<air, copies>>
    /\ UNCHANGED <<now, claims, mode, switches, cut>>

\* The loop sends the other two, a gap apart.
send_copy(d) ==
    /\ copies[d].left > 0 /\ copies[d].at = now
    /\ kiosk_send(d, rnd[d].e, 4 - copies[d].left)
    /\ copies' = [copies EXCEPT ![d] = [left |-> @.left - 1, at |-> @.at + 1]]
    /\ UNCHANGED <<now, rnd, claims, mode, switches, cut>>

\* A claim comes: a copy of one that is kept is left, a new one takes the
\* oldest one's place when all are taken.
kiosk_packet(p) ==
    /\ p \in air
    /\ air' = air \ {p}
    /\ LET k == claims[p.to] IN
         claims' = IF ~mode[p.to] \/ \E i \in DOMAIN k : k[i].from = p.from THEN claims
                   ELSE [claims EXCEPT ![p.to] =
                           Append(IF Len(k) = NClaim THEN Tail(k) ELSE k,
                                  [from |-> p.from, e |-> p.e, at |-> now])]
    /\ UNCHANGED <<now, rnd, copies, mode, switches, cut>>

\* Lost on the air; not all three to the same device.
Lost(p) ==
    /\ p \in air
    /\ \/ copies[p.from].left > 0
       \/ \E q \in air \ {p} : q.from = p.from /\ q.to = p.to
       \/ \E i \in DOMAIN claims[p.to] : claims[p.to][i].from = p.from
    /\ air' = air \ {p}
    /\ UNCHANGED <<now, rnd, claims, copies, mode, switches, cut>>

\* Louder, or as loud with the smaller id.
Beats(k, d) == k.e > rnd[d].e \/ (k.e = rnd[d].e /\ k.from < d)

Abs(x) == IF x < 0 THEN -x ELSE x

\* Fault: the claims heard so far decide at once, without waiting for the window's end.
decide_early(d) ==
    /\ rnd[d].how = "open"
    /\ rnd' = [rnd EXCEPT ![d].how =
                 IF \E i \in DOMAIN claims[d] :
                       LET k == claims[d][i] IN Abs(k.at - rnd[d].at) <= Window /\ Beats(k, d)
                 THEN "lost" ELSE "won"]
    /\ UNCHANGED <<now, claims, copies, air, mode, switches, cut>>

\* The window is over: no claim within it, before or after ours, beats us.
kiosk_decide(d) ==
    /\ rnd[d].how = "open" /\ now >= rnd[d].at + Window
    /\ rnd' = [rnd EXCEPT ![d].how =
                 IF \E i \in DOMAIN claims[d] :
                       LET k == claims[d][i] IN Abs(k.at - rnd[d].at) <= Window /\ Beats(k, d)
                 THEN "lost" ELSE "won"]
    /\ UNCHANGED <<now, claims, copies, air, mode, switches, cut>>

\* The mode changed: the claims are forgotten, the loop closes the socket and
\* sends no more copies, or opens it.
arb_mode(d) ==
    /\ switches < MaxSwitch
    /\ switches' = switches + 1
    /\ mode' = [mode EXCEPT ![d] = ~@]
    /\ claims' = [claims EXCEPT ![d] = <<>>]
    /\ copies' = [copies EXCEPT ![d].left = 0]
    /\ cut' = (cut \/ \E o \in Dev : rnd[o].how # "none")
    /\ UNCHANGED <<now, rnd, air>>

Tick ==
    /\ \A p \in air : p.by > now
    /\ \A d \in Dev : /\ copies[d].left > 0 => copies[d].at > now
                      /\ rnd[d].how = "open" => now < rnd[d].at + Window
    /\ \E d \in Dev : rnd[d].how = "open" \/ copies[d].left > 0
    /\ now' = now + 1
    /\ UNCHANGED <<rnd, claims, copies, air, mode, switches, cut>>

KNext ==
    \/ \E d \in Dev : kiosk_claim(d) \/ send_copy(d) \/ kiosk_decide(d) \/ arb_mode(d)
    \/ \E p \in air : kiosk_packet(p) \/ Lost(p)
    \/ Tick

KSpec == KInit /\ [][KNext]_kioskvars

(* ------------------------------ properties ----------------------------- *)

Claimed == {d \in Dev : rnd[d].how \in {"open", "won", "lost"}}

\* Of the devices that claimed one wake word exactly one answers, the one
\* that heard it best, whichever copies were lost and however the windows lie
\* against each other (kiosk_claim, kiosk_packet, kiosk_decide); unless a
\* device's mode was switched while the round ran, which forgets the claims.
KioskOne ==
    ~cut => \A d \in Dev :
        /\ rnd[d].how = "won"  => \A o \in Claimed \ {d} : Beats([from |-> d, e |-> rnd[d].e], o)
        /\ rnd[d].how = "lost" => \E o \in Claimed \ {d} : Beats([from |-> o, e |-> rnd[o].e], d)
=============================================================================
