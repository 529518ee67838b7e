---------------------------- MODULE KioskProofs ----------------------------
(***************************************************************************)
(* Proofs about Kiosk for any number of devices, loudnesses and delays.    *)
(***************************************************************************)
EXTENDS Kiosk, TLAPS, FiniteSetTheorems

(***************************************************************************)
(* A claim's last copy is there before any window of its round is over,    *)
(* and a device can keep the claims of all the others.                     *)
(***************************************************************************)
InTime == Spread + 2 + Delay < Window /\ Cardinality(Dev) <= NClaim + 1

(***************************************************************************)
(* The inductive invariant                                                 *)
(***************************************************************************)

Round == [at : Nat, e : Int, how : {"none", "open", "alone", "won", "lost"}]
Claim == [from : Dev, e : Int, at : Nat]
Packet == [from : Dev, to : Dev, e : Int, n : Int, by : Nat]

TypeOK ==
  /\ now \in Nat
  /\ rnd \in [Dev -> Round]
  /\ claims \in [Dev -> Seq(Claim)]
  /\ copies \in [Dev -> [left : 0 .. 2, at : Nat]]
  /\ air \subseteq Packet
  /\ mode \in [Dev -> BOOLEAN] /\ cut \in BOOLEAN

\* Who took part heard the word within Spread of each other.
Heard ==
  \A d \in Dev :
    /\ rnd[d].how # "none" => rnd[d].at <= now /\ \A o \in Dev : rnd[o].how # "none" => rnd[d].at <= rnd[o].at + Spread
    /\ rnd[d].how \in {"won", "lost"} => rnd[d].at + Window <= now
    /\ d \in Claimed => mode[d]

\* Copies to send, on their way and kept are of claims that were made, in time.
Copies ==
  \A d \in Dev : copies[d].left > 0 => /\ d \in Claimed /\ now <= copies[d].at
                                       /\ copies[d].at + copies[d].left = rnd[d].at + 3
Air ==
  \A p \in air : /\ p.from \in Claimed /\ p.to # p.from /\ p.e = rnd[p.from].e
                 /\ now <= p.by /\ p.by <= rnd[p.from].at + 2 + Delay
Kept ==
  \A d \in Dev : \A i \in DOMAIN claims[d] :
    LET k == claims[d][i]
    IN  /\ k.from \in Claimed \ {d} /\ k.e = rnd[k.from].e
        /\ rnd[k.from].at <= k.at /\ k.at <= rnd[k.from].at + 2 + Delay
        /\ \A j \in DOMAIN claims[d] : claims[d][j].from = k.from => i = j

\* A claim reaches everyone who listens: it is kept, on its way, or to be sent again.
HasClaim(d, o) == \E i \in DOMAIN claims[d] : claims[d][i].from = o
Comes(d, o) == \E p \in air : p.from = o /\ p.to = d
Reaches ==
  \A o \in Claimed, d \in Dev : d # o /\ mode[d] => copies[o].left > 0 \/ Comes(d, o) \/ HasClaim(d, o)

Uncut == Heard /\ Copies /\ Air /\ Kept /\ Reaches /\ KioskOne

IInv == TypeOK /\ (~cut => Uncut)

(***************************************************************************)
(* Types                                                                   *)
(***************************************************************************)

\* Broadcasts are packets.
LEMMA SendType ==
  ASSUME NEW d \in Dev, NEW e \in Int, NEW n \in Int, TypeOK, kiosk_send(d, e, n)
  PROVE  air' \subseteq Packet
<1>1. now + Delay \in Nat
  BY KioskAssumption DEF TypeOK
<1>2. \A t \in Dev : [from |-> d, to |-> t, e |-> e, n |-> n, by |-> now + Delay] \in Packet
  BY <1>1 DEF Packet
<1> QED
  BY <1>2 DEF kiosk_send, TypeOK

\* A claim that device d keeps, within its window, beats its own.
Beaten(d) ==
  \E i \in DOMAIN claims[d] :
    LET k == claims[d][i] IN Abs(k.at - rnd[d].at) <= Window /\ Beats(k, d)

\* A decision changes how the round went and nothing else of it.
LEMMA DecideStep ==
  ASSUME NEW d \in Dev, TypeOK, kiosk_decide(d)
  PROVE  \E h \in {"lost", "won"} :
           /\ h = IF Beaten(d) THEN "lost" ELSE "won"
           /\ rnd' = [rnd EXCEPT ![d] = [at |-> rnd[d].at, e |-> rnd[d].e, how |-> h]]
<1>1. PICK h : h = IF Beaten(d) THEN "lost" ELSE "won"
  OBVIOUS
<1>2. rnd' = [rnd EXCEPT ![d].how = h]
  BY <1>1, Zenon DEF kiosk_decide, Beaten
<1>3. rnd[d] \in Round
  BY DEF TypeOK
<1>4. [rnd[d] EXCEPT !.how = h] = [at |-> rnd[d].at, e |-> rnd[d].e, how |-> h]
  BY <1>3 DEF Round
<1>5. rnd' = [rnd EXCEPT ![d] = [rnd[d] EXCEPT !.how = h]]
  BY <1>2, Zenon
<1>6. h \in {"lost", "won"}
  BY <1>1
<1> QED
  BY <1>1, <1>4, <1>5, <1>6

\* Every step of the devices and of the air keeps the types.
LEMMA TypeStep == TypeOK /\ [KNext]_kioskvars => TypeOK'
<1> SUFFICES ASSUME TypeOK, [KNext]_kioskvars
             PROVE  TypeOK'
  OBVIOUS
<1> USE KioskAssumption
<1>1. ASSUME NEW d \in Dev, kiosk_claim(d)
      PROVE  TypeOK'
  <2>1. PICK e \in Loud :
           IF mode[d]
           THEN /\ rnd' = [rnd EXCEPT ![d] = [at |-> now, e |-> e, how |-> "open"]]
                /\ kiosk_send(d, e, 1)
                /\ copies' = [copies EXCEPT ![d] = [left |-> 2, at |-> now + 1]]
           ELSE /\ rnd' = [rnd EXCEPT ![d] = [at |-> now, e |-> e, how |-> "alone"]]
                /\ UNCHANGED <<air, copies>>
    BY <1>1 DEF kiosk_claim
  <2>2. e \in Int /\ 1 \in Int
    OBVIOUS
  <2>3. [at |-> now, e |-> e, how |-> "open"] \in Round /\ [at |-> now, e |-> e, how |-> "alone"] \in Round
    BY <2>2 DEF TypeOK, Round
  <2>4. rnd' \in [Dev -> Round]
    BY <2>1, <2>3 DEF TypeOK
  <2>5. [left |-> 2, at |-> now + 1] \in [left : 0 .. 2, at : Nat]
    BY DEF TypeOK
  <2>6. copies' \in [Dev -> [left : 0 .. 2, at : Nat]]
    BY <2>1, <2>5 DEF TypeOK
  <2>7. air' \subseteq Packet
    BY <2>1, <2>2, SendType DEF TypeOK
  <2> QED
    BY <1>1, <2>4, <2>6, <2>7 DEF kiosk_claim, TypeOK
<1>2. ASSUME NEW d \in Dev, send_copy(d)
      PROVE  TypeOK'
  <2>1. rnd[d].e \in Int /\ copies[d].left \in 0 .. 2 /\ copies[d].at \in Nat
    BY DEF TypeOK, Round
  <2>2. 4 - copies[d].left \in Int
    BY <2>1
  <2>3. air' \subseteq Packet
    BY <1>2, <2>1, <2>2, SendType DEF send_copy
  <2>4. [left |-> copies[d].left - 1, at |-> copies[d].at + 1] \in [left : 0 .. 2, at : Nat]
    BY <1>2, <2>1 DEF send_copy
  <2>5. copies' = [copies EXCEPT ![d] = [left |-> copies[d].left - 1, at |-> copies[d].at + 1]]
    BY <1>2 DEF send_copy, TypeOK
  <2>6. copies' \in [Dev -> [left : 0 .. 2, at : Nat]]
    BY <2>4, <2>5 DEF TypeOK
  <2> QED
    BY <1>2, <2>3, <2>6 DEF send_copy, TypeOK
<1>3. ASSUME NEW d \in Dev, kiosk_decide(d)
      PROVE  TypeOK'
  <2>1. PICK h \in {"lost", "won"} : rnd' = [rnd EXCEPT ![d] = [at |-> rnd[d].at, e |-> rnd[d].e, how |-> h]]
    BY <1>3, DecideStep
  <2>2. [at |-> rnd[d].at, e |-> rnd[d].e, how |-> h] \in Round
    BY DEF TypeOK, Round
  <2>3. rnd' \in [Dev -> Round]
    BY <2>1, <2>2 DEF TypeOK
  <2> QED
    BY <1>3, <2>3 DEF kiosk_decide, TypeOK
<1>4. ASSUME NEW d \in Dev, arb_mode(d)
      PROVE  TypeOK'
  <2>0. copies[d] \in [left : 0 .. 2, at : Nat]
    BY DEF TypeOK
  <2>1. [left |-> 0, at |-> copies[d].at] \in [left : 0 .. 2, at : Nat]
    BY <2>0
  <2>7. [copies[d] EXCEPT !.left = 0] = [left |-> 0, at |-> copies[d].at]
    BY <2>0
  <2>2. copies' = [copies EXCEPT ![d] = [copies[d] EXCEPT !.left = 0]]
    BY <1>4, Zenon DEF arb_mode
  <2>3. copies' \in [Dev -> [left : 0 .. 2, at : Nat]]
    BY <2>1, <2>2, <2>7 DEF TypeOK
  <2>4. claims' \in [Dev -> Seq(Claim)]
    BY <1>4 DEF arb_mode, TypeOK
  <2>5. mode' \in [Dev -> BOOLEAN]
    BY <1>4 DEF arb_mode, TypeOK
  <2>6. cut' \in BOOLEAN
    BY <1>4 DEF arb_mode, TypeOK
  <2> QED
    BY <1>4, <2>3, <2>4, <2>5, <2>6 DEF arb_mode, TypeOK
<1>5. ASSUME NEW p \in air, kiosk_packet(p)
      PROVE  TypeOK'
  <2>1. p \in Packet
    BY DEF TypeOK
  <2>2. p.to \in Dev /\ p.from \in Dev /\ p.e \in Int
    BY <2>1 DEF Packet
  <2>3. [from |-> p.from, e |-> p.e, at |-> now] \in Claim
    BY <2>2 DEF Claim, TypeOK
  <2>4. PICK k \in Seq(Claim) : k = claims[p.to]
    BY <2>2 DEF TypeOK
  <2>5. (IF Len(k) = NClaim THEN Tail(k) ELSE k) \in Seq(Claim)
    <3>1. Len(k) = NClaim => k # <<>>
      BY <2>4
    <3> QED
      BY <3>1, <2>4
  <2>6. Append(IF Len(k) = NClaim THEN Tail(k) ELSE k, [from |-> p.from, e |-> p.e, at |-> now]) \in Seq(Claim)
    BY <2>3, <2>5
  <2>7. claims' \in [Dev -> Seq(Claim)]
    BY <1>5, <2>2, <2>4, <2>6 DEF kiosk_packet, TypeOK
  <2> QED
    BY <1>5, <2>7 DEF kiosk_packet, TypeOK
<1>6. ASSUME NEW p \in air, Lost(p)
      PROVE  TypeOK'
  BY <1>6 DEF Lost, TypeOK
<1>7. CASE Tick
  BY <1>7 DEF Tick, TypeOK
<1>8. CASE UNCHANGED kioskvars
  BY <1>8 DEF kioskvars, TypeOK
<1> QED
  BY <1>1, <1>2, <1>3, <1>4, <1>5, <1>6, <1>7, <1>8 DEF KNext

(***************************************************************************)
(* The steps of a round that no switch of the mode has cut                 *)
(***************************************************************************)

\* What the parts of the state are.
LEMMA Fields ==
  ASSUME TypeOK
  PROVE  /\ now \in Nat
         /\ \A d \in Dev : /\ rnd[d].at \in Nat /\ rnd[d].e \in Int
                           /\ copies[d].left \in 0 .. 2 /\ copies[d].at \in Nat
         /\ \A p \in air : p.from \in Dev /\ p.to \in Dev /\ p.e \in Int /\ p.by \in Nat
         /\ \A d \in Dev : \A i \in DOMAIN claims[d] :
              claims[d][i].from \in Dev /\ claims[d][i].e \in Int /\ claims[d][i].at \in Nat
<1>1. \A d \in Dev : rnd[d] \in Round
  BY DEF TypeOK
<1>2. \A d \in Dev : copies[d] \in [left : 0 .. 2, at : Nat]
  BY DEF TypeOK
<1>3. \A p \in air : p \in Packet
  BY DEF TypeOK
<1>4. \A d \in Dev : \A i \in DOMAIN claims[d] : claims[d][i] \in Claim
  BY DEF TypeOK
<1>5. \A d \in Dev : rnd[d].at \in Nat /\ rnd[d].e \in Int
  BY <1>1 DEF Round
<1>6. \A d \in Dev : copies[d].left \in 0 .. 2 /\ copies[d].at \in Nat
  BY <1>2
<1>7. \A p \in air : p.from \in Dev /\ p.to \in Dev /\ p.e \in Int /\ p.by \in Nat
  BY <1>3 DEF Packet
<1>8. \A d \in Dev : \A i \in DOMAIN claims[d] :
        claims[d][i].from \in Dev /\ claims[d][i].e \in Int /\ claims[d][i].at \in Nat
  BY <1>4 DEF Claim
<1> QED
  BY <1>5, <1>6, <1>7, <1>8 DEF TypeOK

\* A device hears the word while nobody's window is over.
LEMMA ClaimStep ==
  ASSUME InTime, TypeOK, Uncut, ~cut, NEW d \in Dev, kiosk_claim(d)
  PROVE  Uncut'
<1> USE Fields
<1>0. Window \in Nat /\ Spread \in Nat /\ Delay \in Nat /\ Spread + 2 + Delay < Window
  BY KioskAssumption DEF InTime
<1>1. \A o \in Dev : rnd[o].how # "none" => now - rnd[o].at <= Spread
  BY DEF kiosk_claim
<1>2. \A o \in Dev : rnd[o].how \notin {"won", "lost"}
  BY <1>0, <1>1 DEF Uncut, Heard
<1>3. PICK e \in Loud :
         IF mode[d]
         THEN /\ rnd' = [rnd EXCEPT ![d] = [at |-> now, e |-> e, how |-> "open"]]
              /\ kiosk_send(d, e, 1)
              /\ copies' = [copies EXCEPT ![d] = [left |-> 2, at |-> now + 1]]
         ELSE /\ rnd' = [rnd EXCEPT ![d] = [at |-> now, e |-> e, how |-> "alone"]]
              /\ UNCHANGED <<air, copies>>
  BY DEF kiosk_claim
<1>4. rnd[d].how = "none" /\ d \notin Claimed /\ now' = now /\ claims' = claims /\ mode' = mode
  BY DEF kiosk_claim, Claimed
<1>5. \A o \in Dev \ {d} : rnd'[o] = rnd[o]
  BY <1>3 DEF TypeOK
<1>6. rnd'[d].at = now /\ rnd'[d].e = e /\ rnd'[d].how = IF mode[d] THEN "open" ELSE "alone"
  BY <1>3 DEF TypeOK
<1>7. Claimed' = IF mode[d] THEN Claimed \cup {d} ELSE Claimed
  BY <1>4, <1>5, <1>6 DEF Claimed
<1>8. \A o \in Dev : rnd'[o].how \notin {"won", "lost"}
  BY <1>2, <1>5, <1>6
<1>9. KioskOne'
  BY <1>8 DEF KioskOne
<1>10. Heard'
  <2>1. \A o \in Dev : rnd'[o].how # "none" => rnd'[o].at <= now /\ now <= rnd'[o].at + Spread
    BY <1>0, <1>1, <1>5, <1>6 DEF Uncut, Heard
  <2>2. \A o \in Dev : rnd'[o].at \in Nat
    BY <1>5, <1>6
  <2>3. \A o \in Claimed' : mode[o]
    BY <1>7 DEF Uncut, Heard, Claimed
  <2> QED
    BY <1>0, <1>4, <1>8, <2>1, <2>2, <2>3 DEF Heard
<1>11. Copies'
  <2>1. ASSUME NEW o \in Dev, o # d
        PROVE  copies'[o] = copies[o] /\ (o \in Claimed => o \in Claimed')
    <3>1. o \in Claimed => o \in Claimed'
      BY <1>7
    <3>2. copies'[o] = copies[o]
      BY <1>3, <2>1 DEF TypeOK
    <3> QED
      BY <3>1, <3>2
  <2>2. CASE mode[d]
    <3>1. copies'[d].left = 2 /\ copies'[d].at = now + 1 /\ d \in Claimed'
      BY <1>3, <1>7, <2>2 DEF TypeOK
    <3> QED
      BY <1>4, <1>5, <1>6, <2>1, <3>1 DEF Uncut, Copies
  <2>3. CASE ~mode[d]
    <3>1. copies'[d] = copies[d] /\ ~(copies[d].left > 0)
      BY <1>3, <1>4, <2>3 DEF Uncut, Copies
    <3> QED
      BY <1>4, <1>5, <1>6, <2>1, <3>1 DEF Uncut, Copies
  <2> QED
    BY <2>2, <2>3
<1>12. Air'
  <2>1. SUFFICES ASSUME NEW p \in air'
                 PROVE  /\ p.from \in Claimed' /\ p.to # p.from /\ p.e = rnd'[p.from].e
                        /\ now <= p.by /\ p.by <= rnd'[p.from].at + 2 + Delay
    BY <1>4 DEF Air
  <2>2. CASE p \in air
    BY <1>4, <1>5, <1>7, <2>2 DEF Uncut, Air
  <2>3. CASE p \notin air
    <3>1. mode[d] /\ kiosk_send(d, e, 1)
      BY <1>3, <2>1, <2>3
    <3>2. PICK t \in Dev \ {d} : p = [from |-> d, to |-> t, e |-> e, n |-> 1, by |-> now + Delay]
      BY <2>1, <2>3, <3>1 DEF kiosk_send
    <3>3. p.from = d /\ p.to = t /\ p.e = e /\ p.by = now + Delay
      BY <3>2
    <3> QED
      BY <1>0, <1>6, <1>7, <3>1, <3>3
  <2> QED
    BY <2>2, <2>3
<1>13. Kept'
  BY <1>4, <1>5, <1>7 DEF Uncut, Kept
<1>14. Reaches'
  <2>1. SUFFICES ASSUME NEW o \in Claimed', NEW t \in Dev, t # o, mode[t]
                 PROVE  copies'[o].left > 0 \/ Comes(t, o)' \/ HasClaim(t, o)'
    BY <1>4 DEF Reaches
  <2>2. air \subseteq air'
    BY <1>3 DEF kiosk_send
  <2>3. CASE o = d
    BY <1>3, <1>4, <1>7, <2>3 DEF TypeOK
  <2>4. CASE o # d
    <3>1. o \in Claimed /\ copies'[o] = copies[o]
      BY <1>3, <1>7, <2>4 DEF TypeOK, Claimed
    <3> QED
      BY <1>4, <2>1, <2>2, <3>1 DEF Uncut, Reaches, Comes, HasClaim
  <2> QED
    BY <2>3, <2>4
<1> QED
  BY <1>9, <1>10, <1>11, <1>12, <1>13, <1>14 DEF Uncut

\* A copy sent again reaches everyone who listens, in time.
LEMMA CopyStep ==
  ASSUME InTime, TypeOK, Uncut, ~cut, NEW d \in Dev, send_copy(d)
  PROVE  Uncut'
<1> USE Fields
<1>0. Window \in Nat /\ Spread \in Nat /\ Delay \in Nat /\ Spread + 2 + Delay < Window
  BY KioskAssumption DEF InTime
<1>1. /\ copies[d].left > 0 /\ copies[d].at = now /\ kiosk_send(d, rnd[d].e, 4 - copies[d].left)
      /\ copies' = [copies EXCEPT ![d] = [left |-> copies[d].left - 1, at |-> copies[d].at + 1]]
      /\ UNCHANGED <<now, rnd, claims, mode, cut>>
  BY DEF send_copy
<1>2. Claimed' = Claimed /\ d \in Claimed
  BY <1>1 DEF Claimed, Uncut, Copies
<1>3. KioskOne'
  BY <1>1, <1>2 DEF Uncut, KioskOne, Beats
<1>4. Heard'
  BY <1>1, <1>2 DEF Uncut, Heard
<1>5. /\ copies'[d].left = copies[d].left - 1 /\ copies'[d].at = now + 1
      /\ \A o \in Dev \ {d} : copies'[o] = copies[o]
  BY <1>1 DEF TypeOK
<1>6. copies[d].at + copies[d].left = rnd[d].at + 3
  BY <1>1 DEF Uncut, Copies
<1>7. Copies'
  BY <1>1, <1>2, <1>5, <1>6 DEF Uncut, Copies
<1>8. Air'
  <2>1. SUFFICES ASSUME NEW p \in air'
                 PROVE  /\ p.from \in Claimed /\ p.to # p.from /\ p.e = rnd[p.from].e
                        /\ now <= p.by /\ p.by <= rnd[p.from].at + 2 + Delay
    BY <1>1, <1>2 DEF Air
  <2>2. CASE p \in air
    BY <2>2 DEF Uncut, Air
  <2>3. CASE p \notin air
    <3>1. PICK t \in Dev \ {d} :
             p = [from |-> d, to |-> t, e |-> rnd[d].e, n |-> 4 - copies[d].left, by |-> now + Delay]
      BY <1>1, <2>1, <2>3 DEF kiosk_send
    <3>2. p.from = d /\ p.to = t /\ p.e = rnd[d].e /\ p.by = now + Delay
      BY <3>1
    <3> QED
      BY <1>0, <1>1, <1>2, <1>6, <3>2
  <2> QED
    BY <2>2, <2>3
<1>9. Kept'
  BY <1>1, <1>2 DEF Uncut, Kept
<1>10. Reaches'
  <2>1. SUFFICES ASSUME NEW o \in Claimed, NEW t \in Dev, t # o, mode[t]
                 PROVE  copies'[o].left > 0 \/ Comes(t, o)' \/ HasClaim(t, o)'
    BY <1>1, <1>2 DEF Reaches
  <2>2. CASE o = d
    <3>1. [from |-> d, to |-> t, e |-> rnd[d].e, n |-> 4 - copies[d].left, by |-> now + Delay] \in air'
      BY <1>1, <2>1, <2>2 DEF kiosk_send
    <3> QED
      BY <2>2, <3>1 DEF Comes
  <2>3. CASE o # d
    <3>1. air \subseteq air' /\ o \in Dev
      BY <1>1 DEF kiosk_send, Claimed
    <3> QED
      BY <1>1, <1>5, <2>1, <2>3, <3>1 DEF Uncut, Reaches, Comes, HasClaim
  <2> QED
    BY <2>2, <2>3
<1> QED
  BY <1>3, <1>4, <1>7, <1>8, <1>9, <1>10 DEF Uncut

\* A claim of a device not yet heard finds room among the others'.
LEMMA Room ==
  ASSUME InTime, TypeOK, Kept, NEW d \in Dev, NEW o \in Dev, o # d, ~HasClaim(d, o)
  PROVE  Len(claims[d]) < NClaim
<1> DEFINE n == Len(claims[d])
           Rest == (Dev \ {d}) \ {o}
           f == [i \in 1 .. n |-> claims[d][i].from]
<1>1. claims[d] \in Seq(Claim) /\ n \in Nat /\ DOMAIN claims[d] = 1 .. n
  BY DEF TypeOK
<1>2. \A i \in 1 .. n : claims[d][i].from \in Rest
  BY <1>1 DEF Kept, HasClaim, Claimed
<1>3. f \in [1 .. n -> Rest]
  BY <1>2
<1>4. \A i, j \in 1 .. n : f[i] = f[j] => i = j
  BY <1>1 DEF Kept
<1>5. f \in Injection(1 .. n, Rest)
  BY <1>3, <1>4 DEF Injection, IsInjective
<1>6. IsFiniteSet(Dev) /\ NClaim \in Nat
  BY KioskAssumption
<1>7. IsFiniteSet(Dev \ {d}) /\ Cardinality(Dev \ {d}) = Cardinality(Dev) - 1
  BY <1>6, FS_RemoveElement
<1>8. IsFiniteSet(Rest) /\ Cardinality(Rest) = Cardinality(Dev) - 2
  <2>1. o \in Dev \ {d}
    OBVIOUS
  <2>2. IsFiniteSet(Rest) /\ Cardinality(Rest) = Cardinality(Dev \ {d}) - 1
    BY <1>7, <2>1, FS_RemoveElement
  <2>3. Cardinality(Dev) \in Nat
    BY <1>6, FS_CardinalityType
  <2> QED
    BY <1>7, <2>2, <2>3
<1>9. IsFiniteSet(1 .. n) /\ Cardinality(1 .. n) = n
  <2>0. 1 \in Int /\ n \in Int
    BY <1>1
  <2>1. Cardinality(1 .. n) = (IF 1 > n THEN 0 ELSE n - 1 + 1) /\ IsFiniteSet(1 .. n)
    BY <2>0, FS_Interval, Zenon
  <2> QED
    BY <1>1, <2>1
<1>10. Cardinality(1 .. n) <= Cardinality(Rest)
  BY <1>5, <1>8, <1>9, FS_Injection, Zenon
<1>11. Cardinality(Dev) \in Nat
  BY <1>6, FS_CardinalityType
<1> QED
  BY <1>1, <1>6, <1>8, <1>9, <1>10, <1>11 DEF InTime

\* A claim that comes is kept, or is a copy of one that is.
LEMMA PacketStep ==
  ASSUME InTime, TypeOK, Uncut, ~cut, NEW p \in air, kiosk_packet(p)
  PROVE  Uncut'
<1> USE Fields
<1>0. Delay \in Nat
  BY KioskAssumption
<1>1. air' = air \ {p} /\ UNCHANGED <<now, rnd, copies, mode, cut>>
  BY DEF kiosk_packet
<1>2. Claimed' = Claimed
  BY <1>1 DEF Claimed
<1>3. /\ p.from \in Claimed /\ p.from \in Dev /\ p.to \in Dev /\ p.to # p.from /\ p.e = rnd[p.from].e
      /\ now <= p.by /\ p.by <= rnd[p.from].at + 2 + Delay
  BY DEF Uncut, Air
<1>4. KioskOne'
  BY <1>1, <1>2 DEF Uncut, KioskOne, Beats
<1>5. Heard' /\ Copies'
  BY <1>1, <1>2 DEF Uncut, Heard, Copies
<1>6. Air'
  BY <1>1, <1>2 DEF Uncut, Air
<1>7. CASE ~mode[p.to] \/ HasClaim(p.to, p.from)
  <2>1. claims' = claims
    BY <1>7 DEF kiosk_packet, HasClaim
  <2>2. Kept'
    BY <1>1, <1>2, <2>1 DEF Uncut, Kept
  <2>3. Reaches'
    <3>1. SUFFICES ASSUME NEW o \in Claimed, NEW t \in Dev, t # o, mode[t]
                   PROVE  copies[o].left > 0 \/ Comes(t, o)' \/ HasClaim(t, o)
      BY <1>1, <1>2, <2>1 DEF Reaches, HasClaim
    <3>2. CASE t = p.to /\ o = p.from
      BY <1>7, <3>1, <3>2
    <3>3. CASE ~(t = p.to /\ o = p.from)
      BY <1>1, <3>1, <3>3 DEF Uncut, Reaches, Comes
    <3> QED
      BY <3>2, <3>3
  <2> QED
    BY <1>4, <1>5, <1>6, <2>2, <2>3 DEF Uncut
<1>8. CASE mode[p.to] /\ ~HasClaim(p.to, p.from)
  <2>1. Len(claims[p.to]) < NClaim
    BY <1>3, <1>8, Room DEF Uncut
  <2>2. PICK m : m = [from |-> p.from, e |-> p.e, at |-> now]
    OBVIOUS
  <2>3. m.from = p.from /\ m.e = p.e /\ m.at = now
    BY <2>2
  <2>4. claims[p.to] \in Seq(Claim) /\ Len(claims[p.to]) \in Nat /\ NClaim \in Nat
    <3>1. claims[p.to] \in Seq(Claim)
      BY <1>3 DEF TypeOK
    <3> QED
      BY <3>1, KioskAssumption
  <2>5. claims' = [claims EXCEPT ![p.to] = Append(claims[p.to], m)]
    <3>1. Len(claims[p.to]) # NClaim
      BY <2>1, <2>4
    <3> QED
      BY <1>8, <2>2, <3>1 DEF kiosk_packet, HasClaim
  <2>6. PICK n \in Nat : n = Len(claims[p.to])
    BY <2>4
  <2>7. m \in Claim
    BY <1>3, <2>2 DEF Claim
  <2>8. /\ \A t \in Dev \ {p.to} : claims'[t] = claims[t]
        /\ claims'[p.to] = Append(claims[p.to], m)
    BY <1>3, <2>5 DEF TypeOK
  <2>9. /\ DOMAIN claims[p.to] = 1 .. n /\ DOMAIN claims'[p.to] = 1 .. (n + 1)
        /\ claims'[p.to][n + 1] = m
        /\ \A i \in 1 .. n : claims'[p.to][i] = claims[p.to][i]
    BY <2>4, <2>6, <2>7, <2>8
  <2>10. Kept'
    <3>1. SUFFICES ASSUME NEW t \in Dev, NEW i \in DOMAIN claims'[t]
                   PROVE  /\ claims'[t][i].from \in Claimed \ {t} /\ claims'[t][i].e = rnd[claims'[t][i].from].e
                          /\ rnd[claims'[t][i].from].at <= claims'[t][i].at
                          /\ claims'[t][i].at <= rnd[claims'[t][i].from].at + 2 + Delay
                          /\ \A j \in DOMAIN claims'[t] : claims'[t][j].from = claims'[t][i].from => i = j
      BY <1>1, <1>2 DEF Kept
    <3>2. CASE t # p.to
      BY <2>8, <3>1, <3>2 DEF Uncut, Kept
    <3>3. CASE t = p.to /\ i \in 1 .. n
      <4>1. claims[t][i].from # p.from
        BY <1>8, <2>9, <3>3 DEF HasClaim
      <4>2. claims'[t][i] = claims[t][i] /\ i \in DOMAIN claims[t]
        BY <2>9, <3>3
      <4>3. \A j \in DOMAIN claims'[t] : claims'[t][j].from = claims'[t][i].from => i = j
        <5>1. SUFFICES ASSUME NEW j \in 1 .. (n + 1), claims'[t][j].from = claims[t][i].from
                       PROVE  i = j
          BY <2>9, <3>3, <4>2
        <5>2. j # n + 1
          BY <2>3, <2>9, <3>3, <4>1, <5>1
        <5>3. j \in 1 .. n
          BY <5>2
        <5>4. claims[t][j].from = claims[t][i].from
          BY <2>9, <3>3, <5>1, <5>3
        <5> QED
          BY <2>9, <3>3, <5>3, <5>4 DEF Uncut, Kept
      <4> QED
        BY <4>2, <4>3 DEF Uncut, Kept
    <3>4. CASE t = p.to /\ i = n + 1
      <4>1. claims'[t][i] = m
        BY <2>9, <3>4
      <4>2. \A j \in 1 .. n : claims'[t][j].from # p.from
        BY <1>8, <2>9, <3>4 DEF HasClaim
      <4>3. \A j \in DOMAIN claims'[t] : claims'[t][j].from = p.from => i = j
        <5>1. SUFFICES ASSUME NEW j \in 1 .. (n + 1), claims'[t][j].from = p.from
                       PROVE  j = n + 1
          BY <2>9, <3>4
        <5> QED
          BY <4>2, <5>1
      <4>4. rnd[p.from].at <= now
        BY <1>3 DEF Uncut, Heard, Claimed
      <4>5. now <= rnd[p.from].at + 2 + Delay
        BY <1>0, <1>3
      <4> QED
        BY <1>3, <2>3, <3>4, <4>1, <4>3, <4>4, <4>5
    <3> QED
      BY <2>9, <3>1, <3>2, <3>3, <3>4
  <2>11. Reaches'
    <3>1. SUFFICES ASSUME NEW o \in Claimed, NEW t \in Dev, t # o, mode[t]
                   PROVE  copies[o].left > 0 \/ Comes(t, o)' \/ HasClaim(t, o)'
      BY <1>1, <1>2 DEF Reaches
    <3>2. CASE t = p.to /\ o = p.from
      BY <2>3, <2>9, <3>2 DEF HasClaim
    <3>3. CASE ~(t = p.to /\ o = p.from)
      <4>1. Comes(t, o) => Comes(t, o)'
        BY <1>1, <3>3 DEF Comes
      <4>2. HasClaim(t, o) => HasClaim(t, o)'
        <5>1. CASE t # p.to
          BY <2>8, <5>1 DEF HasClaim
        <5>2. CASE t = p.to
          <6>1. 1 .. n \subseteq 1 .. (n + 1)
            OBVIOUS
          <6> QED
            BY <2>9, <5>2, <6>1, Zenon DEF HasClaim
        <5> QED
          BY <5>1, <5>2
      <4> QED
        BY <3>1, <4>1, <4>2 DEF Uncut, Reaches
    <3> QED
      BY <3>2, <3>3
  <2> QED
    BY <1>4, <1>5, <1>6, <2>10, <2>11 DEF Uncut
<1> QED
  BY <1>7, <1>8, <1>3 DEF TypeOK

\* A copy lost leaves another one, on its way or to be sent.
LEMMA LostStep ==
  ASSUME TypeOK, Uncut, ~cut, NEW p \in air, Lost(p)
  PROVE  Uncut'
<1> USE Fields
<1>1. air' = air \ {p} /\ UNCHANGED <<now, rnd, claims, copies, mode, cut>>
  BY DEF Lost
<1>2. Claimed' = Claimed
  BY <1>1 DEF Claimed
<1>3. KioskOne'
  BY <1>1, <1>2 DEF Uncut, KioskOne, Beats
<1>4. Heard' /\ Copies' /\ Kept'
  BY <1>1, <1>2 DEF Uncut, Heard, Copies, Kept
<1>5. Air'
  BY <1>1, <1>2 DEF Uncut, Air
<1>6. Reaches'
  <2>1. SUFFICES ASSUME NEW o \in Claimed, NEW t \in Dev, t # o, mode[t]
                 PROVE  copies[o].left > 0 \/ Comes(t, o)' \/ HasClaim(t, o)
    BY <1>1, <1>2 DEF Reaches, HasClaim
  <2>2. CASE t = p.to /\ o = p.from
    BY <1>1, <2>2 DEF Lost, Comes, HasClaim
  <2>3. CASE ~(t = p.to /\ o = p.from)
    BY <1>1, <2>1, <2>3 DEF Uncut, Reaches, Comes
  <2> QED
    BY <2>2, <2>3
<1> QED
  BY <1>3, <1>4, <1>5, <1>6 DEF Uncut

\* When a window is over the claims of all who took part are kept, so the
\* device compares itself with every one of them.
LEMMA DecideKeeps ==
  ASSUME InTime, TypeOK, Uncut, ~cut, NEW d \in Dev, kiosk_decide(d)
  PROVE  Uncut'
<1> USE Fields
<1>0. Window \in Nat /\ Spread \in Nat /\ Delay \in Nat /\ Spread + 2 + Delay < Window /\ Dev \subseteq Int
  BY KioskAssumption DEF InTime
<1>1. rnd[d].how = "open" /\ rnd[d].at + Window <= now /\ UNCHANGED <<now, claims, copies, air, mode, cut>>
  BY <1>0 DEF kiosk_decide
<1>2. PICK h \in {"lost", "won"} :
         /\ h = IF Beaten(d) THEN "lost" ELSE "won"
         /\ rnd' = [rnd EXCEPT ![d] = [at |-> rnd[d].at, e |-> rnd[d].e, how |-> h]]
  BY DecideStep
<1>3. /\ \A o \in Dev : rnd'[o].at = rnd[o].at /\ rnd'[o].e = rnd[o].e
      /\ \A o \in Dev \ {d} : rnd'[o].how = rnd[o].how
      /\ rnd'[d].how = h
  BY <1>2 DEF TypeOK
<1>4. Claimed' = Claimed /\ d \in Claimed
  BY <1>1, <1>2, <1>3 DEF Claimed
<1>5. Heard'
  BY <1>1, <1>2, <1>3, <1>4 DEF Uncut, Heard
<1>6. Copies'
  BY <1>1, <1>3, <1>4 DEF Uncut, Copies
<1>7. Air'
  BY <1>1, <1>3, <1>4 DEF Uncut, Air
<1>8. Kept'
  BY <1>1, <1>3, <1>4 DEF Uncut, Kept
<1>9. Reaches'
  BY <1>1, <1>4 DEF Uncut, Reaches, Comes, HasClaim
<1>10. \A o \in Claimed \ {d} : HasClaim(d, o)
  <2>1. SUFFICES ASSUME NEW o \in Claimed \ {d}
                 PROVE  HasClaim(d, o)
    OBVIOUS
  <2>2. o \in Dev /\ rnd[o].how # "none" /\ mode[d]
    BY <1>4 DEF Claimed, Uncut, Heard
  <2>3. rnd[o].at + 2 + Delay < now
    BY <1>0, <1>1, <2>2 DEF Uncut, Heard
  <2>4. ~(copies[o].left > 0)
    BY <1>0, <2>2, <2>3 DEF Uncut, Copies
  <2>5. ~Comes(d, o)
    BY <1>0, <2>2, <2>3 DEF Uncut, Air, Comes
  <2> QED
    BY <2>2, <2>4, <2>5 DEF Uncut, Reaches
<1>11. \A i \in DOMAIN claims[d] : Abs(claims[d][i].at - rnd[d].at) <= Window
  <2>1. SUFFICES ASSUME NEW i \in DOMAIN claims[d]
                 PROVE  Abs(claims[d][i].at - rnd[d].at) <= Window
    OBVIOUS
  <2>2. PICK o \in Dev : o = claims[d][i].from /\ rnd[o].how # "none"
                         /\ rnd[o].at <= claims[d][i].at /\ claims[d][i].at <= rnd[o].at + 2 + Delay
    BY DEF Uncut, Kept, Claimed
  <2>3. rnd[d].at <= rnd[o].at + Spread /\ rnd[o].at <= rnd[d].at + Spread
    BY <1>1, <2>2 DEF Uncut, Heard
  <2> QED
    BY <1>0, <2>2, <2>3 DEF Abs
<1>12. Beaten(d) <=> \E o \in Claimed \ {d} : Beats([from |-> o, e |-> rnd[o].e], d)
  <2>1. ASSUME Beaten(d)
        PROVE  \E o \in Claimed \ {d} : Beats([from |-> o, e |-> rnd[o].e], d)
    <3>1. PICK i \in DOMAIN claims[d] : Beats(claims[d][i], d)
      BY <2>1, Zenon DEF Beaten
    <3>2. claims[d][i].from \in Claimed \ {d} /\ claims[d][i].e = rnd[claims[d][i].from].e
      BY DEF Uncut, Kept
    <3> QED
      BY <3>1, <3>2 DEF Beats
  <2>2. ASSUME NEW o \in Claimed \ {d}, Beats([from |-> o, e |-> rnd[o].e], d)
        PROVE  Beaten(d)
    <3>1. PICK i \in DOMAIN claims[d] : claims[d][i].from = o
      BY <1>10 DEF HasClaim
    <3>2. claims[d][i].e = rnd[o].e
      BY <3>1 DEF Uncut, Kept
    <3>3. Beats(claims[d][i], d)
      BY <2>2, <3>1, <3>2 DEF Beats
    <3> QED
      BY <1>11, <3>3, Zenon DEF Beaten
  <2> QED
    BY <2>1, <2>2
<1>13. KioskOne'
  <2>1. ASSUME NEW t \in Dev
        PROVE  /\ rnd'[t].how = "won"  => \A o \in Claimed \ {t} : Beats([from |-> t, e |-> rnd[t].e], o)
               /\ rnd'[t].how = "lost" => \E o \in Claimed \ {t} : Beats([from |-> o, e |-> rnd[o].e], t)
    <3>3. CASE t # d
      BY <1>3, <3>3 DEF Uncut, KioskOne
    <3>4. CASE t = d /\ Beaten(d)
      BY <1>2, <1>3, <1>12, <3>4
    <3>5. CASE t = d /\ ~Beaten(d)
      <4>1. ASSUME NEW o \in Claimed \ {d}
            PROVE  Beats([from |-> d, e |-> rnd[d].e], o)
        <5>1. ~Beats([from |-> o, e |-> rnd[o].e], d)
          BY <1>12, <3>5
        <5>2. o \in Dev /\ o # d
          BY DEF Claimed
        <5> QED
          BY <1>0, <5>1, <5>2 DEF Beats
      <4>2. rnd'[t].how = "won"
        BY <1>2, <1>3, <3>5
      <4> QED
        BY <3>5, <4>1, <4>2
    <3> QED
      BY <3>3, <3>4, <3>5
  <2>2. Claimed \subseteq Dev
    BY DEF Claimed
  <2>4. ASSUME NEW t \in Dev
        PROVE  (/\ rnd[t].how = "won"  => \A o \in Claimed \ {t} : Beats([from |-> t, e |-> rnd[t].e], o)
                /\ rnd[t].how = "lost" => \E o \in Claimed \ {t} : Beats([from |-> o, e |-> rnd[o].e], t))'
    BY <1>3, <1>4, <2>1, <2>2 DEF Beats
  <2> QED
    BY <2>4, Zenon DEF KioskOne
<1> QED
  BY <1>5, <1>6, <1>7, <1>8, <1>9, <1>13 DEF Uncut

\* The mode is switched before anyone heard the word.
LEMMA ModeStep ==
  ASSUME TypeOK, ~cut => Uncut, NEW d \in Dev, arb_mode(d), ~cut'
  PROVE  Uncut'
<1> USE Fields
<1>1. ~cut /\ \A o \in Dev : rnd[o].how = "none"
  BY DEF arb_mode
<1>2. Uncut /\ Claimed = {} /\ Claimed' = {} /\ now' = now /\ rnd' = rnd /\ air' = air
  BY <1>1 DEF arb_mode, Claimed
<1>3. \A o \in Dev : copies'[o].left = 0
  <2>1. \A o \in Dev : copies[o].left = 0
    BY <1>2 DEF Uncut, Copies
  <2> QED
    BY <2>1 DEF arb_mode, TypeOK
<1>4. air = {}
  BY <1>2 DEF Uncut, Air
<1>5. \A o \in Dev : DOMAIN claims'[o] = {}
  <2>1. \A o \in Dev : DOMAIN claims[o] = {}
    BY <1>2 DEF Uncut, Kept
  <2> QED
    BY <2>1 DEF arb_mode, TypeOK
<1>6. Heard'
  BY <1>1, <1>2 DEF Heard
<1>7. Copies' /\ Air' /\ Kept' /\ Reaches'
  BY <1>2, <1>3, <1>4, <1>5 DEF Copies, Air, Kept, Reaches
<1>8. KioskOne'
  BY <1>1, <1>2 DEF KioskOne
<1> QED
  BY <1>6, <1>7, <1>8 DEF Uncut

\* Time does not pass what is due.
LEMMA TickStep ==
  ASSUME TypeOK, Uncut, ~cut, Tick
  PROVE  Uncut'
<1> USE Fields
<1>0. Window \in Nat /\ Delay \in Nat
  BY KioskAssumption
<1>1. now' = now + 1 /\ UNCHANGED <<rnd, claims, copies, air, mode, cut>> /\ Claimed' = Claimed
  BY DEF Tick, Claimed
<1>2. KioskOne'
  BY <1>1 DEF Uncut, KioskOne, Beats
<1>3. Heard'
  BY <1>0, <1>1 DEF Uncut, Heard
<1>4. Copies'
  BY <1>1 DEF Uncut, Copies, Tick
<1>5. Air'
  BY <1>1 DEF Uncut, Air, Tick
<1>6. Kept'
  BY <1>1 DEF Uncut, Kept
<1>7. Reaches'
  BY <1>1 DEF Uncut, Reaches, Comes, HasClaim
<1> QED
  BY <1>2, <1>3, <1>4, <1>5, <1>6, <1>7 DEF Uncut

(***************************************************************************)
(* The theorems                                                            *)
(***************************************************************************)

\* The types hold always; in a round no switch of the mode cut, who took part
\* heard the word within Spread, what is sent, on its way and kept are claims
\* that were made, and each is kept by everyone else or will still come
\* (kiosk_claim, kiosk_packet, kiosk_decide, the loop's copies, arb_mode).
THEOREM Invariant ==
  ASSUME InTime
  PROVE  KSpec => []IInv
<1>1. KInit => IInv
  <2>1. SUFFICES ASSUME KInit
                 PROVE  IInv
    OBVIOUS
  <2>2. NoRound \in Round /\ NoRound.how = "none"
    BY DEF NoRound, Round
  <2>3. TypeOK
    <3>1. rnd \in [Dev -> Round]
      BY <2>1, <2>2 DEF KInit
    <3>2. claims \in [Dev -> Seq(Claim)]
      BY <2>1 DEF KInit
    <3>3. [left |-> 0, at |-> 0] \in [left : 0 .. 2, at : Nat]
      OBVIOUS
    <3>4. copies \in [Dev -> [left : 0 .. 2, at : Nat]]
      BY <2>1, <3>3 DEF KInit
    <3> QED
      BY <2>1, <3>1, <3>2, <3>4 DEF KInit, TypeOK
  <2>4. \A d \in Dev : rnd[d].how = "none" /\ copies[d].left = 0 /\ DOMAIN claims[d] = {}
    BY <2>1, <2>2 DEF KInit
  <2>5. Claimed = {} /\ air = {}
    BY <2>1, <2>4 DEF Claimed, KInit
  <2> QED
    BY <2>3, <2>4, <2>5 DEF IInv, Uncut, Heard, Copies, Air, Kept, Reaches, KioskOne
<1>2. IInv /\ [KNext]_kioskvars => IInv'
  <2>1. SUFFICES ASSUME IInv, [KNext]_kioskvars
                 PROVE  IInv'
    OBVIOUS
  <2>2. TypeOK'
    BY <2>1, TypeStep DEF IInv
  <2>3. SUFFICES ASSUME ~cut'
                 PROVE  Uncut'
    BY <2>2 DEF IInv
  <2>4. TypeOK /\ (~cut => Uncut)
    BY <2>1 DEF IInv
  <2>5. CASE \E d \in Dev : arb_mode(d)
    BY <2>3, <2>4, <2>5, ModeStep
  <2>6. CASE UNCHANGED kioskvars
    BY <2>3, <2>4, <2>6 DEF kioskvars, Uncut, Heard, Copies, Air, Kept, Reaches, Comes, HasClaim, KioskOne, Claimed, Beats
  <2>7. ASSUME NEW d \in Dev, kiosk_claim(d) \/ send_copy(d) \/ kiosk_decide(d)
        PROVE  Uncut'
    <3>1. ~cut /\ Uncut
      BY <2>3, <2>4, <2>7 DEF kiosk_claim, send_copy, kiosk_decide
    <3> QED
      BY <2>4, <2>7, <3>1, ClaimStep, CopyStep, DecideKeeps
  <2>8. ASSUME NEW p \in air, kiosk_packet(p) \/ Lost(p)
        PROVE  Uncut'
    <3>1. ~cut /\ Uncut
      BY <2>3, <2>4, <2>8 DEF kiosk_packet, Lost
    <3> QED
      BY <2>4, <2>8, <3>1, PacketStep, LostStep
  <2>9. CASE Tick
    <3>1. ~cut /\ Uncut
      BY <2>3, <2>4, <2>9 DEF Tick
    <3> QED
      BY <2>4, <2>9, <3>1, TickStep
  <2> QED
    BY <2>1, <2>5, <2>6, <2>7, <2>8, <2>9 DEF KNext
<1> QED
  BY <1>1, <1>2, PTL DEF KSpec

\* Of any number of devices that claimed one wake word exactly one answers,
\* the one that heard it best, whichever copies were lost and however long
\* each took within Delay, as long as no switch of the mode cut the round
\* (kiosk_decide on what kiosk_packet kept).
THEOREM KioskHolds ==
  ASSUME InTime
  PROVE  KSpec => []KioskOne
<1>1. IInv => KioskOne
  BY DEF IInv, Uncut, KioskOne
<1> QED
  BY <1>1, Invariant, PTL
=============================================================================
