----------------------------- MODULE DialProofs -----------------------------
(***************************************************************************)
(* What Dial promises, for every timeout and delay and for any number of   *)
(* addresses: types, the time a race holds to, every address getting its   *)
(* share of that time, the two families helping and not disturbing each    *)
(* other, and the error reported.                                          *)
(***************************************************************************)
EXTENDS Dial, Integers, TLAPS

-----------------------------------------------------------------------------
(* Types. *)

\* Every racer stands where dial_with left it: the first family is never held
\* back, the other is not started without addresses and not held back past the
\* delay, and an attempt is at an address there is and not past its end.
RaceOK ==
    /\ addrs["primary"] # <<>>
    /\ racer["primary"] # "waiting"
    /\ addrs["fallback"] = <<>> => racer["fallback"] = "waiting"
    /\ now <= ConnectTimeout
    /\ Held => now <= FallbackDelay
    /\ outcome = "failed" => \A f \in Families : Idle(f)
    /\ \A f \in Families :
          /\ racer[f] = "waiting" => index[f] = 1
          /\ racer[f] = "trying" =>
                /\ index[f] <= Len(addrs[f])
                /\ began[f] <= now /\ now <= ends[f]

RaceInv == TypeOK /\ RaceOK

\* The product of two of the code's times and counts grows with each.
LEMMA ProductMono ==
    ASSUME NEW a \in Nat, NEW b \in Nat, NEW c \in Nat, a <= b
    PROVE  a * c <= b * c
OBVIOUS

LEMMA ProductPred == \A a, c \in Int : (a - 1) * c = a * c - c
OBVIOUS

LEMMA ShareExact ==
    ASSUME NEW r \in Nat, NEW k \in Nat \ {0}
    PROVE  r \div k \in Nat /\ k * (r \div k) <= r
OBVIOUS

LEMMA ShareEnough ==
    ASSUME NEW r \in Nat, NEW k \in Nat \ {0}, NEW m \in Nat, k * m <= r
    PROVE  m <= r \div k
OBVIOUS

LEMMA AddressListsTyped ==
    ASSUME NEW max \in Nat, NEW list \in AddressLists(max)
    PROVE  list \in Seq(Peers)
<1>1. PICK n \in 0..max : list \in [1..n -> Peers]
  BY DEF AddressLists
<1>2. n \in Nat
  OBVIOUS
<1>3. QED
  BY <1>1, <1>2

LEMMA EmptyList ==
    ASSUME NEW list \in Seq(Peers)
    PROVE  list = <<>> <=> Len(list) = 0
OBVIOUS

\* A slice is never negative, never longer than what is left, and no shorter
\* than the least attempt unless less than that is left.
LEMMA SliceBounds ==
    ASSUME RaceInv, NEW f \in Families, racer[f] = "next", ~Exhausted(f)
    PROVE  /\ Slice(f) \in 0..Remaining
           /\ Lesser(MinAttempt, Remaining) <= Slice(f)
           /\ LET left == Len(addrs[f]) - index[f] + 1
              IN  left * MinAttempt <= Remaining =>
                     (left - 1) * MinAttempt <= Remaining - Slice(f)
<1> DEFINE left == Len(addrs[f]) - index[f] + 1
           share == Remaining \div left
<1>0. /\ now \in Nat /\ now < ConnectTimeout
      /\ index[f] \in Nat \ {0} /\ addrs[f] \in Seq(Peers)
      /\ ~(index[f] > Len(addrs[f]))
  <2>1. now \in Nat /\ index[f] \in Nat \ {0} /\ addrs[f] \in Seq(Peers)
    BY DEF RaceInv, TypeOK
  <2>2. ~(index[f] > Len(addrs[f])) /\ ~(now >= ConnectTimeout)
    BY DEF Exhausted
  <2>3. QED
    BY <2>1, <2>2, DialAssumption
<1>1. Remaining \in Nat /\ MinAttempt \in Nat \ {0}
  BY <1>0, DialAssumption DEF Remaining
<1>2. left \in Nat \ {0}
  <2>1. Len(addrs[f]) \in Nat
    BY <1>0
  <2>2. QED
    BY <1>0, <2>1
<1>3. share \in Nat /\ left * share <= Remaining
  BY <1>1, <1>2, ShareExact
<1>4. Slice(f) = Lesser(Greater(share, MinAttempt), Remaining)
  BY DEF Slice
<1> HIDE DEF left, share
<1>5. Slice(f) \in 0..Remaining /\ Lesser(MinAttempt, Remaining) <= Slice(f)
  BY <1>1, <1>3, <1>4 DEF Lesser, Greater
<1>6. ASSUME left * MinAttempt <= Remaining
      PROVE  (left - 1) * MinAttempt <= Remaining - Slice(f)
  <2>1. MinAttempt <= share
    BY <1>1, <1>2, <1>6, ShareEnough DEF share
  <2>2. Slice(f) <= share
    BY <2>1, <1>1, <1>3, <1>4 DEF Lesser, Greater
  <2>3. (left - 1) * share = left * share - share
    BY <1>2, <1>3, ProductPred
  <2>4. (left - 1) * MinAttempt <= (left - 1) * share
    <3>1. left - 1 \in Nat
      BY <1>2
    <3>2. MinAttempt * (left - 1) <= share * (left - 1)
      BY <1>1, <1>3, <2>1, <3>1, ProductMono
    <3>3. QED
      BY <1>1, <1>3, <3>1, <3>2
  <2>5. (left - 1) * share <= Remaining - Slice(f)
    BY <2>2, <2>3, <1>1, <1>2, <1>3, <1>5
  <2>6. (left - 1) * MinAttempt \in Int /\ (left - 1) * share \in Int
    BY <1>1, <1>2, <1>3
  <2>7. QED
    BY <2>4, <2>5, <2>6, <1>1, <1>5
<1>7. QED
  BY <1>5, <1>6 DEF left

\* The types of what a step compares.
LEMMA Typed ==
    ASSUME TypeOK
    PROVE  /\ now \in Nat /\ ConnectTimeout \in Nat \ {0} /\ FallbackDelay \in Nat
           /\ \A f \in Families :
                 /\ Len(addrs[f]) \in Nat
                 /\ index[f] \in Nat \ {0} /\ began[f] \in Nat
                 /\ ends[f] \in Nat /\ ends[f] <= ConnectTimeout
                 /\ racer[f] \in {"waiting", "next", "trying", "failed"}
<1>1. now \in Nat /\ ConnectTimeout \in Nat \ {0} /\ FallbackDelay \in Nat
  BY DialAssumption DEF TypeOK
<1>2. ASSUME NEW f \in Families
      PROVE  /\ addrs[f] \in Seq(Peers) /\ index[f] \in Nat \ {0}
             /\ began[f] \in Nat /\ ends[f] \in 0..ConnectTimeout
             /\ racer[f] \in {"waiting", "next", "trying", "failed"}
  BY DEF TypeOK
<1>3. ASSUME NEW f \in Families PROVE Len(addrs[f]) \in Nat
  BY <1>2
<1>4. ASSUME NEW f \in Families PROVE ends[f] \in Nat /\ ends[f] <= ConnectTimeout
  BY <1>1, <1>2
<1>5. QED
  BY <1>1, <1>2, <1>3, <1>4

LEMMA RaceInit == Init => RaceInv
<1> SUFFICES ASSUME Init PROVE RaceInv
  OBVIOUS
<1>1. /\ addrs \in [Families -> Seq(Peers)]
      /\ addrs["primary"] # <<>>
  <2>1. /\ addrs["primary"] \in AddressLists(MaxPrimaries) \ AddressLists(0)
        /\ addrs["fallback"] \in AddressLists(MaxFallbacks)
        /\ addrs = [f \in Families |-> addrs[f]]
    BY DEF Init, Families
  <2>2. addrs["primary"] \in Seq(Peers) /\ addrs["fallback"] \in Seq(Peers)
    BY <2>1, AddressListsTyped, DialAssumption
  <2>3. <<>> \in AddressLists(0)
    BY DEF AddressLists
  <2>4. QED
    BY <2>1, <2>2, <2>3 DEF Families
<1>2. QED
  BY <1>1, DialAssumption DEF Init, RaceInv, RaceOK, TypeOK, Families, Held, Idle

LEMMA RaceStep == RaceInv /\ [Next]_vars => RaceInv'
<1> SUFFICES ASSUME RaceInv, [Next]_vars PROVE RaceInv'
  OBVIOUS
<1>0. TypeOK /\ RaceOK
  BY DEF RaceInv
<1>1. ASSUME NEW f \in Families, Begin(f) PROVE RaceInv'
  <2>1. racer[f] = "next" /\ ~Exhausted(f) /\ now \in Nat /\ ConnectTimeout \in Nat
    BY <1>0, <1>1, Typed DEF Begin
  <2>2. Slice(f) \in 0..Remaining
    BY <2>1, SliceBounds
  <2>3. now + Slice(f) \in 0..ConnectTimeout /\ now <= now + Slice(f)
    BY <2>1, <2>2 DEF Remaining
  <2>4. TypeOK'
    BY <1>0, <1>1, <2>3 DEF Begin, TypeOK
  <2>5. RaceOK'
    <3>1. index[f] <= Len(addrs[f])
      <4>1. ~(index[f] > Len(addrs[f]))
        BY <2>1 DEF Exhausted
      <4>2. index[f] \in Nat /\ Len(addrs[f]) \in Nat
        BY <1>0, Typed
      <4>3. QED
        BY <4>1, <4>2
    <3>2. /\ UNCHANGED <<addrs, now, index, lastErr, outcome>> /\ outcome = "racing"
          /\ racer'[f] = "trying" /\ began'[f] = now /\ ends'[f] = now + Slice(f)
          /\ \A g \in Families \ {f} :
                racer'[g] = racer[g] /\ began'[g] = began[g] /\ ends'[g] = ends[g]
      BY <1>0, <1>1 DEF Begin, Polled, TypeOK
    <3>3. \A g \in Families :
              /\ racer'[g] = "waiting" => index'[g] = 1
              /\ racer'[g] = "trying" =>
                    /\ index'[g] <= Len(addrs'[g])
                    /\ began'[g] <= now' /\ now' <= ends'[g]
      BY <1>0, <2>1, <2>3, <3>1, <3>2 DEF RaceOK
    <3>4. QED
      BY <1>0, <2>1, <3>2, <3>3 DEF RaceOK, Held, Families
  <2>6. QED
    BY <2>4, <2>5 DEF RaceInv
<1>2. ASSUME NEW f \in Families, Connect(f) PROVE RaceInv'
  BY <1>0, <1>2 DEF Connect, RaceInv, RaceOK, Held, Idle, TypeOK, attempt, Polled
<1>3. ASSUME NEW f \in Families, AttemptFails(f) PROVE RaceInv'
  <2>1. TypeOK'
    <3>1. index[f] + 1 \in Nat \ {0}
      BY <1>0, Typed
    <3>2. lastErr' \in [Families -> {"none", "refused", "timed out"}]
      BY <1>0, <1>3 DEF AttemptFails, TypeOK
    <3>3. QED
      BY <1>0, <1>3, <3>1, <3>2 DEF AttemptFails, TypeOK
  <2>2. racer[f] = "trying"
    BY <1>3 DEF AttemptFails, Answered, OutOfTime
  <2>3. RaceOK'
    BY <1>0, <1>3, <2>2, Typed DEF AttemptFails, RaceOK, Held, Idle, Polled, TypeOK, Families
  <2>4. QED
    BY <2>1, <2>3 DEF RaceInv
<1>4. ASSUME NEW f \in Families, RacerFails(f) PROVE RaceInv'
  <2>1. /\ racer[f] = "next" /\ outcome = "racing"
        /\ UNCHANGED <<addrs, now, index, began, ends, lastErr, outcome>>
    BY <1>4 DEF RacerFails, Polled, attempt
  <2>2. /\ racer' \in [Families -> {"waiting", "next", "trying", "failed"}]
        /\ racer'[f] = "failed"
        /\ \A g \in Families \ {f} :
              racer'[g] = racer[g] \/ (g = "fallback" /\ Held /\ racer'[g] = "next")
    <3>1. CASE f = "primary" /\ Held
      <4>1. racer' = [g \in Families |-> IF g = "primary" THEN "failed" ELSE "next"]
        BY <1>4, <3>1 DEF RacerFails, Families
      <4>2. QED
        BY <3>1, <4>1 DEF Families
    <3>2. CASE ~(f = "primary" /\ Held)
      BY <1>0, <1>4, <3>2 DEF RacerFails, TypeOK
    <3>3. QED
      BY <3>1, <3>2
  <2>3. TypeOK'
    BY <1>0, <2>1, <2>2 DEF TypeOK
  <2>4. RaceOK'
    BY <1>0, <2>1, <2>2, Typed DEF RaceOK, Held, Idle, Families
  <2>5. QED
    BY <2>3, <2>4 DEF RaceInv
<1>5. CASE DelayElapsed
  BY <1>0, <1>5 DEF RaceInv, RaceOK, Held, Idle, DelayElapsed, DelayDue, TypeOK, attempt, Families
<1>6. CASE BothFailed
  BY <1>0, <1>6 DEF RaceInv, RaceOK, Held, Idle, BothFailed, TypeOK, attempt, Families
<1>7. CASE Tick
  <2>1. /\ now \in Nat /\ now' = now + 1 /\ outcome = "racing"
        /\ UNCHANGED <<addrs, racer, index, began, ends, lastErr, outcome>>
    BY <1>0, <1>7 DEF Tick, attempt, TypeOK
  <2>2. \A f \in Families : racer[f] # "next" /\ (racer[f] = "trying" => ~(now >= ends[f]))
    BY <1>7 DEF Tick, Ready, OutOfTime
  <2>3. \A f \in Families : racer[f] = "trying" => now < ends[f] /\ now < ConnectTimeout
    BY <1>0, <2>2, Typed
  <2>4. racer["fallback"] = "waiting" /\ addrs["fallback"] # <<>> => now < FallbackDelay
    BY <1>0, <1>7, Typed DEF Tick, DelayDue, Held
  <2>5. now < ConnectTimeout
    <3>1. PICK f \in Families : ~Idle(f)
      BY <1>7 DEF Tick
    <3>2. racer[f] \in {"waiting", "trying"}
      BY <1>0, <2>2, <3>1, Typed DEF Idle
    <3>3. CASE racer[f] = "trying"
      BY <2>3, <3>3
    <3>4. CASE racer[f] = "waiting"
      <4>1. f = "fallback" /\ addrs["fallback"] # <<>>
        BY <1>0, <3>1, <3>4 DEF RaceOK, Idle, Families
      <4>2. QED
        BY <2>1, <2>4, <3>4, <4>1, DialAssumption
    <3>5. QED
      BY <3>2, <3>3, <3>4
  <2>6. TypeOK'
    <3>1. now' \in Nat
      BY <2>1
    <3>2. QED
      BY <1>0, <2>1, <3>1 DEF TypeOK
  <2>7. RaceOK'
    <3>1. now' <= ConnectTimeout /\ (Held' => now' <= FallbackDelay)
      <4>1. now + 1 <= ConnectTimeout /\ (now < FallbackDelay => now + 1 <= FallbackDelay)
        BY <1>0, <2>1, <2>5, Typed
      <4>2. QED
        BY <2>1, <2>4, <4>1 DEF Held
    <3>2. \A f \in Families : racer'[f] = "trying" => began'[f] <= now' /\ now' <= ends'[f]
      BY <1>0, <2>1, <2>3, Typed DEF RaceOK
    <3>3. QED
      BY <1>0, <2>1, <3>1, <3>2 DEF RaceOK
  <2>8. QED
    BY <2>6, <2>7 DEF RaceInv
<1>8. CASE Terminating \/ UNCHANGED vars
  BY <1>0, <1>8 DEF RaceInv, RaceOK, Held, Idle, Terminating, vars, attempt, TypeOK
<1>9. QED
  BY <1>1, <1>2, <1>3, <1>4, <1>5, <1>6, <1>7, <1>8 DEF Next, Racer

LEMMA AddrsFixed == [Next]_vars => addrs' = addrs
BY DEF Next, Racer, Begin, Connect, AttemptFails, RacerFails, DelayElapsed, BothFailed,
       Tick, Terminating, vars

\* An address that is tried is one of the family's.
LEMMA PeerTyped ==
    ASSUME RaceInv, NEW f \in Families, racer[f] = "trying"
    PROVE  index[f] \in 1..Len(addrs[f]) /\ Peer(f) \in Peers
<1>1. index[f] \in Nat \ {0} /\ Len(addrs[f]) \in Nat /\ index[f] <= Len(addrs[f])
  BY Typed DEF RaceInv, RaceOK
<1>2. index[f] \in 1..Len(addrs[f])
  BY <1>1
<1>3. addrs[f] \in Seq(Peers)
  BY DEF RaceInv, TypeOK
<1>4. QED
  BY <1>2, <1>3 DEF Peer

LEMMA RaceInvariant == Spec => []RaceInv
BY RaceInit, RaceStep, PTL DEF Spec

\* Every variable has its type, for any addresses, timeout and delay: no
\* attempt is given time past the deadline.
THEOREM TypeCorrect == Spec => []TypeOK
BY RaceInvariant, PTL DEF RaceInv

\* dial_with and dial_serial never outlast the connect timeout.
THEOREM Budget == Spec => []WithinBudget
<1>1. RaceInv => WithinBudget
  BY DEF RaceInv, RaceOK, WithinBudget
<1>2. QED
  BY <1>1, RaceInvariant, PTL

-----------------------------------------------------------------------------
(* Every address gets its share. *)

Start(f) == IF f = "primary" THEN 0 ELSE FallbackDelay

\* The addresses from the one at index on.
Left(f) == Len(addrs[f]) - index[f] + 1

\* The least attempts of a family fit in the time it has.
Fits(f) == Len(addrs[f]) * MinAttempt <= ConnectTimeout - Start(f)

\* What is left is enough for the least attempts of the addresses left, of those
\* after the one tried when it is given up.
ShareOf(f) ==
    /\ racer[f] = "next" => Left(f) * MinAttempt <= Remaining
    /\ racer[f] = "trying" => (Left(f) - 1) * MinAttempt <= ConnectTimeout - ends[f]
    /\ racer[f] = "failed" => index[f] > Len(addrs[f])

Shares == \A f \in Families : Fits(f) => ShareOf(f)

LEMMA SharesInit == Init => Shares
<1> SUFFICES ASSUME Init PROVE Shares
  OBVIOUS
<1>1. RaceInv
  BY RaceInit
<1>2. Len(addrs["primary"]) \in Nat /\ ConnectTimeout \in Nat /\ MinAttempt \in Nat
  BY <1>1, Typed, DialAssumption DEF RaceInv, Families
<1>3. Fits("primary") => Left("primary") * MinAttempt <= Remaining
  <2>1. Left("primary") = Len(addrs["primary"]) /\ Remaining = ConnectTimeout
    BY <1>2 DEF Init, Left, Remaining, Families
  <2>2. Start("primary") = 0
    BY DEF Start
  <2>3. QED
    BY <1>2, <2>1, <2>2 DEF Fits
<1>4. QED
  BY <1>3 DEF Init, Shares, ShareOf, Families

\* The other family has its share when it is started, for one reason or the other.
LEMMA FallbackStarts ==
    ASSUME RaceInv, Held, Fits("fallback")', addrs' = addrs,
           racer'["fallback"] = "next", UNCHANGED <<now, index>>
    PROVE  ShareOf("fallback")'
<1>1. /\ index["fallback"] = 1 /\ now <= FallbackDelay
      /\ now \in Nat /\ ConnectTimeout \in Nat /\ FallbackDelay \in Nat
      /\ Len(addrs["fallback"]) \in Nat
      /\ MinAttempt \in Nat
  BY Typed, DialAssumption DEF RaceInv, RaceOK, Held, Families
<1>2. Left("fallback")' = Len(addrs["fallback"])
  BY <1>1 DEF Left
<1>3. Len(addrs["fallback"]) * MinAttempt <= ConnectTimeout - FallbackDelay
  BY <1>1 DEF Fits, Start
<1>4. Len(addrs["fallback"]) * MinAttempt <= Remaining
  <2>1. Len(addrs["fallback"]) * MinAttempt \in Int
    BY <1>1
  <2>2. QED
    BY <1>1, <1>3, <2>1 DEF Remaining
<1>5. QED
  BY <1>2, <1>4 DEF ShareOf, Remaining

LEMMA SharesStep == RaceInv /\ Shares /\ [Next]_vars => Shares'
<1> SUFFICES ASSUME RaceInv, Shares, [Next]_vars,
                    NEW g \in Families, Fits(g)'
             PROVE  ShareOf(g)'
  BY DEF Shares
<1>0. /\ TypeOK /\ RaceOK /\ addrs' = addrs
      /\ MinAttempt \in Nat \ {0} /\ ConnectTimeout \in Nat /\ now \in Nat
      /\ Left(g) \in Int /\ Len(addrs[g]) \in Nat /\ index[g] \in Nat \ {0}
  <2>1. TypeOK /\ RaceOK /\ addrs' = addrs
    BY DEF RaceInv, Next, Racer, Begin, Connect, AttemptFails, RacerFails, DelayElapsed,
           BothFailed, Tick, Terminating, vars
  <2>2. Len(addrs[g]) \in Nat /\ index[g] \in Nat \ {0}
    BY <2>1, Typed
  <2>3. QED
    BY <2>1, <2>2, Typed, DialAssumption DEF Left
<1>1. Fits(g) /\ ShareOf(g)
  <2>1. Fits(g)
    BY <1>0 DEF Fits
  <2>2. QED
    BY <2>1 DEF Shares
<1>2. ASSUME UNCHANGED <<now, racer[g], index[g], ends[g]>> PROVE ShareOf(g)'
  BY <1>0, <1>1, <1>2 DEF ShareOf, Left, Remaining
<1>3. ASSUME NEW f \in Families, Begin(f) PROVE ShareOf(g)'
  <2>1. CASE f # g
    BY <1>0, <1>2, <1>3, <2>1 DEF Begin, TypeOK
  <2>2. CASE f = g
    <3>1. /\ racer[g] = "next" /\ ~Exhausted(g) /\ racer'[g] = "trying"
          /\ ends'[g] = now + Slice(g) /\ index' = index
      BY <1>0, <1>3, <2>2 DEF Begin, TypeOK
    <3>2. /\ Slice(g) \in 0..Remaining
          /\ (Left(g) - 1) * MinAttempt <= Remaining - Slice(g)
      BY <1>1, <3>1, SliceBounds DEF ShareOf, Left
    <3>3. Remaining - Slice(g) = ConnectTimeout - ends'[g]
      BY <1>0, <3>1, <3>2 DEF Remaining
    <3>4. Left(g)' = Left(g)
      BY <1>0, <3>1 DEF Left
    <3>5. QED
      BY <3>1, <3>2, <3>3, <3>4 DEF ShareOf
  <2>3. QED
    BY <2>1, <2>2
<1>4. ASSUME NEW f \in Families, AttemptFails(f) PROVE ShareOf(g)'
  <2>1. CASE f # g
    BY <1>0, <1>2, <1>4, <2>1 DEF AttemptFails, TypeOK
  <2>2. CASE f = g
    <3>1. /\ racer[g] = "trying" /\ racer'[g] = "next"
          /\ index'[g] = index[g] + 1 /\ now' = now
      BY <1>0, <1>4, <2>2 DEF AttemptFails, Answered, OutOfTime, TypeOK
    <3>2. Left(g)' = Left(g) - 1
      BY <1>0, <3>1 DEF Left
    <3>3. ConnectTimeout - ends[g] <= Remaining /\ ends[g] \in Nat
      <4>1. ends[g] \in Nat /\ now <= ends[g]
        BY <1>0, <3>1, Typed DEF RaceOK
      <4>2. QED
        BY <1>0, <4>1 DEF Remaining
    <3>4. (Left(g) - 1) * MinAttempt <= ConnectTimeout - ends[g]
      BY <1>1, <3>1 DEF ShareOf
    <3>5. (Left(g) - 1) * MinAttempt <= Remaining
      <4>1. (Left(g) - 1) * MinAttempt \in Int /\ Remaining \in Int
        BY <1>0 DEF Remaining
      <4>2. QED
        BY <1>0, <3>3, <3>4, <4>1
    <3>6. QED
      BY <3>1, <3>2, <3>5 DEF ShareOf, Remaining
  <2>3. QED
    BY <2>1, <2>2
<1>5. ASSUME NEW f \in Families, RacerFails(f) PROVE ShareOf(g)'
  <2>1. /\ racer[f] = "next" /\ Exhausted(f)
        /\ UNCHANGED <<now, index, ends>>
    BY <1>5 DEF RacerFails, attempt
  <2>2. CASE f = g
    <3>1. racer'[g] = "failed"
      <4>1. CASE g = "primary" /\ Held
        BY <1>5, <2>2, <4>1 DEF RacerFails
      <4>2. CASE ~(g = "primary" /\ Held)
        BY <1>0, <1>5, <2>2, <4>2 DEF RacerFails, TypeOK
      <4>3. QED
        BY <4>1, <4>2
    <3>2. index[g] > Len(addrs[g])
      <4>1. SUFFICES ASSUME index[g] <= Len(addrs[g]) PROVE FALSE
        BY <1>0
      <4>2. Remaining = 0
        BY <1>0, <2>1, <2>2, <4>1 DEF Exhausted, RaceOK, Remaining
      <4>3. Left(g) \in Nat /\ 1 <= Left(g)
        BY <1>0, <4>1 DEF Left
      <4>4. 1 * MinAttempt <= Left(g) * MinAttempt
        BY <1>0, <4>3, ProductMono
      <4>5. Left(g) * MinAttempt <= 0
        BY <1>1, <2>1, <2>2, <4>2 DEF ShareOf
      <4>6. QED
        BY <1>0, <4>3, <4>4, <4>5
    <3>3. QED
      BY <1>0, <2>1, <3>1, <3>2 DEF ShareOf
  <2>3. CASE f # g /\ racer'[g] = racer[g]
    BY <1>2, <2>1, <2>3
  <2>4. CASE f # g /\ racer'[g] # racer[g]
    <3>1. f = "primary" /\ g = "fallback" /\ Held
      BY <1>0, <1>5, <2>4 DEF RacerFails, TypeOK, Families
    <3>2. racer'[g] = "next"
      BY <1>5, <3>1 DEF RacerFails
    <3>3. QED
      BY <1>0, <2>1, <3>1, <3>2, FallbackStarts
  <2>5. QED
    BY <2>2, <2>3, <2>4
<1>6. CASE DelayElapsed
  <2>1. CASE g = "primary"
    BY <1>0, <1>2, <1>6, <2>1 DEF DelayElapsed, attempt, TypeOK
  <2>2. CASE g = "fallback"
    <3>1. Held /\ racer'[g] = "next" /\ UNCHANGED <<now, index, ends>>
      BY <1>0, <1>6, <2>2 DEF DelayElapsed, DelayDue, attempt, TypeOK
    <3>2. QED
      BY <1>0, <2>2, <3>1, FallbackStarts
  <2>3. QED
    BY <2>1, <2>2 DEF Families
<1>7. CASE Tick
  <2>1. racer[g] # "next" /\ UNCHANGED <<racer, index, ends>>
    BY <1>7 DEF Tick, Ready, attempt
  <2>2. QED
    BY <1>0, <1>1, <2>1 DEF ShareOf, Left
<1>8. CASE UNCHANGED vars \/ Terminating \/ BothFailed \/ \E f \in Families : Connect(f)
  BY <1>2, <1>8 DEF vars, Terminating, BothFailed, Connect, attempt
<1>9. QED
  BY <1>3, <1>4, <1>5, <1>6, <1>7, <1>8 DEF Next, Racer

\* A dial that fails has tried every address of a family whose least attempts
\* fit the time it had, whatever became of the addresses before.
THEOREM NoneUnheard == Spec => []EveryAddressTried
<1>1. Spec => []Shares
  BY SharesInit, SharesStep, RaceInvariant, PTL DEF Spec
<1>2. RaceInv /\ Shares => EveryAddressTried
  <2> SUFFICES ASSUME RaceInv, Shares, outcome = "failed"
               PROVE  /\ ConnectTimeout >= Len(addrs["primary"]) * MinAttempt
                            => index["primary"] > Len(addrs["primary"])
                      /\ ConnectTimeout - FallbackDelay >= Len(addrs["fallback"]) * MinAttempt
                            => index["fallback"] > Len(addrs["fallback"])
    BY DEF EveryAddressTried
  <2>1. /\ \A f \in Families : Len(addrs[f]) \in Nat /\ addrs[f] \in Seq(Peers)
        /\ \A f \in Families : index[f] \in Nat \ {0}
        /\ \A f \in Families : Idle(f)
        /\ ConnectTimeout \in Nat /\ MinAttempt \in Nat /\ FallbackDelay \in Nat
    BY Typed, DialAssumption DEF RaceInv, RaceOK, TypeOK
  <2>2. racer["primary"] = "failed" /\ (racer["fallback"] = "failed" \/ addrs["fallback"] = <<>>)
    BY <2>1 DEF Idle, Families
  <2>3. ASSUME ConnectTimeout >= Len(addrs["primary"]) * MinAttempt
        PROVE  index["primary"] > Len(addrs["primary"])
    <3>1. Fits("primary")
      BY <2>1, <2>3 DEF Fits, Start, Families
    <3>2. QED
      BY <2>2, <3>1 DEF Shares, ShareOf, Families
  <2>4. ASSUME ConnectTimeout - FallbackDelay >= Len(addrs["fallback"]) * MinAttempt
        PROVE  index["fallback"] > Len(addrs["fallback"])
    <3>1. Fits("fallback")
      <4>1. Start("fallback") = FallbackDelay
        BY DEF Start
      <4>2. Len(addrs["fallback"]) * MinAttempt \in Int
        BY <2>1 DEF Families
      <4>3. QED
        BY <2>1, <2>4, <4>1, <4>2 DEF Fits
    <3>2. CASE racer["fallback"] = "failed"
      BY <3>1, <3>2 DEF Shares, ShareOf, Families
    <3>3. CASE addrs["fallback"] = <<>>
      <4>1. Len(addrs["fallback"]) = 0
        BY <3>3
      <4>2. index["fallback"] \in Nat \ {0}
        BY <2>1 DEF Families
      <4>3. QED
        BY <4>1, <4>2
    <3>4. QED
      BY <2>2, <3>2, <3>3
  <2>5. QED
    BY <2>3, <2>4
<1>3. QED
  BY <1>1, <1>2, RaceInvariant, PTL

-----------------------------------------------------------------------------
(* The two families. *)

\* While the first family is not out of the race, the other runs beside it only
\* from the end of the delay on, and then the first had no answer.
AloneHold ==
    racer["fallback"] # "waiting" /\ racer["primary"] # "failed" =>
        /\ FallbackDelay <= now
        /\ now = FallbackDelay => ~Ready("primary")

LEMMA AloneStep == RaceInv /\ AloneHold /\ [Next]_vars => AloneHold'
<1> SUFFICES ASSUME RaceInv, AloneHold, [Next]_vars PROVE AloneHold'
  OBVIOUS
<1>0. TypeOK /\ RaceOK /\ addrs' = addrs
  BY AddrsFixed DEF RaceInv
<1>1. ASSUME Ready("primary"), UNCHANGED now,
             racer["primary"] # "failed",
             racer'["fallback"] # "waiting" => racer["fallback"] # "waiting"
      PROVE  AloneHold'
  BY <1>0, <1>1, Typed DEF AloneHold
<1>2. ASSUME UNCHANGED <<now, racer["primary"], index["primary"], began["primary"],
                         ends["primary"]>>,
             racer'["fallback"] # "waiting" => racer["fallback"] # "waiting"
      PROVE  AloneHold'
  BY <1>0, <1>2 DEF AloneHold, Ready, Answered, OutOfTime, Peer
<1>3. ASSUME NEW f \in Families, Begin(f) PROVE AloneHold'
  <2>1. CASE f = "primary"
    BY <1>0, <1>1, <1>3, <2>1 DEF Begin, Ready, TypeOK, Families
  <2>2. CASE f = "fallback"
    BY <1>0, <1>2, <1>3, <2>2 DEF Begin, TypeOK, Families
  <2>3. QED
    BY <2>1, <2>2 DEF Families
<1>4. ASSUME NEW f \in Families, AttemptFails(f) PROVE AloneHold'
  <2>1. CASE f = "primary"
    BY <1>0, <1>1, <1>4, <2>1 DEF AttemptFails, Ready, Answered, OutOfTime, TypeOK, Families
  <2>2. CASE f = "fallback"
    BY <1>0, <1>2, <1>4, <2>2 DEF AttemptFails, Answered, OutOfTime, TypeOK, Families
  <2>3. QED
    BY <2>1, <2>2 DEF Families
<1>5. ASSUME NEW f \in Families, RacerFails(f) PROVE AloneHold'
  <2>1. CASE f = "primary"
    <3>1. racer'["primary"] = "failed"
      <4>1. CASE Held
        BY <1>5, <2>1, <4>1 DEF RacerFails
      <4>2. CASE ~Held
        BY <1>0, <1>5, <2>1, <4>2 DEF RacerFails, TypeOK, Families
      <4>3. QED
        BY <4>1, <4>2
    <3>2. QED
      BY <3>1 DEF AloneHold
  <2>2. CASE f = "fallback"
    BY <1>0, <1>2, <1>5, <2>2 DEF RacerFails, attempt, TypeOK, Families
  <2>3. QED
    BY <2>1, <2>2 DEF Families
<1>6. CASE DelayElapsed
  <2>1. /\ now >= FallbackDelay /\ ~Ready("primary")
        /\ racer' = [racer EXCEPT !["fallback"] = "next"]
        /\ UNCHANGED <<now, index, began, ends>>
    BY <1>6 DEF DelayElapsed, DelayDue, attempt
  <2>2. racer'["primary"] = racer["primary"]
    BY <1>0, <2>1 DEF TypeOK, Families
  <2>3. ~Ready("primary")'
    BY <1>0, <2>1, <2>2 DEF Ready, Answered, OutOfTime, Peer
  <2>4. FallbackDelay <= now'
    BY <1>0, <2>1, Typed
  <2>5. QED
    BY <2>3, <2>4 DEF AloneHold
<1>7. CASE Tick
  <2>1. now' = now + 1 /\ racer' = racer
    BY <1>7 DEF Tick
  <2>2. QED
    BY <1>0, <2>1, Typed DEF AloneHold
<1>8. CASE UNCHANGED vars \/ Terminating \/ BothFailed \/ \E f \in Families : Connect(f)
  BY <1>2, <1>8 DEF vars, Terminating, BothFailed, Connect, attempt
<1>9. QED
  BY <1>3, <1>4, <1>5, <1>6, <1>7, <1>8 DEF Next, Racer

After == addrs["fallback"][1].after

\* The other family's first address accepts in time.
Rescuer ==
    /\ addrs["fallback"] # <<>>
    /\ addrs["fallback"][1].does = "accepts"
    /\ After <= Lesser(MinAttempt, ConnectTimeout - FallbackDelay)

\* Then that address is tried by the end of the delay, and for long enough.
RescueHold ==
    Rescuer =>
        /\ index["fallback"] = 1
        /\ racer["fallback"] # "failed"
        /\ racer["fallback"] \in {"waiting", "next"} => now <= FallbackDelay
        /\ racer["fallback"] = "trying" =>
              /\ began["fallback"] <= FallbackDelay
              /\ now <= began["fallback"] + After
              /\ began["fallback"] + After <= ends["fallback"]

LEMMA AfterTyped == ASSUME RaceInv, Rescuer PROVE After \in Nat
<1>1. addrs["fallback"] \in Seq(Peers) /\ addrs["fallback"] # <<>>
  BY DEF RaceInv, TypeOK, Families, Rescuer
<1>2. addrs["fallback"][1] \in Peers
  BY <1>1
<1>3. QED
  BY <1>2, DialAssumption DEF After, Peers

LEMMA RescueStep == RaceInv /\ RescueHold /\ [Next]_vars => RescueHold'
<1> SUFFICES ASSUME RaceInv, RescueHold, [Next]_vars, Rescuer' PROVE RescueHold'
  BY DEF RescueHold
<1>0. /\ TypeOK /\ RaceOK /\ addrs' = addrs /\ Rescuer
      /\ After \in Nat /\ After' = After /\ now \in Nat
      /\ ConnectTimeout \in Nat /\ FallbackDelay \in Nat /\ MinAttempt \in Nat
      /\ FallbackDelay < ConnectTimeout
  BY AddrsFixed, AfterTyped, Typed, DialAssumption DEF RaceInv, Rescuer, After
<1>1. /\ index["fallback"] = 1
      /\ racer["fallback"] # "failed"
      /\ racer["fallback"] \in {"waiting", "next"} => now <= FallbackDelay
      /\ racer["fallback"] = "trying" =>
            /\ began["fallback"] <= FallbackDelay
            /\ now <= began["fallback"] + After
            /\ began["fallback"] + After <= ends["fallback"]
  BY <1>0 DEF RescueHold
<1>2. ASSUME UNCHANGED <<now, racer["fallback"], index["fallback"], began["fallback"],
                         ends["fallback"]>>
      PROVE  RescueHold'
  BY <1>0, <1>1, <1>2 DEF RescueHold
<1>3. ASSUME NEW f \in Families, Begin(f) PROVE RescueHold'
  <2>1. CASE f = "primary"
    BY <1>0, <1>2, <1>3, <2>1 DEF Begin, TypeOK, Families
  <2>2. CASE f = "fallback"
    <3>1. /\ racer["fallback"] = "next" /\ ~Exhausted("fallback")
          /\ racer'["fallback"] = "trying" /\ began'["fallback"] = now
          /\ ends'["fallback"] = now + Slice("fallback")
          /\ UNCHANGED <<now, index>>
      BY <1>0, <1>3, <2>2 DEF Begin, TypeOK
    <3>2. Lesser(MinAttempt, Remaining) <= Slice("fallback") /\ Slice("fallback") \in 0..Remaining
      BY <3>1, SliceBounds DEF Families
    <3>3. Remaining = ConnectTimeout - now /\ now <= FallbackDelay
      BY <1>1, <3>1 DEF Remaining
    <3>4. After <= Slice("fallback")
      <4>1. After <= Lesser(MinAttempt, ConnectTimeout - FallbackDelay)
        BY <1>0 DEF Rescuer
      <4>2. QED
        BY <1>0, <3>2, <3>3, <4>1 DEF Lesser
    <3>5. Slice("fallback") \in Nat
      BY <1>0, <3>2, <3>3
    <3>6. now <= now + After /\ now + After <= now + Slice("fallback")
      BY <1>0, <3>4, <3>5
    <3>7. QED
      BY <1>0, <1>1, <3>1, <3>3, <3>6 DEF RescueHold
  <2>3. QED
    BY <2>1, <2>2 DEF Families
<1>4. ASSUME NEW f \in Families, AttemptFails(f) PROVE RescueHold'
  <2>1. CASE f = "primary"
    BY <1>0, <1>2, <1>4, <2>1 DEF AttemptFails, TypeOK, Families
  <2>2. CASE f = "fallback"
    <3>1. racer["fallback"] = "trying"
      BY <1>4, <2>2 DEF AttemptFails, Answered, OutOfTime
    <3>2. Peer("fallback").does = "accepts" /\ Peer("fallback").after = After
      BY <1>0, <1>1 DEF Peer, Rescuer, After
    <3>3. ~Answered("fallback") /\ now >= ends["fallback"]
      BY <1>4, <2>2, <3>2 DEF AttemptFails, OutOfTime
    <3>4. ~(now >= began["fallback"] + After)
      BY <3>1, <3>2, <3>3 DEF Answered
    <3>5. began["fallback"] \in Nat /\ ends["fallback"] \in Nat
      BY <1>0, Typed DEF Families
    <3>6. QED
      BY <1>0, <1>1, <3>1, <3>3, <3>4, <3>5
  <2>3. QED
    BY <2>1, <2>2 DEF Families
<1>5. ASSUME NEW f \in Families, RacerFails(f) PROVE RescueHold'
  <2>1. CASE f = "primary" /\ Held
    <3>1. racer["fallback"] = "waiting" /\ racer'["fallback"] = "next" /\ UNCHANGED <<now, index>>
      BY <1>5, <2>1 DEF RacerFails, Held, attempt
    <3>2. QED
      BY <1>0, <1>1, <3>1 DEF RescueHold
  <2>2. CASE f = "primary" /\ ~Held
    BY <1>0, <1>2, <1>5, <2>2 DEF RacerFails, attempt, TypeOK, Families
  <2>3. CASE f = "fallback"
    <3>1. racer["fallback"] = "next" /\ Exhausted("fallback")
      BY <1>5, <2>3 DEF RacerFails
    <3>2. Len(addrs["fallback"]) \in Nat /\ Len(addrs["fallback"]) # 0
      <4>1. addrs["fallback"] \in Seq(Peers) /\ addrs["fallback"] # <<>>
        BY <1>0 DEF TypeOK, Families, Rescuer
      <4>2. QED
        BY <4>1
    <3>3. QED
      BY <1>0, <1>1, <3>1, <3>2 DEF Exhausted
  <2>4. QED
    BY <2>1, <2>2, <2>3 DEF Families
<1>6. CASE DelayElapsed
  <2>1. racer["fallback"] = "waiting" /\ racer'["fallback"] = "next" /\ UNCHANGED <<now, index>>
    BY <1>0, <1>6 DEF DelayElapsed, DelayDue, Held, attempt, TypeOK, Families
  <2>2. QED
    BY <1>0, <1>1, <2>1 DEF RescueHold
<1>7. CASE Tick
  <2>1. /\ now' = now + 1 /\ ~Ready("fallback") /\ ~DelayDue
        /\ UNCHANGED <<racer, index, began, ends>>
    BY <1>7 DEF Tick, attempt, Families
  <2>2. CASE racer["fallback"] = "waiting"
    <3>1. ~(now >= FallbackDelay)
      BY <1>0, <2>1, <2>2 DEF DelayDue, Held, Rescuer
    <3>2. now + 1 <= FallbackDelay
      BY <1>0, <3>1
    <3>3. QED
      BY <1>0, <1>1, <2>1, <2>2, <3>2 DEF RescueHold
  <2>3. CASE racer["fallback"] = "trying"
    <3>1. Peer("fallback").does = "accepts" /\ Peer("fallback").after = After
      BY <1>0, <1>1 DEF Peer, Rescuer, After
    <3>2. ~(now >= began["fallback"] + After)
      BY <2>1, <2>3, <3>1 DEF Ready, Answered
    <3>3. began["fallback"] \in Nat
      BY <1>0, Typed DEF Families
    <3>4. now + 1 <= began["fallback"] + After
      BY <1>0, <3>2, <3>3
    <3>5. QED
      BY <1>0, <1>1, <2>1, <2>3, <3>4 DEF RescueHold
  <2>4. QED
    BY <1>0, <1>1, <2>1, <2>2, <2>3, Typed DEF Ready, Families
<1>8. CASE UNCHANGED vars \/ Terminating \/ BothFailed \/ \E f \in Families : Connect(f)
  BY <1>2, <1>8 DEF vars, Terminating, BothFailed, Connect, attempt
<1>9. QED
  BY <1>3, <1>4, <1>5, <1>6, <1>7, <1>8 DEF Next, Racer

\* The families race to the user's good, whatever their addresses do: one that
\* hangs does not hold the other back, one that answers in time is alone.
THEOREM Race == Spec => []FamiliesRace
<1>1. Init => AloneHold /\ RescueHold
  BY DialAssumption DEF Init, AloneHold, RescueHold, Families
<1>2. Spec => [](AloneHold /\ RescueHold)
  BY <1>1, AloneStep, RescueStep, RaceInvariant, PTL DEF Spec
<1>3. RaceInv /\ AloneHold => FirstFamilyAlone
  <2> SUFFICES ASSUME RaceInv, AloneHold, now <= FallbackDelay,
                      racer["primary"] = "trying", Answered("primary")
               PROVE  racer["fallback"] = "waiting"
    BY DEF FirstFamilyAlone
  <2>1. now \in Nat /\ FallbackDelay \in Nat /\ Ready("primary")
    BY Typed DEF RaceInv, Ready
  <2>2. FallbackDelay <= now => now = FallbackDelay
    BY <2>1
  <2>3. QED
    BY <2>1, <2>2 DEF AloneHold
<1>4. RaceInv /\ RescueHold => OtherFamilyRescues
  <2> SUFFICES ASSUME RaceInv, RescueHold, Rescuer, now > FallbackDelay + After
               PROVE  FALSE
    BY DEF OtherFamilyRescues, Rescuer, After
  <2>1. /\ After \in Nat /\ now \in Nat /\ FallbackDelay \in Nat
        /\ began["fallback"] \in Nat
        /\ racer["fallback"] \in {"waiting", "next", "trying", "failed"}
    BY AfterTyped, Typed DEF RaceInv, Families
  <2>2. now <= FallbackDelay \/ (began["fallback"] <= FallbackDelay
                                /\ now <= began["fallback"] + After)
    BY <2>1 DEF RescueHold
  <2>3. QED
    BY <2>1, <2>2
<1>5. QED
  BY <1>2, <1>3, <1>4, RaceInvariant, PTL DEF FamiliesRace

-----------------------------------------------------------------------------
(* The error. *)

First == addrs["primary"]

FirstHangs == \A i \in 1..Len(First) : First[i].does = "hangs"
FirstRefuses == \A i \in 1..Len(First) : First[i] = [does |-> "refuses", after |-> 0]

\* What the first family's addresses do shows in its error, and one that is
\* refused at once is through with them before any time passes.
ErrorsHold ==
    /\ FirstHangs => lastErr["primary"] # "refused"
    /\ FirstRefuses =>
          /\ lastErr["primary"] # "timed out"
          /\ index["primary"] > 1 => lastErr["primary"] = "refused"
          /\ racer["primary"] = "failed" => index["primary"] > 1
          /\ racer["primary"] # "failed" => now = 0

LEMMA ErrorsInit == Init => ErrorsHold
BY DEF Init, ErrorsHold, Families

LEMMA ErrorsStep == RaceInv /\ ErrorsHold /\ [Next]_vars => ErrorsHold'
<1> SUFFICES ASSUME RaceInv, ErrorsHold, [Next]_vars PROVE ErrorsHold'
  OBVIOUS
<1>0. /\ TypeOK /\ RaceOK /\ addrs' = addrs
      /\ FirstHangs' = FirstHangs /\ FirstRefuses' = FirstRefuses
  BY AddrsFixed DEF RaceInv, First, FirstHangs, FirstRefuses
<1>1. ASSUME UNCHANGED <<now, lastErr["primary"], index["primary"]>>,
             racer'["primary"] = "failed" <=> racer["primary"] = "failed"
      PROVE  ErrorsHold'
  BY <1>0, <1>1 DEF ErrorsHold
<1>2. ASSUME NEW f \in Families, Begin(f) PROVE ErrorsHold'
  BY <1>0, <1>1, <1>2 DEF Begin, TypeOK, Families
<1>3. ASSUME NEW f \in Families, AttemptFails(f) PROVE ErrorsHold'
  <2>1. CASE f = "fallback"
    BY <1>0, <1>1, <1>3, <2>1 DEF AttemptFails, TypeOK, Families
  <2>2. CASE f = "primary"
    <3>1. /\ racer["primary"] = "trying" /\ racer'["primary"] = "next"
          /\ now' = now /\ "primary" \in Families
      BY <1>0, <1>3, <2>2 DEF AttemptFails, Answered, OutOfTime, TypeOK, Families
    <3>2. index["primary"] \in 1..Len(First) /\ Peer("primary") = First[index["primary"]]
      BY <3>1, PeerTyped DEF First, Peer
    <3>3. ASSUME FirstHangs PROVE lastErr'["primary"] # "refused"
      <4>1. ~(Peer("primary").does = "refuses")
        BY <3>2, <3>3 DEF FirstHangs
      <4>2. lastErr' = [lastErr EXCEPT !["primary"] = "timed out"]
        BY <1>3, <2>2, <4>1 DEF AttemptFails
      <4>3. QED
        BY <1>0, <3>1, <4>2 DEF TypeOK
    <3>4. ASSUME FirstRefuses PROVE lastErr'["primary"] = "refused"
      <4>1. Peer("primary").does = "refuses" /\ Peer("primary").after = 0
        BY <3>2, <3>4 DEF FirstRefuses
      <4>2. Answered("primary")
        <5>1. now >= began["primary"] + 0
          BY <1>0, <3>1, Typed DEF RaceOK
        <5>2. QED
          BY <3>1, <4>1, <5>1 DEF Answered
      <4>3. lastErr' = [lastErr EXCEPT !["primary"] = "refused"]
        BY <1>3, <2>2, <4>2 DEF AttemptFails
      <4>4. QED
        BY <1>0, <3>1, <4>3 DEF TypeOK
    <3>5. QED
      BY <1>0, <3>1, <3>3, <3>4 DEF ErrorsHold
  <2>3. QED
    BY <2>1, <2>2 DEF Families
<1>4. ASSUME NEW f \in Families, RacerFails(f) PROVE ErrorsHold'
  <2>1. racer[f] = "next" /\ Exhausted(f) /\ UNCHANGED <<now, index, lastErr>>
    BY <1>4 DEF RacerFails, attempt
  <2>2. CASE f = "fallback"
    <3>1. racer'["primary"] = racer["primary"]
      BY <1>0, <1>4, <2>2 DEF RacerFails, TypeOK, Families
    <3>2. QED
      BY <1>1, <2>1, <3>1
  <2>3. CASE f = "primary"
    <3>1. /\ Len(First) \in Nat /\ Len(First) # 0
          /\ index["primary"] \in Nat /\ ConnectTimeout \in Nat \ {0} /\ now \in Nat
      <4>1. First \in Seq(Peers) /\ First # <<>>
        BY <1>0 DEF TypeOK, RaceOK, First, Families
      <4>2. Len(First) \in Nat /\ Len(First) # 0
        BY <4>1
      <4>3. QED
        BY <1>0, <4>2, Typed DEF Families
    <3>2. FirstRefuses => now = 0
      BY <2>1, <2>3 DEF ErrorsHold
    <3>3. FirstRefuses => index["primary"] > 1
      BY <2>1, <2>3, <3>1, <3>2 DEF Exhausted, First
    <3>4. racer'["primary"] = "failed"
      <4>1. CASE Held
        BY <1>4, <2>3, <4>1 DEF RacerFails
      <4>2. CASE ~Held
        BY <1>0, <1>4, <2>3, <4>2 DEF RacerFails, TypeOK, Families
      <4>3. QED
        BY <4>1, <4>2
    <3>5. QED
      BY <1>0, <2>1, <3>3, <3>4 DEF ErrorsHold
  <2>4. QED
    BY <2>2, <2>3 DEF Families
<1>5. CASE DelayElapsed
  BY <1>0, <1>1, <1>5 DEF DelayElapsed, attempt, TypeOK, Families
<1>6. CASE Tick
  <2>1. ~Ready("primary") /\ UNCHANGED <<racer, index, lastErr>>
    BY <1>6 DEF Tick, attempt, Families
  <2>2. ASSUME FirstRefuses PROVE racer["primary"] = "failed"
    <3>1. SUFFICES ASSUME racer["primary"] = "trying" PROVE FALSE
      BY <1>0, <2>1, Typed DEF RaceOK, Ready, Families
    <3>2. index["primary"] \in 1..Len(First) /\ Peer("primary") = First[index["primary"]]
      BY <3>1, PeerTyped DEF First, Peer, Families
    <3>3. Peer("primary").does = "refuses" /\ Peer("primary").after = 0
      BY <2>2, <3>2 DEF FirstRefuses
    <3>4. now >= began["primary"] + 0
      BY <1>0, <3>1, Typed DEF RaceOK, Families
    <3>5. QED
      BY <2>1, <3>1, <3>3, <3>4 DEF Ready, Answered
  <2>3. QED
    BY <1>0, <2>1, <2>2 DEF ErrorsHold
<1>7. CASE UNCHANGED vars \/ Terminating \/ BothFailed \/ \E f \in Families : Connect(f)
  BY <1>1, <1>7 DEF vars, Terminating, BothFailed, Connect, attempt
<1>8. QED
  BY <1>2, <1>3, <1>4, <1>5, <1>6, <1>7 DEF Next, Racer

\* The error a dial ends with tells what the first family's addresses did,
\* whatever the other family's did and whenever it failed.
THEOREM FirstError == Spec => []FirstErrorReported
<1>1. Spec => []ErrorsHold
  BY ErrorsInit, ErrorsStep, RaceInvariant, PTL DEF Spec
<1>2. RaceInv /\ ErrorsHold => FirstErrorReported
  <2> SUFFICES ASSUME RaceInv, ErrorsHold, outcome = "failed"
               PROVE  /\ FirstHangs => Reported = "timed out"
                      /\ FirstRefuses => Reported = "refused"
    BY DEF FirstErrorReported, FirstHangs, FirstRefuses, First
  <2>1. racer["primary"] = "failed"
    BY DEF RaceInv, RaceOK, Idle, Families
  <2>2. lastErr["primary"] \in {"none", "refused", "timed out"}
    BY DEF RaceInv, TypeOK, Families
  <2>3. QED
    BY <2>1, <2>2 DEF ErrorsHold, Reported
<1>3. QED
  BY <1>1, <1>2, RaceInvariant, PTL
=============================================================================
