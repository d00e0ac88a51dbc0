-------------------------------- MODULE Dial --------------------------------
(***************************************************************************)
(* Reaching a host: dial_with races the two address families, each tried   *)
(* address by address by dial_serial, under one deadline.  All of it runs  *)
(* in one task that a biased select! polls in a fixed order, so the model  *)
(* is deterministic once the peers are: within an instant the first family *)
(* runs until it must wait, then the other, then the fallback delay; only  *)
(* then does time pass.  A connection attempt belongs to the future that   *)
(* made it, and is cancelled with it.                                      *)
(***************************************************************************)
EXTENDS Naturals, Sequences

CONSTANTS
    ConnectTimeout,     \* CONNECT_TIMEOUT, the budget for the host
    FallbackDelay,      \* FALLBACK_DELAY
    MinAttempt,         \* MIN_ATTEMPT
    MaxPrimaries,       \* bound: addresses of the first address's family
    MaxFallbacks,       \* bound: addresses of the other family
    MaxAfter            \* bound: how late a peer that answers does so

ASSUME DialAssumption ==
    /\ ConnectTimeout \in Nat \ {0}
    /\ FallbackDelay \in Nat /\ FallbackDelay < ConnectTimeout
    /\ MinAttempt \in Nat \ {0}
    /\ MaxPrimaries \in Nat \ {0}
    /\ MaxFallbacks \in Nat
    /\ MaxAfter \in Nat

Families == {"primary", "fallback"}

\* What an address does: connect_one succeeds or fails (a refusal, a socket
\* option or a source address of the other family) so long after it began.
Peers == [does : {"accepts", "refuses"}, after : 0..MaxAfter]
            \cup {[does |-> "hangs", after |-> 0]}

AddressLists(max) == UNION {[1..n -> Peers] : n \in 0..max}

VARIABLES
    addrs,      \* per family, its addresses in the resolver's order, fixed
    now,        \* time since the dial began
    racer,      \* per family: "waiting", "next", "trying" or "failed"
    index,      \* per family: the address tried or about to be
    began,      \* per family: when the latest attempt began
    ends,       \* per family: when it is given up
    lastErr,    \* per family: last_err
    outcome     \* "racing", "connected" or "failed"

attempt == <<index, began, ends, lastErr>>
vars == <<addrs, now, racer, attempt, outcome>>

\* dial_with is given at least one address: resolve never returns none.
Init ==
    /\ addrs \in [primary : AddressLists(MaxPrimaries) \ AddressLists(0),
                  fallback : AddressLists(MaxFallbacks)]
    /\ now = 0
    /\ racer = [primary |-> "next", fallback |-> "waiting"]
    /\ index = [f \in Families |-> 1]
    /\ began = [f \in Families |-> 0]
    /\ ends = [f \in Families |-> 0]
    /\ lastErr = [f \in Families |-> "none"]
    /\ outcome = "racing"

Lesser(a, b) == IF a <= b THEN a ELSE b
Greater(a, b) == IF a >= b THEN a ELSE b

-----------------------------------------------------------------------------
(* dial_serial *)

Remaining == ConnectTimeout - now

\* Bug: an address gets all that is left, not its share.
SliceOfAll(f) == Remaining

\* Bug: MIN_ATTEMPT is granted past the deadline.
SlicePastDeadline(f) ==
    Greater(Remaining \div (Len(addrs[f]) - index[f] + 1), MinAttempt)

\* The time the address at index is given.
Slice(f) ==
    Lesser(Greater(Remaining \div (Len(addrs[f]) - index[f] + 1), MinAttempt),
           Remaining)

Peer(f) == addrs[f][index[f]]

\* The attempt has an answer, which counts even at the instant it is given up.
Answered(f) ==
    /\ racer[f] = "trying"
    /\ Peer(f).does # "hangs"
    /\ now >= began[f] + Peer(f).after

OutOfTime(f) ==
    /\ racer[f] = "trying"
    /\ now >= ends[f]

\* The racer can make a step without time passing.
Ready(f) == racer[f] = "next" \/ Answered(f) \/ OutOfTime(f)

\* The select! polls the first family before the other.
Polled(f) ==
    /\ outcome = "racing"
    /\ f = "fallback" => ~Ready("primary")

Exhausted(f) == index[f] > Len(addrs[f]) \/ now >= ConnectTimeout

Begin(f) ==
    /\ Polled(f)
    /\ racer[f] = "next"
    /\ ~Exhausted(f)
    /\ racer' = [racer EXCEPT ![f] = "trying"]
    /\ began' = [began EXCEPT ![f] = now]
    /\ ends' = [ends EXCEPT ![f] = now + Slice(f)]
    /\ UNCHANGED <<addrs, now, index, lastErr, outcome>>

\* dial_serial returns the stream, and dial_with returns at once with it.
Connect(f) ==
    /\ Polled(f)
    /\ Answered(f)
    /\ Peer(f).does = "accepts"
    /\ outcome' = "connected"
    /\ UNCHANGED <<addrs, now, racer, attempt>>

AttemptFails(f) ==
    /\ Polled(f)
    /\ \/ /\ Answered(f)
          /\ Peer(f).does = "refuses"
          /\ lastErr' = [lastErr EXCEPT ![f] = "refused"]
       \/ /\ ~Answered(f)
          /\ OutOfTime(f)
          /\ lastErr' = [lastErr EXCEPT ![f] = "timed out"]
    /\ racer' = [racer EXCEPT ![f] = "next"]
    /\ index' = [index EXCEPT ![f] = @ + 1]
    /\ UNCHANGED <<addrs, now, began, ends, outcome>>

-----------------------------------------------------------------------------
(* dial_with *)

\* A family that can still be started.
Held == racer["fallback"] = "waiting" /\ addrs["fallback"] # <<>>

\* A family is out of addresses or time; the first's failure starts the other.
RacerFails(f) ==
    /\ Polled(f)
    /\ racer[f] = "next"
    /\ Exhausted(f)
    /\ racer' = IF f = "primary" /\ Held
                THEN [primary |-> "failed", fallback |-> "next"]
                ELSE [racer EXCEPT ![f] = "failed"]
    /\ UNCHANGED <<addrs, now, attempt, outcome>>

\* Bug: the delay is never armed.
DelayNeverDue == FALSE

DelayDue == Held /\ now >= FallbackDelay

DelayElapsed ==
    /\ outcome = "racing"
    /\ DelayDue
    /\ ~Ready("primary")
    /\ racer' = [racer EXCEPT !["fallback"] = "next"]
    /\ UNCHANGED <<addrs, now, attempt, outcome>>

Idle(f) == racer[f] = "failed" \/ (f = "fallback" /\ addrs[f] = <<>>)

\* Bug: a family without addresses is waited for.
BothDialledFailed ==
    /\ outcome = "racing"
    /\ \A f \in Families : racer[f] = "failed"
    /\ outcome' = "failed"
    /\ UNCHANGED <<addrs, now, racer, attempt>>

BothFailed ==
    /\ outcome = "racing"
    /\ \A f \in Families : Idle(f)
    /\ outcome' = "failed"
    /\ UNCHANGED <<addrs, now, racer, attempt>>

\* Bug: whichever family failed last is reported.
ReportedLatest ==
    IF lastErr["fallback"] = "none" THEN lastErr["primary"] ELSE lastErr["fallback"]

\* The error the caller gets: timed_out() stands in for one never recorded.
Reported == IF lastErr["primary"] = "none" THEN "timed out" ELSE lastErr["primary"]

-----------------------------------------------------------------------------
\* Time passes only while every future waits.
Tick ==
    /\ outcome = "racing"
    /\ \A f \in Families : ~Ready(f)
    /\ ~DelayDue
    /\ \E f \in Families : ~Idle(f)
    /\ now' = now + 1
    /\ UNCHANGED <<addrs, racer, attempt, outcome>>

Terminating ==
    /\ outcome # "racing"
    /\ UNCHANGED vars

Racer(f) ==
    \/ Begin(f)
    \/ Connect(f)
    \/ AttemptFails(f)
    \/ RacerFails(f)

Next ==
    \/ \E f \in Families : Racer(f)
    \/ DelayElapsed
    \/ BothFailed
    \/ Tick
    \/ Terminating

Spec == Init /\ [][Next]_vars
FairSpec == Spec /\ WF_vars(Next)

-----------------------------------------------------------------------------
\* Every variable has its type, and no attempt is given time past the deadline.
TypeOK ==
    /\ addrs \in [Families -> Seq(Peers)]
    /\ now \in Nat
    /\ racer \in [Families -> {"waiting", "next", "trying", "failed"}]
    /\ index \in [Families -> Nat \ {0}]
    /\ began \in [Families -> Nat]
    /\ ends \in [Families -> 0..ConnectTimeout]
    /\ lastErr \in [Families -> {"none", "refused", "timed out"}]
    /\ outcome \in {"racing", "connected", "failed"}

\* The connect timeout is "a budget for reaching the host, not a grant to each
\* address in turn": however many addresses hang, the dial never outlasts it.
WithinBudget == now <= ConnectTimeout

\* Nothing is given up unheard: a dial that fails tried every address of a
\* family whose minimum slices fit the time the family had, whatever the
\* addresses before it did.
EveryAddressTried ==
    outcome = "failed" =>
        /\ ConnectTimeout >= Len(addrs["primary"]) * MinAttempt
              => index["primary"] > Len(addrs["primary"])
        /\ ConnectTimeout - FallbackDelay >= Len(addrs["fallback"]) * MinAttempt
              => index["fallback"] > Len(addrs["fallback"])

\* A family that does not answer cannot hold the other back: if the other's
\* first address accepts within MinAttempt, the dial has connected by the
\* fallback delay plus the time that takes.
OtherFamilyRescues ==
    LET other == addrs["fallback"]
    IN  /\ other # <<>>
        /\ other[1].does = "accepts"
        /\ other[1].after <= Lesser(MinAttempt, ConnectTimeout - FallbackDelay)
        /\ now > FallbackDelay + other[1].after
        => outcome = "connected"

\* A first family that connects no later than the fallback delay is used
\* alone, even at the very instant the delay ends.
FirstFamilyAlone ==
    /\ outcome = "connected"
    /\ now <= FallbackDelay
    /\ racer["primary"] = "trying"
    /\ Answered("primary")
    /\ Peer("primary").does = "accepts"
    => racer["fallback"] = "waiting"

\* The two families race to the user's good: the other is there when the first
\* hangs, and is left alone when the first answers in time.
FamiliesRace == OtherFamilyRescues /\ FirstFamilyAlone

\* The error reported is the first family's, also when the other fails sooner or
\* later: hanging addresses are reported as a timeout though the other family
\* refused, and a refusal is reported though the other family hung.
FirstErrorReported ==
    outcome = "failed" =>
        LET first == addrs["primary"]
        IN  /\ (\A i \in 1..Len(first) : first[i].does = "hangs") => Reported = "timed out"
            /\ (\A i \in 1..Len(first) : first[i] = [does |-> "refuses", after |-> 0])
                  => Reported = "refused"

\* The dial returns, even if no address ever answers.
DialReturns == <>(outcome # "racing")
=============================================================================
