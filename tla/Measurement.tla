---------------------------- MODULE Measurement ----------------------------
(***************************************************************************)
(* What one transfer phase promises its caller: bytes are tallied while    *)
(* the measurement is open, it stays open for at least Span, and the total *)
(* it hands back is the tally at the instant it closed.  The phase in      *)
(* Transfer is shown to implement this for a download.                     *)
(***************************************************************************)
EXTENDS Integers

CONSTANT Span                 \* the least time a measurement may last

VARIABLES stage,              \* "open", "closed" or "reported"
          tally,              \* bytes transferred
          clock,              \* time since the measurement began
          report              \* the total handed back, NoReport before it is

vars == <<stage, tally, clock, report>>

NoReport == -1

Init ==
    /\ stage = "open"
    /\ tally = 0
    /\ clock = 0
    /\ report = NoReport

\* Bytes are only tallied while the measurement is open.
Carry ==
    /\ stage = "open"
    /\ tally' \in Nat
    /\ tally' > tally
    /\ UNCHANGED <<stage, clock, report>>

Pass ==
    /\ clock' \in Nat
    /\ clock' > clock
    /\ UNCHANGED <<stage, tally, report>>

Close ==
    /\ stage = "open"
    /\ clock >= Span
    /\ stage' = "closed"
    /\ UNCHANGED <<tally, clock, report>>

Report ==
    /\ stage = "closed"
    /\ stage' = "reported"
    /\ report' = tally
    /\ UNCHANGED <<tally, clock>>

Next == Carry \/ Pass \/ Close \/ Report

Spec == Init /\ [][Next]_vars
=============================================================================
