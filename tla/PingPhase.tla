----------------------------- MODULE PingPhase -----------------------------
(***************************************************************************)
(* The ping phase of do_speed_test: the measurement of Ping with Spinner   *)
(* narrating it, unless the UI is silent, and what stderr shows in the end.*)
(***************************************************************************)
EXTENDS Ping, Spinner

VARIABLES quiet, phase

vars == <<pingVars, spinVars, quiet, phase>>

PhaseInit ==
    /\ PingInit
    /\ SpinInit
    /\ quiet \in BOOLEAN
    /\ phase = "starting"

Begin ==
    /\ phase = "starting"
    /\ IF quiet THEN UNCHANGED spinVars ELSE StartSpinner
    /\ phase' = "pinging"
    /\ UNCHANGED <<pingVars, quiet>>

Measure ==
    /\ phase = "pinging"
    /\ PingNext
    /\ UNCHANGED <<spinVars, quiet, phase>>

StopSpinner ==
    /\ phase = "pinging"
    /\ PingOver
    /\ ClearFlag \/ Notify
    /\ UNCHANGED <<pingVars, quiet, phase>>

Message == IF step = "done" THEN "result" ELSE "blank"

LastWord ==
    /\ phase = "pinging"
    /\ PingOver
    /\ IF quiet THEN UNCHANGED spinVars ELSE Finish(Message)
    /\ phase' = IF step = "done" THEN "measured" ELSE "failing"
    /\ UNCHANGED <<pingVars, quiet>>

\* report_failure
ReportFailure ==
    /\ phase = "failing"
    /\ line' = "error"
    /\ phase' = "failed"
    /\ UNCHANGED <<pingVars, animated, running, permit, task, owner, quiet>>

Animate == Animation /\ UNCHANGED <<pingVars, quiet, phase>>

PhaseOver == phase \in {"measured", "failed"}

Over == PhaseOver /\ UNCHANGED vars

Next == Begin \/ Measure \/ StopSpinner \/ LastWord \/ ReportFailure \/ Animate \/ Over

Spec == PhaseInit /\ [][Next]_vars

\* The runtime polls both tasks, timers fire, and every request returns.
Fairness ==
    /\ WF_vars(Begin \/ StopSpinner \/ LastWord \/ ReportFailure)
    /\ WF_vars(Measure)
    /\ WF_vars(Animate)

FairSpec == Spec /\ Fairness

-----------------------------------------------------------------------------
\* Every variable has its type.
TypeOK ==
    /\ PingTypeOK
    /\ SpinTypeOK
    /\ quiet \in BOOLEAN
    /\ phase \in {"starting", "pinging", "measured", "failing", "failed"}

\* Once the phase says how it went nothing draws over it: no frame that was
\* begun before stop cleared the flag lands after the result or the error.
LastWordStands ==
    [][phase = "failing" \/ PhaseOver => line' = line \/ phase' # phase]_vars

\* The phase ends, with or without replies: the spinner's task cannot miss
\* being stopped, and an echo nobody answers is given up.
PhaseEnds == <>PhaseOver
=============================================================================
