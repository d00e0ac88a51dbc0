------------------------------ MODULE Spinner ------------------------------
(***************************************************************************)
(* spinner.rs: a task that redraws a line of stderr until it is stopped,   *)
(* and stop, which has the last word on that line.                         *)
(***************************************************************************)
VARIABLES
    animated,       \* stderr is a terminal, and the UI is wanted
    running,        \* Spinner::running
    permit,         \* Spinner::stopped holds a permit
    task,           \* the animation, "none" without one
    owner,          \* how far the owner is with stop
    line            \* what the line shows

spinVars == <<animated, running, permit, task, owner, line>>

SpinInit ==
    /\ animated \in BOOLEAN
    /\ running = FALSE /\ permit = FALSE
    /\ task = "none" /\ owner = "none"
    /\ line = "blank"

StartSpinner ==
    /\ owner = "none"
    /\ owner' = "spinning"
    /\ running' = TRUE
    /\ task' = IF animated THEN "looping" ELSE "none"
    /\ UNCHANGED <<animated, permit, line>>

-----------------------------------------------------------------------------
(* The task: it looks at the flag, draws, and waits for a tick or a permit. *)

Look ==
    /\ task = "looping"
    /\ task' = IF running THEN "drawing" ELSE "returned"
    /\ UNCHANGED <<animated, running, permit, owner, line>>

Draw ==
    /\ task = "drawing"
    /\ line' = "frame"
    /\ task' = "waiting"
    /\ UNCHANGED <<animated, running, permit, owner>>

Ticked ==
    /\ task = "waiting"
    /\ task' = "looping"
    /\ UNCHANGED <<animated, running, permit, owner, line>>

Notified ==
    /\ task = "waiting"
    /\ permit
    /\ permit' = FALSE
    /\ task' = "returned"
    /\ UNCHANGED <<animated, running, owner, line>>

Animation == Look \/ Draw \/ Ticked \/ Notified

-----------------------------------------------------------------------------
(* stop: clear the flag, leave a permit, join the task, have the last word. *)

ClearFlag ==
    /\ owner = "spinning"
    /\ running' = FALSE
    /\ owner' = "cleared"
    /\ UNCHANGED <<animated, permit, task, line>>

Notify ==
    /\ owner = "cleared"
    /\ permit' = TRUE
    /\ owner' = "joining"
    /\ UNCHANGED <<animated, running, task, line>>

\* Bug: the task is told to stop and not waited for.
FinishUnjoined(message) ==
    /\ owner = "joining"
    /\ line' = message
    /\ owner' = "stopped"
    /\ UNCHANGED <<animated, running, permit, task>>

\* The line is cleared, if anything drew on it, and the message written.
Finish(message) ==
    /\ owner = "joining"
    /\ task \in {"none", "returned"}
    /\ line' = message
    /\ owner' = "stopped"
    /\ UNCHANGED <<animated, running, permit, task>>

SpinTypeOK ==
    /\ animated \in BOOLEAN /\ running \in BOOLEAN /\ permit \in BOOLEAN
    /\ task \in {"none", "looping", "drawing", "waiting", "returned"}
    /\ owner \in {"none", "spinning", "cleared", "joining", "stopped"}
    /\ line \in {"blank", "frame", "result", "error"}
=============================================================================
