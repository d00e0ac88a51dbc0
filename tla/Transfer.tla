------------------------------ MODULE Transfer ------------------------------
(***************************************************************************)
(* One transfer phase: LibrespeedServer::download or ::upload.  The phase  *)
(* task spawns Requests streams, RampUp apart, keeps the link busy for     *)
(* Duration, aborts what is in flight and reads the byte counter.          *)
(*                                                                         *)
(* A download stream counts what it receives itself.  An upload stream     *)
(* does not: the body counts its frames as hyper's connection task takes   *)
(* them, and that task is not one of the streams, so it outlives them.     *)
(* Time is discrete, and nothing is urgent: a task may run any time after  *)
(* its timer has expired.                                                  *)
(***************************************************************************)
EXTENDS Integers, Sequences

CONSTANTS
    Upload,         \* TRUE for the upload phase, FALSE for the download phase
    Requests,       \* --concurrent
    RampUp,         \* RAMP_UP_DELAY
    Duration,       \* --duration
    Timeout,        \* --timeout of each stream, 0 for none
    FinalReads,     \* total() calls at the end: 3, or 2 without a spinner
    MaxElapsed,     \* bound: the clock stops counting here
    MaxBytes,       \* bound: bytes one phase counts
    MaxOverhead,    \* bound: request heads and chunk framing written
    QueueCap        \* what hyper holds that the transport has not taken

\* From the first spawn to the close of the window.
Span == Requests * RampUp + Duration

ASSUME TransferAssumption ==
    /\ Upload \in BOOLEAN
    /\ Requests \in Nat \ {0}           \* run refuses --concurrent 0
    /\ RampUp \in Nat
    /\ Duration \in Nat
    /\ Timeout \in Nat
    /\ FinalReads \in {2, 3}
    /\ MaxElapsed \in Nat /\ MaxElapsed >= Span
    /\ MaxBytes \in Nat
    /\ MaxOverhead \in Nat
    /\ QueueCap \in Nat

Streams == 1..Requests
Running == {"request", "body"}
Ended == {"Completed", "TransferFailed", "RequestFailed"}      \* StreamEnd
ReplaceableIfCompleted == {"Completed"}
Replaceable == Ended \ {"RequestFailed"}
Unread == -1

VARIABLES
    phase,          \* where the phase task is
    spawned,        \* streams started by the ramp-up
    timer,          \* time left of the sleep the phase task is in
    elapsed,        \* time since counter.start()
    stream,         \* per slot: its stream's state, or why it ended
    ttl,            \* per slot: time left before stream_deadline
    answered,       \* per slot: its latest request got a response head
    counted,        \* BytesCounter::total before the wire ceiling
    queue,          \* body bytes hyper has taken and not yet written
    sent,           \* body bytes the transport has taken
    overhead,       \* other bytes the transport has taken since set_wire
    lost,           \* body bytes taken and dropped with their connection
    stray,          \* a connection outlives the stream that opened it
    held,           \* counted as read by the total() call under way
    sentAtRead,     \* sent when that call began
    reads           \* what each total() call of the finale has returned

finale == <<held, sentAtRead, reads>>
wire == <<queue, sent, overhead, lost>>
slots == <<stream, ttl, answered>>
vars == <<phase, spawned, timer, elapsed, slots, counted, wire, stray, finale>>

Init ==
    /\ phase = "ramp"
    /\ spawned = 0
    /\ timer = 0
    /\ elapsed = 0
    /\ stream = [s \in Streams |-> "idle"]
    /\ ttl = [s \in Streams |-> 0]
    /\ answered = [s \in Streams |-> FALSE]
    /\ counted = 0
    /\ queue = 0 /\ sent = 0 /\ overhead = 0 /\ lost = 0
    /\ stray = FALSE
    /\ held = Unread /\ sentAtRead = 0 /\ reads = <<>>

Start(s) ==
    /\ stream' = [stream EXCEPT ![s] = "request"]
    /\ ttl' = [ttl EXCEPT ![s] = Timeout]
    /\ answered' = [answered EXCEPT ![s] = FALSE]

\* The stream's task is over.  An upload leaves its connection to hyper.
Leave(s, end) ==
    /\ stream' = [stream EXCEPT ![s] = end]
    /\ ttl' = [ttl EXCEPT ![s] = 0]
    /\ stray' = (Upload \/ stray)
    /\ UNCHANGED answered

-----------------------------------------------------------------------------
(* The phase task. *)

\* One turn of the ramp-up loop; it sleeps after the last spawn as well.
Spawn ==
    /\ phase = "ramp"
    /\ timer = 0
    /\ spawned < Requests
    /\ spawned' = spawned + 1
    /\ timer' = RampUp
    /\ Start(spawned + 1)
    /\ UNCHANGED <<phase, elapsed, counted, wire, stray, finale>>

\* Bug: the window is timed from the last spawn, not from the end of ramp-up.
OpenWindowFromLastSpawn ==
    /\ phase = "ramp"
    /\ spawned = Requests
    /\ phase' = "window"
    /\ timer' = Duration
    /\ UNCHANGED <<spawned, elapsed, slots, counted, wire, stray, finale>>

OpenWindow ==
    /\ phase = "ramp"
    /\ timer = 0
    /\ spawned = Requests
    /\ phase' = "window"
    /\ timer' = Duration
    /\ UNCHANGED <<spawned, elapsed, slots, counted, wire, stray, finale>>

\* Bug: the select! looks at finished streams first.
JoinFirst(s) ==
    /\ phase = "window"
    /\ stream[s] \in Ended
    /\ \/ /\ stream[s] \in Replaceable
          /\ Start(s)
       \/ /\ stream[s] \notin Replaceable
          /\ stream' = [stream EXCEPT ![s] = "gone"]
          /\ UNCHANGED <<ttl, answered>>
    /\ UNCHANGED <<phase, spawned, timer, elapsed, counted, wire, stray, finale>>

\* The select! is biased: join_next is looked at only before the deadline.
Join(s) ==
    /\ phase = "window"
    /\ timer > 0
    /\ stream[s] \in Ended
    /\ \/ /\ stream[s] \in Replaceable
          /\ Start(s)
       \/ /\ stream[s] \notin Replaceable
          /\ stream' = [stream EXCEPT ![s] = "gone"]
          /\ UNCHANGED <<ttl, answered>>
    /\ UNCHANGED <<phase, spawned, timer, elapsed, counted, wire, stray, finale>>

\* Bug: draining the set ends the phase, as it once did.
CloseWindowOnDrain ==
    /\ phase = "window"
    /\ timer = 0 \/ \A s \in Streams : stream[s] = "gone"
    /\ phase' = "shutdown"
    /\ UNCHANGED <<spawned, timer, elapsed, slots, counted, wire, stray, finale>>

CloseWindow ==
    /\ phase = "window"
    /\ timer = 0
    /\ phase' = "shutdown"
    /\ UNCHANGED <<spawned, timer, elapsed, slots, counted, wire, stray, finale>>

\* JoinSet::shutdown aborts every task and joins it; an aborted task may still
\* finish the poll it is in, so its steps stay possible until it unwinds.
Unwind(s) ==
    /\ phase = "shutdown"
    /\ stream[s] \in Running \cup Ended
    /\ Leave(s, "gone")
    /\ UNCHANGED <<phase, spawned, timer, elapsed, counted, wire, finale>>

\* Bug: the tasks are aborted and not joined.
NotUnwound ==
    /\ phase = "shutdown"
    /\ phase' = "ticker"
    /\ UNCHANGED <<spawned, timer, elapsed, slots, counted, wire, stray, finale>>

AllUnwound ==
    /\ phase = "shutdown"
    /\ \A s \in Streams : stream[s] = "gone"
    /\ phase' = "ticker"
    /\ UNCHANGED <<spawned, timer, elapsed, slots, counted, wire, stray, finale>>

\* The progress ticker only reads the counter; Session models it.
StopTicker ==
    /\ phase = "ticker"
    /\ phase' = "read"
    /\ UNCHANGED <<spawned, timer, elapsed, slots, counted, wire, stray, finale>>

-----------------------------------------------------------------------------
(* Reading the counter: for avg_mbps, for the total, for the rate shown.  *)
(* total() reads the tally under one lock and the meter under another.    *)

Meter == sent + overhead
Lesser(a, b) == IF a <= b THEN a ELSE b

\* Bug: no wire ceiling.
TotalTaken(tally) == tally

\* BytesCounter::total: only the upload counter has a wire ceiling.
Total(tally) == IF Upload THEN Lesser(tally, Meter) ELSE tally

ReadTally ==
    /\ phase = "read"
    /\ held = Unread
    /\ held' = counted
    /\ sentAtRead' = sent
    /\ UNCHANGED <<phase, spawned, timer, elapsed, slots, counted, wire, stray, reads>>

ReadCeiling ==
    /\ phase = "read"
    /\ held # Unread
    /\ held' = Unread
    /\ reads' = Append(reads, Total(held))
    /\ phase' = IF Len(reads') = FinalReads THEN "done" ELSE "read"
    /\ UNCHANGED <<spawned, timer, elapsed, slots, counted, wire, stray, sentAtRead>>

-----------------------------------------------------------------------------
(* The streams: download_once and upload_once. *)

Alive(s) == stream[s] \in Running

\* send_request returned a response: the redirects followed, if any, included.
Answer(s) ==
    /\ stream[s] = "request"
    /\ stream' = [stream EXCEPT ![s] = "body"]
    /\ answered' = [answered EXCEPT ![s] = TRUE]
    /\ UNCHANGED <<phase, spawned, timer, elapsed, ttl, counted, wire, stray, finale>>

RequestFails(s) ==
    /\ stream[s] = "request"
    /\ Leave(s, "RequestFailed")
    /\ UNCHANGED <<phase, spawned, timer, elapsed, counted, wire, finale>>

\* A data frame of a download's response body.
Receive(s) ==
    /\ ~Upload
    /\ stream[s] = "body"
    /\ counted < MaxBytes
    /\ counted' = counted + 1
    /\ UNCHANGED <<phase, spawned, timer, elapsed, slots, wire, stray, finale>>

BodyEnds(s) ==
    /\ stream[s] = "body"
    /\ \E end \in {"Completed", "TransferFailed"} : Leave(s, end)
    /\ UNCHANGED <<phase, spawned, timer, elapsed, counted, wire, finale>>

\* Bug: every timeout is read as a body cut short.
ExpireAsTransfer(s) ==
    /\ Timeout # 0
    /\ ttl[s] = 0
    /\ Alive(s)
    /\ Leave(s, "TransferFailed")
    /\ UNCHANGED <<phase, spawned, timer, elapsed, counted, wire, finale>>

\* within(): one deadline over request and body, read differently in each.
Expire(s) ==
    /\ Timeout # 0
    /\ ttl[s] = 0
    /\ \/ stream[s] = "request" /\ Leave(s, "RequestFailed")
       \/ stream[s] = "body" /\ Leave(s, "TransferFailed")
    /\ UNCHANGED <<phase, spawned, timer, elapsed, counted, wire, finale>>

-----------------------------------------------------------------------------
(* The connections of an upload, driven by hyper.  A connection that lost  *)
(* its stream may go on writing until hyper notices; whether it still has  *)
(* a body to take or is idle in the pool is not told apart.                *)

Connected == Upload /\ (stray \/ \E s \in Streams : Alive(s))

\* UploadBody::poll_frame
TakeFrame ==
    /\ Connected
    /\ queue < QueueCap
    /\ counted < MaxBytes
    /\ counted' = counted + 1
    /\ queue' = queue + 1
    /\ UNCHANGED <<phase, spawned, timer, elapsed, slots, sent, overhead, lost,
                   stray, finale>>

\* MeteredStream::poll_write takes part of what is queued; a request's head
\* goes out before its body.
WriteBody ==
    /\ Connected
    /\ overhead > 0
    /\ \E n \in 1..queue :
          /\ queue' = queue - n
          /\ sent' = sent + n
    /\ UNCHANGED <<phase, spawned, timer, elapsed, slots, counted, overhead, lost,
                   stray, finale>>

\* The same for a request head or the framing of a chunk.
WriteOverhead ==
    /\ Connected
    /\ overhead < MaxOverhead
    /\ overhead' = overhead + 1
    /\ UNCHANGED <<phase, spawned, timer, elapsed, slots, counted, queue, sent, lost,
                   stray, finale>>

\* hyper closes the connections whose streams are gone, with what they hold.
CloseStray ==
    /\ stray
    /\ stray' = FALSE
    /\ \E n \in 0..queue :
          /\ (\A s \in Streams : ~Alive(s)) => n = queue
          /\ queue' = queue - n
          /\ lost' = lost + n
    /\ UNCHANGED <<phase, spawned, timer, elapsed, slots, counted, sent, overhead,
                   finale>>

-----------------------------------------------------------------------------
Tick ==
    /\ phase # "done"
    /\ elapsed' = Lesser(elapsed + 1, MaxElapsed)
    /\ timer' = IF timer > 0 THEN timer - 1 ELSE 0
    /\ ttl' = [s \in Streams |-> IF ttl[s] > 0 THEN ttl[s] - 1 ELSE 0]
    /\ UNCHANGED <<phase, spawned, stream, answered, counted, wire, stray, finale>>

Terminating ==
    /\ phase = "done"
    /\ UNCHANGED vars

PhaseTask ==
    \/ Spawn
    \/ OpenWindow
    \/ \E s \in Streams : Join(s)
    \/ CloseWindow
    \/ AllUnwound
    \/ StopTicker
    \/ ReadTally
    \/ ReadCeiling

StreamStep(s) ==
    \/ Answer(s)
    \/ RequestFails(s)
    \/ Receive(s)
    \/ BodyEnds(s)
    \/ Expire(s)
    \/ Unwind(s)

ConnectionStep ==
    \/ TakeFrame
    \/ WriteBody
    \/ WriteOverhead
    \/ CloseStray

Next ==
    \/ PhaseTask
    \/ \E s \in Streams : StreamStep(s)
    \/ ConnectionStep
    \/ Tick
    \/ Terminating

Spec == Init /\ [][Next]_vars

\* The runtime polls the phase task, time passes, and an aborted task is
\* dropped at its next await.  Nothing is asked of servers or connections.
Fairness ==
    /\ WF_vars(PhaseTask)
    /\ WF_vars(Tick)
    /\ \A s \in Streams : WF_vars(Unwind(s))

FairSpec == Spec /\ Fairness

-----------------------------------------------------------------------------
Phases == {"ramp", "window", "shutdown", "ticker", "read", "done"}

\* Every variable has its type, and no timer or count passes its bound.
TypeOK ==
    /\ phase \in Phases
    /\ spawned \in 0..Requests
    /\ timer \in Nat
    /\ elapsed \in 0..MaxElapsed
    /\ stream \in [Streams -> {"idle", "gone"} \cup Running \cup Ended]
    /\ ttl \in [Streams -> 0..Timeout]
    /\ answered \in [Streams -> BOOLEAN]
    /\ counted \in 0..MaxBytes
    /\ queue \in 0..QueueCap
    /\ sent \in Nat
    /\ overhead \in 0..MaxOverhead
    /\ lost \in Nat
    /\ stray \in BOOLEAN
    /\ held \in Nat \cup {Unread}
    /\ sentAtRead \in Nat
    /\ reads \in Seq(Nat)

\* A phase never ends early: by the time the streams are aborted, the whole
\* ramp-up and the whole window have passed since the clock the average
\* divides by was started, however the streams fared ("Only the deadline ends
\* the phase", server.rs).
WindowHonoured ==
    phase \notin {"ramp", "window"} => elapsed >= Span

\* The link is kept busy: inside the window a slot is abandoned only when its
\* latest request never got a response head.  A stream that carried data and
\* broke, or was cut by --timeout while its body was arriving, is replaced.
AbandonedOnlyUnanswered ==
    \A s \in Streams :
        phase = "window" /\ stream[s] = "gone" => ~answered[s]

\* A request that fails or times out before the response head is never
\* retried, so a dead server is not hammered as fast as it refuses.
NoBlindRetry ==
    [][\A s \in Streams :
         stream[s] \notin {"idle", "request"} /\ stream'[s] = "request"
             => answered[s]]_vars

\* The finale of the phase sees one tally: the rate, the total and the rate
\* shown to the user are computed from the same number of bytes, and that is
\* what the counter still holds afterwards ("so the reported total cannot
\* change under us").
ReportedTotalStable ==
    \A i \in 1..Len(reads) : reads[i] = Total(counted)

\* What total() returns is between the body bytes the transport had taken when
\* the call began and those plus heads and framing by its end, and is exact
\* when nothing is queued and nothing was dropped (BytesCounter::set_wire).
TotalBetweenWireBounds ==
    [][\A i \in 1..Len(reads') : i > Len(reads) =>
         /\ sentAtRead <= reads'[i]
         /\ reads'[i] <= sent + overhead
         /\ queue = 0 /\ lost = 0 => reads'[i] = held]_vars

\* Whatever the servers do, the phase returns: streams that never answer,
\* never end or end as fast as they start cannot keep it open.
PhaseEnds == <>(phase = "done")

\* What the abstract measurement sees of the phase.
Stage ==
    IF phase \in {"ramp", "window", "shutdown"} THEN "open"
    ELSE IF phase = "done" THEN "reported"
    ELSE "closed"
Returned == IF phase = "done" THEN reads[2] ELSE -1

Promise == INSTANCE Measurement WITH
    stage <- Stage, tally <- counted, clock <- elapsed, report <- Returned

\* A download tallies bytes only until its streams are joined, stays open for
\* the ramp-up and the window, and returns exactly what it tallied.
ImplementsMeasurement == Promise!Spec
=============================================================================
