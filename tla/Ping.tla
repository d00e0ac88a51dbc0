-------------------------------- MODULE Ping --------------------------------
(***************************************************************************)
(* LibrespeedServer::icmp_ping_and_jitter: echos a second apart under one  *)
(* deadline, HTTP requests when they do not work out, and the average and  *)
(* jitter of what came back.  Time is counted in ticks; a timer never      *)
(* fires early, and the task may notice it late.                           *)
(***************************************************************************)
EXTENDS Integers, Sequences

CONSTANTS
    Counts,         \* how many echos a caller may ask for
    Interval,       \* PING_INTERVAL and PING_TIMEOUT, in ticks
    MaxLate,        \* bound: ticks in which the task could have gone on
    HttpTimes       \* what an HTTP request may take

ASSUME PingAssumption ==
    /\ Counts \subseteq Nat
    /\ Interval \in Nat \ {0}
    /\ MaxLate \in Nat
    /\ HttpTimes \subseteq Nat

VARIABLES
    count,          \* echos asked for
    step,           \* where icmp_ping_and_jitter is
    clock,          \* ticks since it began
    late,           \* history: ticks it could have gone on in
    seq,            \* echos dealt with
    sends,          \* history: when each echo was sent
    samples         \* rtts or pings: the request and its time

timing == <<clock, late>>
pingVars == <<count, step, timing, seq, sends, samples>>

PingInit ==
    /\ count \in Counts
    /\ step = "begin"
    /\ clock = 0 /\ late = 0
    /\ seq = 0 /\ sends = <<>> /\ samples = <<>>

Sample(via, nth, time) == [via |-> via, nth |-> nth, time |-> time]

\* --no-icmp, a name without an address, no ICMP socket: HTTP instead.
SkipEchos ==
    /\ step = "begin"
    /\ step' = "http"
    /\ UNCHANGED <<count, timing, seq, sends, samples>>

StartEchos ==
    /\ step = "begin"
    /\ step' = "ready"
    /\ UNCHANGED <<count, timing, seq, sends, samples>>

Greater(a, b) == IF a > b THEN a ELSE b

Deadline == Greater(count, 1) * Interval

SendEcho ==
    /\ step = "ready"
    /\ seq < count /\ clock < Deadline
    /\ sends' = Append(sends, clock)
    /\ step' = "waiting"
    /\ UNCHANGED <<count, timing, seq, samples>>

\* Bug: without a reply the echos are started again.
EndEchosRetrying ==
    /\ step = "ready"
    /\ seq = count \/ clock >= Deadline
    /\ step' = IF samples = <<>> THEN "begin" ELSE "done"
    /\ UNCHANGED <<count, timing, seq, sends, samples>>

\* All sent, or out of time: without a reply HTTP is tried.
EndEchos ==
    /\ step = "ready"
    /\ seq = count \/ clock >= Deadline
    /\ step' = IF samples = <<>> THEN "http" ELSE "done"
    /\ UNCHANGED <<count, timing, seq, sends, samples>>

LastSend == sends[Len(sends)]

\* No pause after the last echo.
AfterEcho == IF seq + 1 < count THEN "pausing" ELSE "ready"

Reply ==
    /\ step = "waiting"
    /\ clock > LastSend
    /\ samples' = Append(samples, Sample("icmp", seq + 1, clock - LastSend))
    /\ seq' = seq + 1
    /\ step' = AfterEcho
    /\ UNCHANGED <<count, timing, sends>>

\* PING_TIMEOUT: no sample.
Unanswered ==
    /\ step = "waiting"
    /\ clock >= LastSend + Interval
    /\ seq' = seq + 1
    /\ step' = AfterEcho
    /\ UNCHANGED <<count, timing, sends, samples>>

\* An error of its own, sooner.
EchoFails ==
    /\ step = "waiting"
    /\ clock < LastSend + Interval
    /\ seq' = seq + 1
    /\ step' = AfterEcho
    /\ UNCHANGED <<count, timing, sends, samples>>

\* Bug: the pause is measured from the reply.
PauseEndFromReply ==
    LastSend + Interval + (IF \E i \in 1..Len(samples) : samples[i].nth = seq
                           THEN samples[Len(samples)].time ELSE 0)

PauseEnd == LastSend + Interval

Wake ==
    /\ step = "pausing"
    /\ clock >= PauseEnd
    /\ step' = "ready"
    /\ UNCHANGED <<count, timing, seq, sends, samples>>

\* What the task waits for has happened; a reply is for the network to bring.
Due ==
    \/ step = "ready"
    \/ step = "waiting" /\ clock >= LastSend + Interval
    \/ step = "pausing" /\ clock >= PauseEnd

Tick ==
    /\ step \in {"ready", "waiting", "pausing"}
    /\ late' = IF Due THEN late + 1 ELSE late
    /\ late' <= MaxLate
    /\ clock' = clock + 1
    /\ UNCHANGED <<count, step, seq, sends, samples>>

\* ping_and_jitter: count + 2 requests, each of which must succeed.
HttpAnswer ==
    /\ step = "http"
    /\ Len(samples) < count + 2
    /\ \E t \in HttpTimes :
          samples' = Append(samples, Sample("http", Len(samples) + 1, t))
    /\ UNCHANGED <<count, step, timing, seq, sends>>

HttpFails ==
    /\ step = "http"
    /\ Len(samples) < count + 2
    /\ step' = "failed"
    /\ UNCHANGED <<count, timing, seq, sends, samples>>

\* Bug: the first sample stays.
HttpDoneWithFirst ==
    /\ step = "http"
    /\ Len(samples) = count + 2
    /\ step' = "done"
    /\ UNCHANGED <<count, timing, seq, sends, samples>>

\* The first carries the handshake and is dropped.
HttpDone ==
    /\ step = "http"
    /\ Len(samples) = count + 2
    /\ samples' = IF Len(samples) > 1 THEN Tail(samples) ELSE samples
    /\ step' = "done"
    /\ UNCHANGED <<count, timing, seq, sends>>

Request == HttpAnswer \/ HttpFails \/ HttpDone

PingNext ==
    \/ SkipEchos \/ StartEchos \/ SendEcho \/ EndEchos
    \/ Reply \/ Unanswered \/ EchoFails \/ Wake \/ Tick \/ Request

PingOver == step \in {"done", "failed"}

PingStops == PingOver /\ UNCHANGED pingVars

PingSpec == PingInit /\ [][PingNext \/ PingStops]_pingVars

-----------------------------------------------------------------------------
(* compute_jitter, in hundredths of a tick: exact for up to four samples. *)

Distance(a, b) == IF a > b THEN a - b ELSE b - a

Delta(i) == 100 * Distance(samples[i].time, samples[i - 1].time)

FoldDelta(jitter, delta) ==
    (IF jitter > delta THEN 7 * jitter + 3 * delta
                       ELSE 2 * delta + 8 * jitter) \div 10

\* Of the first i samples; the first delta is not folded in.
Jitter[i \in 1..Len(samples)] ==
    IF i <= 2 THEN 0 ELSE FoldDelta(Jitter[i - 1], Delta(i))

-----------------------------------------------------------------------------
Steps == {"begin", "ready", "waiting", "pausing", "http", "done", "failed"}

\* Every variable has its type.
PingTypeOK ==
    /\ count \in Counts
    /\ step \in Steps
    /\ clock \in Nat /\ late \in 0..MaxLate
    /\ seq \in Nat
    /\ sends \in Seq(Nat)
    /\ samples \in Seq([via : {"icmp", "http"}, nth : Nat, time : Nat])

\* Whole seconds for the deadline, the timeout and the spacing leave no slack,
\* and none is needed: every echo is sent unless the task lost a whole
\* interval, each goes out an interval after the one before it, a slow reply or
\* none notwithstanding, and the phase outlasts its deadline by no more than
\* the task lost.
EchosOnSchedule ==
    /\ step \in {"http", "done"} /\ sends # <<>> /\ Len(sends) < count => late >= Interval
    /\ \A i \in 2..Len(sends) :
          sends[i] - sends[i - 1] \in Interval..(Interval + late)
    /\ clock <= Deadline + late

\* The average is over something, and over comparable samples: echos only, or
\* all the HTTP requests but the one that shook hands.
ComparableSamples ==
    step = "done" =>
        \/ /\ samples # <<>> /\ Len(samples) <= count
           /\ \A i \in 1..Len(samples) : samples[i].via = "icmp"
        \/ [i \in 1..Len(samples) |-> <<samples[i].via, samples[i].nth>>]
              = [i \in 1..(count + 1) |-> <<"http", i + 1>>]

\* compute_jitter's moving average stays among what it averages: one outlier
\* never carries the jitter past the largest change between two neighbouring
\* samples, whatever came before, and the change from the first sample to the
\* second does not count, so that two samples have none.
JitterWithinDeltas ==
    step = "done" =>
        \A n \in 1..Len(samples) :
            Jitter[n] = 0 \/ \E k \in 3..n : Jitter[n] \in 0..Delta(k)

-----------------------------------------------------------------------------
\* compute_jitter's comment: "weighted so that increases move it faster than
\* decreases".  Of a step up and a step down, per distance to go.
IncreasesMoveFaster ==
    step = "done" =>
        \A i, k \in 3..Len(samples) :
            LET up == Delta(i) - Jitter[i - 1]
                down == Jitter[k - 1] - Delta(k)
            IN up > 0 /\ down > 0 =>
                (Jitter[i] - Jitter[i - 1]) * down >= (Jitter[k - 1] - Jitter[k]) * up
=============================================================================
