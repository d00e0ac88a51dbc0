----------------------------- MODULE PingProofs -----------------------------
(***************************************************************************)
(* The ping phase for any number of echos, any interval and any delay of   *)
(* the task: types, the echos' schedule, what an average is over, and the  *)
(* last word on the spinner's line.                                        *)
(***************************************************************************)
EXTENDS PingPhase, WellFoundedInduction, TLAPS

-----------------------------------------------------------------------------
(* The measurement. *)

\* How far the echos are; an HTTP sample holds the place of its request.
Progress ==
    /\ step = "begin" => clock = 0 /\ late = 0 /\ seq = 0 /\ sends = <<>> /\ samples = <<>>
    /\ Len(sends) <= count
    /\ step = "ready" => Len(sends) = seq
    /\ step = "waiting" => Len(sends) = seq + 1
    /\ step = "pausing" => Len(sends) = seq /\ seq \in 1..(count - 1)
    /\ step \in {"ready", "waiting", "pausing"} =>
          /\ Len(samples) <= seq
          /\ \A i \in 1..Len(samples) : samples[i].via = "icmp"
    /\ step = "http" =>
          /\ Len(samples) <= count + 2
          /\ \A i \in 1..Len(samples) : samples[i].via = "http" /\ samples[i].nth = i

PingInv == PingTypeOK /\ Progress

LEMMA PingInitial == PingInit => PingInv /\ ComparableSamples
BY PingAssumption DEF PingInit, PingInv, PingTypeOK, Progress, ComparableSamples, Steps

LEMMA CountTyped == PingTypeOK => count \in Nat /\ Interval \in Nat \ {0}
BY PingAssumption DEF PingTypeOK

Recorded == [via : {"icmp", "http"}, nth : Nat, time : Nat]

LEMMA AppendTyped ==
    ASSUME NEW S, NEW s \in Seq(S), NEW x \in S
    PROVE  /\ Append(s, x) \in Seq(S) /\ Len(Append(s, x)) = Len(s) + 1
           /\ Append(s, x)[Len(s) + 1] = x
           /\ \A i \in 1..Len(s) : Append(s, x)[i] = s[i]
OBVIOUS

LEMMA TailTyped ==
    ASSUME NEW S, NEW s \in Seq(S), s # <<>>
    PROVE  /\ Tail(s) \in Seq(S) /\ Len(Tail(s)) = Len(s) - 1
           /\ \A i \in 1..(Len(s) - 1) : Tail(s)[i] = s[i + 1]
OBVIOUS

\* A step that leaves the sequences alone.
LEMMA QuietTypes ==
    ASSUME PingTypeOK, UNCHANGED <<count, sends, samples>>,
           step' \in Steps, clock' \in Nat, late' \in 0..MaxLate, seq' \in Nat
    PROVE  PingTypeOK'
BY DEF PingTypeOK

LEMMA PingStep ==
    ASSUME PingInv, PingNext
    PROVE  PingInv' /\ (ComparableSamples => ComparableSamples')
<1>0. /\ PingTypeOK /\ Progress /\ count \in Nat /\ Interval \in Nat \ {0}
      /\ step \in Steps /\ clock \in Nat /\ late \in 0..MaxLate /\ seq \in Nat
      /\ sends \in Seq(Nat) /\ samples \in Seq(Recorded)
      /\ Len(sends) \in Nat /\ Len(samples) \in Nat
  BY CountTyped DEF PingInv, PingTypeOK, Recorded
<1>1. CASE SkipEchos \/ StartEchos
  <2>1. PingTypeOK'
    BY <1>0, <1>1, QuietTypes DEF SkipEchos, StartEchos, timing, Steps
  <2>2. Progress'
    BY <1>0, <1>1 DEF SkipEchos, StartEchos, timing, Progress
  <2>3. QED
    BY <1>1, <2>1, <2>2 DEF PingInv, SkipEchos, StartEchos, ComparableSamples
<1>2. CASE SendEcho
  <2>1. PingTypeOK'
    BY <1>0, <1>2, AppendTyped DEF SendEcho, timing, Steps, PingTypeOK
  <2>2. Progress'
    BY <1>0, <1>2, AppendTyped DEF SendEcho, timing, Progress
  <2>3. QED
    BY <1>2, <2>1, <2>2 DEF PingInv, SendEcho, ComparableSamples
<1>3. CASE EndEchos
  <2>1. /\ step = "ready" /\ step' = IF samples = <<>> THEN "http" ELSE "done"
        /\ UNCHANGED <<count, clock, late, seq, sends, samples>>
    BY <1>3 DEF EndEchos, timing
  <2>2. PingTypeOK'
    BY <1>0, <2>1, QuietTypes DEF Steps
  <2>3. Progress' /\ ComparableSamples'
    BY <1>0, <2>1 DEF Progress, ComparableSamples
  <2>4. QED
    BY <2>2, <2>3 DEF PingInv
<1>4. CASE Reply \/ Unanswered \/ EchoFails
  <2>1. /\ step = "waiting" /\ seq' = seq + 1 /\ step' = AfterEcho
        /\ UNCHANGED <<count, clock, late, sends>>
    BY <1>4 DEF Reply, Unanswered, EchoFails, timing
  <2>2. LastSend \in Nat
    BY <1>0, <2>1 DEF LastSend, Progress
  <2>3. /\ samples' \in Seq(Recorded) /\ Len(samples') <= Len(samples) + 1
        /\ (\A i \in 1..Len(samples) : samples[i].via = "icmp")
              => \A i \in 1..Len(samples') : samples'[i].via = "icmp"
    <3>1. CASE Reply
      <4>1. Sample("icmp", seq + 1, clock - LastSend) \in Recorded
        BY <1>0, <2>2, <3>1 DEF Reply, Sample, Recorded
      <4>2. Sample("icmp", seq + 1, clock - LastSend).via = "icmp"
        BY DEF Sample
      <4>3. samples' = Append(samples, Sample("icmp", seq + 1, clock - LastSend))
        BY <3>1 DEF Reply
      <4>4. QED
        BY <1>0, <4>1, <4>2, <4>3, AppendTyped
    <3>2. CASE UNCHANGED samples
      BY <1>0, <3>2
    <3>3. QED
      BY <1>4, <3>1, <3>2 DEF Unanswered, EchoFails
  <2>4. step' \in {"pausing", "ready"} /\ (step' = "pausing" => seq + 1 < count)
    BY <2>1 DEF AfterEcho
  <2>5. PingTypeOK'
    BY <1>0, <2>1, <2>3, <2>4 DEF PingTypeOK, Steps, Recorded
  <2>6. Progress'
    BY <1>0, <2>1, <2>3, <2>4 DEF Progress
  <2>7. QED
    BY <2>4, <2>5, <2>6 DEF PingInv, ComparableSamples
<1>5. CASE Wake
  <2>1. /\ step = "pausing" /\ step' = "ready"
        /\ UNCHANGED <<count, clock, late, seq, sends, samples>>
    BY <1>5 DEF Wake, timing
  <2>2. QED
    BY <1>0, <2>1, QuietTypes DEF PingInv, Progress, ComparableSamples, Steps
<1>6. CASE Tick
  <2>1. /\ step \in {"ready", "waiting", "pausing"} /\ clock' \in Nat /\ late' \in 0..MaxLate
        /\ UNCHANGED <<count, step, seq, sends, samples>>
    BY <1>0, <1>6 DEF Tick
  <2>2. QED
    BY <1>0, <2>1, QuietTypes DEF PingInv, Progress, ComparableSamples
<1>7. CASE HttpAnswer
  <2>1. PICK t \in HttpTimes :
            samples' = Append(samples, Sample("http", Len(samples) + 1, t))
    BY <1>7 DEF HttpAnswer
  <2>2. /\ step = "http" /\ Len(samples) < count + 2
        /\ UNCHANGED <<count, step, clock, late, seq, sends>>
    BY <1>7 DEF HttpAnswer, timing
  <2>3. /\ Sample("http", Len(samples) + 1, t) \in Recorded
        /\ Sample("http", Len(samples) + 1, t).via = "http"
        /\ Sample("http", Len(samples) + 1, t).nth = Len(samples) + 1
    BY <1>0, PingAssumption DEF Sample, Recorded
  <2>4. /\ samples' \in Seq(Recorded) /\ Len(samples') = Len(samples) + 1
        /\ samples'[Len(samples) + 1] = Sample("http", Len(samples) + 1, t)
        /\ \A i \in 1..Len(samples) : samples'[i] = samples[i]
    BY <1>0, <2>1, <2>3, AppendTyped
  <2>5. PingTypeOK'
    BY <1>0, <2>2, <2>4 DEF PingTypeOK, Recorded
  <2>6. \A i \in 1..Len(samples') : samples'[i].via = "http" /\ samples'[i].nth = i
    BY <1>0, <2>2, <2>3, <2>4 DEF Progress
  <2>7. Progress'
    BY <1>0, <2>2, <2>4, <2>6 DEF Progress
  <2>8. QED
    BY <2>2, <2>5, <2>7 DEF PingInv, ComparableSamples
<1>8. CASE HttpFails
  <2>1. /\ step = "http" /\ step' = "failed"
        /\ UNCHANGED <<count, clock, late, seq, sends, samples>>
    BY <1>8 DEF HttpFails, timing
  <2>2. QED
    BY <1>0, <2>1, QuietTypes DEF PingInv, Progress, ComparableSamples, Steps
<1>9. CASE HttpDone
  <2>1. /\ step = "http" /\ step' = "done" /\ Len(samples) = count + 2
        /\ samples' = Tail(samples)
        /\ UNCHANGED <<count, clock, late, seq, sends>>
    BY <1>0, <1>9 DEF HttpDone, timing
  <2>2. /\ samples' \in Seq(Recorded) /\ Len(samples') = count + 1
        /\ \A i \in 1..(count + 1) : samples'[i] = samples[i + 1]
    <3>1. samples # <<>> /\ Len(samples) - 1 = count + 1
      BY <1>0, <2>1
    <3>2. QED
      BY <1>0, <2>1, <3>1, TailTyped
  <2>3. PingTypeOK' /\ Progress'
    BY <1>0, <2>1, <2>2 DEF PingTypeOK, Progress, Recorded, Steps
  <2>4. \A i \in 1..(count + 1) : samples'[i].via = "http" /\ samples'[i].nth = i + 1
    BY <1>0, <2>1, <2>2 DEF Progress
  <2>5. ComparableSamples'
    BY <1>0, <2>1, <2>2, <2>4 DEF ComparableSamples
  <2>6. QED
    BY <2>3, <2>5 DEF PingInv
<1>10. QED
  BY <1>1, <1>2, <1>3, <1>4, <1>5, <1>6, <1>7, <1>8, <1>9 DEF PingNext, Request

-----------------------------------------------------------------------------
(* The schedule. *)

LEMMA ProductMono ==
    ASSUME NEW a \in Nat, NEW b \in Nat, NEW c \in Nat, a <= b
    PROVE  a * c <= b * c
OBVIOUS

LEMMA ProductSucc == \A a, c \in Int : (a + 1) * c = a * c + c
OBVIOUS

\* The time the echos sent so far may have taken, and how the latest stands to it:
\* whatever the clock is past its end, the task was late.
Schedule ==
    /\ \A i \in 2..Len(sends) : sends[i] - sends[i - 1] \in Interval..(Interval + late)
    /\ step \in {"ready", "waiting", "pausing"} => clock <= Len(sends) * Interval + late
    /\ step \in {"ready", "waiting", "pausing"} /\ sends # <<>> =>
          /\ LastSend <= clock
          /\ LastSend + Interval <= Len(sends) * Interval + late
          /\ clock <= LastSend + Interval + late
    /\ step = "ready" /\ sends # <<>> /\ seq < count => LastSend + Interval <= clock
    /\ step \in {"http", "done"} /\ sends # <<>> /\ Len(sends) < count => Interval <= late
    /\ clock <= Deadline + late

LEMMA ScheduleInitial == PingInit => Schedule
<1> SUFFICES ASSUME PingInit PROVE Schedule
  OBVIOUS
<1>1. count \in Nat /\ Interval \in Nat
  BY PingAssumption DEF PingInit
<1>2. Deadline \in Nat
  BY <1>1 DEF Deadline, Greater
<1>3. QED
  BY <1>1, <1>2 DEF PingInit, Schedule

LEMMA DeadlineBound ==
    ASSUME PingTypeOK
    PROVE  /\ Deadline \in Nat
           /\ \A n \in Nat : n <= count => n * Interval <= Deadline
           /\ \A n \in Nat : n < count => n * Interval + Interval <= Deadline
<1>1. count \in Nat /\ Interval \in Nat /\ Greater(count, 1) \in Nat /\ count <= Greater(count, 1)
  BY CountTyped DEF Greater
<1>2. Deadline \in Nat
  BY <1>1 DEF Deadline
<1>3. ASSUME NEW n \in Nat, n <= count PROVE n * Interval <= Deadline
  BY <1>1, <1>3, ProductMono DEF Deadline
<1>4. ASSUME NEW n \in Nat, n < count PROVE n * Interval + Interval <= Deadline
  <2>1. (n + 1) * Interval <= Deadline
    <3>1. n + 1 \in Nat /\ n + 1 <= count
      BY <1>1, <1>4
    <3>2. QED
      BY <1>3, <3>1
  <2>2. QED
    BY <1>1, <2>1, ProductSucc
<1>5. QED
  BY <1>2, <1>3, <1>4

LEMMA ScheduleStep ==
    ASSUME PingInv, Schedule, PingNext
    PROVE  Schedule'
<1>0. /\ PingTypeOK /\ Progress /\ count \in Nat /\ Interval \in Nat \ {0}
      /\ step \in Steps /\ clock \in Nat /\ late \in Nat /\ seq \in Nat
      /\ sends \in Seq(Nat) /\ Len(sends) \in Nat
      /\ Len(sends) * Interval \in Nat /\ Deadline \in Nat
  BY CountTyped, DeadlineBound DEF PingInv, PingTypeOK
<1>1. sends # <<>> => LastSend \in Nat /\ Len(sends) \in 1..Len(sends)
  BY <1>0 DEF LastSend
<1>2. \A i \in 2..Len(sends) : sends[i] - sends[i - 1] \in Interval..(Interval + late)
  BY DEF Schedule
<1>3. CASE SkipEchos \/ StartEchos \/ HttpAnswer \/ HttpFails \/ HttpDone
  <2>1. UNCHANGED <<count, clock, late, seq, sends>>
    BY <1>3 DEF SkipEchos, StartEchos, HttpAnswer, HttpFails, HttpDone, timing
  <2>2. Deadline' = Deadline /\ LastSend' = LastSend
    BY <2>1 DEF Deadline, LastSend
  <2>3. CASE step = "begin"
    BY <1>0, <1>3, <2>1, <2>2, <2>3
       DEF SkipEchos, StartEchos, HttpAnswer, HttpFails, HttpDone, Progress, Schedule
  <2>4. CASE step = "http"
    BY <1>0, <1>3, <2>1, <2>2, <2>4
       DEF SkipEchos, StartEchos, HttpAnswer, HttpFails, HttpDone, Schedule
  <2>5. QED
    BY <1>3, <2>3, <2>4 DEF SkipEchos, StartEchos, HttpAnswer, HttpFails, HttpDone
<1>4. CASE SendEcho
  <2>1. /\ step = "ready" /\ seq < count /\ step' = "waiting"
        /\ sends' = Append(sends, clock)
        /\ UNCHANGED <<count, clock, late, seq>>
    BY <1>4 DEF SendEcho, timing
  <2>2. /\ sends' \in Seq(Nat) /\ Len(sends') = Len(sends) + 1
        /\ sends'[Len(sends) + 1] = clock
        /\ \A i \in 1..Len(sends) : sends'[i] = sends[i]
    BY <1>0, <2>1, AppendTyped
  <2>3. LastSend' = clock /\ Deadline' = Deadline
    BY <2>1, <2>2 DEF LastSend, Deadline
  <2>4. Len(sends') * Interval = Len(sends) * Interval + Interval
    BY <1>0, <2>2, ProductSucc
  <2>5. ASSUME NEW i \in 2..Len(sends')
        PROVE  sends'[i] - sends'[i - 1] \in Interval..(Interval + late)
    <3>1. CASE i \in 2..Len(sends)
      <4>1. i \in 1..Len(sends) /\ i - 1 \in 1..Len(sends)
        BY <1>0, <3>1
      <4>2. sends'[i] = sends[i] /\ sends'[i - 1] = sends[i - 1]
        BY <2>2, <4>1
      <4>3. QED
        BY <1>2, <3>1, <4>2
    <3>2. CASE i = Len(sends) + 1
      <4>1. sends # <<>> /\ sends'[i] = clock /\ sends'[i - 1] = LastSend
        BY <1>0, <2>2, <3>2 DEF LastSend
      <4>2. LastSend + Interval <= clock /\ clock <= LastSend + Interval + late
        BY <2>1, <4>1 DEF Schedule
      <4>3. LastSend \in Nat /\ clock \in Nat /\ Interval \in Nat /\ late \in Nat
        BY <1>0, <1>1, <4>1
      <4>4. clock - LastSend \in Interval..(Interval + late)
        BY <4>2, <4>3
      <4>5. QED
        BY <4>1, <4>4
    <3>3. QED
      BY <1>0, <2>2, <3>1, <3>2
  <2>6. /\ clock <= Len(sends') * Interval + late
        /\ clock + Interval <= Len(sends') * Interval + late
        /\ clock <= clock + Interval + late
    <3> DEFINE before == Len(sends) * Interval
               after == Len(sends') * Interval
    <3>1. clock <= before + late
      BY <2>1 DEF Schedule
    <3>2. before \in Nat /\ after = before + Interval
      BY <1>0, <2>4
    <3>3. clock \in Nat /\ Interval \in Nat /\ late \in Nat
      BY <1>0
    <3> HIDE DEF before, after
    <3>4. /\ clock <= after + late
          /\ clock + Interval <= after + late
          /\ clock <= clock + Interval + late
      BY <3>1, <3>2, <3>3
    <3>5. QED
      BY <3>4 DEF after
  <2>7. clock <= Deadline + late /\ clock <= clock
    BY <1>0 DEF Schedule
  <2>8. /\ LastSend' <= clock /\ clock <= LastSend' + Interval + late
        /\ LastSend' + Interval <= Len(sends') * Interval + late
        /\ clock <= Deadline' + late
    BY <2>3, <2>6, <2>7
  <2>9. /\ step' = "waiting"
        /\ UNCHANGED <<clock, late>>
    BY <2>1
  <2>10. QED
    BY <2>5, <2>6, <2>8, <2>9 DEF Schedule
<1>5. CASE EndEchos
  <2>1. /\ step = "ready" /\ (seq = count \/ clock >= Deadline) /\ step' \in {"http", "done"}
        /\ UNCHANGED <<count, clock, late, seq, sends>>
    BY <1>5 DEF EndEchos, timing
  <2>2. Deadline' = Deadline
    BY <2>1 DEF Deadline
  <2>3. ASSUME Len(sends) < count PROVE Interval <= late
    <3>1. clock >= Deadline
      BY <1>0, <2>1, <2>3 DEF Progress
    <3>2. Len(sends) * Interval + Interval <= Deadline
      BY <1>0, <2>3, DeadlineBound
    <3>3. clock <= Len(sends) * Interval + late
      BY <2>1 DEF Schedule
    <3>4. QED
      BY <1>0, <3>1, <3>2, <3>3
  <2>4. QED
    BY <1>2, <2>1, <2>2, <2>3 DEF Schedule
<1>6. CASE Reply \/ Unanswered \/ EchoFails
  <2>1. /\ step = "waiting" /\ seq' = seq + 1 /\ step' = AfterEcho
        /\ UNCHANGED <<count, clock, late, sends>>
    BY <1>6 DEF Reply, Unanswered, EchoFails, timing
  <2>2. Deadline' = Deadline /\ LastSend' = LastSend
    BY <2>1 DEF Deadline, LastSend
  <2>3. \/ step' = "pausing"
        \/ step' = "ready" /\ ~(seq' < count)
    BY <1>0, <2>1 DEF AfterEcho
  <2>4. QED
    BY <1>2, <2>1, <2>2, <2>3 DEF Schedule
<1>7. CASE Wake
  <2>1. /\ step = "pausing" /\ step' = "ready" /\ clock >= LastSend + Interval
        /\ UNCHANGED <<count, clock, late, seq, sends>>
    BY <1>7 DEF Wake, PauseEnd, timing
  <2>2. Deadline' = Deadline /\ LastSend' = LastSend
    BY <2>1 DEF Deadline, LastSend
  <2>3. sends # <<>> => LastSend + Interval <= clock
    BY <1>0, <1>1, <2>1
  <2>4. QED
    BY <1>2, <2>1, <2>2, <2>3 DEF Schedule
<1>8. CASE Tick
  <2>1. /\ step \in {"ready", "waiting", "pausing"} /\ clock' = clock + 1
        /\ late' = IF Due THEN late + 1 ELSE late
        /\ UNCHANGED <<count, step, seq, sends>>
    BY <1>8 DEF Tick
  <2>2. Deadline' = Deadline /\ LastSend' = LastSend /\ late' \in Nat /\ late <= late'
    BY <1>0, <2>1 DEF Deadline, LastSend
  <2>3. ASSUME NEW i \in 2..Len(sends)
        PROVE  sends[i] - sends[i - 1] \in Interval..(Interval + late')
    <3>1. sends[i] - sends[i - 1] \in Interval..(Interval + late)
      BY <1>2
    <3>2. QED
      BY <1>0, <2>2, <3>1
  <2>4. sends # <<>> => LastSend <= clock /\ clock <= LastSend + Interval + late
                        /\ LastSend + Interval <= Len(sends) * Interval + late
    BY <2>1 DEF Schedule
  <2>5. clock <= Len(sends) * Interval + late
    BY <2>1 DEF Schedule
  <2>6. /\ clock' <= Len(sends) * Interval + late'
        /\ sends # <<>> => /\ LastSend <= clock' /\ clock' <= LastSend + Interval + late'
                           /\ LastSend + Interval <= Len(sends) * Interval + late'
    <3>1. CASE Due
      BY <1>0, <1>1, <2>1, <2>4, <2>5, <3>1
    <3>2. CASE ~Due
      <4>1. sends # <<>> /\ clock < LastSend + Interval
        <5>1. step \in {"waiting", "pausing"} /\ ~(clock >= LastSend + Interval)
          BY <2>1, <3>2 DEF Due, PauseEnd
        <5>2. Len(sends) # 0
          BY <1>0, <5>1 DEF Progress
        <5>3. sends # <<>>
          BY <5>2
        <5>4. QED
          BY <1>0, <1>1, <5>1, <5>3
      <4>2. QED
        BY <1>0, <1>1, <2>1, <2>4, <2>5, <3>2, <4>1
    <3>3. QED
      BY <3>1, <3>2
  <2>7. sends # <<>> /\ step = "ready" /\ seq < count => LastSend + Interval <= clock'
    <3>1. sends # <<>> /\ step = "ready" /\ seq < count => LastSend + Interval <= clock
      BY DEF Schedule
    <3>2. QED
      BY <1>0, <1>1, <2>1, <3>1
  <2>8. clock' <= Deadline + late'
    <3>1. Len(sends) * Interval <= Deadline
      BY <1>0, DeadlineBound DEF Progress
    <3>2. QED
      BY <1>0, <2>1, <2>2, <2>6, <3>1
  <2>9. QED
    BY <2>1, <2>2, <2>3, <2>6, <2>7, <2>8 DEF Schedule
<1>9. QED
  BY <1>3, <1>4, <1>5, <1>6, <1>7, <1>8 DEF PingNext, Request

-----------------------------------------------------------------------------
(* Induction, by the least counterexample, over the members of a set. *)

LEMMA Least ==
    ASSUME NEW S \in SUBSET Nat, S # {}
    PROVE  \E m \in S : \A n \in S : m <= n
<1> DEFINE Less == OpToRel(<, Nat)
<1>1. Less = {ss \in Nat \X Nat : ss[1] < ss[2]}
  BY DEF OpToRel
<1>2. PICK m \in S : \A n \in S : <<n, m>> \notin Less
  <2>1. IsWellFoundedOn(Less, Nat)
    BY NatLessThanWellFounded
  <2> HIDE DEF Less
  <2>2. QED
    BY <2>1, WFMin
<1> HIDE DEF Less
<1>3. \A n \in S : ~(n < m)
  BY <1>1, <1>2
<1>4. QED
  BY <1>3

LEMMA Induction ==
    ASSUME NEW n \in Nat, NEW G, 0 \in G, \A i \in 1..n : i - 1 \in G => i \in G
    PROVE  \A i \in 0..n : i \in G
<1> DEFINE Bad == {i \in 0..n : i \notin G}
<1>1. SUFFICES ASSUME Bad # {} PROVE FALSE
  OBVIOUS
<1>2. PICK m \in Bad : \A i \in Bad : m <= i
  <2>1. Bad \in SUBSET Nat
    OBVIOUS
  <2>2. QED
    BY <1>1, <2>1, Least
<1>3. m \in 1..n /\ m - 1 \in 0..n
  BY <1>2
<1>4. m - 1 \notin Bad
  BY <1>2, <1>3
<1>5. QED
  BY <1>2, <1>3, <1>4

-----------------------------------------------------------------------------
(* The jitter: the recursive function's equations, and what they bound. *)

\* A fold lies between what it folds; a change is a natural number.
LEMMA FoldBetween ==
    ASSUME NEW jitter \in Nat, NEW delta \in Nat
    PROVE  /\ FoldDelta(jitter, delta) \in Nat
           /\ FoldDelta(jitter, delta) <= Greater(jitter, delta)
<1> DEFINE sum == IF jitter > delta THEN 7 * jitter + 3 * delta
                                    ELSE 2 * delta + 8 * jitter
<1>1. sum \in Nat /\ sum <= 10 * Greater(jitter, delta) /\ Greater(jitter, delta) \in Nat
  BY DEF Greater
<1> HIDE DEF sum
<1>2. sum \div 10 \in Nat /\ sum \div 10 <= Greater(jitter, delta)
  BY <1>1
<1>3. FoldDelta(jitter, delta) = sum \div 10
  BY DEF FoldDelta, sum
<1>4. QED
  BY <1>2, <1>3

LEMMA DeltaTyped ==
    ASSUME PingTypeOK, NEW i \in 2..Len(samples)
    PROVE  Delta(i) \in Nat
<1>1. samples \in Seq(Recorded) /\ Len(samples) \in Nat /\ i \in Nat
  BY DEF PingTypeOK, Recorded
<1>2. samples[i] \in Recorded /\ samples[i - 1] \in Recorded
  BY <1>1
<1>3. samples[i].time \in Nat /\ samples[i - 1].time \in Nat
  BY <1>2 DEF Recorded
<1> HIDE DEF Recorded
<1>4. QED
  BY <1>3 DEF Delta, Distance

\* What compute_jitter has after the ith sample, if f is what it had before.
Computed(f, i) ==
    IF i <= 2 THEN 0 ELSE FoldDelta(f[i - 1], Delta(i))

LEMMA ComputedTyped ==
    ASSUME PingTypeOK, NEW i \in 1..Len(samples), NEW f, i # 1 => f[i - 1] \in Nat
    PROVE  Computed(f, i) \in Nat
<1>1. CASE i <= 2
  BY <1>1 DEF Computed
<1>2. CASE ~(i <= 2)
  <2>1. Len(samples) \in Nat
    BY DEF PingTypeOK
  <2>2. Delta(i) \in Nat /\ f[i - 1] \in Nat
    BY <1>2, <2>1, DeltaTyped
  <2>3. QED
    BY <1>2, <2>2, FoldBetween DEF Computed
<1>3. QED
  BY <1>1, <1>2

LEMMA ComputedExists ==
    ASSUME PingTypeOK
    PROVE  \E f \in [1..Len(samples) -> Nat] : \A i \in 1..Len(samples) : f[i] = Computed(f, i)
<1>0. Len(samples) \in Nat
  BY DEF PingTypeOK
<1> DEFINE Upto(k, f) == \A i \in 1..k : f[i] = Computed(f, i)
           G == {k \in 0..Len(samples) : \E f \in [1..k -> Nat] : Upto(k, f)}
<1>1. 0 \in G
  <2>1. [i \in 1..0 |-> 0] \in [1..0 -> Nat] /\ Upto(0, [i \in 1..0 |-> 0])
    OBVIOUS
  <2>2. 0 \in 0..Len(samples)
    BY <1>0
  <2> HIDE DEF Upto
  <2>3. QED
    BY <2>1, <2>2
<1>2. ASSUME NEW k \in 1..Len(samples), k - 1 \in G PROVE k \in G
  <2>1. PICK f \in [1..(k - 1) -> Nat] : Upto(k - 1, f)
    BY <1>2
  <2> DEFINE g == [i \in 1..k |-> IF i = k THEN Computed(f, k) ELSE f[i]]
  <2>2. Computed(f, k) \in Nat
    <3>1. k # 1 => f[k - 1] \in Nat
      BY <1>0, <2>1
    <3>2. QED
      BY <3>1, ComputedTyped
  <2>3. g \in [1..k -> Nat]
    BY <1>0, <2>1, <2>2
  <2>4. ASSUME NEW i \in 1..k PROVE g[i] = Computed(g, i)
    <3>1. i # 1 => g[i - 1] = f[i - 1]
      BY <1>0
    <3>2. Computed(g, i) = Computed(f, i)
      BY <3>1 DEF Computed
    <3>3. g[i] = Computed(f, i)
      <4>1. CASE i = k
        BY <4>1
      <4>2. CASE i # k
        <5>1. i \in 1..(k - 1) /\ g[i] = f[i]
          BY <1>0, <4>2
        <5>2. QED
          BY <2>1, <5>1
      <4>3. QED
        BY <4>1, <4>2
    <3>4. QED
      BY <3>2, <3>3
  <2>5. k \in 0..Len(samples)
    BY <1>0
  <2>6. Upto(k, g)
    <3> HIDE DEF g
    <3>1. QED
      BY <2>4
  <2> HIDE DEF Upto, g
  <2>7. QED
    BY <2>3, <2>5, <2>6
<1>3. Len(samples) \in G
  <2> HIDE DEF G
  <2>1. \A i \in 0..Len(samples) : i \in G
    BY <1>0, <1>1, <1>2, Induction
  <2>2. QED
    BY <1>0, <2>1
<1>4. QED
  BY <1>3

LEMMA JitterComputed ==
    ASSUME PingTypeOK
    PROVE  \A i \in 1..Len(samples) : Jitter[i] = Computed(Jitter, i)
<1> DEFINE Rule(f) == [i \in 1..Len(samples) |-> Computed(f, i)]
<1>1. PICK f \in [1..Len(samples) -> Nat] : \A i \in 1..Len(samples) : f[i] = Computed(f, i)
  BY ComputedExists
<1>2. f = Rule(f)
  BY <1>1
<1>3. Jitter = CHOOSE g : g = Rule(g)
  BY DEF Jitter, Computed
<1> HIDE DEF Rule
<1>4. Jitter = Rule(Jitter)
  BY <1>2, <1>3
<1>5. QED
  BY <1>4 DEF Rule

LEMMA JitterBounded == PingTypeOK => JitterWithinDeltas
<1> SUFFICES ASSUME PingTypeOK PROVE JitterWithinDeltas
  OBVIOUS
<1> DEFINE Among(i) == Jitter[i] = 0 \/ \E k \in 3..i : Jitter[i] \in 0..Delta(k)
           G == {i \in 0..Len(samples) : i # 0 => Jitter[i] \in Nat /\ Among(i)}
<1>0. Len(samples) \in Nat
  BY DEF PingTypeOK
<1>1. 0 \in G
  BY <1>0
<1>2. ASSUME NEW i \in 1..Len(samples), i - 1 \in G PROVE i \in G
  <2>0. i \in 0..Len(samples) /\ Jitter[i] = Computed(Jitter, i)
    BY <1>0, JitterComputed
  <2>1. CASE i <= 2
    BY <2>0, <2>1 DEF Computed
  <2>2. CASE ~(i <= 2)
    <3>1. i > 2 /\ i \in Nat /\ i - 1 \in 1..Len(samples) /\ i \in 2..Len(samples)
      BY <1>0, <2>2
    <3>2. Jitter[i - 1] \in Nat /\ Among(i - 1)
      BY <1>2, <3>1
    <3>3. Delta(i) \in Nat /\ Jitter[i] = FoldDelta(Jitter[i - 1], Delta(i))
      BY <2>0, <2>2, <3>1, DeltaTyped DEF Computed
    <3>4. Jitter[i] \in Nat /\ Jitter[i] <= Greater(Jitter[i - 1], Delta(i))
      BY <3>2, <3>3, FoldBetween
    <3>5. Among(i)
      <4>1. CASE Jitter[i] <= Delta(i)
        BY <3>1, <3>3, <3>4, <4>1
      <4>2. CASE Jitter[i] <= Jitter[i - 1]
        <5>1. CASE Jitter[i - 1] = 0
          BY <3>4, <4>2, <5>1
        <5>2. ASSUME NEW k \in 3..(i - 1), Jitter[i - 1] \in 0..Delta(k)
              PROVE  Among(i)
          <6>1. k \in 3..i /\ Delta(k) \in Nat
            BY <1>0, <3>1, DeltaTyped
          <6>2. Jitter[i] \in 0..Delta(k)
            BY <3>2, <3>4, <4>2, <5>2, <6>1
          <6>3. QED
            BY <6>1, <6>2
        <5>3. QED
          BY <3>2, <5>1, <5>2
      <4>3. QED
        BY <3>2, <3>3, <3>4, <4>1, <4>2 DEF Greater
    <3>6. QED
      BY <2>0, <3>4, <3>5
  <2>3. QED
    BY <2>1, <2>2
<1>3. \A i \in 0..Len(samples) : i \in G
  <2> HIDE DEF G
  <2>1. QED
    BY <1>0, <1>1, <1>2, Induction
<1>4. \A i \in 1..Len(samples) : Among(i)
  BY <1>0, <1>3
<1>5. QED
  BY <1>4 DEF JitterWithinDeltas

-----------------------------------------------------------------------------
(* The phase. *)

\* Who owns the line: the animation runs while its owner has not joined it, and
\* there is neither in a silent run.
Ownership ==
    /\ phase = "starting" \/ quiet => owner = "none"
    /\ owner = "none" => task = "none"
    /\ owner = "stopped" => task \in {"none", "returned"}
    /\ phase \in {"measured", "failing", "failed"} => owner \in {"none", "stopped"}

PhaseInv == TypeOK /\ PingInv /\ ComparableSamples /\ Schedule /\ Ownership

LEMMA PhaseInitial == PhaseInit => PhaseInv
BY PingInitial, ScheduleInitial
   DEF PhaseInit, PhaseInv, TypeOK, PingInv, SpinTypeOK, SpinInit, Ownership

LEMMA PingStutters ==
    ASSUME PingInv, ComparableSamples, Schedule, UNCHANGED pingVars
    PROVE  PingInv' /\ ComparableSamples' /\ Schedule'
BY DEF pingVars, timing, PingInv, PingTypeOK, Progress, ComparableSamples, Schedule,
       Deadline, LastSend

LEMMA PhaseStep == PhaseInv /\ [Next]_vars => PhaseInv'
<1> SUFFICES ASSUME PhaseInv, [Next]_vars PROVE PhaseInv'
  OBVIOUS
<1> USE DEF PhaseInv, TypeOK, Ownership
<1>1. PingInv' /\ ComparableSamples' /\ Schedule'
  <2>1. PingNext \/ UNCHANGED pingVars
    BY DEF Next, Begin, Measure, StopSpinner, LastWord, ReportFailure, Animate, Over, vars
  <2>2. QED
    BY <2>1, PingStep, ScheduleStep, PingStutters
<1>2. PingTypeOK'
  BY <1>1 DEF PingInv
<1>3. CASE Begin
  BY <1>1, <1>2, <1>3 DEF Begin, StartSpinner, SpinTypeOK, spinVars
<1>4. CASE Measure
  BY <1>1, <1>2, <1>4 DEF Measure, SpinTypeOK, spinVars
<1>5. CASE StopSpinner
  BY <1>1, <1>2, <1>5 DEF StopSpinner, ClearFlag, Notify, SpinTypeOK
<1>6. CASE LastWord
  BY <1>1, <1>2, <1>6 DEF LastWord, Finish, Message, SpinTypeOK, spinVars
<1>7. CASE ReportFailure
  BY <1>1, <1>2, <1>7 DEF ReportFailure, SpinTypeOK
<1>8. CASE Animate
  BY <1>1, <1>2, <1>8 DEF Animate, Animation, Look, Draw, Ticked, Notified, SpinTypeOK
<1>9. CASE Over \/ UNCHANGED vars
  BY <1>1, <1>2, <1>9 DEF Over, vars, spinVars, SpinTypeOK
<1>10. QED
  BY <1>3, <1>4, <1>5, <1>6, <1>7, <1>8, <1>9 DEF Next

LEMMA PhaseInvariant == Spec => []PhaseInv
BY PhaseInitial, PhaseStep, PTL DEF Spec

\* Every variable of the ping phase has its type.
THEOREM TypeCorrect == Spec => []TypeOK
BY PhaseInvariant, PTL DEF PhaseInv

\* icmp_ping_and_jitter's averages are over echos only, or over the HTTP
\* requests that shook no hands.
THEOREM Comparable == Spec => []ComparableSamples
BY PhaseInvariant, PTL DEF PhaseInv

\* compute_jitter's average never leaves the changes it averages, for any number
\* of samples of any length.
THEOREM JitterStays == Spec => []JitterWithinDeltas
<1>1. PhaseInv => JitterWithinDeltas
  BY JitterBounded DEF PhaseInv, TypeOK
<1>2. QED
  BY <1>1, PhaseInvariant, PTL

\* icmp_rtts sends its echos an interval apart, and all of them unless the task
\* itself was late by one.
THEOREM OnSchedule == Spec => []EchosOnSchedule
<1>1. Schedule => EchosOnSchedule
  BY DEF Schedule, EchosOnSchedule
<1>2. QED
  BY <1>1, PhaseInvariant, PTL DEF PhaseInv

\* Nothing is drawn over the result or the error once stop has joined the task.
THEOREM LastWordKept == Spec => LastWordStands
<1>1. PhaseInv /\ [Next]_vars =>
          [phase = "failing" \/ PhaseOver => line' = line \/ phase' # phase]_vars
  <2> SUFFICES ASSUME PhaseInv, [Next]_vars, phase = "failing" \/ PhaseOver, phase' = phase
               PROVE  line' = line
    OBVIOUS
  <2>1. phase \in {"failing", "measured", "failed"} /\ task \in {"none", "returned"}
    BY DEF PhaseOver, PhaseInv, Ownership
  <2>2. QED
    BY <2>1 DEF Next, Begin, Measure, StopSpinner, LastWord, ReportFailure, Animate,
                Animation, Look, Draw, Ticked, Notified, Over, vars, spinVars
<1>2. QED
  BY <1>1, PhaseInvariant, PTL DEF Spec, LastWordStands
=============================================================================
