--------------------------- MODULE TransferProofs ---------------------------
(***************************************************************************)
(* Theorems about Transfer, for every number of streams, every duration    *)
(* and timeout, and both directions.                                       *)
(***************************************************************************)
EXTENDS Transfer, TLAPS

-----------------------------------------------------------------------------
(* Types. *)

LEMMA ConstantTypes ==
    /\ Span \in Nat
    /\ Requests * RampUp \in Nat
    /\ MaxElapsed >= Span
BY TransferAssumption DEF Span

\* Every slot change keeps the types of the slots.
LEMMA LeaveType ==
    ASSUME NEW s \in Streams, NEW end \in {"gone"} \cup Ended, TypeOK, Leave(s, end)
    PROVE  /\ stream' \in [Streams -> {"idle", "gone"} \cup Running \cup Ended]
           /\ ttl' \in [Streams -> 0..Timeout]
           /\ answered' \in [Streams -> BOOLEAN]
           /\ stray' \in BOOLEAN
BY TransferAssumption DEF TypeOK, Leave

LEMMA StartType ==
    ASSUME NEW s \in Streams, TypeOK, Start(s)
    PROVE  /\ stream' \in [Streams -> {"idle", "gone"} \cup Running \cup Ended]
           /\ ttl' \in [Streams -> 0..Timeout]
           /\ answered' \in [Streams -> BOOLEAN]
BY TransferAssumption DEF TypeOK, Start, Running

LEMMA TypeInit == Init => TypeOK
<1> SUFFICES ASSUME Init PROVE TypeOK
  OBVIOUS
<1>1. /\ stream \in [Streams -> {"idle", "gone"} \cup Running \cup Ended]
      /\ ttl \in [Streams -> 0..Timeout]
      /\ answered \in [Streams -> BOOLEAN]
  BY TransferAssumption DEF Init
<1>2. reads \in Seq(Nat)
  BY DEF Init
<1>3. /\ phase \in Phases /\ spawned \in 0..Requests /\ timer \in Nat
      /\ elapsed \in 0..MaxElapsed /\ counted \in 0..MaxBytes
  BY TransferAssumption DEF Init, Phases
<1>4. /\ queue \in 0..QueueCap /\ sent \in Nat /\ overhead \in 0..MaxOverhead
      /\ lost \in Nat
  BY TransferAssumption DEF Init
<1>5. stray \in BOOLEAN /\ held \in Nat \cup {Unread} /\ sentAtRead \in Nat
  BY DEF Init
<1>6. QED
  BY <1>1, <1>2, <1>3, <1>4, <1>5 DEF TypeOK

LEMMA TypeStep == TypeOK /\ [Next]_vars => TypeOK'
<1> SUFFICES ASSUME TypeOK, [Next]_vars PROVE TypeOK'
  OBVIOUS
<1>1. CASE Spawn
  <2>1. spawned + 1 \in Streams
    BY <1>1, TransferAssumption DEF Spawn, TypeOK, Streams
  <2>2. /\ stream' \in [Streams -> {"idle", "gone"} \cup Running \cup Ended]
        /\ ttl' \in [Streams -> 0..Timeout]
        /\ answered' \in [Streams -> BOOLEAN]
    BY <1>1, <2>1, StartType DEF Spawn
  <2>3. spawned' \in 0..Requests /\ timer' \in Nat
    BY <1>1, TransferAssumption DEF Spawn, TypeOK
  <2>4. QED
    BY <1>1, <2>2, <2>3 DEF Spawn, TypeOK, wire, finale
<1>2. CASE OpenWindow
  BY <1>2, TransferAssumption DEF OpenWindow, TypeOK, Phases, wire, finale, slots
<1>3. ASSUME NEW s \in Streams, Join(s) PROVE TypeOK'
  <2>1. CASE stream[s] \in Replaceable
    BY <1>3, <2>1, StartType DEF Join, TypeOK, wire, finale
  <2>2. CASE stream[s] \notin Replaceable
    BY <1>3, <2>2 DEF Join, TypeOK, wire, finale
  <2>3. QED BY <2>1, <2>2
<1>4. CASE CloseWindow
  BY <1>4 DEF CloseWindow, TypeOK, Phases, wire, finale, slots
<1>5. CASE AllUnwound
  BY <1>5 DEF AllUnwound, TypeOK, Phases, wire, finale, slots
<1>6. CASE StopTicker
  BY <1>6 DEF StopTicker, TypeOK, Phases, wire, finale, slots
<1>7. CASE ReadTally
  BY <1>7, TransferAssumption DEF ReadTally, TypeOK, Phases, wire, slots
<1>8. CASE ReadCeiling
  <2>1. Total(held) \in Nat
    BY <1>8 DEF ReadCeiling, TypeOK, Total, Lesser, Meter, Unread
  <2>2. reads' \in Seq(Nat)
    BY <1>8, <2>1 DEF ReadCeiling, TypeOK
  <2>3. phase' \in Phases
    BY <1>8 DEF ReadCeiling, Phases
  <2>4. QED
    BY <1>8, <2>2, <2>3 DEF ReadCeiling, TypeOK, wire, slots
<1>9. ASSUME NEW s \in Streams, StreamStep(s) PROVE TypeOK'
  <2>1. CASE Answer(s)
    BY <1>9, <2>1 DEF Answer, TypeOK, wire, finale, Running
  <2>2. CASE RequestFails(s)
    BY <2>2, LeaveType DEF RequestFails, TypeOK, wire, finale, Ended
  <2>3. CASE Receive(s)
    BY <2>3, TransferAssumption DEF Receive, TypeOK, wire, finale, slots
  <2>4. CASE BodyEnds(s)
    BY <2>4, LeaveType DEF BodyEnds, TypeOK, wire, finale, Ended
  <2>5. CASE Expire(s)
    BY <2>5, LeaveType DEF Expire, TypeOK, wire, finale, Ended
  <2>6. CASE Unwind(s)
    BY <2>6, LeaveType DEF Unwind, TypeOK, wire, finale
  <2>7. QED
    BY <1>9, <2>1, <2>2, <2>3, <2>4, <2>5, <2>6 DEF StreamStep
<1>10. CASE ConnectionStep
  <2>1. CASE TakeFrame
    BY <2>1, TransferAssumption DEF TakeFrame, TypeOK, finale, slots
  <2>2. CASE WriteBody
    BY <2>2, TransferAssumption DEF WriteBody, TypeOK, finale, slots
  <2>3. CASE WriteOverhead
    BY <2>3, TransferAssumption DEF WriteOverhead, TypeOK, finale, slots
  <2>4. CASE CloseStray
    <3>1. PICK n \in 0..queue : queue' = queue - n /\ lost' = lost + n
      BY <2>4 DEF CloseStray
    <3>2. queue' \in 0..QueueCap /\ lost' \in Nat
      BY <3>1, TransferAssumption DEF TypeOK
    <3>3. QED
      BY <2>4, <3>2 DEF CloseStray, TypeOK, finale, slots
  <2>5. QED
    BY <1>10, <2>1, <2>2, <2>3, <2>4 DEF ConnectionStep
<1>11. CASE Tick
  <2>1. elapsed' \in 0..MaxElapsed
    BY <1>11, TransferAssumption DEF Tick, TypeOK, Lesser
  <2>2. timer' \in Nat
    BY <1>11 DEF Tick, TypeOK
  <2>3. ttl' \in [Streams -> 0..Timeout]
    BY <1>11, TransferAssumption DEF Tick, TypeOK
  <2>4. QED
    BY <1>11, <2>1, <2>2, <2>3 DEF Tick, TypeOK, wire, finale
<1>12. CASE UNCHANGED vars
  BY <1>12 DEF TypeOK, vars, wire, finale, slots
<1>13. QED
  BY <1>1, <1>2, <1>3, <1>4, <1>5, <1>6, <1>7, <1>8, <1>9, <1>10, <1>11, <1>12
     DEF Next, PhaseTask, Terminating

\* Every variable keeps its type and its bound, whatever the streams do.
THEOREM TypeCorrect == Spec => []TypeOK
BY TypeInit, TypeStep, PTL DEF Spec

-----------------------------------------------------------------------------
(* The inductive invariant.                                                *)

\* The sleeps the ramp-up has begun.
RampOwed == spawned * RampUp

\* Time still owed to the sleep under way has been or will be spent.
TimePaid ==
    /\ phase = "ramp" => elapsed + timer >= RampOwed
    /\ phase = "window" => elapsed + timer >= Span

\* Once the set is joined no stream runs again.
Joined ==
    phase \in {"ticker", "read", "done"} => \A s \in Streams : stream[s] = "gone"

\* Every frame counted was written, is queued in hyper, or died with its
\* connection; a download has no such layer.
Conservation ==
    /\ Upload => counted = sent + queue + lost
    /\ ~Upload => stray = FALSE

\* A tally read is at least what had been sent and at most what is counted.
HeldBetween ==
    held # Unread =>
        /\ phase = "read"
        /\ held <= counted
        /\ sentAtRead <= sent
        /\ Upload => sentAtRead <= held
        /\ ~Upload => held = counted

\* Nothing is read before the streams are joined, and all of it by the end.
ReadsInOrder ==
    /\ phase \notin {"read", "done"} => reads = <<>>
    /\ phase = "done" => Len(reads) = FinalReads

IInv ==
    /\ TypeOK
    /\ TimePaid
    /\ WindowHonoured
    /\ Joined
    /\ Conservation
    /\ HeldBetween
    /\ ReadsInOrder
    /\ ~Upload => ReportedTotalStable

LEMMA InvInit == Init => IInv
<1> SUFFICES ASSUME Init PROVE IInv
  OBVIOUS
<1>1. TypeOK
  BY TypeInit
<1>2. TimePaid
  BY TransferAssumption DEF Init, TimePaid, RampOwed
<1>3. QED
  BY <1>1, <1>2 DEF IInv, Init, WindowHonoured, Joined, Conservation,
     HeldBetween, ReadsInOrder, ReportedTotalStable, Unread

LEMMA RampStep ==
    /\ \A n \in Nat : (n + 1) * RampUp = n * RampUp + RampUp
    /\ \A n \in 0..Requests : n * RampUp \in Nat /\ n * RampUp <= Requests * RampUp
<1>1. \A n \in Nat : (n + 1) * RampUp = n * RampUp + RampUp
  BY TransferAssumption
<1>2. ASSUME NEW n \in 0..Requests PROVE n * RampUp \in Nat /\ n * RampUp <= Requests * RampUp
  BY TransferAssumption
<1>3. QED BY <1>1, <1>2

LEMMA RampOwedBound ==
    ASSUME spawned \in 0..Requests
    PROVE  RampOwed \in Nat /\ RampOwed <= Span
<1>1. RampOwed \in Nat /\ RampOwed <= Requests * RampUp
  BY RampStep DEF RampOwed
<1>2. Requests * RampUp \in Nat /\ Span = Requests * RampUp + Duration
  BY ConstantTypes DEF Span
<1>3. QED
  BY <1>1, <1>2, TransferAssumption

\* A tick moves a unit from the sleep to the clock, and neither goes past its end.
LEMMA TickPays ==
    ASSUME NEW e \in Nat, NEW t \in Nat, NEW owed \in Nat, NEW m \in Nat,
           owed <= m, e <= m
    PROVE  /\ e + t >= owed => Lesser(e + 1, m) + (IF t > 0 THEN t - 1 ELSE 0) >= owed
           /\ Lesser(e + 1, m) >= e
BY DEF Lesser

\* The clock and the sleeps: what has passed and what is left cover what is owed.
LEMMA TimeStep ==
    ASSUME IInv, [Next]_vars
    PROVE  TimePaid' /\ WindowHonoured'
<1>t. /\ elapsed \in Nat /\ timer \in Nat /\ spawned \in 0..Requests
      /\ elapsed <= MaxElapsed /\ MaxElapsed \in Nat
      /\ Span \in Nat /\ Span <= MaxElapsed
  BY TransferAssumption, ConstantTypes DEF IInv, TypeOK
<1>0. RampOwed \in Nat /\ RampOwed <= Span
  BY <1>t, RampOwedBound
<1> USE TransferAssumption, ConstantTypes DEF IInv, TypeOK, TimePaid, WindowHonoured
<1>1. CASE Spawn
  <2>1. RampOwed' = RampOwed + RampUp
    BY <1>1, RampStep DEF Spawn, RampOwed
  <2>2. QED
    BY <1>0, <1>1, <2>1 DEF Spawn
<1>2. CASE OpenWindow
  <2>1. RampOwed + Duration = Span
    BY <1>2 DEF OpenWindow, Span, RampOwed
  <2>2. QED
    BY <1>0, <1>2, <2>1 DEF OpenWindow
<1>u. spawned' = spawned => RampOwed' = RampOwed
  BY DEF RampOwed
<1>3. ASSUME NEW s \in Streams, Join(s) PROVE TimePaid' /\ WindowHonoured'
  BY <1>3, <1>u DEF Join
<1>4. CASE CloseWindow
  BY <1>4, <1>u DEF CloseWindow
<1>5. CASE AllUnwound \/ StopTicker \/ ReadTally
  BY <1>5, <1>u DEF AllUnwound, StopTicker, ReadTally
<1>6. CASE ReadCeiling
  BY <1>6, <1>u DEF ReadCeiling
<1>7. ASSUME NEW s \in Streams, StreamStep(s) PROVE TimePaid' /\ WindowHonoured'
  BY <1>7, <1>u DEF StreamStep, Answer, RequestFails, Receive, BodyEnds, Expire, Unwind
<1>8. CASE ConnectionStep
  BY <1>8, <1>u DEF ConnectionStep, TakeFrame, WriteBody, WriteOverhead, CloseStray
<1>9. CASE Tick
  <2> HIDE DEF IInv, TypeOK, TimePaid, WindowHonoured
  <2>1. RampOwed' = RampOwed
    BY <1>9 DEF Tick, RampOwed
  <2>2. /\ phase' = phase
        /\ elapsed' = Lesser(elapsed + 1, MaxElapsed)
        /\ timer' = IF timer > 0 THEN timer - 1 ELSE 0
    BY <1>9 DEF Tick
  <2>3. ASSUME NEW owed \in Nat, owed <= MaxElapsed, elapsed + timer >= owed
        PROVE  elapsed' + timer' >= owed
    BY <1>t, <2>2, <2>3, TickPays
  <2>4. elapsed' >= elapsed /\ elapsed' \in Nat
    BY <1>t, <2>2 DEF Lesser
  <2>5. RampOwed <= MaxElapsed
    BY <1>t, <1>0
  <2>6. TimePaid'
    <3>1. phase = "ramp" => elapsed' + timer' >= RampOwed
      BY <1>0, <2>3, <2>5 DEF IInv, TimePaid
    <3>2. phase = "window" => elapsed' + timer' >= Span
      BY <1>t, <2>3 DEF IInv, TimePaid
    <3>3. Span' = Span
      BY DEF Span
    <3>4. QED
      BY <2>1, <2>2, <3>1, <3>2, <3>3 DEF TimePaid
  <2>7. WindowHonoured'
    BY <1>t, <2>2, <2>4 DEF IInv, WindowHonoured
  <2>8. QED BY <2>6, <2>7
<1>10. CASE UNCHANGED vars
  BY <1>10, <1>u DEF vars
<1>11. QED
  BY <1>1, <1>2, <1>3, <1>4, <1>5, <1>6, <1>7, <1>8, <1>9, <1>10
     DEF Next, PhaseTask, Terminating

\* A joined set stays joined: only the ramp-up and the window start streams.
LEMMA JoinedStep ==
    ASSUME IInv, [Next]_vars
    PROVE  Joined'
<1> USE DEF IInv, TypeOK, Joined
<1>1. CASE Spawn \/ OpenWindow \/ CloseWindow
  BY <1>1 DEF Spawn, OpenWindow, CloseWindow
<1>2. ASSUME NEW s \in Streams, Join(s) PROVE Joined'
  BY <1>2 DEF Join
<1>3. CASE AllUnwound \/ StopTicker \/ ReadTally
  BY <1>3 DEF AllUnwound, StopTicker, ReadTally, slots
<1>4. CASE ReadCeiling
  BY <1>4 DEF ReadCeiling, slots
<1>5. ASSUME NEW s \in Streams, StreamStep(s) PROVE Joined'
  <2>1. CASE Receive(s)
    BY <2>1 DEF Receive, slots
  <2>2. CASE Unwind(s)
    BY <2>2 DEF Unwind
  <2>3. CASE stream[s] # "gone" /\ phase' = phase /\ phase \notin {"ticker", "read", "done"}
    BY <2>3
  <2>4. (Answer(s) \/ RequestFails(s) \/ BodyEnds(s) \/ Expire(s)) => stream[s] # "gone" /\ phase' = phase
    BY DEF Answer, RequestFails, BodyEnds, Expire
  <2>5. QED
    BY <1>5, <2>1, <2>2, <2>3, <2>4 DEF StreamStep
<1>6. CASE ConnectionStep
  BY <1>6 DEF ConnectionStep, TakeFrame, WriteBody, WriteOverhead, CloseStray, slots
<1>7. CASE Tick
  BY <1>7 DEF Tick
<1>8. CASE UNCHANGED vars
  BY <1>8 DEF vars, slots
<1>9. QED
  BY <1>1, <1>2, <1>3, <1>4, <1>5, <1>6, <1>7, <1>8 DEF Next, PhaseTask, Terminating

\* Frames move between the queue, the wire and the lost, and none appears twice.
LEMMA ConservationStep ==
    ASSUME IInv, [Next]_vars
    PROVE  Conservation'
<1> USE TransferAssumption DEF IInv, TypeOK, Conservation
<1>1. CASE Spawn \/ OpenWindow \/ CloseWindow \/ AllUnwound \/ StopTicker \/ ReadTally
  BY <1>1 DEF Spawn, OpenWindow, CloseWindow, AllUnwound, StopTicker, ReadTally, wire
<1>2. ASSUME NEW s \in Streams, Join(s) PROVE Conservation'
  BY <1>2 DEF Join, wire
<1>3. CASE ReadCeiling
  BY <1>3 DEF ReadCeiling, wire
<1>4. ASSUME NEW s \in Streams, StreamStep(s) PROVE Conservation'
  <2>1. CASE Answer(s)
    BY <2>1 DEF Answer, wire
  <2>2. CASE Receive(s)
    BY <2>2 DEF Receive, wire
  <2>3. CASE RequestFails(s) \/ BodyEnds(s) \/ Expire(s) \/ Unwind(s)
    <3>1. /\ counted' = counted /\ sent' = sent /\ queue' = queue /\ lost' = lost
          /\ stray' = (Upload \/ stray)
      BY <2>3 DEF RequestFails, BodyEnds, Expire, Unwind, Leave, wire
    <3>2. QED BY <3>1
  <2>4. QED
    BY <1>4, <2>1, <2>2, <2>3 DEF StreamStep
<1>5. CASE TakeFrame \/ WriteBody \/ WriteOverhead
  <2>1. Upload /\ stray' = stray /\ lost' = lost
    BY <1>5 DEF TakeFrame, WriteBody, WriteOverhead, Connected
  <2>2. CASE TakeFrame
    BY <2>1, <2>2 DEF TakeFrame
  <2>3. CASE WriteBody
    BY <2>1, <2>3 DEF WriteBody
  <2>4. CASE WriteOverhead
    BY <2>1, <2>4 DEF WriteOverhead
  <2>5. QED BY <1>5, <2>2, <2>3, <2>4
<1>6. CASE CloseStray
  BY <1>6 DEF CloseStray
<1>7. CASE Tick
  BY <1>7 DEF Tick, wire
<1>8. CASE UNCHANGED vars
  BY <1>8 DEF vars, wire
<1>9. QED
  BY <1>1, <1>2, <1>3, <1>4, <1>5, <1>6, <1>7, <1>8
     DEF Next, PhaseTask, Terminating, ConnectionStep

\* The finale reads a tally that only an upload's connections can still move.
LEMMA FinaleStep ==
    ASSUME IInv, [Next]_vars
    PROVE  HeldBetween' /\ ReadsInOrder' /\ (~Upload => ReportedTotalStable)'
<1> DEFINE Goal == HeldBetween' /\ ReadsInOrder' /\ (~Upload => ReportedTotalStable)'
<1>t. /\ counted \in Nat /\ sent \in Nat /\ lost \in Nat /\ queue \in Nat
      /\ held \in Nat \cup {Unread} /\ reads \in Seq(Nat)
      /\ Upload => counted = sent + queue + lost
  BY TransferAssumption DEF IInv, TypeOK, Conservation
<1>i. HeldBetween /\ ReadsInOrder /\ (~Upload => ReportedTotalStable)
  BY DEF IInv
<1>f. ASSUME UNCHANGED finale, UNCHANGED phase, counted' >= counted, sent' >= sent,
             counted' \in Nat, sent' \in Nat, ~Upload => counted' = counted \/ phase \notin {"read", "done"}
      PROVE  Goal
  <2>1. HeldBetween'
    <3> SUFFICES ASSUME held' # Unread PROVE HeldBetween'
      BY DEF HeldBetween
    <3>1. held' = held /\ sentAtRead' = sentAtRead /\ phase' = phase
      BY <1>f DEF finale
    <3>2. /\ held \in Nat /\ phase = "read" /\ held <= counted /\ sentAtRead <= sent
          /\ Upload => sentAtRead <= held
          /\ ~Upload => held = counted
      BY <1>t, <1>i, <3>1 DEF HeldBetween
    <3>3. held <= counted' /\ (~Upload => held = counted')
      BY <1>t, <1>f, <3>2
    <3>4. sentAtRead \in Nat
      BY DEF IInv, TypeOK
    <3>5. sentAtRead <= sent'
      BY <1>t, <1>f, <3>2, <3>4
    <3>6. QED
      BY <3>1, <3>2, <3>3, <3>5 DEF HeldBetween
  <2>2. ReadsInOrder'
    BY <1>i, <1>f DEF ReadsInOrder, finale
  <2>3. ~Upload => ReportedTotalStable'
    BY <1>i, <1>f DEF ReadsInOrder, ReportedTotalStable, Total, finale
  <2>4. QED BY <2>1, <2>2, <2>3
<1>g. ASSUME UNCHANGED finale, UNCHANGED <<counted, sent>>, phase \notin {"read", "done"},
             phase' # "done"
      PROVE  Goal
  <2>1. held = Unread /\ reads = <<>>
    BY <1>i, <1>g DEF HeldBetween, ReadsInOrder
  <2>2. QED
    BY <2>1, <1>g DEF HeldBetween, ReadsInOrder, ReportedTotalStable, finale
<1>1. CASE Spawn \/ OpenWindow \/ CloseWindow \/ AllUnwound \/ StopTicker
  BY <1>1, <1>g DEF Spawn, OpenWindow, CloseWindow, AllUnwound, StopTicker, wire
<1>2. ASSUME NEW s \in Streams, Join(s) PROVE Goal
  BY <1>2, <1>g DEF Join, wire
<1>3. CASE ReadTally
  <2>1. phase' = "read" /\ phase = "read" /\ held' = counted /\ sentAtRead' = sent
        /\ counted' = counted /\ sent' = sent /\ reads' = reads
    BY <1>3 DEF ReadTally, wire
  <2>2. HeldBetween'
    BY <1>t, <2>1 DEF HeldBetween
  <2>3. ReadsInOrder' /\ (~Upload => ReportedTotalStable')
    BY <1>i, <2>1 DEF ReadsInOrder, ReportedTotalStable, Total
  <2>4. QED BY <2>2, <2>3
<1>4. CASE ReadCeiling
  <2>1. /\ phase = "read" /\ held # Unread /\ held' = Unread /\ counted' = counted
        /\ reads' = Append(reads, Total(held))
        /\ phase' = IF Len(reads') = FinalReads THEN "done" ELSE "read"
    BY <1>4 DEF ReadCeiling
  <2>2. HeldBetween' /\ ReadsInOrder'
    BY <2>1 DEF HeldBetween, ReadsInOrder
  <2>3. ASSUME ~Upload PROVE ReportedTotalStable'
    <3>1. reads' = Append(reads, counted)
      BY <1>i, <2>1, <2>3 DEF HeldBetween, Total
    <3>2. \A i \in 1..Len(reads) : reads[i] = counted
      BY <1>i, <2>3 DEF ReportedTotalStable, Total
    <3>3. \A i \in 1..Len(reads') : reads'[i] = counted
      BY <1>t, <3>1, <3>2
    <3>4. QED
      BY <2>1, <2>3, <3>3 DEF ReportedTotalStable, Total
  <2>4. QED BY <2>2, <2>3
<1>5. ASSUME NEW s \in Streams, StreamStep(s) PROVE Goal
  <2>1. CASE Receive(s)
    <3>1. phase \notin {"ticker", "read", "done"}
      BY <2>1 DEF Receive, IInv, Joined
    <3>2. QED
      BY <1>t, <1>f, <2>1, <3>1 DEF Receive, wire
  <2>2. CASE Answer(s) \/ RequestFails(s) \/ BodyEnds(s) \/ Expire(s) \/ Unwind(s)
    BY <1>t, <1>f, <2>2 DEF Answer, RequestFails, BodyEnds, Expire, Unwind, wire
  <2>3. QED
    BY <1>5, <2>1, <2>2 DEF StreamStep
<1>6. CASE TakeFrame \/ WriteOverhead \/ CloseStray
  BY <1>t, <1>f, <1>6 DEF TakeFrame, WriteOverhead, CloseStray, Connected, IInv, Conservation
<1>7. CASE WriteBody
  BY <1>t, <1>f, <1>7 DEF WriteBody
<1>8. CASE Tick
  BY <1>t, <1>f, <1>8 DEF Tick, wire
<1>9. CASE UNCHANGED vars
  BY <1>t, <1>f, <1>9 DEF vars, wire
<1>10. QED
  BY <1>1, <1>2, <1>3, <1>4, <1>5, <1>6, <1>7, <1>8, <1>9
     DEF Next, PhaseTask, Terminating, ConnectionStep

LEMMA InvStep == IInv /\ [Next]_vars => IInv'
<1> SUFFICES ASSUME IInv, [Next]_vars PROVE IInv'
  OBVIOUS
<1>1. TypeOK'
  BY TypeStep DEF IInv
<1>2. QED
  BY <1>1, TimeStep, JoinedStep, ConservationStep, FinaleStep DEF IInv

LEMMA Inductive == Spec => []IInv
BY InvInit, InvStep, PTL DEF Spec

-----------------------------------------------------------------------------
(* The theorems.                                                           *)

\* No phase ends before its ramp-up and window have passed.
THEOREM WindowIsHonoured == Spec => []WindowHonoured
<1>1. IInv => WindowHonoured
  BY DEF IInv
<1>2. QED
  BY Inductive, <1>1, PTL

\* Every total a download reads is what its counter holds, then and for good.
THEOREM DownloadTotalStable ==
    ASSUME ~Upload
    PROVE  Spec => []ReportedTotalStable
<1>1. IInv => ReportedTotalStable
  BY DEF IInv
<1>2. QED
  BY Inductive, <1>1, PTL

\* An upload's totals are at least the body bytes sent when the call began, at
\* most everything the transport had taken, and exact once nothing is queued.
THEOREM UploadTotalBounds ==
    ASSUME Upload
    PROVE  Spec => TotalBetweenWireBounds
<1> DEFINE Bounded == \A i \in 1..Len(reads') : i > Len(reads) =>
         /\ sentAtRead <= reads'[i]
         /\ reads'[i] <= sent + overhead
         /\ queue = 0 /\ lost = 0 => reads'[i] = held
<1>1. IInv /\ [Next]_vars => Bounded
  <2> SUFFICES ASSUME IInv, [Next]_vars PROVE Bounded
    OBVIOUS
  <2>t. /\ reads \in Seq(Nat) /\ counted \in Nat /\ sent \in Nat /\ overhead \in Nat
        /\ queue \in Nat /\ lost \in Nat /\ held \in Nat \cup {Unread} /\ sentAtRead \in Nat
    BY TransferAssumption DEF IInv, TypeOK
  <2>1. CASE ReadCeiling
    <3>1. /\ held \in Nat /\ held <= counted /\ sentAtRead <= held /\ sentAtRead <= sent
          /\ counted = sent + queue + lost
      BY <2>t, <2>1 DEF ReadCeiling, IInv, HeldBetween, Conservation
    <3>2. Total(held) = Lesser(held, sent + overhead)
      BY DEF Total, Meter
    <3>3. /\ Total(held) \in Nat /\ sentAtRead <= Total(held)
          /\ Total(held) <= sent + overhead
          /\ queue = 0 /\ lost = 0 => Total(held) = held
      BY <2>t, <3>1, <3>2 DEF Lesser
    <3>4. reads' = Append(reads, Total(held))
      BY <2>1 DEF ReadCeiling
    <3>5. \A i \in 1..Len(reads') : i > Len(reads) => reads'[i] = Total(held)
      BY <2>t, <3>3, <3>4
    <3>6. QED
      BY <3>3, <3>5
  <2>2. ASSUME reads' = reads PROVE Bounded
    BY <2>t, <2>2
  <2>3. CASE Spawn \/ OpenWindow \/ CloseWindow \/ AllUnwound \/ StopTicker \/ ReadTally
    BY <2>2, <2>3 DEF Spawn, OpenWindow, CloseWindow, AllUnwound, StopTicker, ReadTally, finale
  <2>4. ASSUME NEW s \in Streams, Join(s) \/ StreamStep(s) PROVE Bounded
    BY <2>2, <2>4 DEF Join, StreamStep, Answer, RequestFails, Receive, BodyEnds, Expire,
       Unwind, finale
  <2>5. CASE ConnectionStep \/ Tick \/ UNCHANGED vars
    BY <2>2, <2>5 DEF ConnectionStep, TakeFrame, WriteBody, WriteOverhead, CloseStray,
       Tick, vars, finale
  <2>6. QED
    BY <2>1, <2>3, <2>4, <2>5 DEF Next, PhaseTask, Terminating
<1>2. QED
  BY <1>1, Inductive, PTL DEF Spec, TotalBetweenWireBounds

-----------------------------------------------------------------------------
(* A download implements the abstract measurement.                         *)

LEMMA MeasurementInit == Init => Promise!Init
BY DEF Init, Promise!Init, Stage, Returned, Promise!NoReport

\* A step that leaves the counter and the clock alone and stays in its stage.
LEMMA MeasurementStutter ==
    ASSUME UNCHANGED <<counted, elapsed>>, Stage' = Stage, Returned' = Returned
    PROVE  UNCHANGED Promise!vars
BY DEF Promise!vars

LEMMA MeasurementStep ==
    ASSUME ~Upload, IInv, IInv', [Next]_vars
    PROVE  [Promise!Next]_(Promise!vars)
<1> DEFINE Goal == [Promise!Next]_(Promise!vars)
<1>t. counted \in Nat /\ elapsed \in Nat /\ elapsed' \in Nat
  BY TransferAssumption DEF IInv, TypeOK
<1>1. ASSUME UNCHANGED <<counted, elapsed, phase>>, phase # "done" \/ reads' = reads PROVE Goal
  <2>1. Stage' = Stage /\ Returned' = Returned
    BY <1>1 DEF Stage, Returned
  <2>2. QED
    BY <1>1, <2>1, MeasurementStutter
<1>2. CASE Spawn
  BY <1>1, <1>2 DEF Spawn
<1>3. CASE OpenWindow \/ CloseWindow \/ StopTicker
  <2>1. UNCHANGED <<counted, elapsed>> /\ Stage' = Stage /\ Returned' = Returned
    BY <1>3 DEF OpenWindow, CloseWindow, StopTicker, Stage, Returned
  <2>2. QED
    BY <2>1, MeasurementStutter
<1>4. CASE AllUnwound
  <2>1. elapsed >= Span
    BY <1>4 DEF AllUnwound, IInv, WindowHonoured
  <2>2. /\ Stage = "open" /\ Stage' = "closed" /\ Returned' = Returned
        /\ UNCHANGED <<counted, elapsed>>
    BY <1>4 DEF AllUnwound, Stage, Returned
  <2>3. Promise!Close
    BY <2>1, <2>2 DEF Promise!Close
  <2>4. QED BY <2>3 DEF Promise!Next
<1>5. ASSUME NEW s \in Streams, Join(s) PROVE Goal
  BY <1>1, <1>5 DEF Join
<1>6. CASE ReadTally
  BY <1>1, <1>6 DEF ReadTally
<1>7. CASE ReadCeiling
  <2>1. /\ phase = "read" /\ phase' \in {"read", "done"} /\ UNCHANGED <<counted, elapsed>>
    BY <1>7 DEF ReadCeiling
  <2>2. CASE phase' = "read"
    <3>1. Stage' = Stage /\ Returned' = Returned
      BY <2>1, <2>2 DEF Stage, Returned
    <3>2. QED
      BY <2>1, <3>1, MeasurementStutter
  <2>3. CASE phase' = "done"
    <3>1. Len(reads') = FinalReads /\ ReportedTotalStable'
      BY <2>3 DEF IInv, ReadsInOrder
    <3>2. reads'[2] = counted
      BY <2>1, <3>1, TransferAssumption DEF ReportedTotalStable, Total
    <3>3. Stage = "closed" /\ Stage' = "reported" /\ Returned' = counted
      BY <2>1, <2>3, <3>2 DEF Stage, Returned
    <3>4. Promise!Report
      BY <2>1, <3>3 DEF Promise!Report
    <3>5. QED BY <3>4 DEF Promise!Next
  <2>4. QED BY <2>1, <2>2, <2>3
<1>8. ASSUME NEW s \in Streams, StreamStep(s) PROVE Goal
  <2>1. CASE Receive(s)
    <3>1. phase \in {"ramp", "window", "shutdown"}
      BY <2>1 DEF Receive, IInv, TypeOK, Phases, Joined
    <3>2. /\ counted' \in Nat /\ counted' > counted
          /\ UNCHANGED <<phase, elapsed, reads>>
      BY <1>t, <2>1 DEF Receive, finale
    <3>3. Stage = "open" /\ Stage' = Stage /\ Returned' = Returned
      BY <3>1, <3>2 DEF Stage, Returned
    <3>4. Promise!Carry
      BY <3>2, <3>3 DEF Promise!Carry
    <3>5. QED BY <3>4 DEF Promise!Next
  <2>2. CASE Answer(s) \/ RequestFails(s) \/ BodyEnds(s) \/ Expire(s) \/ Unwind(s)
    BY <1>1, <2>2 DEF Answer, RequestFails, BodyEnds, Expire, Unwind, finale
  <2>3. QED
    BY <1>8, <2>1, <2>2 DEF StreamStep
<1>9. CASE ConnectionStep
  <2>1. ~Connected /\ ~stray
    BY DEF IInv, Conservation, Connected
  <2>2. QED
    BY <1>9, <2>1 DEF ConnectionStep, TakeFrame, WriteBody, WriteOverhead, CloseStray
<1>10. CASE Tick
  <2>1. UNCHANGED <<phase, counted, reads>> /\ elapsed' >= elapsed
    BY <1>t, <1>10, TransferAssumption DEF Tick, Lesser, finale, IInv, TypeOK
  <2>2. Stage' = Stage /\ Returned' = Returned
    BY <2>1 DEF Stage, Returned
  <2>3. CASE elapsed' = elapsed
    BY <2>1, <2>2, <2>3, MeasurementStutter
  <2>4. CASE elapsed' > elapsed
    <3>1. Promise!Pass
      BY <1>t, <2>1, <2>2, <2>4 DEF Promise!Pass
    <3>2. QED BY <3>1 DEF Promise!Next
  <2>5. QED BY <1>t, <2>1, <2>3, <2>4
<1>11. CASE UNCHANGED vars
  BY <1>1, <1>11 DEF vars, finale
<1>12. QED
  BY <1>2, <1>3, <1>4, <1>5, <1>6, <1>7, <1>8, <1>9, <1>10, <1>11
     DEF Next, PhaseTask, Terminating

\* A download measures as promised: its total is the tally at the close of a
\* measurement that lasted the ramp-up and the window.
THEOREM DownloadImplementsMeasurement ==
    ASSUME ~Upload
    PROVE  Spec => ImplementsMeasurement
<1>1. IInv /\ IInv' /\ [Next]_vars => [Promise!Next]_(Promise!vars)
  BY MeasurementStep
<1>2. QED
  BY Inductive, MeasurementInit, <1>1, PTL DEF Spec, ImplementsMeasurement, Promise!Spec

-----------------------------------------------------------------------------
(* The slots.                                                              *)

\* A stream has the answer its state says it has, until the set is aborted,
\* and a slot the ramp-up has not come to is idle.
SlotAnswered(s) ==
    /\ stream[s] \in {"body", "Completed", "TransferFailed"} => answered[s]
    /\ stream[s] = "request" => ~answered[s]
    /\ phase \in {"ramp", "window"} /\ stream[s] \in {"gone", "RequestFailed"} => ~answered[s]
    /\ s > spawned => stream[s] = "idle"

Answering == \A s \in Streams : SlotAnswered(s)

\* Slots that keep their state and answer keep what is said of them.
LEMMA SlotKept ==
    ASSUME NEW s \in Streams, SlotAnswered(s), stream'[s] = stream[s],
           answered'[s] = answered[s], UNCHANGED spawned,
           phase' \in {"ramp", "window"} => phase \in {"ramp", "window"}
    PROVE  SlotAnswered(s)'
BY DEF SlotAnswered

\* A stream that leaves for an end that is true of its answer.
LEMMA SlotLeft ==
    ASSUME TypeOK, Answering, NEW s \in Streams, NEW end, Leave(s, end),
           UNCHANGED <<phase, spawned>>, stream[s] # "idle",
           end = "RequestFailed" => ~answered[s],
           end \in {"Completed", "TransferFailed"} => answered[s],
           end \in Ended
    PROVE  Answering'
<1>1. /\ stream'[s] = end /\ answered' = answered
      /\ \A r \in Streams \ {s} : stream'[r] = stream[r]
  BY DEF Leave, TypeOK
<1>2. SlotAnswered(s)'
  BY <1>1 DEF SlotAnswered, Answering, Ended
<1>3. ASSUME NEW r \in Streams \ {s} PROVE SlotAnswered(r)'
  BY <1>1, SlotKept DEF Answering
<1>4. QED
  BY <1>2, <1>3 DEF Answering

\* A slot that starts a stream waits for its answer anew.
LEMMA SlotStarted ==
    ASSUME TypeOK, Answering, NEW s \in Streams, Start(s), UNCHANGED phase,
           spawned' = spawned \/ spawned' = spawned + 1, s <= spawned'
    PROVE  Answering'
<1>1. /\ stream'[s] = "request" /\ answered'[s] = FALSE
      /\ \A r \in Streams \ {s} : stream'[r] = stream[r] /\ answered'[r] = answered[r]
  BY DEF Start, TypeOK
<1>2. spawned \in Nat /\ s \in Nat
  BY TransferAssumption DEF TypeOK, Streams
<1>3. SlotAnswered(s)'
  BY <1>1, <1>2 DEF SlotAnswered
<1>4. ASSUME NEW r \in Streams \ {s} PROVE SlotAnswered(r)'
  <2>1. r \in Nat /\ (r > spawned' => r > spawned)
    BY <1>2 DEF Streams
  <2>2. QED
    BY <1>1, <2>1 DEF SlotAnswered, Answering
<1>5. QED
  BY <1>3, <1>4 DEF Answering

LEMMA AnsweringStep == TypeOK /\ Answering /\ [Next]_vars => Answering'
<1> SUFFICES ASSUME TypeOK, Answering, [Next]_vars PROVE Answering'
  OBVIOUS
<1>0. spawned \in 0..Requests /\ Requests \in Nat /\ Streams = 1..Requests
  BY TransferAssumption DEF TypeOK, Streams
<1>1. CASE Spawn
  <2>1. spawned + 1 \in Streams /\ spawned + 1 <= spawned'
    BY <1>0, <1>1 DEF Spawn
  <2>2. QED
    BY <1>1, <2>1, SlotStarted DEF Spawn
<1>2. ASSUME NEW s \in Streams, Join(s) PROVE Answering'
  <2>1. /\ phase = "window" /\ UNCHANGED <<phase, spawned>> /\ stream[s] \in Ended
    BY <1>2 DEF Join
  <2>2. s <= spawned
    BY <1>0, <2>1 DEF Answering, SlotAnswered, Ended
  <2>3. CASE stream[s] \in Replaceable
    BY <1>2, <2>1, <2>2, <2>3, SlotStarted DEF Join
  <2>4. CASE stream[s] \notin Replaceable
    <3>1. /\ stream[s] = "RequestFailed"
          /\ stream' = [stream EXCEPT ![s] = "gone"] /\ answered' = answered
      BY <1>2, <2>4 DEF Join, Replaceable, Ended
    <3>2. stream'[s] = "gone" /\ \A r \in Streams \ {s} : stream'[r] = stream[r]
      BY <3>1 DEF TypeOK
    <3>3. SlotAnswered(s)'
      BY <1>0, <2>1, <2>2, <3>1, <3>2 DEF Answering, SlotAnswered
    <3>4. ASSUME NEW r \in Streams \ {s} PROVE SlotAnswered(r)'
      BY <2>1, <3>1, <3>2, SlotKept DEF Answering
    <3>5. QED
      BY <3>3, <3>4 DEF Answering
  <2>5. QED
    BY <2>3, <2>4
<1>3. CASE \/ UNCHANGED vars
           \/ OpenWindow \/ CloseWindow \/ AllUnwound \/ StopTicker \/ ReadTally \/ ReadCeiling
           \/ ConnectionStep \/ Tick \/ Terminating
  <2>1. /\ UNCHANGED <<stream, answered, spawned>>
        /\ phase' \in {"ramp", "window"} => phase \in {"ramp", "window"}
    BY <1>3 DEF OpenWindow, CloseWindow, AllUnwound, StopTicker, ReadTally, ReadCeiling,
       ConnectionStep, TakeFrame, WriteBody, WriteOverhead, CloseStray, Tick, Terminating,
       vars, slots
  <2>2. QED
    BY <2>1, SlotKept DEF Answering
<1>4. ASSUME NEW s \in Streams, StreamStep(s) PROVE Answering'
  <2>1. CASE Answer(s)
    <3>1. /\ stream[s] = "request" /\ UNCHANGED <<phase, spawned>>
          /\ stream'[s] = "body" /\ answered'[s] = TRUE
          /\ \A r \in Streams \ {s} : stream'[r] = stream[r] /\ answered'[r] = answered[r]
      BY <2>1 DEF Answer, TypeOK
    <3>2. SlotAnswered(s)'
      BY <1>0, <3>1 DEF Answering, SlotAnswered
    <3>3. ASSUME NEW r \in Streams \ {s} PROVE SlotAnswered(r)'
      BY <3>1, SlotKept DEF Answering
    <3>4. QED
      BY <3>2, <3>3 DEF Answering
  <2>2. CASE RequestFails(s) \/ BodyEnds(s) \/ Expire(s)
    <3>1. /\ UNCHANGED <<phase, spawned>>
          /\ \/ stream[s] = "request" /\ Leave(s, "RequestFailed")
             \/ /\ stream[s] = "body"
                /\ Leave(s, "Completed") \/ Leave(s, "TransferFailed")
      BY <2>2 DEF RequestFails, BodyEnds, Expire
    <3>2. SlotAnswered(s)
      BY DEF Answering
    <3>3. QED
      BY <3>1, <3>2, SlotLeft DEF SlotAnswered, Ended
  <2>3. CASE Receive(s)
    BY <2>3, SlotKept DEF Receive, slots, Answering
  <2>4. CASE Unwind(s)
    <3>1. /\ phase = "shutdown" /\ UNCHANGED <<phase, spawned, answered>>
          /\ stream[s] \in Running \cup Ended /\ stream'[s] = "gone"
          /\ \A r \in Streams \ {s} : stream'[r] = stream[r]
      BY <2>4 DEF Unwind, Leave, TypeOK
    <3>2. SlotAnswered(s)'
      BY <3>1 DEF Answering, SlotAnswered, Running, Ended
    <3>3. ASSUME NEW r \in Streams \ {s} PROVE SlotAnswered(r)'
      BY <3>1, SlotKept DEF Answering
    <3>4. QED
      BY <3>2, <3>3 DEF Answering
  <2>5. QED
    BY <1>4, <2>1, <2>2, <2>3, <2>4 DEF StreamStep
<1>5. QED
  BY <1>1, <1>2, <1>3, <1>4 DEF Next, PhaseTask

LEMMA AnsweringInitially == Init => Answering
BY DEF Init, Answering, SlotAnswered

\* A slot is abandoned inside the window only for a request that was never
\* answered, for every number of streams and every way they end.
THEOREM Abandoned == Spec => []AbandonedOnlyUnanswered
<1>1. Answering => AbandonedOnlyUnanswered
  BY DEF Answering, SlotAnswered, AbandonedOnlyUnanswered
<1>2. QED
  BY TypeInit, TypeStep, AnsweringInitially, AnsweringStep, <1>1, PTL DEF Spec

\* No slot sends a request again unless its last one was answered.
THEOREM NeverBlind == Spec => NoBlindRetry
<1>1. TypeOK /\ Answering /\ [Next]_vars =>
        [\A s \in Streams :
            stream[s] \notin {"idle", "request"} /\ stream'[s] = "request" => answered[s]]_vars
  <2> SUFFICES ASSUME TypeOK, Answering, Next, NEW s \in Streams,
                      stream[s] \notin {"idle", "request"}, stream'[s] = "request"
               PROVE  answered[s]
    OBVIOUS
  <2>0. SlotAnswered(s)
    BY DEF Answering
  <2>1. CASE Spawn
    <3>1. s = spawned + 1 /\ spawned \in Nat
      BY <2>1, TransferAssumption DEF Spawn, Start, TypeOK
    <3>2. QED
      BY <2>0, <3>1 DEF SlotAnswered
  <2>2. ASSUME NEW r \in Streams, Join(r) PROVE answered[s]
    <3>1. s = r /\ stream[r] \in Replaceable
      BY <2>2 DEF Join, Start, TypeOK
    <3>2. QED
      BY <2>0, <3>1 DEF SlotAnswered, Replaceable, Ended
  <2>3. ASSUME NEW r \in Streams, StreamStep(r) PROVE FALSE
    <3>1. stream'[s] \in {stream[s], "body", "gone"} \cup Ended
      BY <2>3 DEF StreamStep, Answer, RequestFails, Receive, BodyEnds, Expire, Unwind, Leave,
         slots, TypeOK, Ended
    <3>2. QED
      BY <3>1 DEF Ended
  <2>4. UNCHANGED stream => FALSE
    OBVIOUS
  <2>5. QED
    BY <2>1, <2>2, <2>3, <2>4 DEF Next, PhaseTask, OpenWindow, CloseWindow, AllUnwound,
       StopTicker, ReadTally, ReadCeiling, ConnectionStep, TakeFrame, WriteBody,
       WriteOverhead, CloseStray, Tick, Terminating, vars, slots
<1>2. QED
  BY TypeInit, TypeStep, AnsweringInitially, AnsweringStep, <1>1, PTL DEF Spec, NoBlindRetry

=============================================================================
