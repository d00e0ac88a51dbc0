--------------------------- MODULE SessionProofs ---------------------------
(***************************************************************************)
(* Theorems about Session for every number of servers and of ticks, every  *)
(* command line and every interleaving of the session with its ticker.     *)
(***************************************************************************)
EXTENDS Session, TLAPS

-----------------------------------------------------------------------------
(* Types. *)

Lines == [kind : Kinds, phase : Phases, reports : Seq(Entries)]

LEMMA AppendTyped ==
    ASSUME NEW S, NEW s \in Seq(S), NEW x \in S
    PROVE  /\ Append(s, x) \in Seq(S) /\ Len(Append(s, x)) = Len(s) + 1
           /\ Append(s, x)[Len(s) + 1] = x
           /\ \A i \in 1..Len(s) : Append(s, x)[i] = s[i]
OBVIOUS

LEMMA LineTyped ==
    ASSUME NEW kind \in Kinds, NEW named \in Phases, NEW carried \in Seq(Entries)
    PROVE  Line(kind, named, carried) \in Lines
BY DEF Line, Lines

LEMMA WriteTyped ==
    ASSUME NEW line \in Lines, stdout \in Seq(Lines), Write(line)
    PROVE  /\ stdout' \in Seq(Lines) /\ Len(stdout') = Len(stdout) + 1
           /\ stdout'[Len(stdout) + 1] = line
           /\ \A i \in 1..Len(stdout) : stdout'[i] = stdout[i]
BY AppendTyped DEF Write

\* Where the run is: which server it tests, whether it has exited, and when
\* there is a ticker.
Control ==
    /\ pc \notin {"next", "exited"} => server \in 1..Servers
    /\ exit = Running <=> pc # "exited"
    /\ pc \in {"ramp", "window", "join"} => phase \in Transfers
    /\ ticker # "none" => pc \in {"window", "join"} /\ opts.stream /\ narrates = phase

\* What a step writes: a phase event when a phase begins, a progress event of
\* the ticker's, a line of the output asked for, or the document.
LEMMA Written ==
    ASSUME TypeOK, Control, Next
    PROVE  \/ UNCHANGED stdout
           \/ /\ exit = Running /\ exit' = Running
              /\ \E p \in Phases : Write(Line("phase", p, <<>>)) /\ phase' = p
           \/ /\ exit = Running /\ exit' = Running
              /\ ticker = "emitting" /\ Write(Line("progress", narrates, <<>>))
              /\ UNCHANGED <<phase, pc>>
           \/ /\ exit = Running /\ exit' = Running
              /\ pc' \in {"telemetry", "report"}
              /\ \E line \in Lines : line.kind \in {"simple", "link"} /\ Write(line)
           \/ Finish /\ exit = Running /\ Reported /\ Write(Line(Document, "none", reports))
<1>0. /\ pc # "exited" => exit = Running
      /\ narrates \in Phases /\ "none" \in Phases /\ "ping" \in Phases
      /\ Transfers \subseteq Phases
      /\ {"simple", "link"} \subseteq Kinds /\ <<>> \in Seq(Entries)
  BY DEF TypeOK, Control, Phases, Kinds
<1>1. CASE IpKnown \/ BeginTransfer
  BY <1>0, <1>1 DEF IpKnown, BeginTransfer, StreamEvent, ends, Transfers
<1>2. CASE exit = Running /\ EmitProgress
  BY <1>2 DEF EmitProgress, StreamEvent, ends
<1>3. CASE PrintSimple
  <2>1. /\ Line("simple", "none", <<>>) \in Lines
        /\ Line("simple", "none", <<>>).kind = "simple"
    BY <1>0, LineTyped DEF Line
  <2>2. QED
    BY <1>0, <1>3, <2>1 DEF PrintSimple
<1>4. CASE Shared
  <2>1. server \in 1..Servers
    BY <1>4 DEF Shared, Control
  <2>2. [server |-> server, share |-> server] \in Entries
    BY <2>1, SessionAssumption DEF Entries, Links
  <2>3. <<[server |-> server, share |-> server]>> \in Seq(Entries)
    BY <2>2
  <2>4. /\ Line("link", "none", <<[server |-> server, share |-> server]>>) \in Lines
        /\ Line("link", "none", <<[server |-> server, share |-> server]>>).kind = "link"
    BY <1>0, <2>3, LineTyped DEF Line
  <2>5. QED
    BY <1>0, <1>4, <2>4 DEF Shared, ends
<1>5. CASE Finish
  BY <1>0, <1>5 DEF Finish
<1>6. CASE UNCHANGED stdout
  BY <1>6
<1>7. QED
  BY <1>1, <1>2, <1>3, <1>4, <1>5, <1>6 DEF Next, Main, Ticker, NextServer, Probe, IpFails,
     PingFails, Fail, Pinged, SkipTransfer, OpenWindow, CloseWindow, JoinTicker, TakeTick,
     TakePermit, PostTelemetry, NotShared, Report, Terminating, vars

LEMMA StdoutTyped ==
    ASSUME TypeOK, Control, Next PROVE stdout' \in Seq(Lines)
<1>0. /\ stdout \in Seq(Lines) /\ reports \in Seq(Entries) /\ <<>> \in Seq(Entries)
      /\ {"phase", "progress"} \subseteq Kinds /\ "none" \in Phases
      /\ Document \in Kinds /\ narrates \in Phases
  BY DEF TypeOK, Lines, Kinds, Phases, Document
<1>1. /\ \A p \in Phases : Line("phase", p, <<>>) \in Lines
      /\ Line("progress", narrates, <<>>) \in Lines
      /\ Line(Document, "none", reports) \in Lines
  BY <1>0, LineTyped
<1>2. stdout' = stdout \/ \E line \in Lines : Write(line)
  BY <1>1, Written
<1>3. QED
  BY <1>0, <1>2, WriteTyped

\* The variables other than stdout, the reports and what is kept per server.
Simple ==
    /\ opts \in Options
    /\ server \in 0..Servers
    /\ pc \in PCs
    /\ phase \in Phases
    /\ ticker \in {"none", "waiting", "emitting", "returned"}
    /\ narrates \in Phases
    /\ ticks \in 0..MaxProgress
    /\ permit \in BOOLEAN
    /\ link \in Links
    /\ exit \in {Running, 0, 1}

LEMMA SimpleTyped == ASSUME TypeOK, Control, Next PROVE Simple' /\ Control'
<1>0. /\ Simple /\ Control /\ Servers \in Nat /\ MaxProgress \in Nat
      /\ Transfers \cup {"ramp", "window", "join"} \subseteq PCs
      /\ Transfers \subseteq Phases /\ opts.skipped \subseteq Transfers
  BY SessionAssumption DEF TypeOK, Simple, PCs, Phases, Transfers, Options
<1> USE <1>0
<1>1. CASE NextServer \/ Probe \/ Pinged \/ IpKnown
  BY <1>1 DEF NextServer, Probe, Pinged, IpKnown, Simple, Control, PCs, Phases, tick, ends,
     Links, NoLink
<1>2. CASE IpFails \/ PingFails \/ Finish
  BY <1>2 DEF IpFails, PingFails, Fail, Finish, Simple, Control, PCs, tick, Running
<1>3. CASE SkipTransfer \/ BeginTransfer
  <2>1. /\ pc \in Transfers /\ pc' \in {"upload", "print", "ramp"}
        /\ phase' = IF pc' = "ramp" THEN pc ELSE phase
        /\ UNCHANGED <<opts, server, tick, link, exit>>
    BY <1>3 DEF SkipTransfer, BeginTransfer, After, ends, Transfers
  <2>2. QED
    BY <2>1 DEF Simple, Control, PCs, tick, Transfers, Phases
<1>4. CASE OpenWindow
  <2>1. /\ pc = "ramp" /\ pc' = "window"
        /\ UNCHANGED <<opts, server, phase, link, exit>> /\ ticker = "none"
    BY <1>4 DEF OpenWindow, Control, ends
  <2>2. \/ opts.stream /\ ticker' = "waiting" /\ permit' = FALSE
           /\ narrates' = phase /\ ticks' = MaxProgress
        \/ UNCHANGED tick
    BY <1>4 DEF OpenWindow
  <2>3. Simple'
    <3>1. /\ ticker' \in {"none", "waiting", "emitting", "returned"}
          /\ narrates' \in Phases /\ permit' \in BOOLEAN
      BY <2>1, <2>2 DEF Simple, tick
    <3>2. ticks' \in 0..MaxProgress
      BY <2>2 DEF Simple, tick
    <3>3. QED
      BY <2>1, <3>1, <3>2 DEF Simple, PCs
  <2>4. Control'
    BY <2>1, <2>2 DEF Control, tick
  <2>5. QED
    BY <2>3, <2>4
<1>5. CASE CloseWindow
  <2>1. permit' \in BOOLEAN
    BY <1>5 DEF CloseWindow
  <2>2. UNCHANGED <<opts, server, phase, ticker, narrates, ticks, link, exit>> /\ pc' = "join"
    BY <1>5 DEF CloseWindow, ends
  <2>3. QED
    BY <1>5, <2>1, <2>2 DEF CloseWindow, Simple, Control, PCs
<1>6. CASE JoinTicker
  BY <1>6 DEF JoinTicker, After, Simple, Control, PCs, tick, ends
<1>7. CASE Ticker
  <2>1. /\ UNCHANGED <<opts, server, pc, phase, narrates, link, exit>>
        /\ ticker # "none" /\ ticker' \in {"waiting", "emitting", "returned"}
    BY <1>7 DEF Ticker, TakeTick, EmitProgress, TakePermit, ends
  <2>2. permit' \in BOOLEAN
    BY <1>7 DEF Ticker, TakeTick, EmitProgress, TakePermit, Simple
  <2>3. ticks' \in 0..MaxProgress
    <3>1. ticks' = ticks \/ (ticks > 0 /\ ticks' = ticks - 1)
      BY <1>7 DEF Ticker, TakeTick, EmitProgress, TakePermit
    <3>2. QED
      BY <3>1 DEF Simple
  <2>4. QED
    BY <2>1, <2>2, <2>3 DEF Simple, Control
<1>8. CASE PrintSimple \/ PostTelemetry \/ NotShared \/ Report \/ Shared
  BY <1>8 DEF PrintSimple, PostTelemetry, NotShared, Report, Shared, Simple, Control, PCs,
     tick, ends, Links
<1>9. CASE Terminating
  BY <1>9 DEF Terminating, vars, tick, ends, Simple, Control
<1>10. QED
  BY <1>1, <1>2, <1>3, <1>4, <1>5, <1>6, <1>7, <1>8, <1>9 DEF Next, Main

LEMMA TypeStep == ASSUME TypeOK, Control, Next PROVE TypeOK' /\ Control'
<1>1. stdout' \in Seq(Lines) /\ Simple' /\ Control'
  BY StdoutTyped, SimpleTyped
<1>2. reports' \in Seq(Entries)
  <2>1. CASE Report
    <3>1. [server |-> server, share |-> link] \in Entries
      BY <2>1 DEF Report, TypeOK, Control, Entries
    <3>2. QED
      BY <2>1, <3>1, AppendTyped DEF Report, TypeOK
  <2>2. CASE UNCHANGED reports
    BY <2>2 DEF TypeOK
  <2>3. QED
    BY <2>1, <2>2 DEF Next, Main, Ticker, NextServer, Probe, IpFails, IpKnown, PingFails,
       Fail, Pinged, SkipTransfer, BeginTransfer, OpenWindow, CloseWindow, JoinTicker,
       TakeTick, EmitProgress, TakePermit, PrintSimple, PostTelemetry, Shared, NotShared,
       Finish, Terminating, vars
<1>3. /\ posts' \in [1..Servers -> Nat]
      /\ fate' \in [1..Servers -> {"untested", "down", "measured"}]
  <2>1. CASE Probe \/ PrintSimple \/ PostTelemetry
    BY <2>1 DEF Probe, PrintSimple, PostTelemetry, TypeOK
  <2>2. CASE UNCHANGED <<posts, fate>>
    BY <2>2 DEF TypeOK
  <2>3. QED
    BY <2>1, <2>2 DEF Next, Main, Ticker, NextServer, IpFails, IpKnown, PingFails,
       Fail, Pinged, SkipTransfer, BeginTransfer, OpenWindow, CloseWindow, JoinTicker,
       TakeTick, EmitProgress, TakePermit, Shared, NotShared, Report, Finish, ends,
       Terminating, vars
<1>4. QED
  BY <1>1, <1>2, <1>3 DEF TypeOK, Simple, Lines

\* The parts of the invariant every other rests on.
TypesHold == TypeOK /\ Control

LEMMA TypesInitially == Init => TypesHold
<1> SUFFICES ASSUME Init PROVE TypesHold
  OBVIOUS
<1>1. Control
  BY DEF Init, Control, Running
<1>2. /\ posts \in [1..Servers -> Nat]
      /\ fate \in [1..Servers -> {"untested", "down", "measured"}]
      /\ reports \in Seq(Entries) /\ stdout \in Seq(Lines)
  BY DEF Init
<1>3. Simple
  <2>1. server \in 0..Servers /\ ticks \in 0..MaxProgress /\ link \in Links
    BY SessionAssumption DEF Init, Links, NoLink
  <2>2. pc \in PCs /\ phase \in Phases /\ narrates \in Phases /\ exit \in {Running, 0, 1}
    BY DEF Init, PCs, Phases
  <2>3. opts \in Options /\ permit \in BOOLEAN
        /\ ticker \in {"none", "waiting", "emitting", "returned"}
    BY DEF Init
  <2>4. QED
    BY <2>1, <2>2, <2>3 DEF Simple
<1>4. QED
  BY <1>1, <1>2, <1>3 DEF TypesHold, TypeOK, Simple, Lines

LEMMA TypesStep == TypesHold /\ [Next]_vars => TypesHold'
<1>1. ASSUME TypesHold, UNCHANGED vars PROVE TypesHold'
  BY <1>1 DEF TypesHold, TypeOK, Control, vars, tick, ends
<1>2. QED
  BY <1>1, TypeStep DEF TypesHold

\* Every variable of the session has its type, however many servers and ticks.
THEOREM TypeCorrect == Spec => []TypeOK
<1>1. TypesHold => TypeOK
  BY DEF TypesHold
<1>2. QED
  BY TypesInitially, TypesStep, <1>1, PTL DEF Spec

-----------------------------------------------------------------------------
(* The stream of events. *)

\* The last phase event of the stream named p.
Narrated(p) ==
    \E j \in 1..Len(stdout) :
        /\ stdout[j] = Line("phase", p, <<>>)
        /\ \A k \in (j + 1)..Len(stdout) : Kind(k) # "phase"

Narrating == opts.stream /\ pc \in {"ramp", "window", "join"} => Narrated(phase)

LEMMA Announces ==
    ASSUME NEW p \in Phases, stdout \in Seq(Lines), Write(Line("phase", p, <<>>))
    PROVE  Narrated(p)'
<1>1. Line("phase", p, <<>>) \in Lines
  <2>1. "phase" \in Kinds /\ <<>> \in Seq(Entries)
    BY DEF Kinds
  <2>2. QED
    BY <2>1, LineTyped
<1>2. QED
  BY <1>1, WriteTyped DEF Narrated

LEMMA KeepsAnnounced ==
    ASSUME NEW p, NEW line \in Lines, stdout \in Seq(Lines), Write(line),
           line.kind # "phase", Narrated(p)
    PROVE  Narrated(p)'
<1>1. PICK j \in 1..Len(stdout) :
          /\ stdout[j] = Line("phase", p, <<>>)
          /\ \A k \in (j + 1)..Len(stdout) : Kind(k) # "phase"
  BY DEF Narrated
<1>2. j \in 1..Len(stdout') /\ stdout'[j] = Line("phase", p, <<>>)
  BY <1>1, WriteTyped
<1>3. ASSUME NEW k \in (j + 1)..Len(stdout') PROVE stdout'[k].kind # "phase"
  <2>1. CASE k = Len(stdout) + 1
    BY <2>1, WriteTyped
  <2>2. CASE k # Len(stdout) + 1
    <3>1. k \in (j + 1)..Len(stdout) /\ k \in 1..Len(stdout)
      BY <1>1, <1>3, <2>2, WriteTyped
    <3>2. QED
      BY <1>1, <3>1, WriteTyped DEF Kind
  <2>3. QED
    BY <2>1, <2>2
<1>4. QED
  BY <1>2, <1>3 DEF Narrated, Kind

LEMMA StaysInPhase ==
    ASSUME NEW line \in Lines, stdout \in Seq(Lines), Write(line), ProgressInItsPhase,
           line.kind = "progress" => Narrated(line.phase)
    PROVE  ProgressInItsPhase'
<1> SUFFICES ASSUME NEW i \in 1..Len(stdout'), stdout'[i].kind = "progress"
             PROVE  \E j \in 1..(i - 1) :
                        /\ stdout'[j] = Line("phase", stdout'[i].phase, <<>>)
                        /\ \A k \in (j + 1)..(i - 1) : stdout'[k].kind # "phase"
  BY DEF ProgressInItsPhase, Kind
<1>1. Len(stdout) \in Nat /\ Len(stdout') = Len(stdout) + 1
  BY WriteTyped
<1>2. CASE i = Len(stdout) + 1
  <2>1. stdout'[i] = line /\ Narrated(line.phase)
    BY <1>2, WriteTyped
  <2>2. PICK j \in 1..Len(stdout) :
            /\ stdout[j] = Line("phase", line.phase, <<>>)
            /\ \A k \in (j + 1)..Len(stdout) : Kind(k) # "phase"
    BY <2>1 DEF Narrated
  <2>3. j \in 1..(i - 1) /\ stdout'[j] = Line("phase", stdout'[i].phase, <<>>)
    BY <1>1, <1>2, <2>1, <2>2, WriteTyped
  <2>4. \A k \in (j + 1)..(i - 1) : stdout'[k].kind # "phase"
    BY <1>1, <1>2, <2>2, WriteTyped DEF Kind
  <2>5. QED
    BY <2>3, <2>4
<1>3. CASE i # Len(stdout) + 1
  <2>1. i \in 1..Len(stdout) /\ stdout'[i] = stdout[i]
    BY <1>1, <1>3, WriteTyped
  <2>2. PICK j \in 1..(i - 1) :
            /\ stdout[j] = Line("phase", stdout[i].phase, <<>>)
            /\ \A k \in (j + 1)..(i - 1) : Kind(k) # "phase"
    BY <2>1 DEF ProgressInItsPhase, Kind
  <2>3. \A k \in 1..(i - 1) : stdout'[k] = stdout[k]
    BY <1>1, <2>1, WriteTyped
  <2>4. \A k \in (j + 1)..(i - 1) : k \in 1..(i - 1)
    BY <2>2
  <2>5. QED
    BY <2>1, <2>2, <2>3, <2>4 DEF Kind
<1>4. QED
  BY <1>2, <1>3

Stream == ProgressInItsPhase /\ Narrating

LEMMA StreamStep == TypesHold /\ Stream /\ [Next]_vars => Stream'
<1> SUFFICES ASSUME TypesHold, Stream, [Next]_vars PROVE Stream'
  OBVIOUS
<1>0. /\ stdout \in Seq(Lines) /\ narrates \in Phases /\ {"phase", "progress"} \subseteq Kinds
      /\ <<>> \in Seq(Entries) /\ opts.skipped \subseteq Transfers
  BY DEF TypesHold, TypeOK, Lines, Kinds, Options
<1>1. CASE UNCHANGED vars
  BY <1>1 DEF Stream, ProgressInItsPhase, Narrating, Narrated, Kind, vars
<1>2. CASE Next /\ UNCHANGED stdout
  <2>1. ProgressInItsPhase' /\ \A p : Narrated(p) <=> Narrated(p)'
    BY <1>2 DEF Stream, ProgressInItsPhase, Narrated, Kind
  <2>2. ASSUME opts'.stream, pc' \in {"ramp", "window", "join"}
        PROVE  opts.stream /\ pc \in {"ramp", "window", "join"} /\ phase' = phase
    BY <1>0, <1>2, <2>2 DEF Next, Main, Ticker, NextServer, Probe, IpFails, IpKnown,
       PingFails, Fail, Pinged, SkipTransfer, BeginTransfer, StreamEvent, Write, OpenWindow,
       CloseWindow, JoinTicker, TakeTick, EmitProgress, TakePermit, PrintSimple,
       PostTelemetry, Shared, NotShared, Report, Finish, Terminating, vars, After,
       TypesHold, Control, Transfers
  <2>3. QED
    BY <2>1, <2>2 DEF Stream, Narrating
<1>3. ASSUME NEW p \in Phases, Write(Line("phase", p, <<>>)), phase' = p PROVE Stream'
  <2>1. Line("phase", p, <<>>) \in Lines /\ Line("phase", p, <<>>).kind # "progress"
    BY <1>0, LineTyped DEF Line
  <2>2. ProgressInItsPhase'
    BY <1>0, <1>3, <2>1, StaysInPhase DEF Stream
  <2>3. Narrated(p)'
    BY <1>0, <1>3, Announces
  <2>4. QED
    BY <1>3, <2>2, <2>3 DEF Stream, Narrating
<1>4. ASSUME Write(Line("progress", narrates, <<>>)), ticker = "emitting",
             UNCHANGED <<phase, pc>>
      PROVE  Stream'
  <2>1. /\ Line("progress", narrates, <<>>) \in Lines
        /\ Line("progress", narrates, <<>>).kind # "phase"
        /\ Line("progress", narrates, <<>>).phase = narrates
    BY <1>0, LineTyped DEF Line
  <2>2. Narrated(phase) /\ narrates = phase
    BY <1>4 DEF Stream, Narrating, TypesHold, Control
  <2>3. ProgressInItsPhase'
    BY <1>0, <1>4, <2>1, <2>2, StaysInPhase DEF Stream
  <2>4. Narrated(phase)'
    BY <1>0, <1>4, <2>1, <2>2, KeepsAnnounced
  <2>5. QED
    BY <1>4, <2>3, <2>4 DEF Stream, Narrating
<1>5. ASSUME NEW line \in Lines, Write(line), line.kind \notin {"phase", "progress"},
             pc' \notin {"ramp", "window", "join"}
      PROVE  Stream'
  BY <1>0, <1>5, StaysInPhase DEF Stream, Narrating
<1>6. ASSUME Finish, Write(Line(Document, "none", reports)) PROVE Stream'
  <2>1. /\ Line(Document, "none", reports) \in Lines
        /\ Line(Document, "none", reports).kind = Document
    BY <1>0, LineTyped DEF Line, Document, Kinds, Phases, TypesHold, TypeOK
  <2>2. Document \notin {"phase", "progress"} /\ pc' = "exited"
    BY <1>6 DEF Document, Finish
  <2>3. QED
    BY <1>5, <1>6, <2>1, <2>2
<1>7. QED
  BY <1>1, <1>2, <1>3, <1>4, <1>5, <1>6, Written DEF TypesHold

\* A progress event belongs to the last phase event before it, under every
\* interleaving of the ticker with the session that stops it.
THEOREM InItsPhase == Spec => []ProgressInItsPhase
<1>1. Init => Stream
  BY DEF Init, Stream, ProgressInItsPhase, Narrating
<1>2. Stream => ProgressInItsPhase
  BY DEF Stream
<1>3. QED
  BY TypesInitially, TypesStep, StreamStep, <1>1, <1>2, PTL DEF Spec

\* The document ends the output of a run that exits 0, and of no other.
THEOREM Documented == Spec => []DocumentIffSuccess
<1>1. Init => DocumentIffSuccess
  BY DEF Init, DocumentIffSuccess, Running
<1>2. TypesHold /\ DocumentIffSuccess /\ [Next]_vars => DocumentIffSuccess'
  <2> SUFFICES ASSUME TypesHold, DocumentIffSuccess, [Next]_vars PROVE DocumentIffSuccess'
    OBVIOUS
  <2>0. /\ stdout \in Seq(Lines) /\ narrates \in Phases /\ reports \in Seq(Entries)
        /\ {"phase", "progress"} \cup Documents \subseteq Kinds /\ "none" \in Phases
        /\ <<>> \in Seq(Entries) /\ Document \in Documents
    BY DEF TypesHold, TypeOK, Lines, Kinds, Phases, Documents, Document
  <2>1. UNCHANGED opts
    BY DEF Next, Main, Ticker, NextServer, Probe, IpFails, IpKnown,
       PingFails, Fail, Pinged, SkipTransfer, BeginTransfer, OpenWindow,
       CloseWindow, JoinTicker, TakeTick, EmitProgress, TakePermit, PrintSimple,
       PostTelemetry, Shared, NotShared, Report, Finish, Terminating, vars
  <2>2. (Reported <=> Reported') /\ Document = Document'
    BY <2>1 DEF Reported, Document
  <2>3. CASE UNCHANGED <<stdout, exit>>
    BY <2>2, <2>3 DEF DocumentIffSuccess, Kind
  <2>4. ASSUME UNCHANGED stdout, exit = Running, exit' = 0 => ~Reported
        PROVE  DocumentIffSuccess'
    BY <2>2, <2>4 DEF DocumentIffSuccess, Kind, Running
  <2>5. ASSUME NEW line \in Lines, Write(line), line.kind \notin Documents,
               exit = Running, exit' = Running
        PROVE  DocumentIffSuccess'
    <3>1. \A i \in 1..Len(stdout) : stdout[i].kind \notin Documents
      BY <2>5 DEF DocumentIffSuccess, Kind, Running
    <3>2. \A i \in 1..Len(stdout') : stdout'[i].kind \notin Documents
      BY <2>0, <2>5, <3>1, WriteTyped
    <3>3. QED
      BY <2>5, <3>2 DEF DocumentIffSuccess, Kind, Running
  <2>6. ASSUME Finish, exit = Running, Write(Line(Document, "none", reports))
        PROVE  DocumentIffSuccess'
    <3>1. /\ Line(Document, "none", reports) \in Lines
          /\ Line(Document, "none", reports).kind = Document
      BY <2>0, LineTyped DEF Line
    <3>2. \A i \in 1..Len(stdout) : stdout[i].kind \notin Documents
      BY <2>6 DEF DocumentIffSuccess, Kind, Running
    <3>3. /\ Len(stdout) \in Nat /\ Len(stdout') = Len(stdout) + 1
          /\ stdout'[Len(stdout')].kind = Document
          /\ \A i \in 1..Len(stdout) : stdout'[i].kind \notin Documents
      BY <2>0, <2>6, <3>1, <3>2, WriteTyped
    <3>4. exit' = 0
      BY <2>6 DEF Finish
    <3>5. QED
      BY <2>2, <3>3, <3>4 DEF DocumentIffSuccess, Kind
  <2>7. CASE Next /\ UNCHANGED stdout
    <3>1. \/ UNCHANGED exit
          \/ pc # "exited" /\ exit' = 1
          \/ Finish
      BY <2>7 DEF Next, Main, Ticker, NextServer, Probe, IpFails, IpKnown,
         PingFails, Fail, Pinged, SkipTransfer, BeginTransfer, OpenWindow,
         CloseWindow, JoinTicker, TakeTick, EmitProgress, TakePermit, PrintSimple,
         PostTelemetry, Shared, NotShared, Report, Terminating, vars, ends, Transfers
    <3>2. CASE Finish
      <4>1. ~Reported /\ exit = Running
        BY <2>0, <2>7, <3>2, AppendTyped DEF Finish, Write, TypesHold, Control, Line
      <4>2. QED
        BY <2>4, <2>7, <4>1
    <3>3. QED
      BY <2>3, <2>4, <2>7, <3>1, <3>2 DEF TypesHold, Control
  <2>8. CASE Next /\ ~UNCHANGED stdout
    <3>1. \A p \in Phases : /\ Line("phase", p, <<>>) \in Lines
                            /\ Line("phase", p, <<>>).kind = "phase"
      BY <2>0, LineTyped DEF Line
    <3>2. /\ Line("progress", narrates, <<>>) \in Lines
          /\ Line("progress", narrates, <<>>).kind = "progress"
      BY <2>0, LineTyped DEF Line
    <3>3. \A kind \in {"phase", "progress", "simple", "link"} : kind \notin Documents
      BY DEF Documents
    <3>4. \/ \E line \in Lines : /\ Write(line) /\ line.kind \notin Documents
                                 /\ exit = Running /\ exit' = Running
          \/ Finish /\ exit = Running /\ Write(Line(Document, "none", reports))
      BY <2>8, <3>1, <3>2, <3>3, Written DEF TypesHold
    <3>5. QED
      BY <2>5, <2>6, <3>4
  <2>9. QED
    BY <2>3, <2>7, <2>8 DEF vars, ends
<1>3. QED
  BY TypesInitially, TypesStep, <1>1, <1>2, PTL DEF Spec

-----------------------------------------------------------------------------
(* The servers: what became of each, what was posted, what is reported. *)

Testing == {"probe", "ip", "ping", "download", "upload", "ramp", "window", "join", "print"}
Settling == {"telemetry", "answer", "report"}

\* Servers before the one under test have their fate, those after it none; the
\* link, when there is one, is of the server that was posted last.
Fates ==
    /\ \A s \in 1..Servers :
          /\ s > server => fate[s] = "untested"
          /\ s < server => fate[s] # "untested"
          /\ s = server /\ pc \in Testing => fate[s] = "untested"
          /\ s = server /\ pc \in Settling => fate[s] = "measured"
          /\ s = server /\ (pc = "next" \/ exit = 0) => fate[s] # "untested"
          /\ s = server /\ pc = "telemetry" => posts[s] = 0 /\ opts.telemetry
          /\ s = server /\ pc = "answer" => posts[s] = 1
    /\ link # NoLink => server \in 1..Servers /\ link = server /\ posts[server] = 1

Posting == PostedOnce /\ Fates

LEMMA PostingStep == TypesHold /\ Posting /\ [Next]_vars => Posting'
<1> SUFFICES ASSUME TypesHold, Posting, [Next]_vars PROVE Posting'
  OBVIOUS
<1>0. /\ Servers \in Nat /\ server \in 0..Servers /\ posts \in [1..Servers -> Nat]
      /\ fate \in [1..Servers -> {"untested", "down", "measured"}]
      /\ pc \notin {"next", "exited"} => server \in 1..Servers
      /\ exit = Running <=> pc # "exited"
      /\ exit = 0 => pc = "exited"
      /\ opts.skipped \subseteq Transfers
  BY SessionAssumption DEF TypesHold, TypeOK, Control, Options, Running
<1> USE <1>0 DEF Posting, PostedOnce, Fates, Testing, Settling, Running, NoLink
<1>1. CASE UNCHANGED vars
  BY <1>1 DEF vars, ends
<1>2. CASE NextServer
  BY <1>2 DEF NextServer, ends
<1>3. CASE Probe
  BY <1>3 DEF Probe
<1>4. CASE IpFails \/ PingFails
  BY <1>4 DEF IpFails, PingFails, Fail
<1>5. CASE IpKnown \/ Pinged \/ SkipTransfer \/ BeginTransfer \/ OpenWindow \/ CloseWindow
           \/ JoinTicker
  <2>1. pc \in Testing /\ pc' \in Testing /\ UNCHANGED <<opts, server, link, ends>>
    BY <1>5
    DEF IpKnown, Pinged, SkipTransfer, BeginTransfer, OpenWindow, CloseWindow, JoinTicker,
        After, Transfers, TypesHold, Control
  <2>2. QED
    BY <2>1 DEF ends
<1>6. CASE TakeTick \/ EmitProgress \/ TakePermit
  BY <1>6 DEF TakeTick, EmitProgress, TakePermit, ends
<1>7. CASE PrintSimple
  BY <1>7 DEF PrintSimple
<1>8. CASE PostTelemetry
  BY <1>8 DEF PostTelemetry
<1>9. CASE Shared \/ NotShared \/ Report
  BY <1>9 DEF Shared, NotShared, Report, ends
<1>10. CASE Finish
  BY <1>10 DEF Finish
<1>11. QED
  BY <1>1, <1>2, <1>3, <1>4, <1>5, <1>6, <1>7, <1>8, <1>9, <1>10
  DEF Next, Main, Ticker, Terminating

LEMMA PostingInitially == Init => Posting
BY SessionAssumption DEF Init, Posting, PostedOnce, Fates, Testing, Settling, Running, NoLink

\* No measurement is posted twice, and none that was not finished, whatever the
\* telemetry server answers.
THEOREM Posted == Spec => []PostedOnce
<1>1. Posting => PostedOnce
  BY DEF Posting
<1>2. QED
  BY TypesInitially, TypesStep, PostingInitially, PostingStep, <1>1, PTL DEF Spec

\* The servers reported so far: those measured, but for one that is measured
\* and not reported yet.
Settled == {s \in Measured : ~(s = server /\ pc \in Settling)}

Listing ==
    /\ Reported => Lists(reports, Settled)
    /\ \A i \in DOMAIN reports :
          /\ reports[i].share \in {NoLink, reports[i].server}
          /\ reports[i].share # NoLink => posts[reports[i].server] = 1
    /\ exit = 0 => server = Servers
    /\ exit = 0 /\ Reported => stdout[Len(stdout)].reports = reports

LEMMA ListsAppended ==
    ASSUME NEW listed \in Seq(Entries), NEW of, Lists(listed, of),
           NEW entry \in Entries, \A s \in of : s < entry.server
    PROVE  Lists(Append(listed, entry), of \cup {entry.server})
<1> DEFINE more == Append(listed, entry)
<1>1. /\ Len(listed) \in Nat /\ DOMAIN listed = 1..Len(listed)
      /\ DOMAIN more = 1..(Len(listed) + 1)
      /\ more[Len(listed) + 1] = entry
      /\ \A i \in DOMAIN listed : more[i] = listed[i] /\ listed[i] \in Entries
  BY AppendTyped
<1>2. \A i \in DOMAIN listed : listed[i].server \in of
  BY DEF Lists
<1>3. {more[i].server : i \in DOMAIN more} = of \cup {entry.server}
  <2>1. DOMAIN more = DOMAIN listed \cup {Len(listed) + 1}
    BY <1>1
  <2>2. {more[i].server : i \in DOMAIN listed} = of
    BY <1>1 DEF Lists
  <2>3. QED
    BY <1>1, <2>1, <2>2
<1>4. ASSUME NEW i \in DOMAIN more, NEW j \in DOMAIN more, i < j
      PROVE  more[i].server < more[j].server
  <2>1. i \in DOMAIN listed
    BY <1>1, <1>4
  <2>2. CASE j \in DOMAIN listed
    BY <1>1, <1>4, <2>1, <2>2 DEF Lists
  <2>3. CASE j \notin DOMAIN listed
    BY <1>1, <1>2, <1>4, <2>1, <2>3
  <2>4. QED
    BY <2>2, <2>3
<1>5. QED
  BY <1>3, <1>4 DEF Lists

\* A step that leaves the reports alone and neither measures nor posts.
LEMMA ListingKept ==
    ASSUME Listing, UNCHANGED <<opts, reports, posts>>, Settled' = Settled,
           exit' = 0 => exit = 0 /\ UNCHANGED <<server, stdout>>
    PROVE  Listing'
<1>1. (Reported' <=> Reported) /\ (Lists(reports, Settled))' = Lists(reports, Settled)
  BY DEF Reported, Lists
<1>2. QED
  BY <1>1 DEF Listing

LEMMA ListingStep == TypesHold /\ Posting /\ Listing /\ [Next]_vars => Listing'
<1> SUFFICES ASSUME TypesHold, Posting, Listing, [Next]_vars PROVE Listing'
  OBVIOUS
<1>0. /\ Servers \in Nat /\ server \in 0..Servers /\ posts \in [1..Servers -> Nat]
      /\ fate \in [1..Servers -> {"untested", "down", "measured"}]
      /\ pc \notin {"next", "exited"} => server \in 1..Servers
      /\ exit = Running <=> pc # "exited"
      /\ opts.skipped \subseteq Transfers /\ reports \in Seq(Entries)
  BY SessionAssumption DEF TypesHold, TypeOK, Control, Options
<1>1. CASE UNCHANGED vars
  <2>1. Settled' = Settled
    BY <1>1 DEF Settled, Measured, vars, ends
  <2>2. QED
    BY <1>1, <2>1, ListingKept DEF vars, ends
<1>2. CASE NextServer \/ Probe
  <2>1. Settled' = Settled
    <3>1. pc \notin Settling /\ pc' \notin Settling
      BY <1>2 DEF NextServer, Probe, Settling
    <3>2. Measured' = Measured
      BY <1>0, <1>2 DEF NextServer, Probe, Measured, ends, Posting, Fates, Testing
    <3>3. QED
      BY <3>1, <3>2 DEF Settled
  <2>2. UNCHANGED <<opts, reports, posts, exit>> /\ exit # 0
    BY <1>0, <1>2 DEF NextServer, Probe, ends, Running
  <2>3. QED
    BY <2>1, <2>2, ListingKept
<1>3. CASE IpFails \/ PingFails \/ IpKnown \/ Pinged \/ SkipTransfer \/ BeginTransfer
           \/ OpenWindow \/ CloseWindow \/ JoinTicker
  <2>1. /\ pc \notin Settling /\ pc' \notin Settling
        /\ UNCHANGED <<opts, reports, posts, fate>> /\ exit # 0 /\ exit' # 0
    BY <1>0, <1>3 DEF IpFails, PingFails, Fail, IpKnown, Pinged, SkipTransfer,
       BeginTransfer, OpenWindow, CloseWindow, JoinTicker, After, ends, Settling, Transfers,
       Running, TypesHold, Control
  <2>2. Settled' = Settled
    BY <2>1 DEF Settled, Measured
  <2>3. QED
    BY <2>1, <2>2, ListingKept
<1>4. CASE Ticker
  <2>1. UNCHANGED <<opts, server, pc, reports, posts, fate, exit>> /\ exit # 0
    BY <1>4 DEF Ticker, TakeTick, EmitProgress, TakePermit, ends, Running
  <2>2. Settled' = Settled
    BY <2>1 DEF Settled, Measured
  <2>3. QED
    BY <2>1, <2>2, ListingKept
<1>5. CASE PrintSimple
  <2>1. /\ UNCHANGED <<opts, server, reports, posts, exit>> /\ exit # 0
        /\ server \in 1..Servers /\ fate[server] = "untested"
        /\ fate' = [fate EXCEPT ![server] = "measured"]
        /\ pc \notin Settling /\ pc' \in Settling
    BY <1>0, <1>5 DEF PrintSimple, Running, Posting, Fates, Testing, Settling
  <2>2. Settled' = Settled
    BY <1>0, <2>1 DEF Settled, Measured
  <2>3. QED
    BY <2>1, <2>2, ListingKept
<1>6. CASE Shared \/ NotShared
  <2>1. UNCHANGED <<opts, server, reports, posts, fate, exit>> /\ exit # 0
    BY <1>0, <1>6 DEF Shared, NotShared, ends, Running
  <2>2. Settled' = Settled
    BY <1>6, <2>1 DEF Shared, NotShared, Settled, Measured, Settling
  <2>3. QED
    BY <2>1, <2>2, ListingKept
<1>7. CASE PostTelemetry
  <2>1. /\ UNCHANGED <<opts, server, reports, fate, exit>> /\ exit # 0
        /\ pc \in Settling /\ pc' \in Settling
        /\ server \in 1..Servers /\ posts[server] = 0
        /\ \A s \in 1..Servers : posts[s] = 1 => posts'[s] = 1
    BY <1>0, <1>7 DEF PostTelemetry, Running, Settling, Posting, Fates
  <2>2. Settled' = Settled
    BY <2>1 DEF Settled, Measured
  <2>3. (Reported' <=> Reported) /\ (Lists(reports, Settled))' = Lists(reports, Settled)
    BY <2>1, <2>2 DEF Reported, Lists
  <2>4. \A i \in DOMAIN reports : reports[i].server \in 1..Servers
    <3>1. \A i \in DOMAIN reports : reports[i] \in Entries
      BY <1>0
    <3>2. QED
      BY <3>1 DEF Entries
  <2>5. QED
    BY <2>1, <2>3, <2>4 DEF Listing
<1>8. CASE Report
  <2> DEFINE entry == [server |-> server, share |-> link]
  <2>1. /\ UNCHANGED <<opts, server, posts, fate, link, exit>> /\ exit # 0
        /\ pc = "report" /\ pc' = "next" /\ server \in 1..Servers
        /\ reports' = IF Reported THEN Append(reports, entry) ELSE reports
    BY <1>0, <1>8 DEF Report, ends, Running
  <2>2. entry \in Entries
    BY <2>1 DEF Entries, TypesHold, TypeOK
  <2>3. /\ link \in {NoLink, server}
        /\ link # NoLink => posts[server] = 1
    BY DEF Posting, Fates
  <2>4. (Reported' <=> Reported) /\ pc \in Settling /\ pc' \notin Settling
    BY <2>1 DEF Reported, Settling
  <2>5. Settled' = Settled \cup {server} /\ \A s \in Settled : s < server
    <3>1. fate[server] = "measured" /\ \A s \in 1..Servers : s > server => fate[s] = "untested"
      BY <2>1, <2>4 DEF Posting, Fates
    <3>2. QED
      BY <1>0, <2>1, <2>4, <3>1 DEF Settled, Measured
  <2>6. CASE Reported
    <3>1. Lists(reports', Settled')
      BY <1>0, <2>1, <2>2, <2>5, <2>6, ListsAppended DEF Listing
    <3>2. /\ DOMAIN reports' = 1..(Len(reports) + 1) /\ DOMAIN reports = 1..Len(reports)
          /\ reports'[Len(reports) + 1] = entry /\ Len(reports) \in Nat
          /\ \A i \in DOMAIN reports : reports'[i] = reports[i]
      BY <1>0, <2>1, <2>2, <2>6, AppendTyped
    <3>3. ASSUME NEW i \in DOMAIN reports'
          PROVE  /\ reports'[i].share \in {NoLink, reports'[i].server}
                 /\ reports'[i].share # NoLink => posts[reports'[i].server] = 1
      <4>1. CASE i \in DOMAIN reports
        BY <3>2, <4>1 DEF Listing
      <4>2. CASE i = Len(reports) + 1
        BY <2>3, <3>2, <4>2
      <4>3. QED
        BY <3>2, <4>1, <4>2
    <3>4. QED
      BY <2>1, <2>4, <3>1, <3>3 DEF Listing, Lists
  <2>7. CASE ~Reported
    BY <2>1, <2>4, <2>7 DEF Listing
  <2>8. QED
    BY <2>6, <2>7
<1>9. CASE Finish
  <2>1. /\ UNCHANGED <<opts, server, reports, posts, fate>> /\ exit' = 0
        /\ server = Servers /\ pc = "next" /\ pc' = "exited"
        /\ Reported => Write(Line(Document, "none", reports))
    BY <1>9 DEF Finish
  <2>2. (Reported' <=> Reported) /\ (Lists(reports, Settled))' = Lists(reports, Settled)
    BY <2>1 DEF Reported, Lists, Settled, Measured, Settling
  <2>3. Reported => stdout'[Len(stdout')].reports = reports
    <3>1. /\ Line(Document, "none", reports) \in Lines
          /\ Line(Document, "none", reports).reports = reports /\ stdout \in Seq(Lines)
      BY <1>0, LineTyped DEF Line, Lines, Document, Kinds, Phases, TypesHold, TypeOK
    <3>2. QED
      BY <2>1, <3>1, WriteTyped
  <2>4. QED
    BY <2>1, <2>2, <2>3 DEF Listing
<1>10. QED
  BY <1>1, <1>2, <1>3, <1>4, <1>5, <1>6, <1>7, <1>8, <1>9 DEF Next, Main, Terminating

\* The document of a run that exits 0 lists the servers measured, all of them,
\* each once and with its own link, for every number of servers.
THEOREM Faithful == Spec => []DocumentFaithful
<1>1. Init => Listing
  BY DEF Init, Listing, Lists, Settled, Measured, Running
<1>2. TypesHold /\ Posting /\ Listing => DocumentFaithful
  <2> SUFFICES ASSUME TypesHold, Posting, Listing, exit = 0, Reported
               PROVE  /\ \A s \in 1..Servers : fate[s] # "untested"
                      /\ Lists(reports, Measured)
                      /\ \A i \in DOMAIN reports :
                            /\ reports[i].share \in {NoLink, reports[i].server}
                            /\ reports[i].share # NoLink => posts[reports[i].server] = 1
    BY DEF DocumentFaithful, Listing
  <2>1. pc = "exited" /\ server = Servers /\ Servers \in Nat
    BY SessionAssumption DEF TypesHold, Control, Listing, Running
  <2>2. Settled = Measured
    BY <2>1 DEF Settled, Settling
  <2>3. QED
    BY <2>1, <2>2 DEF Posting, Fates, Listing
<1>3. QED
  BY TypesInitially, TypesStep, PostingInitially, PostingStep, ListingStep, <1>1, <1>2, PTL
  DEF Spec

=============================================================================
