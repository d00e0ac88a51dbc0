------------------------------ MODULE Session ------------------------------
(***************************************************************************)
(* helper::do_speed_test: the test of one server after another, what it    *)
(* writes to stdout, the telemetry it posts, and the status it exits with. *)
(* Under --json-stream a ticker task of its own writes progress events     *)
(* while a transfer window is open; the rest is one task.  Transfer models *)
(* a transfer phase in full; here it opens its window, closes it, stops    *)
(* the ticker and returns.                                                 *)
(***************************************************************************)
EXTENDS Integers, Sequences

CONSTANTS
    Servers,        \* how many servers are tested
    MaxProgress     \* bound: ticks of one progress ticker

ASSUME SessionAssumption == Servers \in Nat /\ MaxProgress \in Nat

Transfers == {"download", "upload"}

\* The options the session looks at.  clap rejects --json-stream together with
\* --json or --csv; every other combination reaches do_speed_test.
Options ==
    {o \in [csv : BOOLEAN, json : BOOLEAN, stream : BOOLEAN, simple : BOOLEAN,
            skipped : SUBSET Transfers, telemetry : BOOLEAN] :
        o.stream => ~o.json /\ ~o.csv}

Running == -1       \* no exit status yet
NoLink == 0         \* otherwise a link is named for the server it belongs to

VARIABLES
    opts,           \* the command line
    server,         \* the server under test, 0 before the first
    pc,             \* where do_speed_test is
    phase,          \* the transfer under way
    ticker,         \* the progress ticker's task
    narrates,       \* the phase the ticker was started for
    ticks,          \* ticks it has left
    permit,         \* its Notify holds a permit
    link,           \* share_link
    reports,        \* reps_csv or reps_json
    stdout,         \* the lines written
    posts,          \* per server: telemetry requests made
    fate,           \* history, per server: what became of its test
    exit            \* the exit status

tick == <<ticker, narrates, ticks, permit>>
ends == <<posts, fate, exit>>
vars == <<opts, server, pc, phase, tick, link, reports, stdout, ends>>

Init ==
    /\ opts \in Options
    /\ server = 0 /\ pc = "next" /\ phase = "none"
    /\ ticker = "none" /\ narrates = "none" /\ ticks = 0 /\ permit = FALSE
    /\ link = NoLink /\ reports = <<>> /\ stdout = <<>>
    /\ posts = [s \in 1..Servers |-> 0]
    /\ fate = [s \in 1..Servers |-> "untested"]
    /\ exit = Running

\* A line of stdout: its kind, the phase it names and the reports it carries.
Line(kind, named, carried) == [kind |-> kind, phase |-> named, reports |-> carried]

Write(line) == stdout' = Append(stdout, line)

\* Output::stream_event
StreamEvent(line) ==
    IF opts.stream THEN Write(line) ELSE UNCHANGED stdout

\* report_failure, then main: the cause goes to stderr and the status is 1.
Fail ==
    /\ pc' = "exited"
    /\ exit' = 1
    /\ UNCHANGED <<opts, server, phase, tick, link, reports, stdout, posts, fate>>

-----------------------------------------------------------------------------
(* One server, up to its transfers. *)

\* Bug: the share link outlives the server it was given for.
NextServerKeepsLink ==
    /\ pc = "next"
    /\ server < Servers
    /\ server' = server + 1
    /\ pc' = "probe"
    /\ UNCHANGED <<opts, phase, tick, link, reports, stdout, ends>>

NextServer ==
    /\ pc = "next"
    /\ server < Servers
    /\ server' = server + 1
    /\ pc' = "probe"
    /\ link' = NoLink
    /\ UNCHANGED <<opts, phase, tick, reports, stdout, ends>>

\* is_up: a server that does not answer is passed over.
Probe ==
    /\ pc = "probe"
    /\ \/ pc' = "ip" /\ UNCHANGED fate
       \/ pc' = "next" /\ fate' = [fate EXCEPT ![server] = "down"]
    /\ UNCHANGED <<opts, server, phase, tick, link, reports, stdout, posts, exit>>

IpFails == pc = "ip" /\ Fail

IpKnown ==
    /\ pc = "ip"
    /\ StreamEvent(Line("phase", "ping", <<>>))
    /\ phase' = "ping"
    /\ pc' = "ping"
    /\ UNCHANGED <<opts, server, tick, link, reports, ends>>

\* Bug: a failure prints the reports there are.
PingFailsWithReports ==
    /\ pc = "ping"
    /\ Write(Line("json", "none", reports))
    /\ pc' = "exited"
    /\ exit' = 1
    /\ UNCHANGED <<opts, server, phase, tick, link, reports, posts, fate>>

PingFails == pc = "ping" /\ Fail

Pinged ==
    /\ pc = "ping"
    /\ pc' = "download"
    /\ UNCHANGED <<opts, server, phase, tick, link, reports, stdout, ends>>

-----------------------------------------------------------------------------
(* The transfers and their ticker. *)

After(p) == IF p = "download" THEN "upload" ELSE "print"

SkipTransfer ==
    /\ pc \in opts.skipped
    /\ pc' = After(pc)
    /\ UNCHANGED <<opts, server, phase, tick, link, reports, stdout, ends>>

BeginTransfer ==
    /\ pc \in Transfers \ opts.skipped
    /\ StreamEvent(Line("phase", pc, <<>>))
    /\ phase' = pc
    /\ pc' = "ramp"
    /\ UNCHANGED <<opts, server, tick, link, reports, ends>>

\* start_progress_ticker, once the streams have been spawned
OpenWindow ==
    /\ pc = "ramp"
    /\ pc' = "window"
    /\ IF opts.stream
       THEN /\ ticker' = "waiting" /\ permit' = FALSE
            /\ narrates' = phase /\ ticks' = MaxProgress
       ELSE UNCHANGED tick
    /\ UNCHANGED <<opts, server, phase, link, reports, stdout, ends>>

\* Bug: notify_waiters, which wakes a task that waits and keeps no permit.
CloseWindowWakingWaiter ==
    /\ pc = "window"
    /\ pc' = "join"
    /\ permit' = (ticker = "waiting")
    /\ UNCHANGED <<opts, server, phase, ticker, narrates, ticks, link, reports,
                   stdout, ends>>

\* The streams are shut down, then ProgressTicker::stop leaves its permit.
CloseWindow ==
    /\ pc = "window"
    /\ pc' = "join"
    /\ permit' = (ticker # "none")
    /\ UNCHANGED <<opts, server, phase, ticker, narrates, ticks, link, reports,
                   stdout, ends>>

\* Bug: the ticker is told to stop and not waited for.
JoinNoTicker ==
    /\ pc = "join"
    /\ pc' = After(phase)
    /\ UNCHANGED <<opts, server, phase, tick, link, reports, stdout, ends>>

\* stop() awaits the task, and the transfer returns.
JoinTicker ==
    /\ pc = "join"
    /\ ticker \in {"none", "returned"}
    /\ ticker' = "none" /\ permit' = FALSE
    /\ pc' = After(phase)
    /\ UNCHANGED <<opts, server, phase, narrates, ticks, link, reports, stdout, ends>>

\* The biased select! looks for a permit before it takes a tick; the event it
\* then writes may land after the permit was left.
TakeTick ==
    /\ ticker = "waiting"
    /\ ~permit
    /\ ticks > 0
    /\ ticker' = "emitting"
    /\ ticks' = ticks - 1
    /\ UNCHANGED <<opts, server, pc, phase, narrates, permit, link, reports, stdout, ends>>

EmitProgress ==
    /\ ticker = "emitting"
    /\ ticker' = "waiting"
    /\ StreamEvent(Line("progress", narrates, <<>>))
    /\ UNCHANGED <<opts, server, pc, phase, narrates, ticks, permit, link, reports, ends>>

TakePermit ==
    /\ ticker = "waiting"
    /\ permit
    /\ ticker' = "returned"
    /\ permit' = FALSE
    /\ UNCHANGED <<opts, server, pc, phase, narrates, ticks, link, reports, stdout, ends>>

-----------------------------------------------------------------------------
(* What is made of one server's measurement. *)

\* --simple writes its lines whatever other output was asked for.
PrintSimple ==
    /\ pc = "print"
    /\ IF opts.simple THEN Write(Line("simple", "none", <<>>)) ELSE UNCHANGED stdout
    /\ fate' = [fate EXCEPT ![server] = "measured"]
    /\ pc' = IF opts.telemetry THEN "telemetry" ELSE "report"
    /\ UNCHANGED <<opts, server, phase, tick, link, reports, posts, exit>>

\* send_telemetry up to the request; its URL may not parse.
PostTelemetry ==
    /\ pc = "telemetry"
    /\ \/ pc' = "answer" /\ posts' = [posts EXCEPT ![server] = @ + 1]
       \/ pc' = "report" /\ UNCHANGED posts
    /\ UNCHANGED <<opts, server, phase, tick, link, reports, stdout, fate, exit>>

\* A well-formed answer names the share link.  stdout gets it only under
\* --simple without --json and --csv.
Shared ==
    /\ pc = "answer"
    /\ link' = server
    /\ IF opts.simple /\ ~opts.json /\ ~opts.csv
       THEN Write(Line("link", "none", <<[server |-> server, share |-> server]>>))
       ELSE UNCHANGED stdout
    /\ pc' = "report"
    /\ UNCHANGED <<opts, server, phase, tick, reports, ends>>

\* Bug: the request is made again until it succeeds.
NotSharedRetry ==
    /\ pc = "answer"
    /\ pc' = "telemetry"
    /\ posts[server] < 2
    /\ UNCHANGED <<opts, server, phase, tick, link, reports, stdout, ends>>

\* No answer, a failure status or a malformed body: a line on stderr.
NotShared ==
    /\ pc = "answer"
    /\ pc' = "report"
    /\ UNCHANGED <<opts, server, phase, tick, link, reports, stdout, ends>>

Reported == opts.csv \/ opts.json \/ opts.stream

Report ==
    /\ pc = "report"
    /\ reports' = IF Reported
                  THEN Append(reports, [server |-> server, share |-> link])
                  ELSE reports
    /\ pc' = "next"
    /\ UNCHANGED <<opts, server, phase, tick, link, stdout, ends>>

\* --csv takes precedence over --json; --json-stream wraps the same reports.
Document ==
    IF opts.csv THEN "csv" ELSE IF opts.stream THEN "result" ELSE "json"

\* The reports are rendered into memory, which does not fail.
Finish ==
    /\ pc = "next"
    /\ server = Servers
    /\ IF Reported THEN Write(Line(Document, "none", reports)) ELSE UNCHANGED stdout
    /\ pc' = "exited"
    /\ exit' = 0
    /\ UNCHANGED <<opts, server, phase, tick, link, reports, posts, fate>>

-----------------------------------------------------------------------------
Main ==
    \/ NextServer \/ Probe \/ IpFails \/ IpKnown \/ PingFails \/ Pinged
    \/ SkipTransfer \/ BeginTransfer \/ OpenWindow \/ CloseWindow \/ JoinTicker
    \/ PrintSimple \/ PostTelemetry \/ Shared \/ NotShared \/ Report \/ Finish

\* The process exits with the main task, whatever else is running.
Ticker == exit = Running /\ (TakeTick \/ EmitProgress \/ TakePermit)

Terminating == exit # Running /\ UNCHANGED vars

Next == Main \/ Ticker \/ Terminating

Spec == Init /\ [][Next]_vars

\* The runtime polls both tasks; every request returns (HttpClient, for a
\* --timeout other than 0) and so does every transfer (Transfer).
Fairness ==
    /\ WF_vars(Main)
    /\ WF_vars(exit = Running /\ TakePermit)
    /\ WF_vars(exit = Running /\ EmitProgress)

FairSpec == Spec /\ Fairness

-----------------------------------------------------------------------------
PCs == {"next", "probe", "ip", "ping", "download", "upload", "ramp", "window",
        "join", "print", "telemetry", "answer", "report", "exited"}
Links == 0..Servers
Entries == [server : 1..Servers, share : Links]
Kinds == {"phase", "progress", "simple", "link", "csv", "json", "result"}
Phases == Transfers \cup {"none", "ping"}

\* Every variable has its type.
TypeOK ==
    /\ opts \in Options
    /\ server \in 0..Servers
    /\ pc \in PCs
    /\ phase \in Phases
    /\ ticker \in {"none", "waiting", "emitting", "returned"}
    /\ narrates \in Phases
    /\ ticks \in 0..MaxProgress
    /\ permit \in BOOLEAN
    /\ link \in Links
    /\ reports \in Seq(Entries)
    /\ stdout \in Seq([kind : Kinds, phase : Phases, reports : Seq(Entries)])
    /\ posts \in [1..Servers -> Nat]
    /\ fate \in [1..Servers -> {"untested", "down", "measured"}]
    /\ exit \in {Running, 0, 1}

Kind(i) == stdout[i].kind
Documents == {"csv", "json", "result"}

\* A progress event belongs to the last phase event before it, so a reader of
\* the stream never sees one of a phase that is over ("a late progress event
\* can never land after the phase event that follows it", ProgressTicker).
ProgressInItsPhase ==
    \A i \in 1..Len(stdout) : Kind(i) = "progress" =>
        \E j \in 1..(i - 1) :
            /\ stdout[j] = Line("phase", stdout[i].phase, <<>>)
            /\ \A k \in (j + 1)..(i - 1) : Kind(k) # "phase"

\* A run writes the document it was asked for exactly when it exits 0, once,
\* and nothing after it; a run that failed at a later server writes none.
DocumentIffSuccess ==
    /\ exit = 0 /\ Reported => stdout # <<>> /\ Kind(Len(stdout)) = Document
    /\ \A i \in 1..Len(stdout) :
          Kind(i) \in Documents => exit = 0 /\ i = Len(stdout) /\ Kind(i) = Document

Measured == {s \in 1..Servers : fate[s] = "measured"}

\* The reports list the servers of a set, each once, in the order tested.
Lists(listed, of) ==
    /\ {listed[i].server : i \in DOMAIN listed} = of
    /\ \A i, j \in DOMAIN listed : i < j => listed[i].server < listed[j].server

\* A run that exits 0 passed over no server but those that were down: the
\* document lists the measured ones, all of them, in the order tested, each
\* with its own share link or none.
DocumentFaithful ==
    exit = 0 /\ Reported =>
        LET listed == stdout[Len(stdout)].reports IN
        /\ \A s \in 1..Servers : fate[s] # "untested"
        /\ Lists(listed, Measured)
        /\ \A i \in DOMAIN listed :
              /\ listed[i].share \in {NoLink, listed[i].server}
              /\ listed[i].share # NoLink => posts[listed[i].server] = 1

\* A measurement is posted at most once, and only a finished one, whatever the
\* telemetry server makes of it: an answer that was lost is not asked again.
PostedOnce ==
    \A s \in 1..Servers :
        /\ posts[s] <= 1
        /\ posts[s] = 1 => opts.telemetry /\ fate[s] = "measured"

\* Every run exits: in particular stopping the ticker never waits for a task
\* that missed the notification while it was writing an event.
RunExits == <>(exit # Running)

=============================================================================
