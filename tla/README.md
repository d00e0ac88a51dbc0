# Verification of librespeed-cli (speedtest-cli-rust)

TLA+ models of the command line speed test in `src/`, the TLC runs that check
them and the TLAPS proofs of their main properties.  Paths below are relative to
the crate (`src/src/...` in `PROJECT.json`).

## 1. The system

One process tests one or more LibreSpeed servers and exits.  It is one chain of
awaits on tokio's multi-threaded runtime, plus a few tasks:

| component | code | state | operations | talks to |
|---|---|---|---|---|
| command line | `cli.rs`, `main.rs`, `speedtest.rs` `run` | options, exit status | parse, check, bind, exit | everything below |
| settings | `speedtest.rs` `resolve_telemetry` | telemetry level and address | merge flags, file, defaults | session |
| server list and selection | `speedtest.rs` | server list, ping list | load with retry, filter, ping all, choose | HTTP client, ping, session |
| session | `helper.rs`, `output.rs` | share link, reports, stdout | probe, IP, ping, download, upload, telemetry, report | everything below |
| progress ticker | `defs/server.rs` | a task, a `Notify` | tick, emit, stop | session's stdout, byte counter |
| transfer phase | `defs/server.rs` | a `JoinSet`, a deadline | spawn, replace, close, abort and join, read | HTTP client, byte counter |
| upload body | `defs/server.rs` | a position in a payload | poll a frame, hint a size | byte counter |
| byte counter and write meter | `defs/bytes_counter.rs`, `http/meter.rs` | totals under mutexes | add, total | streams, connection tasks |
| HTTP client | `http/mod.rs` | one request's URL, method, body | follow redirects, read a body, time out | connector |
| connector | `http/connector.rs` | two racing dials | resolve, bind, dial serially, race the families | sockets |
| TLS | `http/tls.rs` | configuration | read a bundle, build | connector |
| ping | `ping.rs`, `defs/server.rs` | samples | ICMP echos, HTTP pings, jitter | sockets, HTTP client |
| spinner | `spinner.rs` | a task, a `Notify` | draw, stop | stderr |
| reports, quoting, utilities | `report.rs`, `quote.rs`, `util.rs`, `defs/mod.rs` | none | format, sanitize, quote, join paths | session |

What is hard here: the deadline of a phase against streams that end, hang, fail
and are replaced; hyper's connection tasks, which outlive the streams they work
for; the progress ticker against the phase that stops it, and the spinner's task
against the owner that has the last word; a body that must not follow a redirect
to another origin; a connect budget shared out over two racing address families;
echos whose spacing, timeout and deadline are the same second; failures in the
middle of a run over several servers; results that arrive out of order; options
whose meaning depends on the platform, on the backend and on each other.
`PROJECT.json` lists these hazards line by line.

What makes each part correct: a transfer phase ends at its deadline and at no
other time and reports one number; the client never gives a body to another
origin, never drops TLS and always ends; the connector never outlasts its budget
and lets neither a hanging address nor a hanging family decide the outcome; a
ping is an average over comparable samples, taken on schedule; the session's
stdout is a well-formed document or stream exactly when it succeeded; selection
tests the fastest server of those asked for; sockets are bound, peers trusted and
telemetry sent as the command line asks, or nothing is; text from the wire reaches
the output inert.

## 2. The modules

| module | models | abstraction |
|---|---|---|
| `Measurement` | what a phase promises | bytes tallied while open; report = tally at close |
| `Transfer` | `Server::download` and `upload` with their streams, the counter and the meter | a byte is a unit, time is discrete ticks |
| `UploadBody` | `UploadBody::poll_frame`, `size_hint` | a payload is its length |
| `HttpClient` (`HttpClientMC`: its URLs) | one call on `HttpClient` | a URL is scheme, host, port; a status is drop, keep or final |
| `Dial` | `dial_with` and `dial_serial` | an address accepts, refuses or hangs, some ticks after it is tried |
| `TelemetryOptions` | `resolve_telemetry`, `get_level` | a setting is where it came from |
| `Startup` (`StartupMC`: its command lines), extends `TelemetryOptions` | `main`, `run` up to the list, `BindOptions`, `HttpClient::new` with either TLS backend, and the sockets that follow | an address is its family, a certificate its signer |
| `ServerList` | `load_servers`, `preprocess_servers`, `apply_scheme` | a server is its id and scheme |
| `Selection` (`SelectionMC`: its lists), extends `ServerList` | `run` from the list on, `ping_all`, the choice | a ping is a number |
| `Ping` | `icmp_ping_and_jitter`, `icmp_rtts`, `ping_and_jitter`, `compute_jitter` | an echo is when it was sent and how long its reply took |
| `Spinner` | `spinner.rs` | the line shows a frame, a result or an error |
| `PingPhase`, extends both | the ping phase of `do_speed_test` | |
| `Session` | `do_speed_test`, the ticker, stdout, telemetry, exit | a line of stdout is its kind, its phase and its reports; a share link is its server |
| `Paths` | `path_clean`, `path_join`, `url_join_path`, `get_share` | a path is the sequence of its segments |
| `Folding` | what a loop over a sequence leaves | |
| `Texts`, on `Folding` as `Paths` is | sanitizing, CSV cells and rows, JSON escapes, `GoQuote` | one character stands for each class the code treats alike |
| `Conversions` (`ConversionsMC`: its bases and addresses), extends `Paths`, `Texts`, `UploadBody` | calls of the conversions | |
| `TransferProofs`, `HttpClientProofs`, `DialProofs`, `StartupProofs`, `SelectionProofs`, `PingProofs`, `SessionProofs`, `ConversionsProofs` | the theorems | |

How the models fit together.  `Startup` ends where the list is loaded and then
only says which sockets the rest of the run may open; `Dial` is one such
`Connect` address by address, `Ping` the echos.  `Transfer` shows that a phase
always returns, which is why `Session` may assume it; `HttpClient` shows that a
call with a timeout ends, which is why `Session` and `Selection` may assume that
requests return; `PingPhase` shows the same of a ping.  `Selection` ends with the
list that `Session` tests, `TelemetryOptions` with its `telemetry` option.
`Transfer`'s `Answer` and `RequestFails` are the two outcomes of an `HttpClient`
call, `ConnectionFails` there is a failed `Dial`, and `UploadBody` gives the
frames an upload stream counts.  Each is checked against every outcome the other
can have.

### Transfer

`phase` follows the phase task: `ramp` (spawn loop), `window` (the `select!`
loop), `shutdown`, `ticker`, `read`, `done`.  A slot of `stream` is one of the
`Requests` streams and what replaces it.  `Start` sets the stream's deadline;
`Answer` is a response head, `RequestFails`, `BodyEnds` and `Expire` give the
`StreamEnd`.  `Join` is `join_next`, which the `biased` select looks at only
while the deadline has not passed, so it is guarded by `timer > 0`; with the
order swapped (`JoinFirst`) the phase need not end.  `Unwind` and `AllUnwound`
are `JoinSet::shutdown`: an aborted task may finish the poll it is in.

For an upload, body bytes are counted by `UploadBody::poll_frame` in hyper's
connection task.  `stray` says that a connection outlives its stream; such
connections take frames (`TakeFrame`), write (`WriteBody`, `WriteOverhead`) and
are closed (`CloseStray`) at any time, also while the phase reads the counter.
`total()` is two steps, since it takes two locks.

### HttpClient

`request` (URL, method, remaining body, responses received) is the state of the
redirect loop; `log`, the requests that went out, is what the properties speak
of.  `Refused` holds the three reasons not to follow, which all end in the same
error, so their order does not matter.  The body readers see frames of every
size up to `MaxFrame`.

### Dial

Both dials are futures polled by one `select!` in a fixed order, so the model is
deterministic once the peers are chosen, and time passes only when every future
waits.  This assumes the runtime polls the task as soon as it is woken; a task
polled late can find its deadline passed and leave addresses untried.

### TelemetryOptions, Startup

A command line, a file and a build are chosen at the start.  `at` is the place in
`main` and `run`: most options are a `Check` that ends the run or not, in the
code's order; `ResolveTelemetry` is one step of `TelemetryOptions`; `ParseSource`,
`Validate` and `NewClient` settle the source address, whether echos are sent, and
the roots.  `RustlsRoots` and `NativeRoots` differ as the backends do: rustls
builds its store from nothing and decodes a bundle whole, native-tls drops a block
that does not end.  With `--skip-cert-verify` rustls stops there and does not look
whether what it decoded is a certificate, so a bundle that is only `damaged` goes
unnoticed; native-tls parses every certificate in any case.  From `run` on, `Connect` and `Echo` are every socket the
options let through, remembered in `last`; a TLS stream carries something only if
the peer's signer is among `roots`.

`BoundAsAsked` states one exception the code makes: an echo to the family that
the source address is not of is sent without one (`icmp_rtts`), where a
connection is refused.  `SendsAsAsked` says what has to be sent, at which level and
where to, as far as those who name a level agree.  On two questions the help and the
code answer differently, and it takes no side: whether the file or a flag decides
when they differ, and whether `--telemetry-extra` asks for anything.
`FileOverrides` states the help's answer to the first; on the second see section 3.

### ServerList, Selection

One list load, its retry, and the jobs of `buffer_unordered`, which are started
in list order and end in any order.  `ping_all` is one task, so a job's end and
the arrival of its result are one step.

### Ping, Spinner, PingPhase

`step` is the place in `icmp_ping_and_jitter`.  Time is in ticks of a fraction of
the second that is at once the spacing, the reply timeout and the unit of the
deadline; `Tick` may pass while the task could have gone on, which `late` counts,
so a timer fires late but never early.  A name without an address, `--no-icmp`
and a socket that does not open all lead to `SkipEchos`.

The spinner's task looks at the flag, draws, and waits for its interval or the
permit; `stop` clears the flag, leaves a permit and joins the task before the line
is erased.  `PingPhase` runs the two side by side; `ReportFailure` is what the
session prints when the phase failed.

### Session

`pc` is the place in `do_speed_test`; `Fail` is `report_failure` and `main`'s
exit with 1.  The ticker takes a tick only if it saw no permit (`TakeTick`), and
writes the event later (`EmitProgress`), possibly after the permit was left.
Downloads and uploads return no error here: their only one is a URL that does not
parse, which the loop has already refused.  An unparsable URL is
not told apart from a server that is down or fails: `Probe` and `IpFails` reach
the same exits.  `fate` is a history variable.

### Paths, Texts, UploadBody, Conversions

Pure functions, each checked against what its result means rather than against a
second implementation: a path against where it leads (`Walk`) and its shortest
spelling, a CSV row against a CSV reader, JSON and Go's quoting against a reader
of escapes, the frames of a body against the length that was declared.

`csv_delimiter_byte` refuses only a quote, so a delimiter may be a line end; then
cells and rows end alike and `csv_rows` trims empty last cells with the line ends.
No reader can tell such rows apart, and `ReportsAreInert` asks nothing of the rows
in that case.

## 3. The runs

| run | shows | bounds, and why they suffice |
|---|---|---|
| `transfer_download` | window honoured, replacement rule, no blind retry, one stable total, the phase returns, implements `Measurement` | two streams, so that one can be replaced while the other is abandoned; timeout as long as the window, so it expires inside and outside it; `MaxElapsed` one tick past the phase |
| `transfer_upload` | the total lies between the wire bounds | two body bytes, two overhead bytes and a queue of two: bytes can be queued, written, or lost between the two locks |
| `http_client` | body stays home, no downgrade, no revival, bounded chain, memory bound, calls end | six URLs that differ in scheme, host and port one at a time; four requests, so a 303 and a 307 can be combined in either order before the limit |
| `dial` | budget, every address tried, the families help and do not disturb each other, error reported, the dial returns | three and two addresses against five ticks with minimum slices of two: the minimum both fits and does not fit |
| `startup` | telemetry as asked where help and code agree, binding and trust as asked; nothing sent by a run that has to refuse | three platforms and both backends; every combination within one group of options (telemetry, modes, network), the others at their defaults: the theorems cover all combinations |
| `selection` | tested as asked, fastest chosen, fatal only in silence, selection ends | three servers on two slots, pings 0, 1 and 2: ties, zeros and a queued job |
| `ping` | schedule, comparable samples, last word on the line, the phase ends | one echo (no pause) and three (the pause counts), two ticks to a second, three late ones: more than an interval can be lost, so an echo can be left out |
| `session` | progress events in their phase, documents exactly on success and faithful, telemetry once, the run exits | three servers, so a failure falls before, between and after successes; one tick is enough to be late |
| `conversions` | paths lead where they led, reports are inert, quoting is recoverable, frames match the length | five segments hold every pair of neighbours of `..`, `.`, nothing and a name, twice; three characters hold a trigger hidden behind a dropped one, an escape and what it could be confused with; the delimiters are a plain one, one that triggers, one that is dropped and a line end; chunks of three against lengths 0 to 7 |

Three further runs each refute one sentence of a comment or of the help text:

| run | the sentence | what happens |
|---|---|---|
| `upload_total` | "so the reported total cannot change under us" (`defs/server.rs:515`) | a connection task counts and writes between the final reads of an upload |
| `telemetry_json` | "This option overrides --telemetry-level, ..." (`cli.rs:194-196`) | a flag replaces the level or the part of the address that the file holds |
| `jitter_weights` | "increases move it faster than decreases" (`ping.rs:78`) | a decrease of the delta weighs 0.3, an increase 0.2 |

Three more sentences of the help disagree with the code and have no run of their
own: `--telemetry-extra` "Implies --share" (`cli.rs:217`), but
`any_telemetry_option` does not look at it, and alone it sends nothing; the Share
column of a `--csv` row holds the link that is "not displayed with --csv"
(`cli.rs:74`); and `--simple` writes its lines between the events of
`--json-stream` (`cli.rs:105`).

Definitions named after a plausible bug (`JoinFirst`, `SameHost`,
`FinishUnjoined`, ...) stand before the definition they would replace; each
property has one under which its run fails.

### Fairness

* `Transfer`: the phase task, the clock and the dropping of an aborted task are
  weakly fair.  Tokio polls a woken task and drops an aborted one at its next
  await.  Nothing is asked of servers or connections.
* `HttpClient`: the client's own steps and the timeout.  `EndlessBodyEnds`
  supposes that frames keep arriving, which is its case.
* `Dial`: the whole next-state relation, one task under a running clock.
* `PingPhase`: the phase's own steps, the measurement (timers fire; a request
  returns, for a `--timeout` other than 0) and the spinner's task.  Nothing is
  asked of replies: an echo that is never answered ends by its timeout.
* `Session`, `Selection`: the tasks run and every request returns.  The second
  holds for a `--timeout` other than 0 (`TimedCallEnds`); with 0 a server that
  never answers keeps the program waiting, as documented.

## 4. What is proved

TLAPS checks, for all values of the constants:

* `TransferProofs`: `TypeCorrect`, `WindowIsHonoured`, `Abandoned`, `NeverBlind`;
  for a download, `DownloadTotalStable` and `DownloadImplementsMeasurement`; for an
  upload, `UploadTotalBounds`.
* `HttpClientProofs`: `TypeCorrect`, `BodyNeverLeaves`, `NoDowngrade`,
  `NoRevival`, `ChainIsBounded`.
* `DialProofs`: `TypeCorrect`, `Budget`, `NoneUnheard`, `Race`, `FirstError`: all
  the safety properties of a dial, for any addresses, timeout, delay and slice.
* `StartupProofs`: `TypeCorrect`, `TelemetryAsAsked`, `Bound`, `Trusted`,
  `Refused`, for every combination of all options at once, which the run leaves
  out.
* `PingProofs`: `TypeCorrect`, `OnSchedule`, `Comparable`, `JitterStays`,
  `LastWordKept`, for any number of echos, any interval and a task as late as one
  likes.  `JitterStays` has no run: its property, `JitterWithinDeltas`, bounds the
  jitter of any series by the changes in it.
* `SelectionProofs`: `Typed`, `Fastest`, `Fatal` and `AsAsked`, for any list from
  any source and any number of workers.
* `SessionProofs`: `TypeCorrect`, `InItsPhase`, `Documented`, `Posted`, `Faithful`:
  all the safety properties of a session, for any number of servers and ticks.
* `ConversionsProofs`: `PathsLead`, for paths of any length over any segments and
  any base; `ReportsInert`, for texts of any length over any characters and any
  delimiter; `QuotesRecoverable`, for any number of bytes; `LengthKept`, for any
  payload and chunk.

The assumptions are the modules' ASSUMEs, which TLC evaluates in the runs.

The invariant of a transfer phase.  `WindowHonoured` alone is not inductive: it
says nothing while the ramp-up goes on.  `TimePaid` counts what has been paid: the
time elapsed and the sleep left cover the spawns made and, in the window, the
duration.  `ReportedTotalStable` needs `Joined` (no stream runs once the phase is
past its shutdown).  The wire bounds need `Conservation` (every counted body byte
is queued, sent or lost), `HeldBetween` (the tally read first is still between
what had been sent then and what has been counted since) and `ReadsInOrder`.
The refinement uses the same invariant: a `Receive` is a `Carry` because no stream
is left after `shutdown`, and `CloseWindow`'s span is `TimePaid` at `timer = 0`.
`Answering` says of each slot what its stream's state tells of its answer: a
stream that ended with data had one, one that waits or failed had none, and a slot
the ramp-up has not reached is idle.  `AbandonedOnlyUnanswered` and `NoBlindRetry`
are two readings of it.

The invariant of a client call says of the request log: its entries are ordered as
the properties ask *and* the request about to be sent, `url` with `method` and
`body`, extends it in that order.

The invariants of a dial.  `RaceOK` places the two racers; that time stands still
while one can step gives `Budget`.  `Shares` says what each slice leaves over: when
an address is up, the least attempts of the addresses left still fit the time left,
because a slice is the time left divided by their number (`SliceBounds`, from two
facts about division).  `AloneHold` says that the other family runs beside the first
only once the delay is over and the first had no answer at its end; `RescueHold`
follows the other family's first address from the delay to its answer; `ErrorsHold`
relates the first family's index and error to what its addresses do.

The invariants of a start.  `LevelsHold` says which level and which origin of each
part of the address each step of `resolve_telemetry` finds, and that no run with an
unreadable file or an unknown level gets to the end of it; `ChecksHold` says, step by step, which options are known
to be good, what the source is and whose roots are configured; `SocketsHold` keeps
what the properties say of the last socket after the run has exited.

The invariants of a ping.  `Progress` ties the echos sent to those dealt with and
the samples to their kind.  `Schedule` says that the clock is ahead of the echos
sent, a second each, by at most what the task was late, and so is the latest send:
the deadline can only cut off an echo if a whole second was lost.  `Ownership` says
that the spinner's task is gone when its owner is past `stop`, and was never there
in a silent run.  `Jitter` is a recursive function: `JitterComputed` gets its
equations from the existence of a solution, and `JitterBounded` goes through the
samples one by one, each fold lying between what it folds (`FoldBetween`).  It is in
whole hundredths of a tick, which is exact for the four samples of `jitter_weights`
and rounds down in longer series.

The invariants of a selection.  `Choosing` says that an answered job is among the
answers, so a choice without answers has only silent jobs.  That `Best` is the
fastest needs that it exists: `Least` gives the least ping, and then the first
server with it, from the well-foundedness of the naturals.  `Asked` says that every
server of the list, and every one tested, is one of `Allowed`: `ProcessedAllowed`
follows `Processed` element by element of the list read, whatever it holds.  It also
counts the slots: a job that begins takes a free one, one that moves on keeps it
(`SlotsKept`).

The invariants of a session.  `Control` says that a ticker exists only inside a
transfer and tells of that transfer's phase.  `Narrating` says that the last phase
event of the stream is that phase's, so a progress event, whenever it is written,
follows it; `JoinTicker` keeps this when the next phase is announced.  `Fates` says
where each server is: before the one under test none is untested, after it all are,
and a post is made for a measured one.  `Listing` says that the reports are the
measured servers but for one not reported yet, in order, each with a link of its
own, and that the document is those reports.

The argument about the conversions is induction over data.  The library's
induction theorems take an operator as a parameter, which the provers cannot
instantiate; here the claim is membership of a set instead.  `Least` picks the least
counterexample among the naturals, which are well-founded; `Induction` and
`SeqInduction` follow, the latter for sequences built by `Append`.  `FoldFacts` goes
from the recursive function in `Runs` to its two equations, and from there each
conversion has a lemma on what one more element does to its result:

* paths: the segments kept are in a normal form, some `..` (none if rooted) and then
  names, and walking them leads where the segments read so far lead;
* escapes: a reader in its plain state reads a code, however long, as the character
  it stands for and is in its plain state again, so texts of codes read back; JSON
  (two passes of escapes) and Go's quotes are two such codes;
* CSV: the state of the reader is known before and after each cell, quoted or not,
  and after each row, and what is hostile is dropped before it is looked at;
* bodies: `Handed` says that all behind `pos` was taken.

`CallInv` says that an answer is the result of its call on an input of its set.

Only model-checked: liveness (`PhaseEnds` of both phases, `TimedCallEnds`,
`EndlessBodyEnds`, `DialReturns`, `RunExits`, `SelectionEnds`), which the prover
cannot reach under fairness.  Every safety property of the passing runs is proved.

## 5. What is not modelled

* The lenient parsing of an IP information reply (`report.rs`, `defs/mod.rs`): it
  turns one JSON document into text that is shown, keeps no state and decides
  nothing.
* clap's parser and the wording of usage errors; number and timestamp formatting;
  rates and averages; stderr outside the ping phase.
* The TLS handshake, the facts it reports and ALPN, which belong to the libraries;
  name resolution beyond the families it may return.
* The size cap of a local list (`speedtest.rs:346`), one comparison of a length.
* Build scripts, fuzz targets and the golden-file tools.

`DialAssumption`, `PingAssumption` and the time bounds stand for real durations
whose order, and for the schedule of echos their sum, is all that is used.

## 6. Plan

The modules and the proofs of the plan are written.  What could still be added:

1. a refinement of the session's transfer steps by `Transfer`, which now meet only
   in `Session`'s assumption that a transfer opens its window, closes it and ends;
2. a TLC run of `Transfer` with three streams, where the time it takes allows it.
