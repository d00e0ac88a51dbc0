----------------------------- MODULE Selection -----------------------------
(***************************************************************************)
(* speedtest::run from the server list on: either every server that        *)
(* --server asked for is tested, or all of them are pinged, PingWorkers at *)
(* a time, and the one that answered fastest is.  A ping tries ICMP first, *)
(* unless it is off, and falls back to HTTP.                               *)
(***************************************************************************)
EXTENDS ServerList, FiniteSets

CONSTANTS
    PingWorkers,    \* PING_WORKERS
    MaxPing         \* bound: the longest ping told apart

ASSUME SelectionAssumption ==
    PingWorkers \in Nat \ {0} /\ MaxPing \in Nat

VARIABLES
    job,            \* per server of the list: what its ping job is doing
    pings,          \* ping_list: who answered and how fast, in that order
    tested          \* what do_speed_test is given

select == <<job, pings, tested>>
vars == <<pc, load, select>>

InFlight == {"probe", "icmp", "http"}
Over == {"answered", "silent"}
Jobs == 1..Len(servers)

Init ==
    /\ LoadInit
    /\ job = <<>>
    /\ pings = <<>>
    /\ tested = <<>>

Load == (ReadLocal \/ Fetch \/ FetchDiscovery) /\ UNCHANGED select

\* --list prints the list; --server tests all that is left of it.
Loaded ==
    /\ pc = "loaded"
    /\ \/ /\ opts.list
          /\ pc' = "listed"
          /\ UNCHANGED <<job, tested>>
       \/ /\ ~opts.list /\ opts.server # {}
          /\ pc' = "test"
          /\ tested' = servers
          /\ UNCHANGED job
       \/ /\ ~opts.list /\ opts.server = {}
          /\ pc' = "pinging"
          /\ job' = [i \in Jobs |-> "queued"]
          /\ UNCHANGED tested
    /\ UNCHANGED <<load, pings>>

-----------------------------------------------------------------------------
(* ping_all: buffer_unordered starts the jobs in order, as slots come free, *)
(* and takes their results in the order they end.                           *)

\* Bug: a job that ends without an answer keeps its slot.
BusyUntilAnswered == {i \in Jobs : job[i] \in InFlight \cup {"silent"}}

\* The jobs that hold one of the slots.
Busy == {i \in Jobs : job[i] \in InFlight}
Becomes(i, state) == job' = [job EXCEPT ![i] = state]

\* A server whose URL does not parse is skipped.
Launch(i) ==
    /\ pc = "pinging"
    /\ job[i] = "queued"
    /\ \A j \in 1..(i - 1) : job[j] # "queued"
    /\ Cardinality(Busy) < PingWorkers
    /\ \E state \in {"probe", "silent"} : Becomes(i, state)
    /\ UNCHANGED <<pc, load, pings, tested>>

\* is_up: up, the ping begins, without ICMP under --no-icmp, --interface or
\* --fwmark; down, the server is skipped.
Probe(i) ==
    /\ pc = "pinging"
    /\ job[i] = "probe"
    /\ \E state \in {IF opts.icmp THEN "icmp" ELSE "http", "silent"} : Becomes(i, state)
    /\ UNCHANGED <<pc, load, pings, tested>>

Answers(i) ==
    /\ Becomes(i, "answered")
    /\ \E ping \in 0..MaxPing : pings' = Append(pings, [server |-> i, ping |-> ping])

\* No address, no socket or no reply: ICMP falls back to HTTP.
PingIcmp(i) ==
    /\ pc = "pinging"
    /\ job[i] = "icmp"
    /\ Answers(i) \/ (Becomes(i, "http") /\ UNCHANGED pings)
    /\ UNCHANGED <<pc, load, tested>>

PingHttp(i) ==
    /\ pc = "pinging"
    /\ job[i] = "http"
    /\ Answers(i) \/ (Becomes(i, "silent") /\ UNCHANGED pings)
    /\ UNCHANGED <<pc, load, tested>>

-----------------------------------------------------------------------------
(* The choice. *)

\* Bug: a ping that measured nothing counts as the fastest.
PositiveOrZero == DOMAIN pings

Positive == {k \in DOMAIN pings : pings[k].ping > 0}

\* min_by keeps the first of equals; without a positive ping the first answer
\* is taken.
Best ==
    IF Positive = {} THEN 1
    ELSE CHOOSE k \in Positive :
            \A l \in Positive : \/ pings[k].ping < pings[l].ping
                                \/ pings[k].ping = pings[l].ping /\ k <= l

AllOver == \A i \in Jobs : job[i] \in Over

\* Bug: without a positive ping no server counts as available.
ChoosePositive ==
    /\ pc = "pinging"
    /\ AllOver
    /\ IF Positive = {}
       THEN pc' = "failed" /\ UNCHANGED tested
       ELSE pc' = "test" /\ tested' = <<servers[pings[Best].server]>>
    /\ UNCHANGED <<load, job, pings>>

Choose ==
    /\ pc = "pinging"
    /\ AllOver
    /\ IF pings = <<>>
       THEN pc' = "failed" /\ UNCHANGED tested
       ELSE pc' = "test" /\ tested' = <<servers[pings[Best].server]>>
    /\ UNCHANGED <<load, job, pings>>

-----------------------------------------------------------------------------
Job(i) == Launch(i) \/ Probe(i) \/ PingIcmp(i) \/ PingHttp(i)

Terminal == {"listed", "test", "failed"}
Terminating == pc \in Terminal /\ UNCHANGED vars

Next ==
    \/ Load
    \/ Loaded
    \/ \E i \in Jobs : Job(i)
    \/ Choose
    \/ Terminating

Spec == Init /\ [][Next]_vars

\* Every request returns, with or without an answer, as HttpClient shows for a
\* --timeout other than 0; icmp_rtts waits a bounded time for each reply.
Fairness == WF_vars(Load \/ Loaded \/ (\E i \in Jobs : Job(i)) \/ Choose)

FairSpec == Spec /\ Fairness

-----------------------------------------------------------------------------
ServerRecords == [id : Ids, scheme : Schemes]

\* Every variable has its type, and no more jobs run than there are workers.
TypeOK ==
    /\ opts \in Options
    /\ pc \in {"load", "loaded", "pinging"} \cup Terminal
    /\ retried \in BOOLEAN
    /\ servers \in Seq(ServerRecords)
    /\ job \in Seq({"queued"} \cup InFlight \cup Over)
    /\ pings \in Seq([server : Jobs, ping : 0..MaxPing])
    /\ tested \in Seq(ServerRecords)
    /\ pc = "pinging" => Cardinality(Busy) <= PingWorkers

\* Whichever source the list came from and however it was chosen, a server that
\* is tested is one the command line allows, with the scheme it forces.
TestedAsAsked ==
    \A k \in 1..Len(tested) :
        /\ tested[k].id \notin opts.exclude
        /\ opts.server # {} => opts.server \cap {Every, tested[k].id} # {}
        /\ tested[k].scheme # "none"
        /\ opts.force # "nothing" => tested[k].scheme = opts.force

\* When the choice has been made every server of the list was asked, and the
\* one tested is the fastest of those that answered: none was measured faster,
\* and a ping of zero, which measured nothing, never beats one that did.
FastestTested ==
    pc = "test" /\ opts.server = {} =>
        /\ \A i \in Jobs : job[i] \in Over
        /\ \E k \in DOMAIN pings :
              /\ tested = <<servers[pings[k].server]>>
              /\ \A l \in DOMAIN pings :
                    pings[l].ping > 0 => pings[k].ping \in 1..pings[l].ping

\* "No server is currently available" ends a run only when every server stayed
\* silent to the last way there is of asking it.
FatalOnlyIfSilent ==
    [][pc = "pinging" /\ pc' = "failed" => \A i \in Jobs : job[i] = "silent"]_vars

\* The run gets to test a server, to list them or to fail.
SelectionEnds == <>(pc \in Terminal)
=============================================================================
