----------------------------- MODULE ServerList -----------------------------
(***************************************************************************)
(* speedtest::load_servers: the list of servers to test, from a local file *)
(* or from a URL with one retry at the site's discovery endpoint, and what *)
(* preprocess_servers makes of it.  A server is its id and the scheme its  *)
(* address carries.                                                        *)
(***************************************************************************)
EXTENDS Integers, Sequences, SequencesExt

CONSTANTS
    Ids,            \* server ids, and the ids --server and --exclude name
    Lists           \* the server lists a source may hold

Every == -1         \* the --server value that asks for every server
Schemes == {"none", "http", "https"}

ASSUME ServerListAssumption ==
    /\ Ids \subseteq Nat
    /\ Lists \subseteq Seq([id : Ids, scheme : Schemes])

\* clap rejects --server together with --exclude.
Options ==
    {o \in [local : BOOLEAN, list : BOOLEAN, icmp : BOOLEAN, exclude : SUBSET Ids,
            server : SUBSET (Ids \cup {Every}), force : {"https", "http", "nothing"}] :
        o.exclude = {} \/ o.server = {}}

VARIABLES
    opts,           \* the command line
    pc,             \* where speedtest::run is
    retried,        \* the discovery endpoint is being asked
    servers         \* the list handed on

load == <<opts, retried, servers>>

LoadInit ==
    /\ opts \in Options
    /\ pc = "load"
    /\ retried = FALSE
    /\ servers = <<>>

-----------------------------------------------------------------------------
(* preprocess_servers *)

\* Bug: a scheme the list gives is kept whatever was forced.
SchemeKept(scheme) ==
    IF scheme # "none" THEN scheme
    ELSE IF opts.force = "nothing" THEN "http" ELSE opts.force

\* apply_scheme
Scheme(scheme) ==
    IF opts.force # "nothing" THEN opts.force
    ELSE IF scheme = "none" THEN "http"
    ELSE scheme

\* --list shows every server, whatever --server and --exclude say.
Kept(id) ==
    \/ opts.list
    \/ /\ id \notin opts.exclude
       /\ opts.server = {} \/ Every \in opts.server \/ id \in opts.server

Processed(raw) ==
    LET kept(s) == IF Kept(s.id) THEN <<[s EXCEPT !.scheme = Scheme(@)]>> ELSE <<>>
    IN FlattenSeq([i \in 1..Len(raw) |-> kept(raw[i])])

\* "specified server(s) not found"; any other empty list is handed on.
NotFound(raw) ==
    /\ ~opts.list
    /\ opts.server # {} /\ Every \notin opts.server
    /\ Processed(raw) = <<>>

-----------------------------------------------------------------------------
Accept(raw) ==
    /\ ~NotFound(raw)
    /\ servers' = Processed(raw)
    /\ pc' = "loaded"

\* The source fails, holds what is not a list, or has no server asked for.
LoadFails ==
    /\ pc' = "failed"
    /\ UNCHANGED servers

ReadLocal ==
    /\ pc = "load"
    /\ opts.local
    /\ (\E raw \in Lists : Accept(raw)) \/ LoadFails
    /\ UNCHANGED <<opts, retried>>

\* fetch_servers at the list's URL; whatever goes wrong leads to the retry.
Fetch ==
    /\ pc = "load"
    /\ ~opts.local /\ ~retried
    /\ \/ \E raw \in Lists : Accept(raw) /\ UNCHANGED retried
       \/ retried' = TRUE /\ UNCHANGED <<pc, servers>>
    /\ UNCHANGED opts

\* fetch_servers at /.well-known/librespeed of the same origin
FetchDiscovery ==
    /\ pc = "load"
    /\ ~opts.local /\ retried
    /\ (\E raw \in Lists : Accept(raw)) \/ LoadFails
    /\ UNCHANGED <<opts, retried>>
=============================================================================
