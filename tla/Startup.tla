------------------------------ MODULE Startup ------------------------------
(***************************************************************************)
(* main and speedtest::run up to the test: which options end the run, what *)
(* the sockets are bound to and whose certificates are trusted; then the   *)
(* connections and echos the rest of the run may make with that.           *)
(***************************************************************************)
EXTENDS TelemetryOptions

None == "none"
Families == {"v4", "v6"}

\* The platform and the TLS backend the program is built for.
Builds == [os : {"linux", "apple", "other"}, tls : {"rustls", "native"}]

\* The options decided on first.  clap's verdict comes before all of them.
Modes == [clap : {"parsed", "help", "usage"}, version : BOOLEAN,
          header : BOOLEAN, delimiter : BOOLEAN, concurrent : BOOLEAN]

\* The options about the network.  A source is an address of a family, or a
\* name; a bundle may hold no certificate, a block that does not decode, or one
\* that decodes to no certificate, or end inside one.
Bundles == {None, "unreadable", "empty", "garbled", "damaged", "truncated", "whole"}
Networks == [ipv4 : BOOLEAN, ipv6 : BOOLEAN, noIcmp : BOOLEAN,
             source : Families \cup {None, "name"}, interface : BOOLEAN,
             fwmark : BOOLEAN, bundle : Bundles, skip : BOOLEAN]

\* Who signed the certificate of a peer; nobody, over plain HTTP.
Signers == {"system", "bundle", "stranger", None}
Sockets == [icmp : BOOLEAN, to : Families, from : Families \cup {None},
            interface : BOOLEAN, fwmark : BOOLEAN, signer : Signers]

VARIABLES
    build,          \* what the program was built for
    mode,           \* the command line: Modes
    net,            \* the command line: Networks
    at,             \* the step main or run is at
    source,         \* BindOptions::source, by its family
    icmp,           \* not no_icmp
    roots,          \* whose signature the TLS configuration accepts
    last,           \* history: the last socket that carried anything, if any
    exit            \* the exit status, -1 before it

telemetry == <<cli, file, pc, level, origin>>
asked == <<build, mode, net>>
settled == <<source, icmp, roots>>
startupVars == <<telemetry, asked, at, settled, last, exit>>

StartupInit ==
    /\ Init
    /\ build \in Builds /\ mode \in Modes /\ net \in Networks
    /\ at = "parse"
    /\ source = None /\ icmp = TRUE /\ roots = {}
    /\ last = {}
    /\ exit = -1

GoTo(step) == at' = step /\ UNCHANGED exit
Exit(status) == at' = "exited" /\ exit' = status

\* A step that tells bad options from good ones and does nothing else.
Check(step, bad, status, next) ==
    /\ at = step
    /\ IF bad THEN Exit(status) ELSE GoTo(next)
    /\ UNCHANGED <<telemetry, asked, settled, last>>

-----------------------------------------------------------------------------
(* The options, in the order run looks at them. *)

\* A usage error exits 1; --help is an error of clap's that does not.
Parse == Check("parse", mode.clap # "parsed", IF mode.clap = "help" THEN 0 ELSE 1, "version")
Version == Check("version", mode.version, 0, "conflict")
Conflict == Check("conflict", net.source # None /\ net.interface, 1, "delimiter")
\* csv_delimiter_byte: one ASCII byte other than a quote
Delimiter == Check("delimiter", ~mode.delimiter, 1, "header")
Header == Check("header", mode.header, 0, "telemetry")

ResolveTelemetry ==
    /\ at = "telemetry"
    /\ \/ Asked \/ ReadFile \/ KeepLevel \/ FlagLevel \/ ApplyDefaults
    /\ IF pc' = "failed" THEN Exit(1)
       ELSE GoTo(IF pc' = "resolved" THEN "concurrent" ELSE "telemetry")
    /\ UNCHANGED <<asked, settled, last>>

Concurrent == Check("concurrent", ~mode.concurrent, 1, "bundle")
ReadBundle == Check("bundle", net.bundle = "unreadable", 1, "source")

\* Of --ipv4 and --ipv6 the first wins.
Accepted ==
    IF net.ipv4 THEN {"v4"} ELSE IF net.ipv6 THEN {"v6"} ELSE Families

\* resolve: a name's addresses, those of the family only, or an error.
Resolved(f) == f \in Accepted

ParseSource ==
    /\ at = "source"
    /\ \/ /\ net.source = None
          /\ UNCHANGED source
          /\ GoTo("validate")
       \/ \E f \in Families :
             /\ net.source \in {f, "name"}
             /\ Resolved(f)
             /\ source' = f
             /\ GoTo("validate")
       \/ /\ net.source = "name" \/ net.source \in Families \ Accepted
          /\ UNCHANGED source
          /\ Exit(1)
    /\ UNCHANGED <<telemetry, asked, icmp, roots, last>>

\* BindOptions::validate: only Linux and its kin can mark a socket, and they
\* and Apple's systems can bind one to an interface.
CanBind ==
    /\ net.fwmark => build.os = "linux"
    /\ net.interface => build.os \in {"linux", "apple"}

\* Bug: only --interface turns the echos off.
ValidateInterface ==
    /\ at = "validate"
    /\ IF CanBind THEN GoTo("client") ELSE Exit(1)
    /\ icmp' = (~net.noIcmp /\ ~net.interface)
    /\ UNCHANGED <<telemetry, asked, source, roots, last>>

\* Echos can be bound to neither interface nor mark, so they are given up.
Validate ==
    /\ at = "validate"
    /\ IF CanBind THEN GoTo("client") ELSE Exit(1)
    /\ icmp' = (~net.noIcmp /\ ~net.interface /\ ~net.fwmark)
    /\ UNCHANGED <<telemetry, asked, source, roots, last>>

-----------------------------------------------------------------------------
(* HttpClient::new, with either backend.  Accepting every certificate is     *)
(* trusting every signer.                                                    *)

Everyone == Signers \ {None}

\* What read_ca_bundle takes: some blocks, all of which decode and end.
Decodes == net.bundle \in {"whole", "damaged"}

\* Bug: with --skip-cert-verify nobody looks at the bundle.
RustlsRootsSkippingBundle ==
    /\ build.tls = "rustls"
    /\ \/ /\ net.skip
          /\ roots' = Everyone
          /\ GoTo("run")
       \/ /\ ~net.skip
          /\ net.bundle \in {"whole", None}
          /\ roots' = {IF net.bundle = None THEN "system" ELSE "bundle"}
          /\ GoTo("run")
       \/ /\ ~net.skip
          /\ UNCHANGED roots
          /\ Exit(1)

\* With --skip-cert-verify a bundle is decoded, but only without it added as
\* certificates to the store.  It may be gone by now, and the system's store
\* may be empty.
RustlsRoots ==
    /\ build.tls = "rustls"
    /\ \/ /\ net.skip
          /\ net.bundle = None \/ Decodes
          /\ roots' = Everyone
          /\ GoTo("run")
       \/ /\ ~net.skip
          /\ net.bundle \in {"whole", None}
          /\ roots' = {IF net.bundle = None THEN "system" ELSE "bundle"}
          /\ GoTo("run")
       \/ /\ net.bundle # None \/ ~net.skip
          /\ UNCHANGED roots
          /\ Exit(1)

\* split_pem drops a block that does not end; what precedes it counts.
SplitPem == IF net.bundle = "truncated" THEN "whole" ELSE net.bundle

\* Bug: the bundle's certificates join those built in.
NativeRootsAdded ==
    /\ build.tls = "native"
    /\ \/ /\ SplitPem \in {"whole", None}
          /\ roots' = IF net.skip THEN Everyone
                      ELSE {"system"} \cup (IF SplitPem = None THEN {} ELSE {"bundle"})
          /\ GoTo("run")
       \/ UNCHANGED roots /\ Exit(1)

\* OpenSSL itself may fail to start.
NativeRoots ==
    /\ build.tls = "native"
    /\ \/ /\ SplitPem \in {"whole", None}
          /\ roots' = IF net.skip THEN Everyone
                      ELSE {IF SplitPem = None THEN "system" ELSE "bundle"}
          /\ GoTo("run")
       \/ UNCHANGED roots /\ Exit(1)

NewClient ==
    /\ at = "client"
    /\ RustlsRoots \/ NativeRoots
    /\ UNCHANGED <<telemetry, asked, source, icmp, last>>

-----------------------------------------------------------------------------
(* What the rest of the run sends, over sockets that open. *)

\* apply_socket_options sets every option or fails, for want of a privilege
\* or where the platform has no such option; connect_one has no use for a
\* source address of the other family.
Open(to) ==
    /\ CanBind
    /\ source \in {None, to}

\* BoundConnector::call, and the handshake over what it opened: a TLS stream
\* carries something once the peer is trusted.
Connect ==
    /\ at = "run"
    /\ \E to \in Families, signer \in Signers :
          /\ Resolved(to) /\ Open(to)
          /\ signer \in roots \cup {None}
          /\ last' = {[icmp |-> FALSE, to |-> to, from |-> source,
                       interface |-> net.interface, fwmark |-> net.fwmark,
                       signer |-> signer]}
    /\ UNCHANGED <<telemetry, asked, at, settled, exit>>

\* icmp_rtts binds to a source of the target's family, to an interface when
\* it is handed one (the selection hands none), and never sets a mark.
Echo ==
    /\ at = "run"
    /\ icmp
    /\ \E to \in Families, bound \in {net.interface, FALSE} :
          /\ Resolved(to)
          /\ last' = {[icmp |-> TRUE, to |-> to,
                       from |-> IF source = to THEN source ELSE None,
                       interface |-> bound, fwmark |-> FALSE, signer |-> None]}
    /\ UNCHANGED <<telemetry, asked, at, settled, exit>>

\* The list, the selection and the session end one way or the other.
Finish ==
    /\ at = "run"
    /\ \E status \in {0, 1} : Exit(status)
    /\ UNCHANGED <<telemetry, asked, settled, last>>

Exited == at = "exited" /\ UNCHANGED startupVars

StartupNext ==
    \/ Parse \/ Version \/ Conflict \/ Delimiter \/ Header
    \/ ResolveTelemetry \/ Concurrent \/ ReadBundle \/ ParseSource \/ Validate
    \/ NewClient \/ Connect \/ Echo \/ Finish \/ Exited

StartupSpec == StartupInit /\ [][StartupNext]_startupVars

-----------------------------------------------------------------------------
Steps == {"parse", "version", "conflict", "delimiter", "header", "telemetry",
          "concurrent", "bundle", "source", "validate", "client", "run", "exited"}

\* Every variable has its type.
StartupTypeOK ==
    /\ TypeOK
    /\ build \in Builds /\ mode \in Modes /\ net \in Networks
    /\ at \in Steps
    /\ source \in Families \cup {None}
    /\ icmp \in BOOLEAN
    /\ roots \subseteq Everyone
    /\ last \subseteq Sockets
    /\ exit \in {-1, 0, 1}

\* Nothing leaves by another way than the one asked for: every socket is bound
\* to the interface, mark, family and source address of the command line, on
\* every platform.  One exception is the code's own (icmp_rtts): an echo to
\* the family the source address is not of has no source.
BoundAsAsked ==
    \A socket \in last :
        /\ socket.interface = net.interface
        /\ socket.fwmark = net.fwmark
        /\ net.ipv4 => socket.to = "v4"
        /\ net.ipv6 /\ ~net.ipv4 => socket.to = "v6"
        /\ net.source # None => socket.from = socket.to \/ socket.icmp
        /\ socket.icmp => ~net.noIcmp
        /\ socket.icmp /\ net.source = socket.to => socket.from = net.source
        /\ net.source = None => socket.from = None

\* With either backend a TLS peer is signed for by the bundle that was named,
\* or by the system's store if none was, unless verification was turned off.
TrustAsAsked ==
    ~net.skip => \A socket \in last :
        socket.signer \in {None, IF net.bundle = None THEN "system" ELSE "bundle"}

\* An option the run cannot honour ends it with status 1 before anything is
\* sent, wherever in the order it is looked at: a bundle that cannot be decoded
\* also when --skip-cert-verify makes it useless, a binding the platform lacks
\* instead of an unbound socket.  A block that is no certificate goes unnoticed
\* only by rustls with --skip-cert-verify, one that does not end only by
\* native-tls.
RefusedUnconnected ==
    last # {} \/ (exit = 0 /\ ~mode.version /\ ~mode.header /\ mode.clap # "help") =>
        /\ mode.clap = "parsed" /\ mode.delimiter /\ mode.concurrent
        /\ ~(net.source # None /\ net.interface)
        /\ net.source \in Families => net.source \in Accepted
        /\ net.bundle \notin {"unreadable", "empty", "garbled"}
        /\ net.bundle = "damaged" => net.skip /\ build.tls = "rustls"
        /\ net.bundle = "truncated" => build.tls = "native"
        /\ net.fwmark => build.os = "linux"
        /\ net.interface => build.os # "other"
        /\ cli.json # "unreadable" /\ cli.level # "unsupported"
=============================================================================
