----------------------------- MODULE StartupMC -----------------------------
(* At most one group of options departs from its defaults in a run, and only *)
(* the network's depend on the build.                                        *)
EXTENDS Startup

NoTelemetry == [share |-> FALSE, extra |-> FALSE, json |-> "absent",
                level |-> Unset, parts |-> {}]
Unread == [level |-> "", parts |-> {}]
TestMode == [clap |-> "parsed", version |-> FALSE, header |-> FALSE,
             delimiter |-> TRUE, concurrent |-> TRUE]
AnyNetwork == [ipv4 |-> FALSE, ipv6 |-> FALSE, noIcmp |-> FALSE, source |-> None,
               interface |-> FALSE, fwmark |-> FALSE, bundle |-> None, skip |-> FALSE]
Usual == [os |-> "linux", tls |-> "rustls"]

MCInit ==
    /\ \/ mode = TestMode /\ net = AnyNetwork /\ build = Usual
       \/ cli = NoTelemetry /\ file = Unread /\ net = AnyNetwork /\ build = Usual
       \/ cli = NoTelemetry /\ file = Unread /\ mode = TestMode
    /\ StartupInit

MCSpec == MCInit /\ [][StartupNext]_startupVars
=============================================================================
