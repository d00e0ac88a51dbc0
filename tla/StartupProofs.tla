--------------------------- MODULE StartupProofs ---------------------------
(***************************************************************************)
(* Theorems about Startup, for every command line, settings file, platform *)
(* and TLS backend.                                                        *)
(***************************************************************************)
EXTENDS Startup, TLAPS

-----------------------------------------------------------------------------
(* Types. *)

\* Resolving the telemetry options keeps their types.
LEMMA TelemetryTypes == TypeOK /\ [Next]_vars => TypeOK'
<1> SUFFICES ASSUME TypeOK, [Next]_vars PROVE TypeOK'
  OBVIOUS
<1> USE DEF TypeOK
<1>1. CASE Asked
  BY <1>1 DEF Asked
<1>2. CASE ReadFile
  BY <1>2 DEF ReadFile, Files
<1>3. CASE KeepLevel
  BY <1>3 DEF KeepLevel, Levels
<1>4. CASE FlagLevel
  BY <1>4 DEF FlagLevel
<1>5. CASE ApplyDefaults
  BY <1>5 DEF ApplyDefaults
<1>6. CASE Terminating \/ UNCHANGED vars
  BY <1>6 DEF Terminating, vars
<1>7. QED
  BY <1>1, <1>2, <1>3, <1>4, <1>5, <1>6 DEF Next

\* What a step of the startup does to the telemetry settings is a step of
\* resolve_telemetry, or nothing.
LEMMA TelemetrySteps == [StartupNext]_startupVars => [Next]_vars
BY DEF StartupNext, startupVars, telemetry, vars, Next, Check, Parse, Version, Conflict,
       Delimiter, Header, ResolveTelemetry, Concurrent, ReadBundle, ParseSource,
       Validate, NewClient, Connect, Echo, Finish, Exited

\* Accepted names families.
LEMMA AcceptedFamilies == Accepted \subseteq Families
BY DEF Accepted, Families

LEMMA StartupTypes == StartupTypeOK /\ [StartupNext]_startupVars => StartupTypeOK'
<1> SUFFICES ASSUME StartupTypeOK, [StartupNext]_startupVars PROVE StartupTypeOK'
  OBVIOUS
<1>1. TypeOK'
  BY TelemetryTypes, TelemetrySteps DEF StartupTypeOK
<1> USE <1>1 DEF StartupTypeOK, GoTo, Exit, settled, asked, Steps
<1>2. CASE Parse \/ Version \/ Conflict \/ Delimiter \/ Header \/ Concurrent \/ ReadBundle
  BY <1>2 DEF Check, Parse, Version, Conflict, Delimiter, Header, Concurrent, ReadBundle
<1>3. CASE ResolveTelemetry
  BY <1>3 DEF ResolveTelemetry
<1>4. CASE ParseSource
  BY <1>4 DEF ParseSource
<1>5. CASE Validate
  BY <1>5 DEF Validate
<1>6. CASE NewClient
  BY <1>6 DEF NewClient, RustlsRoots, NativeRoots, Everyone, Signers, None
<1>7. CASE Connect
  <2>1. PICK to \in Families, signer \in Signers :
            last' = {[icmp |-> FALSE, to |-> to, from |-> source,
                      interface |-> net.interface, fwmark |-> net.fwmark, signer |-> signer]}
    BY <1>7 DEF Connect
  <2>2. net.interface \in BOOLEAN /\ net.fwmark \in BOOLEAN
    BY DEF Networks
  <2>3. last' \subseteq Sockets
    BY <2>1, <2>2 DEF Sockets
  <2>4. QED
    BY <1>7, <2>3 DEF Connect
<1>8. CASE Echo
  <2>1. PICK to \in Families, bound \in {net.interface, FALSE} :
            last' = {[icmp |-> TRUE, to |-> to,
                      from |-> IF source = to THEN source ELSE None,
                      interface |-> bound, fwmark |-> FALSE, signer |-> None]}
    BY <1>8 DEF Echo
  <2>2. bound \in BOOLEAN
    BY <2>1 DEF Networks
  <2>3. last' \subseteq Sockets
    BY <2>1, <2>2 DEF Sockets, Signers
  <2>4. QED
    BY <1>8, <2>3 DEF Echo
<1>9. CASE Finish
  BY <1>9 DEF Finish
<1>10. CASE Exited \/ UNCHANGED startupVars
  BY <1>10 DEF Exited, startupVars
<1>11. QED
  BY <1>2, <1>3, <1>4, <1>5, <1>6, <1>7, <1>8, <1>9, <1>10 DEF StartupNext

LEMMA StartupTypesInit == StartupInit => StartupTypeOK
BY DEF StartupInit, StartupTypeOK, Init, TypeOK, Steps, Flags, Files

\* Every variable has its type, for every command line and file.
THEOREM TypeCorrect == StartupSpec => []StartupTypeOK
BY StartupTypesInit, StartupTypes, PTL DEF StartupSpec

-----------------------------------------------------------------------------
(* Telemetry. *)

Requested == cli.share \/ AnyTelemetryOption

\* The level before the flags and the defaults are looked at.
FileLevel == IF cli.json = "read" THEN file.level ELSE ""

\* The level when all has been looked at.
FinalLevel ==
    IF cli.level # Unset THEN cli.level
    ELSE IF FileLevel = "" THEN "basic" ELSE FileLevel

\* The same of a part of the address.
FileOrigin(p) == IF cli.json = "read" /\ p \in file.parts THEN "file" ELSE Unset

FinalOrigin(p) ==
    IF p \in cli.parts THEN "flag"
    ELSE IF FileOrigin(p) = Unset THEN "default" ELSE FileOrigin(p)

\* The settings a step of resolve_telemetry finds, and who asked for them.
LevelsHold ==
    /\ pc \in {"asked", "file"} => level = "" /\ \A p \in Parts : origin[p] = Unset
    /\ pc \in {"file", "level", "parts"} => Requested
    /\ pc \in {"level", "parts"} => \A p \in Parts : origin[p] = FileOrigin(p)
    /\ pc = "level" => level = FileLevel
    /\ pc \in {"level", "parts", "resolved"} => cli.json # "unreadable"
    /\ pc \in {"parts", "resolved"} => cli.level # "unsupported"
    /\ pc = "parts" => level = FinalLevel
    /\ pc = "resolved" =>
          \/ ~Requested /\ level = ""
          \/ /\ Requested /\ level = FinalLevel
             /\ \A p \in Parts : origin[p] = FinalOrigin(p)

LEMMA LevelsInit == Init => LevelsHold
BY DEF Init, LevelsHold

LEMMA LevelsStep == TypeOK /\ LevelsHold /\ [Next]_vars => LevelsHold'
<1> SUFFICES ASSUME TypeOK, LevelsHold, [Next]_vars PROVE LevelsHold'
  OBVIOUS
<1> USE DEF LevelsHold, Requested, AnyTelemetryOption, FileLevel, FinalLevel, FileOrigin,
            FinalOrigin
<1>1. CASE Asked
  BY <1>1 DEF Asked, Unset
<1>2. CASE ReadFile
  BY <1>2 DEF ReadFile, TypeOK, Flags
<1>3. CASE KeepLevel
  BY <1>3 DEF KeepLevel, Unset
<1>4. CASE FlagLevel
  BY <1>4 DEF FlagLevel, Levels
<1>5. CASE ApplyDefaults
  BY <1>5 DEF ApplyDefaults, TypeOK, Unset
<1>6. CASE Terminating \/ UNCHANGED vars
  BY <1>6 DEF Terminating, vars
<1>7. QED
  BY <1>1, <1>2, <1>3, <1>4, <1>5, <1>6 DEF Next

\* What the level means to a run that got past its options.
LEMMA WhatSends == Sends <=> pc = "resolved" /\ level \in Sending
<1>1. level \in Sending => GetLevel > 0
  BY DEF GetLevel, Sending
<1>2. level \notin Sending => GetLevel = 0
  BY DEF GetLevel, Sending
<1>3. QED
  BY <1>1, <1>2 DEF Sends

LEMMA LevelsSuffice == TypeOK /\ LevelsHold => SendsAsAsked
<1> SUFFICES ASSUME TypeOK, LevelsHold, pc = "resolved"
             PROVE  /\ ~Requests /\ ~cli.extra => ~Sends
                    /\ Requests /\ Named \subseteq Sending => Sends
                    /\ Named # {} /\ Named \cap Sending = {} => ~Sends
                    /\ Sends =>
                          /\ level \in (IF Named = {} THEN {"basic"} ELSE Named)
                          /\ \A p \in Parts :
                                origin[p] \in (IF Givers(p) = {} THEN {"default"} ELSE Givers(p))
  BY DEF SendsAsAsked
<1>1. Sends <=> level \in Sending
  BY WhatSends
<1>2. Requests <=> Requested
  BY DEF Requests, Requested, AnyTelemetryOption
<1>3. "" \notin Sending /\ "basic" \in Sending
  BY DEF Sending
<1>4. CASE ~Requested
  BY <1>1, <1>2, <1>3, <1>4 DEF LevelsHold
<1>5. CASE Requested
  <2>1. level = FinalLevel /\ \A p \in Parts : origin[p] = FinalOrigin(p)
    BY <1>5 DEF LevelsHold
  <2>2. level \in (IF Named = {} THEN {"basic"} ELSE Named)
    <3>1. CASE cli.level # Unset
      BY <2>1, <3>1 DEF FinalLevel, Named
    <3>2. CASE cli.level = Unset /\ FileLevel # ""
      BY <2>1, <3>2 DEF FinalLevel, FileLevel, Named
    <3>3. CASE cli.level = Unset /\ FileLevel = ""
      <4>1. Named = {}
        BY <3>3 DEF FileLevel, Named
      <4>2. QED
        BY <2>1, <3>3, <4>1 DEF FinalLevel
    <3>4. QED
      BY <3>1, <3>2, <3>3
  <2>3. \A p \in Parts :
           FinalOrigin(p) \in (IF Givers(p) = {} THEN {"default"} ELSE Givers(p))
    BY DEF FinalOrigin, FileOrigin, Givers, Unset
  <2>4. QED
    BY <1>1, <1>2, <1>3, <1>5, <2>1, <2>2, <2>3
<1>6. QED
  BY <1>4, <1>5

\* Nothing is posted that was not asked for or that all who had a say disabled,
\* and whatever was asked for is posted, at a level and to an address that was
\* given: for every command line and whatever the settings file holds.
THEOREM TelemetryAsAsked == StartupSpec => []SendsAsAsked
<1>1. StartupInit => TypeOK /\ LevelsHold
  BY StartupTypesInit, LevelsInit DEF StartupTypeOK, StartupInit
<1>2. TypeOK /\ LevelsHold /\ [StartupNext]_startupVars => TypeOK' /\ LevelsHold'
  BY TelemetrySteps, TelemetryTypes, LevelsStep
<1>3. QED
  BY <1>1, <1>2, LevelsSuffice, PTL DEF StartupSpec

-----------------------------------------------------------------------------
(* Binding, trust and refusal. *)

\* The steps from one of them on, the way out left aside.
FromClient == {"client", "run"}
FromValidate == {"validate"} \cup FromClient
FromSource == {"source"} \cup FromValidate
FromBundle == {"bundle"} \cup FromSource
FromConcurrent == {"concurrent"} \cup FromBundle
FromTelemetry == {"telemetry"} \cup FromConcurrent
FromHeader == {"header"} \cup FromTelemetry
FromDelimiter == {"delimiter"} \cup FromHeader
FromConflict == {"conflict"} \cup FromDelimiter
FromVersion == {"version"} \cup FromConflict

\* No step is passed with an option it cannot honour, and what a step settles
\* stays settled.
ChecksHold ==
    /\ at # "exited" => exit = -1
    /\ at \in FromVersion => mode.clap = "parsed"
    /\ at \in FromDelimiter => ~(net.source # None /\ net.interface)
    /\ at \in FromHeader => mode.delimiter
    /\ at \in FromConcurrent => pc = "resolved"
    /\ at \in FromBundle => mode.concurrent
    /\ at \in FromSource => net.bundle # "unreadable"
    /\ at \in Steps \ (FromValidate \cup {"exited"}) => source = None
    /\ at \in FromValidate =>
          /\ net.source = None => source = None
          /\ net.source # None => source \in Accepted
          /\ net.source \in Families => source = net.source
    /\ at \in FromClient =>
          CanBind /\ icmp = (~net.noIcmp /\ ~net.interface /\ ~net.fwmark)
    /\ at = "run" =>
          /\ net.bundle \notin {"empty", "garbled"}
          /\ net.bundle = "damaged" => net.skip /\ build.tls = "rustls"
          /\ net.bundle = "truncated" => build.tls = "native"
          /\ ~net.skip => roots = {IF net.bundle = None THEN "system" ELSE "bundle"}

\* A socket that was opened is one the options allow, whatever became of the
\* run since.
SocketsHold ==
    /\ last # {} => at \in {"run", "exited"}
    /\ BoundAsAsked
    /\ TrustAsAsked
    /\ RefusedUnconnected

StartupInv == StartupTypeOK /\ LevelsHold /\ ChecksHold /\ SocketsHold

LEMMA ChecksStep == StartupTypeOK /\ ChecksHold /\ [StartupNext]_startupVars => ChecksHold'
<1> SUFFICES ASSUME StartupTypeOK, ChecksHold, [StartupNext]_startupVars PROVE ChecksHold'
  OBVIOUS
<1> USE DEF ChecksHold, Steps, GoTo, Exit, settled, asked, telemetry, CanBind, Accepted,
            FromVersion, FromConflict, FromDelimiter, FromHeader, FromTelemetry,
            FromConcurrent, FromBundle, FromSource, FromValidate, FromClient
<1>1. CASE Parse \/ Version \/ Conflict \/ Delimiter \/ Header \/ Concurrent \/ ReadBundle
  BY <1>1 DEF Check, Parse, Version, Conflict, Delimiter, Header, Concurrent, ReadBundle
<1>2. CASE ResolveTelemetry
  BY <1>2 DEF ResolveTelemetry
<1>3. CASE ParseSource
  BY <1>3 DEF ParseSource, Resolved, StartupTypeOK, Networks, Families, None
<1>4. CASE Validate
  BY <1>4 DEF Validate
<1>5. CASE NewClient
  <2>1. CASE RustlsRoots
    BY <1>5, <2>1 DEF NewClient, RustlsRoots, Decodes, None
  <2>2. CASE NativeRoots
    BY <1>5, <2>2 DEF NewClient, NativeRoots, SplitPem, None
  <2>3. QED
    BY <1>5, <2>1, <2>2 DEF NewClient
<1>6. CASE Connect
  BY <1>6 DEF Connect
<1>7. CASE Echo
  BY <1>7 DEF Echo
<1>8. CASE Finish
  BY <1>8 DEF Finish
<1>9. CASE Exited \/ UNCHANGED startupVars
  BY <1>9 DEF Exited, startupVars
<1>10. QED
  BY <1>1, <1>2, <1>3, <1>4, <1>5, <1>6, <1>7, <1>8, <1>9 DEF StartupNext

\* A run that gets to its test was asked for nothing it cannot do.
LEMMA RunIsGood ==
    ASSUME StartupTypeOK, LevelsHold, ChecksHold, at = "run"
    PROVE  /\ mode.clap = "parsed" /\ mode.delimiter /\ mode.concurrent
           /\ ~(net.source # None /\ net.interface)
           /\ net.source \in Families => net.source \in Accepted
           /\ net.bundle \notin {"unreadable", "empty", "garbled"}
           /\ net.bundle = "damaged" => net.skip /\ build.tls = "rustls"
           /\ net.bundle = "truncated" => build.tls = "native"
           /\ net.fwmark => build.os = "linux"
           /\ net.interface => build.os # "other"
           /\ cli.json # "unreadable" /\ cli.level # "unsupported"
BY DEF LevelsHold, ChecksHold, CanBind, FromVersion, FromConflict, FromDelimiter, FromHeader,
       FromTelemetry, FromConcurrent, FromBundle, FromSource, FromValidate, FromClient,
       Families, None

\* The first of --ipv4 and --ipv6 decides.
LEMMA AcceptedFamily ==
    \A f \in Accepted : /\ net.ipv4 => f = "v4"
                        /\ net.ipv6 /\ ~net.ipv4 => f = "v6"
BY DEF Accepted

LEMMA SocketsStep ==
    ASSUME StartupTypeOK, LevelsHold, ChecksHold, SocketsHold, [StartupNext]_startupVars
    PROVE  SocketsHold'
<1> USE DEF SocketsHold, GoTo, Exit, settled, asked, telemetry
<1>1. CASE Parse \/ Version \/ Conflict \/ Delimiter \/ Header \/ Concurrent \/ ReadBundle
  <2>1. last = {} /\ last' = {} /\ exit = -1
    BY <1>1 DEF ChecksHold, Check, Parse, Version, Conflict, Delimiter, Header,
                Concurrent, ReadBundle
  <2>2. exit' = 0 => mode'.version \/ mode'.header \/ mode'.clap = "help"
    BY <1>1, <2>1 DEF Check, Parse, Version, Conflict, Delimiter, Header,
                      Concurrent, ReadBundle
  <2>3. QED
    BY <2>1, <2>2 DEF BoundAsAsked, TrustAsAsked, RefusedUnconnected
<1>2. CASE ResolveTelemetry \/ ParseSource \/ Validate \/ NewClient
  <2>1. last = {} /\ last' = {} /\ exit' # 0
    BY <1>2 DEF ChecksHold, ResolveTelemetry, ParseSource, Validate, NewClient,
                RustlsRoots, NativeRoots
  <2>2. QED
    BY <2>1 DEF BoundAsAsked, TrustAsAsked, RefusedUnconnected
<1>3. CASE Connect
  <2>1. PICK to \in Families, signer \in Signers :
            /\ Resolved(to) /\ Open(to)
            /\ signer \in roots \cup {None}
            /\ last' = {[icmp |-> FALSE, to |-> to, from |-> source,
                         interface |-> net.interface, fwmark |-> net.fwmark,
                         signer |-> signer]}
    BY <1>3 DEF Connect
  <2>2. at = "run" /\ at' = "run" /\ UNCHANGED <<cli, file, pc, level, origin, build,
                                                mode, net, source, icmp, roots, exit>>
    BY <1>3 DEF Connect
  <2>3. BoundAsAsked'
    BY <2>1, <2>2 DEF BoundAsAsked, Resolved, Accepted, Open, ChecksHold, Families, None,
                      FromValidate, FromClient, StartupTypeOK, Networks
  <2>4. TrustAsAsked'
    BY <2>1, <2>2 DEF TrustAsAsked, ChecksHold
  <2>5. RefusedUnconnected'
    BY <2>2, RunIsGood DEF RefusedUnconnected, Accepted
  <2>6. QED
    BY <2>2, <2>3, <2>4, <2>5
<1>4. CASE Echo
  <2>1. PICK to \in Families, bound \in {net.interface, FALSE} :
            /\ Resolved(to)
            /\ last' = {[icmp |-> TRUE, to |-> to,
                         from |-> IF source = to THEN source ELSE None,
                         interface |-> bound, fwmark |-> FALSE, signer |-> None]}
    BY <1>4 DEF Echo
  <2>2. at = "run" /\ at' = "run" /\ icmp
        /\ UNCHANGED <<cli, file, pc, level, origin, build, mode, net, source, icmp,
                       roots, exit>>
    BY <1>4 DEF Echo
  <2>3. ~net.noIcmp /\ net.interface = FALSE /\ net.fwmark = FALSE
    BY <2>2 DEF ChecksHold, FromClient, StartupTypeOK, Networks
  <2>4. /\ to \in Accepted
        /\ net.source = None => source = None
        /\ net.source \in Families => source = net.source
    BY <2>1, <2>2 DEF Resolved, ChecksHold, FromValidate, FromClient
  <2>5. to \in Families /\ bound = FALSE
    BY <2>1, <2>3
  <2>6. BoundAsAsked'
    <3>1. SUFFICES ASSUME NEW socket \in last'
                   PROVE  /\ socket.interface = net.interface
                          /\ socket.fwmark = net.fwmark
                          /\ net.ipv4 => socket.to = "v4"
                          /\ net.ipv6 /\ ~net.ipv4 => socket.to = "v6"
                          /\ net.source # None => socket.from = socket.to \/ socket.icmp
                          /\ socket.icmp => ~net.noIcmp
                          /\ socket.icmp /\ net.source = socket.to
                                => socket.from = net.source
                          /\ net.source = None => socket.from = None
      BY <2>2 DEF BoundAsAsked
    <3>2. /\ socket.icmp = TRUE /\ socket.to = to
          /\ socket.from = IF source = to THEN source ELSE None
          /\ socket.interface = FALSE /\ socket.fwmark = FALSE
      BY <2>1, <2>5
    <3>3. /\ net.ipv4 => to = "v4"
          /\ net.ipv6 /\ ~net.ipv4 => to = "v6"
      BY <2>4, AcceptedFamily
    <3>4. net.source = to => source = net.source
      BY <2>4
    <3>5. QED
      BY <2>3, <2>4, <3>2, <3>3, <3>4
  <2>7. TrustAsAsked'
    BY <2>1, <2>2 DEF TrustAsAsked
  <2>8. RefusedUnconnected'
    BY <2>2, RunIsGood DEF RefusedUnconnected, Accepted
  <2>9. QED
    BY <2>2, <2>6, <2>7, <2>8
<1>5. CASE Finish
  <2>1. at = "run" /\ at' = "exited"
        /\ UNCHANGED <<cli, file, pc, level, origin, build, mode, net, source, icmp,
                       roots, last>>
    BY <1>5 DEF Finish
  <2>2. QED
    BY <2>1, RunIsGood DEF BoundAsAsked, TrustAsAsked, RefusedUnconnected, Accepted
<1>6. CASE Exited \/ UNCHANGED startupVars
  BY <1>6 DEF Exited, startupVars, BoundAsAsked, TrustAsAsked, RefusedUnconnected, Accepted
<1>7. QED
  BY <1>1, <1>2, <1>3, <1>4, <1>5, <1>6 DEF StartupNext

LEMMA StartupInvariant == StartupSpec => []StartupInv
<1>1. StartupInit => StartupInv
  <2>1. ASSUME StartupInit PROVE ChecksHold /\ SocketsHold
    BY <2>1 DEF StartupInit, ChecksHold, SocketsHold, BoundAsAsked, TrustAsAsked,
        RefusedUnconnected, FromVersion, FromConflict, FromDelimiter, FromHeader,
        FromTelemetry, FromConcurrent, FromBundle, FromSource, FromValidate, FromClient
  <2>2. QED
    BY <2>1, StartupTypesInit, LevelsInit DEF StartupInv, StartupInit
<1>2. StartupInv /\ [StartupNext]_startupVars => StartupInv'
  BY StartupTypes, TelemetrySteps, LevelsStep, ChecksStep, SocketsStep
     DEF StartupInv, StartupTypeOK
<1>3. QED
  BY <1>1, <1>2, PTL DEF StartupSpec

\* Every socket of every run is bound as the command line asks, on every
\* platform.
THEOREM Bound == StartupSpec => []BoundAsAsked
<1>1. StartupInv => BoundAsAsked
  BY DEF StartupInv, SocketsHold
<1>2. QED
  BY <1>1, StartupInvariant, PTL

\* With either backend no peer is trusted but those asked for.
THEOREM Trusted == StartupSpec => []TrustAsAsked
<1>1. StartupInv => TrustAsAsked
  BY DEF StartupInv, SocketsHold
<1>2. QED
  BY <1>1, StartupInvariant, PTL

\* A run that cannot honour its options ends before it connects.
THEOREM Refused == StartupSpec => []RefusedUnconnected
<1>1. StartupInv => RefusedUnconnected
  BY DEF StartupInv, SocketsHold
<1>2. QED
  BY <1>1, StartupInvariant, PTL
=============================================================================
