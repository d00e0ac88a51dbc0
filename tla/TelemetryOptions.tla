-------------------------- MODULE TelemetryOptions --------------------------
(***************************************************************************)
(* speedtest::resolve_telemetry: the telemetry settings of a run, from the *)
(* command line, a --telemetry-json file and the defaults.  A setting is   *)
(* known by where it came from; the level also by what it is.              *)
(***************************************************************************)
EXTENDS Integers

Levels == {"disabled", "basic", "full", "debug"}
Parts == {"server", "path", "share"}
Unset == "unset"

\* The flags; a level may be anything, a file may be absent or unreadable.
Flags ==
    [share : BOOLEAN, extra : BOOLEAN, json : {"absent", "unreadable", "read"},
     level : Levels \cup {Unset, "unsupported"}, parts : SUBSET Parts]

\* What a file may hold: its level is not checked, and parts may be missing.
Files == [level : Levels \cup {"", "unsupported"}, parts : SUBSET Parts]

VARIABLES
    cli,            \* the command line
    file,           \* what the file of --telemetry-json holds
    pc,             \* the step resolve_telemetry is at
    level,          \* TelemetryServer::level, "" by default
    origin          \* per part: where its value came from

vars == <<cli, file, pc, level, origin>>

Init ==
    /\ cli \in Flags
    /\ file \in Files
    /\ pc = "asked"
    /\ level = ""
    /\ origin = [p \in Parts |-> Unset]

\* any_telemetry_option
AnyTelemetryOption == cli.json # "absent" \/ cli.level # Unset \/ cli.parts # {}

\* Without --share and every such option telemetry stays off.
Asked ==
    /\ pc = "asked"
    /\ pc' = IF cli.share \/ AnyTelemetryOption THEN "file" ELSE "resolved"
    /\ UNCHANGED <<cli, file, level, origin>>

ReadFile ==
    /\ pc = "file"
    /\ \/ /\ cli.json = "absent"
          /\ pc' = "level"
          /\ UNCHANGED <<level, origin>>
       \/ /\ cli.json = "unreadable"
          /\ pc' = "failed"
          /\ UNCHANGED <<level, origin>>
       \/ /\ cli.json = "read"
          /\ pc' = "level"
          /\ level' = file.level
          /\ origin' = [p \in Parts |-> IF p \in file.parts THEN "file" ELSE Unset]
    /\ UNCHANGED <<cli, file>>

\* Bug: the value of an absent flag is taken for a level.
KeepLevelUnset ==
    /\ pc = "level"
    /\ cli.level = Unset
    /\ level' = IF level = "" THEN cli.level ELSE level
    /\ pc' = "parts"
    /\ UNCHANGED <<cli, file, origin>>

\* No flag: the file's level, or DEFAULT_TELEMETRY_LEVEL.
KeepLevel ==
    /\ pc = "level"
    /\ cli.level = Unset
    /\ level' = IF level = "" THEN "basic" ELSE level
    /\ pc' = "parts"
    /\ UNCHANGED <<cli, file, origin>>

\* The flag's level replaces the file's, or ends the run.
FlagLevel ==
    /\ pc = "level"
    /\ cli.level # Unset
    /\ \/ cli.level \in Levels /\ level' = cli.level /\ pc' = "parts"
       \/ cli.level \notin Levels /\ UNCHANGED level /\ pc' = "failed"
    /\ UNCHANGED <<cli, file, origin>>

\* apply_default, for each part: the flag, else the file, else the default.
ApplyDefaults ==
    /\ pc = "parts"
    /\ origin' = [p \in Parts |->
                    IF p \in cli.parts THEN "flag"
                    ELSE IF origin[p] = Unset THEN "default"
                    ELSE origin[p]]
    /\ pc' = "resolved"
    /\ UNCHANGED <<cli, file, level>>

Terminating == pc \in {"resolved", "failed"} /\ UNCHANGED vars

Next == Asked \/ ReadFile \/ KeepLevel \/ FlagLevel \/ ApplyDefaults \/ Terminating

Spec == Init /\ [][Next]_vars

\* TelemetryServer::get_level: a level it does not know sends nothing.
GetLevel ==
    CASE level = "basic" -> 1
      [] level = "full" -> 2
      [] level = "debug" -> 3
      [] OTHER -> 0

Sends == pc = "resolved" /\ GetLevel > 0

-----------------------------------------------------------------------------
\* Every variable has its type.
TypeOK ==
    /\ cli \in Flags
    /\ file \in Files
    /\ pc \in {"asked", "file", "level", "parts", "resolved", "failed"}
    /\ level \in Levels \cup {"", "unsupported"}
    /\ origin \in [Parts -> {Unset, "file", "flag", "default"}]

\* Whether anything asks for telemetry, --telemetry-extra apart.
Requests == cli.share \/ cli.json # "absent" \/ cli.level # Unset \/ cli.parts # {}

\* The levels named for a run.
Named ==
    (IF cli.level = Unset THEN {} ELSE {cli.level})
    \cup (IF cli.json = "read" THEN {file.level} \ {""} ELSE {})

Sending == {"basic", "full", "debug"}

\* Who gives a part of the address.
Givers(p) ==
    (IF p \in cli.parts THEN {"flag"} ELSE {})
    \cup (IF cli.json = "read" /\ p \in file.parts THEN {"file"} ELSE {})

\* Nothing is posted unless something asked for it or at a level that all who
\* named one disabled; every request is honoured at a level that sends, by
\* default basic; and what is posted goes out at a level that was named, to an
\* address given by the flags and the file as far as they give it.  Nothing is
\* said where help and code differ: which of flag and file decides, which is
\* FileOverrides, and whether --telemetry-extra by itself asks for a post.
SendsAsAsked ==
    pc = "resolved" =>
        /\ ~Requests /\ ~cli.extra => ~Sends
        /\ Requests /\ Named \subseteq Sending => Sends
        /\ Named # {} /\ Named \cap Sending = {} => ~Sends
        /\ Sends =>
              /\ level \in (IF Named = {} THEN {"basic"} ELSE Named)
              /\ \A p \in Parts :
                    origin[p] \in (IF Givers(p) = {} THEN {"default"} ELSE Givers(p))

-----------------------------------------------------------------------------
(* What the command line's help says. *)

\* --telemetry-json: "This option overrides --telemetry-level,
\* --telemetry-server, --telemetry-path, and --telemetry-share" (cli.rs).
FileOverrides ==
    pc = "resolved" /\ cli.json = "read" =>
        /\ file.level # "" => level = file.level
        /\ \A p \in file.parts : origin[p] = "file"
=============================================================================
