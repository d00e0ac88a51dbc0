---------------------------- MODULE Conversions ----------------------------
(***************************************************************************)
(* Calls of the program's conversions, each on an input of its own: paths  *)
(* joined to a URL, texts reported, bytes quoted; and the one that goes    *)
(* step by step, an upload's body.                                         *)
(***************************************************************************)
EXTENDS Paths, Texts, UploadBody

CONSTANTS
    Segments,       \* segments of a path
    Bases,          \* the paths that a path is joined to
    MaxSegments,    \* bound: segments of a path
    Characters,     \* characters of a text from the wire
    Addresses,      \* the texts an address is given as
    Delimiters,     \* what --csv-delimiter may be
    MaxText         \* bound: characters of a text

ASSUME ConversionsAssumption ==
    /\ Bases \subseteq Seq(Segments) \ {<<>>}
    /\ Addresses \subseteq Seq(Characters)
    /\ MaxSegments \in Nat /\ MaxText \in Nat
    /\ Quote \notin Delimiters

VARIABLES call, answer

vars == <<call, answer, bodyVars>>

PathTexts == UNION {[1..n -> Segments] : n \in 1..MaxSegments}
WireTexts == UNION {[1..n -> Characters] : n \in 0..MaxText}
ByteTexts == UNION {[1..n -> Bytes] : n \in 0..MaxText}

Calls ==
    [kind : {"join"}, base : Bases, sub : PathTexts]
    \cup [kind : {"report"}, name : WireTexts, ip : Addresses,
          twice : BOOLEAN, delimiter : Delimiters]
    \cup [kind : {"quote"}, bytes : ByteTexts]

Upload == [kind |-> "upload"]

Init ==
    /\ BodyInit
    /\ \/ call = Upload
       \/ call \in Calls /\ payload = 0
    /\ answer = <<>>

Reports == LET row == <<call.name, call.ip>> IN IF call.twice THEN <<row, row>> ELSE <<row>>

Result ==
    CASE call.kind = "join" -> <<Clean(call.sub), UrlPath(call.base, call.sub),
                                 SharePath(call.base, call.sub)>>
      [] call.kind = "report" -> <<CsvRows(Reports, call.delimiter), JsonText(call.name)>>
      [] call.kind = "quote" -> <<GoQuote(call.bytes)>>

Evaluate ==
    /\ call # Upload
    /\ answer = <<>>
    /\ answer' = Result
    /\ UNCHANGED <<call, bodyVars>>

Send ==
    /\ call = Upload
    /\ BodyNext
    /\ UNCHANGED <<call, answer>>

Over ==
    /\ answer # <<>> \/ ended \/ taken >= MaxSent
    /\ UNCHANGED vars

Next == Evaluate \/ Send \/ Over

Spec == Init /\ [][Next]_vars

Answered(kind) == call.kind = kind /\ answer # <<>>

-----------------------------------------------------------------------------
(* Starting points from which every ".." of a path has a directory to leave. *)
Deep == [i \in 1..MaxSegments |-> "deep"]

\* A cleaned path leads where the path led, from anywhere, and cannot be
\* spelled shorter; a joined one leads where the two led one after the other,
\* from the root, so that a list entry's "../x" names a file of its server; a
\* share link ends in a slash.
JoinedPathsLead ==
    Answered("join") =>
        LET sub == call.sub
            both == Walk(<<>>, call.base \o sub)
        IN  /\ Walk(Deep, answer[1]) = Walk(Deep, sub)
            /\ Shortest(answer[1])
            /\ IsRooted(call.base) => Shortest(answer[2])
            /\ answer[2] # Empty => IsRooted(answer[2])
            /\ call.base # Empty => Walk(<<>>, answer[2]) = both
            /\ Last(answer[3]) = Gap /\ IsRooted(answer[3])

\* The characters of a text that steer a terminal, but for the delimiter.
Steering(text, delimiter) ==
    Rewrite(text, LAMBDA c : IF c \in Hostile \ {delimiter} THEN <<c>> ELSE <<>>)

\* However the server names itself, no cell is one that a spreadsheet evaluates,
\* and unless the delimiter is a line end, a report is a row of the CSV output,
\* with its own cells, one line end and nothing else that steers a terminal; in
\* JSON the name reads back as it was, sanitized, without a character that HTML
\* would take for markup.
ReportsAreInert ==
    Answered("report") =>
        LET rows == ReadCsv(answer[1], call.delimiter)
            cells == [i \in 1..2 |-> CsvText(Reports[1][i])]
        IN  /\ call.delimiter \notin LineEnds =>
                  /\ rows = [i \in 1..Len(Reports) |-> cells]
                  /\ Steering(answer[1], call.delimiter) = [i \in 1..Len(Reports) |-> "LF"]
            /\ \A i \in 1..2 : cells[i] # <<>> => cells[i][1] \notin Triggers
            /\ ReadJson(answer[2]) = Sanitize(call.name)
            /\ ~Contains(answer[2], "<")

\* "it keeps every byte recoverable, including those that are not UTF-8"
\* (quote.rs), and the quotes around it are the only bare ones.
QuoteRecoverable ==
    Answered("quote") =>
        /\ Unquote(answer[1]) = call.bytes
        /\ \A i \in 2..(Len(answer[1]) - 1) :
              answer[1][i] = Quote => answer[1][i - 1] = Backslash
=============================================================================
