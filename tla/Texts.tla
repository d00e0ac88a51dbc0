------------------------------- MODULE Texts -------------------------------
(***************************************************************************)
(* What becomes of text from the wire on its way into a CSV row, a JSON    *)
(* document or a debug line.  A text is a sequence of characters, of which *)
(* one stands for each class the code treats in a way of its own.          *)
(***************************************************************************)
EXTENDS Folding, SequencesExt, FiniteSetsExt

Quote == "quote"
Backslash == "backslash"

\* Characters sanitize drops: a control, a line end, a tab, a format character.
Hostile == {"ESC", "LF", "CR", "TAB", "RLO"}
LineEnds == {"LF", "CR"}

\* What makes a spreadsheet evaluate a cell.
Triggers == {"=", "TAB", "CR"}

\* A text with every character replaced by some.
Rewrite(text, Replacement(_)) == FlattenSeq([i \in 1..Len(text) |-> Replacement(text[i])])

Sanitize(text) == Rewrite(text, LAMBDA c : IF c \in Hostile THEN <<>> ELSE <<c>>)

-----------------------------------------------------------------------------
(* CSV: csv_text, and rows as csv::Writer writes them. *)

Defused(text) ==
    IF text # <<>> /\ text[1] \in Triggers THEN <<"'">> \o text ELSE text

\* Bug: the first character is looked at before the text is sanitized.
CsvTextLate(text) == Sanitize(Defused(text))

CsvText(text) == Defused(Sanitize(text))

Written(cell, delimiter) ==
    IF \E i \in 1..Len(cell) : cell[i] \in {delimiter, Quote} \cup LineEnds
    THEN <<Quote>> \o Rewrite(cell, LAMBDA c : IF c = Quote THEN <<c, c>> ELSE <<c>>)
            \o <<Quote>>
    ELSE cell

Record(texts, delimiter) ==
    LET cell(i) == Written(CsvText(texts[i]), delimiter) IN
    FlattenSeq([i \in 1..Len(texts) |->
                    cell(i) \o <<IF i = Len(texts) THEN "LF" ELSE delimiter>>])

TrimEnd(text, chars) ==
    LET kept == {i \in 1..Len(text) : text[i] \notin chars} IN
    IF kept = {} THEN <<>> ELSE SubSeq(text, 1, Max(kept))

\* csv_rows: one newline at the end, whatever the writer ended with.
CsvRows(reports, delimiter) ==
    Append(TrimEnd(Rewrite(reports, LAMBDA texts : Record(texts, delimiter)), LineEnds), "LF")

\* A reader of CSV: the rows it finds.
Blank == [mode |-> "start", cell |-> <<>>, row |-> <<>>, rows |-> <<>>]

CsvRead(delimiter, r, c) ==
    IF r.mode = "quoted" THEN
        IF c = Quote THEN [r EXCEPT !.mode = "closing"]
        ELSE [r EXCEPT !.cell = Append(@, c)]
    ELSE IF c = Quote /\ r.mode \in {"start", "closing"} THEN
        [r EXCEPT !.mode = "quoted",
                  !.cell = IF r.mode = "closing" THEN Append(@, c) ELSE @]
    ELSE IF c = delimiter THEN
        [r EXCEPT !.mode = "start", !.cell = <<>>, !.row = Append(@, r.cell)]
    ELSE IF c = "LF" THEN
        [Blank EXCEPT !.rows = Append(r.rows, Append(r.row, r.cell))]
    ELSE [r EXCEPT !.mode = "plain", !.cell = Append(@, c)]

CsvState(delimiter, text) == Fold(LAMBDA r, c : CsvRead(delimiter, r, c), Blank, text)

ReadCsv(text, delimiter) == CsvState(delimiter, text).rows

-----------------------------------------------------------------------------
(* JSON: clean, serde_json's escapes, then escape_like_go over the result.   *)
(* "u003c" is those five characters.                                         *)

SerdeEscape(text) ==
    Rewrite(text, LAMBDA c : IF c \in {Quote, Backslash} THEN <<Backslash, c>> ELSE <<c>>)

EscapeLikeGo(text) ==
    Rewrite(text, LAMBDA c : IF c = "<" THEN <<Backslash, "u003c">> ELSE <<c>>)

JsonText(text) == EscapeLikeGo(SerdeEscape(Sanitize(text)))

\* A reader of a text in which a backslash gives what follows it a meaning,
\* its own unless the table has another.
Meant(meaning, c) == IF c \in DOMAIN meaning THEN meaning[c] ELSE c

EscapeRead(meaning, r, c) ==
    IF r.escape THEN [escape |-> FALSE, text |-> Append(r.text, Meant(meaning, c))]
    ELSE IF c = Backslash THEN [r EXCEPT !.escape = TRUE]
    ELSE [r EXCEPT !.text = Append(@, c)]

EscapeState(meaning, text) ==
    Fold(LAMBDA r, c : EscapeRead(meaning, r, c), [escape |-> FALSE, text |-> <<>>], text)

Unescape(text, meaning) == EscapeState(meaning, text).text

JsonMeaning == [u003c |-> "<"]

ReadJson(text) == Unescape(text, JsonMeaning)

-----------------------------------------------------------------------------
(* GoQuote: bytes as Go's %q shows them.  "byte 85" starts no valid UTF-8    *)
(* sequence, "U+0085" is the control character of that number; "n", "x85"    *)
(* and "u0085" are those characters.                                         *)

Bytes == {Quote, Backslash, "a", "n", "x85", "u0085", "LF", "U+0001", "U+0085",
          "U+E0001", "byte 85"}

\* Bug: every control character is written by its number in two digits.
EscapedShort(c) ==
    CASE c \in {Quote, Backslash} -> <<Backslash, c>>
      [] c = "LF" -> <<Backslash, "n">>
      [] c = "U+0001" -> <<Backslash, "x01">>
      [] c \in {"U+0085", "byte 85"} -> <<Backslash, "x85">>
      [] c = "U+E0001" -> <<Backslash, "U000e0001">>
      [] OTHER -> <<c>>

\* write_escaped
Escaped(c) ==
    CASE c \in {Quote, Backslash} -> <<Backslash, c>>
      [] c = "LF" -> <<Backslash, "n">>
      [] c = "U+0001" -> <<Backslash, "x01">>
      [] c = "U+0085" -> <<Backslash, "u0085">>
      [] c = "U+E0001" -> <<Backslash, "U000e0001">>
      [] c = "byte 85" -> <<Backslash, "x85">>
      [] OTHER -> <<c>>

GoQuote(bytes) == <<Quote>> \o Rewrite(bytes, Escaped) \o <<Quote>>

QuoteMeaning ==
    [n |-> "LF", x01 |-> "U+0001", u0085 |-> "U+0085", x85 |-> "byte 85",
     U000e0001 |-> "U+E0001"]

Unquote(text) == Unescape(SubSeq(text, 2, Len(text) - 1), QuoteMeaning)
=============================================================================
