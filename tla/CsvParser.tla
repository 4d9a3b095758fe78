------------------------------- MODULE CsvParser -------------------------------
(***************************************************************************)
(* common/csv_parser.cpp with the row handler of clients/esimo.cpp: the    *)
(* reply of the forecast server becomes records, line by line.             *)
(*                                                                         *)
(* A text is a sequence of characters: "n" is the line break, "q" the      *)
(* quotation mark, "c" the comma, "s" the space, "t" the tab, "1" any      *)
(* digit.  A column the handler does not look at is left out of a row:     *)
(* kColumns stands for 12.                                                 *)
(***************************************************************************)
EXTENDS Integers, FiniteSets, SequencesExt

CONSTANTS
  MAX_LINE_LEN, MAX_COLUMN_COUNT,
  kColumns,             \* the least number of columns of a row
  Required, Optional,   \* the columns read as numbers; an Optional one may be empty
  HeaderField,          \* the first column of the header
  Files                 \* the replies: records whose text is the reply's

VARIABLES
  reply,
  fp,          \* what fgets has not read yet
  skip_line,
  records_,
  result       \* "reading", then what csv_parse returns
vars == <<reply, fp, skip_line, records_, result>>

Blank == {"s", "t"}
FirstFrom(s, i, S) == Min({j \in i .. Len(s) : s[j] \in S} \cup {Len(s) + 1})
Quotes(s, i, j) == Cardinality({k \in i .. j : s[k] = "q"})

\* Faulty variant: the next quote closes.
ClosingAtNext(line, i) == FirstFrom(line, i + 1, {"q"})

\* The quote that closes the one at i: the first that is neither the first nor the
\* second of a doubled one; beyond the line if there is none.
Closing(line, i) ==
  Min({k \in i + 1 .. Len(line) - 1 : line[k + 1] # "q" /\ Quotes(line, i + 1, k) % 2 = 1} \cup {Len(line) + 1})

\* The inside of a quoted string: of two quotes one is kept.
Unescaped(s) ==
  LET kept == {k \in DOMAIN s : s[k] = "q" => Quotes(s, 1, k) % 2 = 1}
  IN  FlattenSeq([k \in DOMAIN s |-> IF k \in kept THEN <<s[k]>> ELSE <<>>])

\* The field from i: what precedes a quote, and the quoted string; and where the field
\* ends, which is 0 for E_QUOTED_STRING.
Field(line, i) ==
  LET stop == FirstFrom(line, i, {"c", "n", "q"})
      close == Closing(line, stop)
      next == Min({j \in close + 1 .. Len(line) : line[j] \notin Blank} \cup {Len(line)})
  IN  IF line[stop] # "q" THEN [text |-> SubSeq(line, i, stop - 1), end |-> stop]
      ELSE IF close > Len(line) \/ line[next] \notin {"c", "n"} THEN [text |-> <<>>, end |-> 0]
      ELSE [text |-> SubSeq(line, i, stop - 1) \o Unescaped(SubSeq(line, stop + 1, close - 1)), end |-> next]

IllFormed == <<>>    \* every line has a field

\* csv_parse_line: the fields of a line that ends in a line break.
ParseLine(line) ==
  LET from[i \in 1 .. Len(line)] ==
        LET field == Field(line, i)
        IN  IF field.end = 0 THEN IllFormed
            ELSE IF line[field.end] = "n" THEN <<field.text>>
            ELSE LET rest == from[field.end + 1]
                 IN  IF rest = IllFormed THEN IllFormed ELSE <<field.text>> \o rest
  IN  from[1]

-----------------------------------------------------------------------------
\* std::stod reads the digits after leading blanks; it throws if there are none.
Stod(s) ==
  LET start == Min({j \in DOMAIN s : s[j] \notin Blank} \cup {Len(s) + 1})
      end == Min({j \in start .. Len(s) : s[j] # "1"} \cup {Len(s) + 1})
  IN  SubSeq(s, start, end - 1)
Throws(s) == Stod(s) = <<>>

IsHeader(fields) == fields[1] = HeaderField
IsBroken(fields) ==
  \/ \E c \in Required : Throws(fields[c])
  \/ \E c \in Optional : fields[c] # <<>> /\ Throws(fields[c])

\* PushRow, for a row of at least kColumns: the records it adds.
PushRow(fields) ==
  IF IsHeader(fields) \/ IsBroken(fields) THEN <<>>
  ELSE <<[StartedAt |-> fields[1], values |-> [c \in Required \cup Optional |-> Stod(fields[c])]]>>

-----------------------------------------------------------------------------
Init ==
  /\ reply \in Files
  /\ fp = reply.text /\ skip_line = 1 /\ records_ = <<>> /\ result = "reading"

\* fgets: up to and with the line break, but never more than the buffer holds.
Line == SubSeq(fp, 1, Min({FirstFrom(fp, 1, {"n"}), Len(fp), MAX_LINE_LEN - 1}))
Ends(line) == line[Len(line)] = "n"
IsTooWide(line) == Len(line) = MAX_LINE_LEN - 1 /\ ~Ends(line)

Returns(value) ==
  result' = value /\ UNCHANGED <<reply, fp, skip_line, records_>>

EndOfFile == result = "reading" /\ fp = <<>> /\ Returns("ok")

LineTooWide == result = "reading" /\ fp # <<>> /\ IsTooWide(Line) /\ Returns("E_LINE_TOO_WIDE")

Skip ==
  /\ result = "reading" /\ fp # <<>> /\ ~IsTooWide(Line) /\ skip_line > 0
  /\ skip_line' = skip_line - 1
  /\ fp' = SubSeq(fp, Len(Line) + 1, Len(fp))
  /\ UNCHANGED <<reply, records_, result>>

\* The loop over the characters ends at a line break only: a last line without one is
\* read on into whatever the buffer holds, which is undefined.
Unterminated ==
  /\ result = "reading" /\ fp # <<>> /\ ~IsTooWide(Line) /\ skip_line = 0
  /\ ~Ends(Line)
  /\ Returns("undefined")

\* Faulty variant: a short row is passed over.
RecordSkipsShort ==
  /\ result = "reading" /\ fp # <<>> /\ ~IsTooWide(Line) /\ skip_line = 0 /\ Ends(Line)
  /\ LET fields == ParseLine(Line)
     IN  /\ fields # IllFormed
         /\ records_' = records_ \o (IF Len(fields) < kColumns THEN <<>> ELSE PushRow(fields))
         /\ fp' = SubSeq(fp, Len(Line) + 1, Len(fp))
         /\ UNCHANGED <<reply, skip_line, result>>

\* A row: the handler returns 1 for one that is too short, which ends the loop, and
\* csv_parse returns 0 as for a complete file.  Nobody counts the columns of a line:
\* what is written behind column_values is undefined.  (A line with too many that is also
\* ill-formed is called ill-formed here.)
Record ==
  /\ result = "reading" /\ fp # <<>> /\ ~IsTooWide(Line) /\ skip_line = 0 /\ Ends(Line)
  /\ LET fields == ParseLine(Line)
     IN  IF fields = IllFormed THEN Returns("E_QUOTED_STRING")
         ELSE IF Len(fields) > MAX_COLUMN_COUNT THEN Returns("undefined")
         ELSE IF Len(fields) < kColumns THEN Returns("ok")
         ELSE /\ records_' = records_ \o PushRow(fields)
              /\ fp' = SubSeq(fp, Len(Line) + 1, Len(fp))
              /\ UNCHANGED <<reply, skip_line, result>>

Next == EndOfFile \/ LineTooWide \/ Skip \/ Unterminated \/ Record

Spec == Init /\ [][Next]_vars

=============================================================================
