------------------------------- MODULE CsvFormat -------------------------------
(***************************************************************************)
(* A reply written the way the comment at the head of csv_parser.cpp       *)
(* describes the format, and what reading it has to give.                  *)
(***************************************************************************)
EXTENDS CsvParser

\* A field may hold anything, a line break too.  The columns of a row have room.
Fields == Seq(STRING)
Rows == {row \in Seq(Fields) : Len(row) \in 1 .. MAX_COLUMN_COUNT}

\* "fields that contain commas, double-quotes, or line-breaks must be quoted, a quote
\* within a field must be escaped"; any other field may be quoted as well.
Escaped(s) == FlattenSeq([i \in DOMAIN s |-> IF s[i] = "q" THEN <<"q", "q">> ELSE <<s[i]>>])
Written(field, quoted) ==
  IF quoted \/ Range(field) \cap {"c", "q", "n"} # {} THEN <<"q">> \o Escaped(field) \o <<"q", "s">> ELSE field
WrittenRow(row, quoted) ==
  FlattenSeq([c \in DOMAIN row |-> (IF c > 1 THEN <<"c">> ELSE <<>>) \o Written(row[c], quoted)])

\* What the file holds of the header, then of each row.
LinesOf(file) ==
  [i \in 1 .. Len(file.rows) + 1 |->
     (IF i = 1 THEN WrittenRow(file.header, FALSE) ELSE WrittenRow(file.rows[i - 1], file.quoted)) \o <<"n">>]

\* fgets knows no quotes: to it a row ends with its first line break.
HasLineBreak(row) == \E c \in DOMAIN row : "n" \in Range(row[c])
FirstBreak(text) == FirstFrom(text, 1, {"n"})

\* A reply that is whole ends in a line break, and its header is one line that fits in the
\* buffer.
ASSUME FilesAssumption ==
  /\ MAX_LINE_LEN \in Nat /\ MAX_COLUMN_COUNT \in Nat
  /\ \A file \in Files : file.whole =>
       /\ file.header \in Rows /\ file.rows \in Seq(Rows) /\ file.quoted \in BOOLEAN
       /\ file.text = FlattenSeq(LinesOf(file))
       /\ ~HasLineBreak(file.header) /\ Len(LinesOf(file)[1]) < MAX_LINE_LEN

-----------------------------------------------------------------------------
\* Where a row ends the reading: it is too short, or its first line too long, or it goes
\* on in a second line.
IsTooLong(row, file) == FirstBreak(WrittenRow(row, file.quoted) \o <<"n">>) >= MAX_LINE_LEN
Stops(row, file) == Len(row) < kColumns \/ IsTooLong(row, file) \/ HasLineBreak(row)
Read(file) ==
  SubSeq(file.rows, 1, Min({i - 1 : i \in {j \in DOMAIN file.rows : Stops(file.rows[j], file)}} \cup {Len(file.rows)}))
RecordsOf(rows) == FlattenSeq([i \in DOMAIN rows |-> PushRow(rows[i])])

\* What csv_parse has to say of a file.
Verdict(file) ==
  LET row == file.rows[Len(Read(file)) + 1]
  IN  IF Read(file) = file.rows THEN "ok"
      ELSE IF IsTooLong(row, file) THEN "E_LINE_TOO_WIDE"
      ELSE IF HasLineBreak(row) THEN "E_QUOTED_STRING" ELSE "ok"

\* What was written is read back, whatever was quoted and escaped: the records are those
\* of the rows before the first that is too short, too long or broken into two lines, in
\* their order; a row that is no number where one is needed is left out and the header is
\* never a record.
RowsSurvive ==
  reply.whole =>
    /\ IsPrefix(records_, RecordsOf(Read(reply)))
    /\ result # "reading" => records_ = RecordsOf(Read(reply))

\* Of a file written by the rules: a line that does not fit is reported, also when its
\* row is too short, and never taken for two rows; a field with a line break, which the
\* rules at the head of csv_parser.cpp allow, is the only thing ever called an ill-formed
\* quoted string, and it is always called so and never read as two rows; nothing is
\* undefined.
VerdictIsRight == reply.whole => result \in {"reading", Verdict(reply)}

=============================================================================
