------------------------------ MODULE MCCsvParser ------------------------------
(***************************************************************************)
(* Replies of a header and up to two rows, in which what has to be quoted, *)
(* may be quoted, is blank, no number, too short, too long or broken into  *)
(* two lines is mixed.                                                     *)
(***************************************************************************)
EXTENDS CsvFormat

MCHeaderField == <<"h">>

\* The last row may lack its line break.
FileOf(rows, quoted, whole) ==
  LET file == [rows |-> rows, quoted |-> quoted, whole |-> whole, header |-> <<MCHeaderField, <<"x">>, <<>>>>]
      text == FlattenSeq(LinesOf(file))
  IN  [rows |-> rows, quoted |-> quoted, whole |-> whole, header |-> file.header,
       text |-> IF whole THEN text ELSE SubSeq(text, 1, Len(text) - 1)]

MCRows ==
  {<<a, b, c>> : a \in {<<"1">>, <<"x", "c", "q">>, <<"q">>, MCHeaderField},
                 b \in {<<"1">>, <<>>, <<"q", "1">>, <<"s", "1", "1">>}, c \in {<<>>, <<"1", "x">>, <<"x">>}}
  \cup {<<<<"1">>, <<"1">>>>, <<<<>>>>, <<<<"1">>, <<"1">>, <<>>, <<"q", "c">>>>,
        <<[i \in 1 .. 20 |-> "q"]>>}
  \cup {<<<<"1">>, b, c>> : b \in {<<"1">>, <<"1", "n", "1">>, <<"n">>},
                          c \in {<<"q", "n">>, <<"c", "n", "n", "q">>, <<"n", "1", "1", "1", "1", "1", "1", "1", "1", "1">>}}
  \cup {<<<<"n">>>>, <<[i \in 1 .. 20 |-> IF i = 20 THEN "n" ELSE "1"]>>}

MCFiles == {FileOf(<<r, s>>, quoted, TRUE) : r, s \in MCRows, quoted \in BOOLEAN}
           \cup {FileOf(<<r>>, FALSE, FALSE) : r \in MCRows}
           \cup {FileOf(<<[i \in 1 .. MAX_COLUMN_COUNT + 1 |-> <<>>], <<<<>>>>>>, FALSE, FALSE)}

=============================================================================
