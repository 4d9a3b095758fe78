--------------------------- MODULE CsvParser_proofs ---------------------------
(***************************************************************************)
(* What is written by the rules of the format is read back, whatever the   *)
(* rows and whatever is quoted: first a quoted string, then a field, a     *)
(* line, and the file line by line.                                        *)
(***************************************************************************)
EXTENDS CsvFormat, InductionLemmas, FiniteSetTheorems, SequenceTheorems

(* Quoted strings.                                                         *)
\* No prover knows that these are strings.
Characters == STRING \cup {"q", "c", "s", "n"}
Texts == Seq(Characters)

LEMMA CharactersKnown == {"q", "c", "s", "n"} \subseteq Characters /\ STRING \subseteq Characters
BY DEF Characters

\* The number of quotes, with one more character.
LEMMA QuotesStep ==
  ASSUME NEW s, NEW i \in Nat, NEW j \in Nat, i <= j + 1
  PROVE  /\ Quotes(s, i, j) \in Nat
         /\ j < i => Quotes(s, i, j) = 0
         /\ Quotes(s, i, j + 1) = Quotes(s, i, j) + (IF s[j + 1] = "q" THEN 1 ELSE 0)
<1> DEFINE K(m) == {k \in i .. m : s[k] = "q"}
<1>1. IsFiniteSet(K(j)) /\ Cardinality(K(j)) \in Nat
  <2>1. IsFiniteSet(i .. j) /\ K(j) \in SUBSET (i .. j)
    BY FS_Interval
  <2> QED BY <2>1, FS_Subset, FS_CardinalityType
<1>2. j < i => K(j) = {}
  OBVIOUS
<1>3. i .. j + 1 = (i .. j) \cup {j + 1} /\ j + 1 \notin i .. j
  OBVIOUS
<1>4. CASE s[j + 1] = "q"
  <2>1. K(j + 1) = K(j) \cup {j + 1} /\ j + 1 \notin K(j)
    BY <1>3, <1>4
  <2>2. Cardinality(K(j) \cup {j + 1}) = Cardinality(K(j)) + 1
    BY <1>1, <2>1, FS_AddElement
  <2> QED BY <1>1, <1>2, <1>4, <2>1, <2>2, FS_EmptySet DEF Quotes
<1>5. CASE s[j + 1] # "q"
  <2>1. K(j + 1) = K(j)
    BY <1>3, <1>5
  <2> QED BY <1>1, <1>2, <1>5, <2>1, FS_EmptySet DEF Quotes
<1> QED BY <1>4, <1>5

\* s is t behind the first d, for n characters; then it has as many quotes there.
IsMoved(s, t, d, n) == \A k \in 1 .. n : s[d + k] = t[k]
SameQuotes(s, t, d, n) == \A j \in 0 .. n : Quotes(s, d + 1, d + j) = Quotes(t, 1, j)

\* The quotes of a part of a text are counted as those of the part by itself.
LEMMA QuotesMoved ==
  ASSUME NEW s, NEW t, NEW d \in Nat, NEW n \in Nat, IsMoved(s, t, d, n)
  PROVE  SameQuotes(s, t, d, n)
<1> DEFINE T == {m \in Nat : m <= n => Quotes(s, d + 1, d + m) = Quotes(t, 1, m)}
<1>1. 0 \in T
  <2>1. /\ d + 1 \in Nat /\ d + 0 \in Nat /\ d + 1 <= (d + 0) + 1 /\ d + 0 < d + 1
        /\ 1 \in Nat /\ 0 \in Nat /\ 1 <= 0 + 1 /\ 0 < 1
    OBVIOUS
  <2>2. Quotes(s, d + 1, d + 0) = 0
    BY <2>1, QuotesStep
  <2>3. Quotes(t, 1, 0) = 0
    BY <2>1, QuotesStep
  <2> QED BY <2>2, <2>3
<1>2. ASSUME NEW m \in Nat, m \in T PROVE m + 1 \in T
  <2> SUFFICES ASSUME m + 1 <= n PROVE Quotes(s, d + 1, d + (m + 1)) = Quotes(t, 1, m + 1)
    OBVIOUS
  <2>1. Quotes(s, d + 1, d + m) = Quotes(t, 1, m) /\ s[d + (m + 1)] = t[m + 1] /\ d + (m + 1) = (d + m) + 1
    BY <1>2 DEF IsMoved
  <2>2. Quotes(t, 1, m + 1) = Quotes(t, 1, m) + (IF t[m + 1] = "q" THEN 1 ELSE 0)
    <3>1. 1 \in Nat /\ m \in Nat /\ 1 <= m + 1
      OBVIOUS
    <3> QED BY <3>1, QuotesStep
  <2>3. Quotes(s, d + 1, (d + m) + 1) = Quotes(s, d + 1, d + m) + (IF s[(d + m) + 1] = "q" THEN 1 ELSE 0)
    <3>1. d + 1 \in Nat /\ d + m \in Nat /\ d + 1 <= (d + m) + 1
      OBVIOUS
    <3> QED BY <3>1, QuotesStep
  <2> QED BY <2>1, <2>2, <2>3
<1>3. Nat \subseteq T
  <2> HIDE DEF T
  <2> QED BY <1>1, <1>2, NatSetInduction
<1> QED BY <1>3 DEF SameQuotes

\* After an even number comes an odd one, and then an even one.
LEMMA EvenAndOdd ==
  ASSUME NEW n \in Nat, n % 2 = 0
  PROVE  (n + 1) % 2 = 1 /\ (n + 2) % 2 = 0
BY SMTT(30)

\* Texts that agree up to a place have as many quotes up to there.
LEMMA QuotesSame ==
  ASSUME NEW s, NEW t, NEW n \in Nat, \A k \in 1 .. n : s[k] = t[k], NEW j \in 0 .. n
  PROVE  Quotes(s, 1, j) = Quotes(t, 1, j)
<1> DEFINE d == 0
<1>1. d \in Nat /\ IsMoved(s, t, d, n) /\ d + 1 = 1 /\ d + j = j
  BY DEF IsMoved
<1> HIDE DEF d
<1>2. SameQuotes(s, t, d, n)
  BY <1>1, QuotesMoved
<1> QED BY <1>1, <1>2 DEF SameQuotes

\* What is known of every text.
LEMMA TextType ==
  ASSUME NEW t \in Texts
  PROVE  /\ Len(t) \in Nat /\ DOMAIN t = 1 .. Len(t) /\ \A k \in 1 .. Len(t) : t[k] \in Characters
         /\ t \o <<>> = t /\ <<>> \in Texts /\ SubSeq(t, 1, Len(t)) = t
  BY SubSeqFull, EmptyElements, ConcatEmptySeq DEF Texts

\* A text with one more character.
LEMMA TextAppend ==
  ASSUME NEW t \in Texts, NEW c \in Characters
  PROVE  /\ Append(t, c) \in Texts /\ Len(Append(t, c)) = Len(t) + 1 /\ DOMAIN Append(t, c) = 1 .. Len(t) + 1
         /\ Append(t, c)[Len(t) + 1] = c /\ \A k \in 1 .. Len(t) : Append(t, c)[k] = t[k]
         /\ t \o <<c>> = Append(t, c) /\ <<c>> \in Texts
<1>1. /\ t \in Seq(Characters) /\ <<c>> \in Seq(Characters) /\ Append(t, c) \in Seq(Characters)
      /\ Len(Append(t, c)) = Len(t) + 1
      /\ Append(t, c)[Len(t) + 1] = c /\ \A k \in 1 .. Len(t) : Append(t, c)[k] = t[k]
  BY AppendProperties DEF Texts
<1>2. t \o <<c>> = Append(t, c)
  BY <1>1, AppendIsConcat
<1>3. DOMAIN Append(t, c) = 1 .. Len(t) + 1
  BY <1>1
<1> QED BY <1>1, <1>2, <1>3 DEF Texts

\* What is kept of each character.
IsKept(s, k) == s[k] = "q" => Quotes(s, 1, k) % 2 = 1
Pieces(s) == [k \in DOMAIN s |-> IF IsKept(s, k) THEN <<s[k]>> ELSE <<>>]

\* The inside of a quoted string, a piece for each character.
LEMMA PiecesType ==
  ASSUME NEW s \in Texts
  PROVE  Pieces(s) \in Seq(Texts) /\ Len(Pieces(s)) = Len(s) /\ Unescaped(s) = FlattenSeq(Pieces(s)) /\ Unescaped(s) \in Texts
<1>1. DOMAIN s = 1 .. Len(s) /\ Len(s) \in Nat /\ \A k \in 1 .. Len(s) : s[k] \in Characters
  BY DEF Texts
<1>2. \A k \in 1 .. Len(s) : Pieces(s)[k] \in Texts
  <2> SUFFICES ASSUME NEW k \in 1 .. Len(s) PROVE Pieces(s)[k] \in Texts
    OBVIOUS
  <2>1. <<s[k]>> \in Texts /\ <<>> \in Texts
    BY <1>1 DEF Texts
  <2> QED BY <1>1, <2>1 DEF Pieces
<1>3. Pieces(s) \in Seq(Texts) /\ Len(Pieces(s)) = Len(s)
  <2>1. Pieces(s) \in [1 .. Len(s) -> Texts]
    BY <1>1, <1>2 DEF Pieces
  <2> QED BY <1>1, <2>1
<1>4. Unescaped(s) = FlattenSeq(Pieces(s))
  <2> DEFINE kept == {k \in DOMAIN s : s[k] = "q" => Quotes(s, 1, k) % 2 = 1}
  <2>1. [k \in DOMAIN s |-> IF k \in kept THEN <<s[k]>> ELSE <<>>] = Pieces(s)
    BY DEF Pieces, IsKept
  <2> QED BY <2>1 DEF Unescaped
<1>5. FlattenSeq(Pieces(s)) \in Texts
  BY <1>3, FlattenElements DEF Texts
<1> QED BY <1>3, <1>4, <1>5

\* One more character is kept or not; the others as before.
LEMMA UnescapedAppend ==
  ASSUME NEW t \in Texts, NEW c \in Characters
  PROVE  Unescaped(Append(t, c)) = Unescaped(t) \o (IF IsKept(Append(t, c), Len(t) + 1) THEN <<c>> ELSE <<>>)
<1> DEFINE all == Append(t, c)
           n == Len(t)
           last == IF IsKept(all, n + 1) THEN <<c>> ELSE <<>>
<1>1. /\ all \in Texts /\ Len(all) = n + 1 /\ n \in Nat /\ all[n + 1] = c /\ DOMAIN all = 1 .. n + 1
      /\ DOMAIN t = 1 .. n /\ \A k \in 1 .. n : all[k] = t[k]
  BY TextAppend, TextType
<1>2. last \in Texts
  BY TextAppend, TextType
<1> HIDE DEF all, n
<1>3. ASSUME NEW k \in 1 .. n PROVE Pieces(all)[k] = Pieces(t)[k]
  <2>1. Quotes(all, 1, k) = Quotes(t, 1, k)
    <3>1. n \in Nat /\ (\A m \in 1 .. n : all[m] = t[m]) /\ k \in 0 .. n
      BY <1>1
    <3> QED BY <3>1, QuotesSame
  <2> QED BY <1>1, <2>1 DEF Pieces, IsKept
<1>4. Pieces(all)[n + 1] = last
  <2>1. n + 1 \in DOMAIN all /\ all[n + 1] = c
    BY <1>1
  <2> QED BY <2>1 DEF Pieces, last
<1>5. /\ Pieces(all) \in Seq(Texts) /\ Len(Pieces(all)) = n + 1
      /\ Pieces(t) \in Seq(Texts) /\ Len(Pieces(t)) = n
  BY <1>1, PiecesType DEF n
<1> HIDE DEF last
<1>6. Pieces(all) = Append(Pieces(t), last)
  <2> DEFINE r == Append(Pieces(t), last)
  <2>1. /\ r \in Seq(Texts) /\ Len(r) = n + 1 /\ r[n + 1] = last
        /\ \A k \in 1 .. n : r[k] = Pieces(t)[k]
    BY <1>2, <1>5
  <2>2. \A k \in 1 .. n + 1 : Pieces(all)[k] = r[k]
    <3> HIDE DEF r
    <3> QED BY <1>1, <1>3, <1>4, <2>1
  <2> HIDE DEF r
  <2>3. Pieces(all) = r
    BY <1>5, <2>1, <2>2, SeqEqual
  <2> QED BY <2>3 DEF r
<1>7. FlattenSeq(Append(Pieces(t), last)) = FlattenSeq(Pieces(t)) \o last
  BY <1>2, <1>5, FlattenAppend DEF Texts
<1> QED BY <1>1, <1>6, <1>7, PiecesType DEF all, last, n

-----------------------------------------------------------------------------
\* t is what u is written as: its quotes come in pairs, and it is read back as u.
IsEscapeOf(t, u) ==
  /\ t \in Texts /\ u \in Texts /\ Unescaped(t) = u
  /\ Quotes(t, 1, Len(t)) % 2 = 0
  /\ \A j \in 1 .. Len(t) : Quotes(t, 1, j) % 2 = 1 => j < Len(t) /\ t[j + 1] = "q"

\* Escaping nothing gives nothing.
LEMMA EmptyIsEscaped == IsEscapeOf(<<>>, <<>>)
<1>1. <<>> \in Texts /\ Len(<<>>) = 0 /\ DOMAIN <<>> = {}
  BY DEF Texts
<1>2. Quotes(<<>>, 1, 0) = 0
  BY QuotesStep
<1>3. Unescaped(<<>>) = <<>>
  <2>1. Pieces(<<>>) = <<>>
    BY <1>1, PiecesType
  <2> QED BY <1>1, <2>1, PiecesType DEF FlattenSeq
<1> QED BY <1>1, <1>2, <1>3 DEF IsEscapeOf

\* Any other character is written as itself.
LEMMA PlainIsEscaped ==
  ASSUME NEW t, NEW u, IsEscapeOf(t, u), NEW c \in Characters, c # "q"
  PROVE  IsEscapeOf(t \o <<c>>, Append(u, c))
<1> DEFINE all == Append(t, c)
           back == Append(u, c)
           n == Len(t)
           m == Len(u)
<1>1. t \in Texts /\ u \in Texts /\ Unescaped(t) = u
  BY DEF IsEscapeOf
<1>2. /\ all \in Texts /\ Len(all) = n + 1 /\ n \in Nat /\ all[n + 1] = c /\ t \o <<c>> = all
      /\ \A k \in 1 .. n : all[k] = t[k]
  BY <1>1, TextAppend, TextType
<1>3. /\ back \in Texts /\ back = u \o <<c>> /\ Len(back) = m + 1 /\ m \in Nat
      /\ back[m + 1] = c /\ \A k \in 1 .. m : back[k] = u[k]
  BY <1>1, TextAppend, TextType
<1>4. Unescaped(all) = back
  <2>1. IsKept(all, n + 1)
    BY <1>2 DEF IsKept
  <2>2. Unescaped(all) = Unescaped(t) \o (IF IsKept(all, n + 1) THEN <<c>> ELSE <<>>)
    BY <1>1, UnescapedAppend
  <2> QED BY <1>1, <1>3, <2>1, <2>2
<1> HIDE DEF all, back
<1>5. ASSUME NEW j \in 0 .. n PROVE Quotes(all, 1, j) = Quotes(t, 1, j)
  BY <1>2, QuotesSame
<1>6. Quotes(all, 1, n + 1) = Quotes(t, 1, n) /\ Quotes(t, 1, n) % 2 = 0
  <2>1. n \in Nat /\ 1 \in Nat /\ 1 <= n + 1 /\ n \in 0 .. n
    BY <1>2
  <2>2. Quotes(all, 1, n + 1) = Quotes(all, 1, n) + 0 /\ Quotes(all, 1, n) \in Nat
    BY <1>2, <2>1, QuotesStep
  <2> QED BY <1>5, <2>1, <2>2 DEF IsEscapeOf
<1>7. ASSUME NEW j \in 1 .. n + 1, Quotes(all, 1, j) % 2 = 1 PROVE j < n + 1 /\ all[j + 1] = "q"
  <2>1. j # n + 1
    BY <1>6, <1>7
  <2>2. j \in 1 .. n /\ j \in 0 .. n
    BY <1>2, <2>1
  <2>3. j < n /\ t[j + 1] = "q"
    BY <1>5, <1>7, <2>2 DEF IsEscapeOf
  <2> QED BY <1>2, <2>2, <2>3
<1>8. IsEscapeOf(all, back)
  BY <1>2, <1>3, <1>4, <1>6, <1>7 DEF IsEscapeOf
<1> QED BY <1>2, <1>8 DEF back

\* A quote is written as two.
LEMMA QuoteIsEscaped ==
  ASSUME NEW t, NEW u, IsEscapeOf(t, u)
  PROVE  IsEscapeOf(t \o <<"q", "q">>, Append(u, "q"))
<1> DEFINE first == Append(t, "q")
           all == Append(first, "q")
           back == Append(u, "q")
           n == Len(t)
           m == Len(u)
<1>0. "q" \in Characters
  BY CharactersKnown
<1>1. t \in Texts /\ u \in Texts /\ Unescaped(t) = u /\ "q" \in Characters
  BY <1>0 DEF IsEscapeOf
<1>2. /\ first \in Texts /\ Len(first) = n + 1 /\ n \in Nat /\ first[n + 1] = "q"
      /\ \A k \in 1 .. n : first[k] = t[k]
  BY <1>1, TextAppend, TextType
<1>3. /\ all \in Texts /\ Len(all) = (n + 1) + 1 /\ all[(n + 1) + 1] = "q"
      /\ \A k \in 1 .. n + 1 : all[k] = first[k]
  <2>1. first \in Texts /\ Len(first) = n + 1
    BY <1>2
  <2> HIDE DEF first
  <2>2. /\ all \in Texts /\ Len(all) = Len(first) + 1 /\ all[Len(first) + 1] = "q"
        /\ \A k \in 1 .. Len(first) : all[k] = first[k]
    BY <1>1, <2>1, TextAppend
  <2> HIDE DEF all
  <2> QED BY <2>1, <2>2
<1>4. t \o <<"q", "q">> = all
  BY <1>1 DEF Texts
<1>5. /\ back \in Texts /\ back = u \o <<"q">> /\ Len(back) = m + 1 /\ m \in Nat
      /\ \A k \in 1 .. m : back[k] = u[k]
  BY <1>1, TextAppend, TextType
<1>6. /\ Unescaped(first) = Unescaped(t) \o (IF IsKept(first, n + 1) THEN <<"q">> ELSE <<>>)
      /\ Unescaped(all) = Unescaped(first) \o (IF IsKept(all, (n + 1) + 1) THEN <<"q">> ELSE <<>>)
  <2>1. Unescaped(first) = Unescaped(t) \o (IF IsKept(first, n + 1) THEN <<"q">> ELSE <<>>)
    BY <1>1, UnescapedAppend
  <2> HIDE DEF first
  <2>2. Unescaped(all) = Unescaped(first) \o (IF IsKept(all, Len(first) + 1) THEN <<"q">> ELSE <<>>)
    BY <1>1, <1>2, UnescapedAppend
  <2> QED BY <1>2, <2>1, <2>2
<1> HIDE DEF first, all, back
<1>7. /\ (n + 1) + 1 = n + 2 /\ n \in Nat /\ n + 1 \in Nat /\ 1 \in Nat /\ 1 <= n + 1 /\ 1 <= (n + 1) + 1
      /\ n \in 0 .. n /\ n + 1 \in 0 .. n + 1 /\ n + 1 \in 1 .. n + 1
      /\ \A k \in 1 .. n : k \in 1 .. n + 1
  BY <1>2
<1>8. ASSUME NEW j \in 0 .. n PROVE Quotes(all, 1, j) = Quotes(t, 1, j)
  <2>1. \A k \in 1 .. n : all[k] = t[k]
    BY <1>2, <1>3, <1>7
  <2> QED BY <1>2, <2>1, QuotesSame
<1>9. Quotes(first, 1, n + 1) = Quotes(all, 1, n + 1)
  <2>1. \A k \in 1 .. n + 1 : first[k] = all[k]
    BY <1>3
  <2> QED BY <1>7, <2>1, QuotesSame
<1>10. /\ Quotes(t, 1, n) % 2 = 0 /\ Quotes(t, 1, n) \in Nat
       /\ Quotes(all, 1, n + 1) = Quotes(t, 1, n) + 1
       /\ Quotes(all, 1, n + 2) = Quotes(t, 1, n) + 2
  <2>1. all[n + 1] = "q"
    BY <1>2, <1>3, <1>7
  <2>2. Quotes(all, 1, n + 1) = Quotes(all, 1, n) + 1 /\ Quotes(all, 1, n) \in Nat
    BY <1>7, <2>1, QuotesStep
  <2>3. Quotes(all, 1, (n + 1) + 1) = Quotes(all, 1, n + 1) + 1
    BY <1>3, <1>7, QuotesStep
  <2>4. Quotes(all, 1, n) = Quotes(t, 1, n)
    BY <1>7, <1>8
  <2>5. Quotes(t, 1, n) % 2 = 0
    BY DEF IsEscapeOf
  <2> QED BY <1>7, <2>2, <2>3, <2>4, <2>5
<1>11. (Quotes(t, 1, n) + 1) % 2 = 1 /\ (Quotes(t, 1, n) + 2) % 2 = 0
  BY <1>10, EvenAndOdd
<1>12. Unescaped(all) = back
  <2>1. IsKept(first, n + 1)
    BY <1>9, <1>10, <1>11 DEF IsKept
  <2>2. ~IsKept(all, (n + 1) + 1)
    BY <1>3, <1>7, <1>10, <1>11 DEF IsKept
  <2>3. Unescaped(all) = back \o <<>>
    BY <1>1, <1>5, <1>6, <2>1, <2>2
  <2> QED BY <1>5, <2>3, TextType
<1>13. ASSUME NEW j \in 1 .. n + 2, Quotes(all, 1, j) % 2 = 1 PROVE j < n + 2 /\ all[j + 1] = "q"
  <2>1. j # n + 2
    BY <1>10, <1>11, <1>13
  <2>2. CASE j = n + 1
    BY <1>3, <1>7, <2>2
  <2>3. CASE j # n + 1
    <3>1. j \in 1 .. n /\ j \in 0 .. n
      BY <1>7, <2>1, <2>3
    <3>2. j < n /\ t[j + 1] = "q"
      BY <1>8, <1>13, <3>1 DEF IsEscapeOf
    <3>3. j + 1 \in 1 .. n /\ j + 1 \in 1 .. n + 1 /\ j < n + 2
      BY <1>7, <3>1, <3>2
    <3> QED BY <1>2, <1>3, <3>2, <3>3
  <2> QED BY <2>2, <2>3
<1>14. IsEscapeOf(all, back)
  BY <1>3, <1>5, <1>7, <1>10, <1>11, <1>12, <1>13 DEF IsEscapeOf
<1> QED BY <1>4, <1>14 DEF back

\* What is escaped is read back.
LEMMA EscapedIsReadBack ==
  ASSUME NEW s \in Texts
  PROVE  IsEscapeOf(Escaped(s), s)
<1> DEFINE n == Len(s)
           pieces == [i \in DOMAIN s |-> IF s[i] = "q" THEN <<"q", "q">> ELSE <<s[i]>>]
<1>1. DOMAIN s = 1 .. n /\ n \in Nat /\ \A i \in 1 .. n : s[i] \in Characters
  BY DEF Texts
<1>2. pieces \in Seq(Texts) /\ Len(pieces) = n
  <2>1. \A i \in 1 .. n : <<s[i]>> \in Texts
    BY <1>1, TextAppend
  <2>2. <<"q", "q">> \in Texts
    <3>1. "q" \in Characters
      BY CharactersKnown
    <3> QED BY <3>1 DEF Texts
  <2>3. pieces \in [1 .. n -> Texts]
    BY <1>1, <2>1, <2>2
  <2> QED BY <1>1, <2>3
<1>3. \A i \in 1 .. n : pieces[i] = IF s[i] = "q" THEN <<"q", "q">> ELSE <<s[i]>>
  BY <1>1
<1>4. Escaped(s) = FlattenSeq(pieces)
  BY DEF Escaped
<1> HIDE DEF pieces, n
<1>5. PICK flat : IsFlattening(flat, pieces, Characters) /\ FlattenSeq(pieces) = flat[n]
  BY <1>2, FlattenPrefixes DEF Texts
<1> DEFINE T == {i \in Nat : i <= n => IsEscapeOf(flat[i], SubSeq(s, 1, i))}
<1>6. 0 \in T
  <2>1. SubSeq(s, 1, 0) = <<>>
    BY SubSeqEmpty
  <2>2. flat[0] = <<>>
    BY <1>5 DEF IsFlattening
  <2> QED BY <2>1, <2>2, EmptyIsEscaped
<1>7. ASSUME NEW i \in Nat, i \in T PROVE i + 1 \in T
  <2> SUFFICES ASSUME i + 1 <= n PROVE IsEscapeOf(flat[i + 1], SubSeq(s, 1, i + 1))
    OBVIOUS
  <2>1. IsEscapeOf(flat[i], SubSeq(s, 1, i)) /\ i + 1 \in 1 .. n /\ (i + 1) - 1 = i /\ s[i + 1] \in Characters
    BY <1>1, <1>7
  <2>2. flat[i + 1] = flat[i] \o pieces[i + 1]
    BY <1>2, <1>5, <2>1 DEF IsFlattening
  <2>3. SubSeq(s, 1, i + 1) = Append(SubSeq(s, 1, i), s[i + 1])
    <3>1. SubSeq(s, 1, i + 1) = SubSeq(s, 1, (i + 1) - 1) \o <<s[i + 1]>>
      <4>1. s \in Seq(Characters) /\ 1 \in 1 .. Len(s) /\ i + 1 \in 1 .. Len(s)
        BY <1>1, <2>1 DEF Texts, n
      <4> QED BY <4>1, SubSeqRecursiveSecond
    <3>2. SubSeq(s, 1, i) \in Seq(Characters)
      BY <2>1 DEF IsEscapeOf, Texts
    <3> QED BY <2>1, <3>1, <3>2
  <2>4. CASE s[i + 1] = "q"
    BY <1>3, <2>1, <2>2, <2>3, <2>4, QuoteIsEscaped
  <2>5. CASE s[i + 1] # "q"
    BY <1>3, <2>1, <2>2, <2>3, <2>5, PlainIsEscaped
  <2> QED BY <2>4, <2>5
<1>8. Nat \subseteq T
  <2> HIDE DEF T
  <2> QED BY <1>6, <1>7, NatSetInduction
<1>9. IsEscapeOf(flat[n], SubSeq(s, 1, n))
  BY <1>1, <1>8
<1>10. SubSeq(s, 1, n) = s
  BY SubSeqFull DEF Texts, n
<1> QED BY <1>4, <1>5, <1>9, <1>10

-----------------------------------------------------------------------------
(* The field at a place of a line.                                        *)
\* Min is the least element.
LEMMA MinIs ==
  ASSUME NEW S, S \subseteq Nat, NEW e \in S, \A y \in S : e <= y
  PROVE  Min(S) = e
<1>1. \A x \in S : (\A y \in S : x <= y) => x = e
  OBVIOUS
<1> QED BY <1>1 DEF Min

\* A set of naturals that is not empty has one.
LEMMA MinOf ==
  ASSUME NEW S, S \subseteq Nat, S # {}
  PROVE  Min(S) \in S /\ \A y \in S : Min(S) <= y
BY NatMinimum DEF Min

\* The place of the first character of a kind.
LEMMA FirstIs ==
  ASSUME NEW s \in Texts, NEW S, NEW i \in Nat, NEW e \in i .. Len(s), s[e] \in S,
         \A j \in i .. e - 1 : s[j] \notin S
  PROVE  FirstFrom(s, i, S) = e
<1> DEFINE J == {j \in i .. Len(s) : s[j] \in S} \cup {Len(s) + 1}
<1>1. Len(s) \in Nat
  BY TextType
<1>2. J \subseteq Nat /\ e \in J /\ \A j \in J : e <= j
  BY <1>1
<1> HIDE DEF J
<1>3. Min(J) = e
  BY <1>2, MinIs
<1> QED BY <1>3 DEF FirstFrom, J

\* It is the place behind the end if there is none.
LEMMA FirstType ==
  ASSUME NEW s \in Texts, NEW S, NEW i \in 1 .. Len(s) + 1
  PROVE  /\ FirstFrom(s, i, S) \in i .. Len(s) + 1
         /\ FirstFrom(s, i, S) <= Len(s) => s[FirstFrom(s, i, S)] \in S
         /\ \A j \in i .. Len(s) : s[j] \in S => FirstFrom(s, i, S) <= j
<1> DEFINE J == {j \in i .. Len(s) : s[j] \in S} \cup {Len(s) + 1}
           m == FirstFrom(s, i, S)
<1>1. Len(s) \in Nat
  BY TextType
<1>2. J \subseteq Nat /\ J # {}
  BY <1>1
<1>3. m = Min(J)
  BY DEF FirstFrom
<1>4. m \in J /\ \A j \in J : m <= j
  <2> HIDE DEF J, m
  <2> QED BY <1>2, <1>3, MinOf
<1> HIDE DEF m
<1> QED BY <1>1, <1>4 DEF m

\* A field without quotes.
LEMMA PlainField ==
  ASSUME NEW line \in Texts, NEW i \in 1 .. Len(line), NEW e \in i .. Len(line), line[e] \in {"c", "n"},
         \A j \in i .. e - 1 : line[j] \notin {"c", "n", "q"}
  PROVE  Field(line, i) = [text |-> SubSeq(line, i, e - 1), end |-> e]
<1>1. FirstFrom(line, i, {"c", "n", "q"}) = e
  BY FirstIs
<1>2. line[e] # "q"
  OBVIOUS
<1> QED BY <1>1, <1>2 DEF Field

\* A quoted field.
LEMMA QuotedField ==
  ASSUME NEW line \in Texts, NEW i \in 1 .. Len(line), line[i] = "q", NEW t, NEW f, IsEscapeOf(t, f),
         i + Len(t) + 3 <= Len(line),
         \A k \in 1 .. Len(t) : line[i + k] = t[k],
         line[i + Len(t) + 1] = "q", line[i + Len(t) + 2] = "s", line[i + Len(t) + 3] \in {"c", "n"}
  PROVE  Field(line, i) = [text |-> f, end |-> i + Len(t) + 3]
<1> DEFINE n == Len(t)
           c == i + n + 1
           size == Len(line)
<1>1. n \in Nat /\ size \in Nat /\ i \in Nat /\ i \in 1 .. size /\ t \in Texts /\ f \in Texts /\ Unescaped(t) = f
  BY TextType DEF IsEscapeOf
<1>2. c \in Nat /\ c = i + n + 1 /\ c + 2 = i + n + 3 /\ c + 2 <= size /\ line[c] = "q" /\ line[c + 1] = "s" /\ line[c + 2] \in {"c", "n"}
  <2>1. c + 1 = i + n + 2 /\ c + 2 = i + n + 3
    BY <1>1
  <2> QED BY <1>1, <2>1
<1>3. \A k \in 1 .. n : line[i + k] = t[k]
  OBVIOUS
<1> HIDE DEF n, c, size
<1>4. FirstFrom(line, i, {"c", "n", "q"}) = i
  <2>1. i \in i .. Len(line) /\ \A j \in i .. i - 1 : line[j] \notin {"c", "n", "q"}
    BY <1>1 DEF size
  <2> QED BY <1>1, <2>1, FirstIs
<1>5. ASSUME NEW j \in 0 .. n PROVE Quotes(line, i + 1, i + j) = Quotes(t, 1, j)
  <2>1. i \in Nat /\ n \in Nat /\ IsMoved(line, t, i, n)
    BY <1>1, <1>3 DEF IsMoved
  <2>2. SameQuotes(line, t, i, n)
    BY <2>1, QuotesMoved
  <2> QED BY <2>2 DEF SameQuotes
<1>6. Quotes(line, i + 1, c) % 2 = 1
  <2>1. i + 1 \in Nat /\ i + n \in Nat /\ i + 1 <= (i + n) + 1 /\ (i + n) + 1 = c /\ n \in 0 .. n
    BY <1>1, <1>2
  <2>2. Quotes(line, i + 1, (i + n) + 1) = Quotes(line, i + 1, i + n) + (IF line[(i + n) + 1] = "q" THEN 1 ELSE 0)
    BY <2>1, QuotesStep
  <2>3. Quotes(line, i + 1, i + n) = Quotes(t, 1, n) /\ Quotes(line, i + 1, i + n) \in Nat
    BY <1>5, <2>1, QuotesStep
  <2>4. Quotes(t, 1, n) % 2 = 0
    BY DEF IsEscapeOf, n
  <2>5. (Quotes(t, 1, n) + 1) % 2 = 1
    BY <2>3, <2>4, EvenAndOdd
  <2> QED BY <1>2, <2>1, <2>2, <2>3, <2>5
<1>7. Closing(line, i) = c
  <2> DEFINE K == {k \in i + 1 .. Len(line) - 1 : line[k + 1] # "q" /\ Quotes(line, i + 1, k) % 2 = 1} \cup {Len(line) + 1}
  <2>1. K \subseteq Nat
    BY <1>1 DEF size
  <2>2. c \in K
    <3>1. c \in i + 1 .. Len(line) - 1 /\ line[c + 1] # "q"
      BY <1>1, <1>2 DEF size
    <3> QED BY <1>6, <3>1
  <2>3. ASSUME NEW k \in K PROVE c <= k
    <3> SUFFICES ASSUME k < c PROVE FALSE
      BY <1>1, <1>2, <2>1
    <3>1. k # Len(line) + 1
      BY <1>1, <1>2 DEF size
    <3>2. k \in i + 1 .. Len(line) - 1 /\ line[k + 1] # "q" /\ Quotes(line, i + 1, k) % 2 = 1
      BY <3>1
    <3>3. PICK j \in 1 .. n : k = i + j
      <4>1. k - i \in 1 .. n /\ k = i + (k - i)
        BY <1>1, <1>2, <3>2
      <4> QED BY <4>1
    <3>4. Quotes(t, 1, j) % 2 = 1
      <4>1. j \in 0 .. n
        BY <1>1
      <4> QED BY <1>5, <3>2, <3>3, <4>1
    <3>5. j < n /\ t[j + 1] = "q"
      BY <3>4 DEF IsEscapeOf, n
    <3>6. j + 1 \in 1 .. n /\ i + (j + 1) = k + 1
      BY <1>1, <3>3, <3>5
    <3>7. line[k + 1] = t[j + 1]
      BY <1>3, <3>6
    <3> QED BY <3>2, <3>5, <3>7
  <2> HIDE DEF K
  <2>4. Min(K) = c
    BY <2>1, <2>2, <2>3, MinIs
  <2> QED BY <2>4 DEF Closing, K
<1>8. Min({j \in c + 1 .. Len(line) : line[j] \notin Blank} \cup {Len(line)}) = c + 2
  <2> DEFINE J == {j \in c + 1 .. Len(line) : line[j] \notin Blank} \cup {Len(line)}
  <2>1. J \subseteq Nat
    BY <1>1, <1>2 DEF size
  <2>2. c + 2 \in J
    BY <1>1, <1>2 DEF size, Blank
  <2>3. \A j \in J : c + 2 <= j
    BY <1>1, <1>2 DEF size, Blank
  <2> HIDE DEF J
  <2>4. Min(J) = c + 2
    BY <2>1, <2>2, <2>3, MinIs
  <2> QED BY <2>4 DEF J
<1>9. SubSeq(line, i + 1, c - 1) = t
  <2>1. line \in Seq(Characters) /\ t \in Seq(Characters)
    BY <1>1 DEF Texts
  <2>2. i + 1 \in Nat /\ 1 <= i + 1 /\ c - 1 \in Int /\ c - 1 = (i + 1) + n - 1 /\ c - 1 <= size
    BY <1>1, <1>2
  <2>3. IsPart(t, line, i + 1)
    <3> SUFFICES ASSUME NEW k \in 1 .. n PROVE line[(i + 1) + k - 1] = t[k]
      BY DEF IsPart, n
    <3>1. (i + 1) + k - 1 = i + k
      BY <1>1
    <3> QED BY <1>3, <3>1
  <2> DEFINE p == i + 1
             e == c - 1
  <2>4. p \in Nat /\ 1 <= p /\ e \in Int /\ e = p + Len(t) - 1 /\ e <= Len(line) /\ IsPart(t, line, p)
    BY <2>2, <2>3 DEF n, size
  <2> HIDE DEF p, e
  <2>5. SubSeq(line, p, e) = t
    BY <2>1, <2>4, PartIs
  <2> QED BY <2>5 DEF p, e
<1>10. SubSeq(line, i, i - 1) \o Unescaped(t) = f
  <2>1. SubSeq(line, i, i - 1) = <<>>
    BY <1>1, SubSeqEmpty
  <2> QED BY <1>1, <2>1, ConcatEmptySeq DEF Texts
<1>11. ~(c > Len(line)) /\ line[c + 2] \in {"c", "n"}
  BY <1>1, <1>2 DEF size
<1>12. Field(line, i) = [text |-> f, end |-> c + 2]
  BY <1>4, <1>7, <1>8, <1>9, <1>10, <1>11 DEF Field
<1> QED BY <1>2, <1>12 DEF n

\* A quoted field whose line ends within it.
LEMMA UnclosedField ==
  ASSUME NEW line \in Texts, NEW i \in 1 .. Len(line), line[i] = "q", NEW t, NEW f, IsEscapeOf(t, f),
         Len(line) - i \in 1 .. Len(t), \A k \in 1 .. Len(line) - i : line[i + k] = t[k]
  PROVE  Field(line, i).end = 0
<1> DEFINE n == Len(line) - i
           size == Len(line)
<1>1. n \in Nat /\ size \in Nat /\ i \in Nat /\ size = i + n /\ i \in 1 .. size /\ Len(t) \in Nat /\ n <= Len(t)
  BY TextType DEF IsEscapeOf
<1>2. FirstFrom(line, i, {"c", "n", "q"}) = i
  <2>1. i \in i .. Len(line) /\ \A j \in i .. i - 1 : line[j] \notin {"c", "n", "q"}
    BY <1>1
  <2> QED BY <1>1, <2>1, FirstIs
<1>3. \A k \in 1 .. n : line[i + k] = t[k]
  OBVIOUS
<1> HIDE DEF n, size
<1>4. SameQuotes(line, t, i, n)
  BY <1>1, <1>3, QuotesMoved DEF IsMoved
<1>5. Closing(line, i) = size + 1
  <2> DEFINE K == {k \in i + 1 .. Len(line) - 1 : line[k + 1] # "q" /\ Quotes(line, i + 1, k) % 2 = 1} \cup {Len(line) + 1}
  <2>1. K \subseteq Nat /\ size + 1 \in K
    BY <1>1 DEF size
  <2>2. ASSUME NEW k \in K PROVE size + 1 <= k
    <3> SUFFICES ASSUME k # size + 1 PROVE FALSE
      BY <1>1
    <3>1. k \in i + 1 .. size - 1 /\ line[k + 1] # "q" /\ Quotes(line, i + 1, k) % 2 = 1
      BY DEF size
    <3> DEFINE j == k - i
    <3>2. j \in 0 .. n /\ j \in 1 .. Len(t) /\ k = i + j /\ j + 1 \in 1 .. n /\ i + (j + 1) = k + 1
      BY <1>1, <3>1
    <3> HIDE DEF j
    <3>3. Quotes(t, 1, j) % 2 = 1
      BY <1>4, <3>1, <3>2 DEF SameQuotes
    <3>4. t[j + 1] = "q"
      BY <3>2, <3>3 DEF IsEscapeOf
    <3> QED BY <1>3, <3>1, <3>2, <3>4
  <2> HIDE DEF K
  <2>3. Min(K) = size + 1
    BY <2>1, <2>2, MinIs
  <2> QED BY <2>3 DEF Closing, K
<1>6. size + 1 > Len(line)
  BY <1>1 DEF size
<1>7. Field(line, i) = [text |-> <<>>, end |-> 0]
  BY <1>2, <1>5, <1>6 DEF Field
<1> QED BY <1>7

-----------------------------------------------------------------------------
(* Written fields.                                                         *)
\* The texts without a line break.
Inner == Characters \ {"n"}
Inside == Seq(Inner)

\* Inside are the texts without a line break.
LEMMA InsideType ==
  /\ Inside \subseteq Texts /\ Inner \subseteq Characters /\ {"q", "c", "s"} \subseteq Inner
  /\ \A t \in Inside : \A k \in 1 .. Len(t) : t[k] # "n"
  /\ <<>> \in Inside /\ <<"q">> \in Inside /\ <<"q", "s">> \in Inside /\ <<"c">> \in Inside /\ <<"q", "q">> \in Inside
<1>1. Inner \subseteq Characters /\ {"q", "c", "s"} \subseteq Inner
  BY CharactersKnown DEF Inner
<1>2. <<>> \in Inside /\ <<"q">> \in Inside /\ <<"q", "s">> \in Inside /\ <<"c">> \in Inside /\ <<"q", "q">> \in Inside
  <2>1. "q" \in Inner /\ "c" \in Inner /\ "s" \in Inner
    BY <1>1
  <2> QED BY <2>1 DEF Inside
<1>3. Inside \subseteq Texts
  BY <1>1 DEF Inside, Texts
<1>4. \A t \in Inside : \A k \in 1 .. Len(t) : t[k] # "n"
  <2> SUFFICES ASSUME NEW t \in Inside, NEW k \in 1 .. Len(t) PROVE t[k] # "n"
    OBVIOUS
  <2>1. t[k] \in Inner
    BY DEF Inside
  <2> QED BY <2>1 DEF Inner
<1> QED BY <1>1, <1>2, <1>3, <1>4

\* A field is a text, and one of these if it has no line break.
LEMMA FieldsType ==
  ASSUME NEW f \in Fields
  PROVE  f \in Texts /\ ("n" \notin Range(f) => f \in Inside)
<1>1. f \in Texts /\ Len(f) \in Nat /\ DOMAIN f = 1 .. Len(f) /\ \A k \in 1 .. Len(f) : f[k] \in Characters
  <2> DEFINE A == STRING
  <2>1. A \subseteq Characters /\ f \in Seq(A)
    BY CharactersKnown DEF Fields
  <2> HIDE DEF A
  <2> QED BY <2>1 DEF Texts
<1>2. ASSUME "n" \notin Range(f) PROVE f \in Inside
  <2>1. \A k \in 1 .. Len(f) : f[k] \in Inner
    BY <1>1, <1>2 DEF Range, Inner
  <2>2. f = [k \in 1 .. Len(f) |-> f[k]]
    BY <1>1 DEF Texts
  <2> QED BY <1>1, <2>1, <2>2 DEF Inside
<1> QED BY <1>1, <1>2

\* Escaping brings in nothing but quotes.
LEMMA EscapedType ==
  ASSUME NEW C, "q" \in C, NEW s \in Seq(C)
  PROVE  Escaped(s) \in Seq(C)
<1> DEFINE pieces == [i \in DOMAIN s |-> IF s[i] = "q" THEN <<"q", "q">> ELSE <<s[i]>>]
<1>1. DOMAIN s = 1 .. Len(s) /\ Len(s) \in Nat /\ \A i \in 1 .. Len(s) : <<s[i]>> \in Seq(C)
  OBVIOUS
<1>2. <<"q", "q">> \in Seq(C)
  OBVIOUS
<1>3. pieces \in [1 .. Len(s) -> Seq(C)]
  BY <1>1, <1>2
<1>4. pieces \in Seq(Seq(C))
  BY <1>1, <1>3
<1> HIDE DEF pieces
<1>5. FlattenSeq(pieces) \in Seq(C)
  BY <1>4, FlattenElements
<1> QED BY <1>5 DEF Escaped, pieces

\* And what has no line break when it is escaped had none before.
LEMMA UnescapedInside ==
  ASSUME NEW t \in Inside
  PROVE  Unescaped(t) \in Inside
<1>1. t \in Texts /\ Len(t) \in Nat /\ DOMAIN t = 1 .. Len(t) /\ \A k \in 1 .. Len(t) : t[k] \in Inner
  BY InsideType DEF Inside
<1>2. Pieces(t) \in [1 .. Len(t) -> Inside]
  <2>1. \A k \in 1 .. Len(t) : <<t[k]>> \in Inside
    BY <1>1 DEF Inside
  <2> QED BY <1>1, <2>1, InsideType DEF Pieces
<1>3. Pieces(t) \in Seq(Inside)
  BY <1>1, <1>2
<1>4. FlattenSeq(Pieces(t)) \in Inside
  BY <1>3, FlattenElements DEF Inside
<1> QED BY <1>1, <1>4, PiecesType

\* What is between the quotes of a quoted field, and the characters around it.
LEMMA QuotedShape ==
  ASSUME NEW C, {"q", "s"} \subseteq C, NEW t \in Seq(C)
  PROVE  LET w == <<"q">> \o t \o <<"q", "s">>
         IN  /\ w \in Seq(C) /\ Len(w) = Len(t) + 3 /\ Len(t) \in Nat /\ w[1] = "q"
             /\ \A k \in 1 .. Len(t) : w[k + 1] = t[k]
             /\ w[Len(t) + 2] = "q" /\ w[Len(t) + 3] = "s"
<1> DEFINE a == <<"q">> \o t
           w == a \o <<"q", "s">>
<1>1. <<"q">> \in Seq(C) /\ <<"q", "s">> \in Seq(C) /\ Len(<<"q">>) = 1 /\ Len(<<"q", "s">>) = 2
  OBVIOUS
<1>2. /\ a \in Seq(C) /\ Len(a) = Len(t) + 1 /\ Len(t) \in Nat
      /\ \A i \in 1 .. 1 + Len(t) : a[i] = IF i <= 1 THEN <<"q">>[i] ELSE t[i - 1]
  BY <1>1, ConcatProperties
<1>3. a[1] = "q" /\ \A k \in 1 .. Len(t) : a[k + 1] = t[k]
  <2> HIDE DEF a
  <2>1. a[1] = "q"
    BY <1>2
  <2>2. ASSUME NEW k \in 1 .. Len(t) PROVE a[k + 1] = t[k]
    <3>1. k + 1 \in 1 .. 1 + Len(t) /\ ~(k + 1 <= 1) /\ (k + 1) - 1 = k
      BY <1>2
    <3> QED BY <1>2, <3>1
  <2> QED BY <2>1, <2>2
<1> HIDE DEF a
<1>4. /\ w \in Seq(C) /\ Len(w) = Len(t) + 3
      /\ \A i \in 1 .. Len(a) + 2 : w[i] = IF i <= Len(a) THEN a[i] ELSE <<"q", "s">>[i - Len(a)]
  <2>1. /\ w \in Seq(C) /\ Len(w) = Len(a) + Len(<<"q", "s">>)
        /\ \A i \in 1 .. Len(a) + Len(<<"q", "s">>) : w[i] = IF i <= Len(a) THEN a[i] ELSE <<"q", "s">>[i - Len(a)]
    BY <1>1, <1>2, ConcatProperties
  <2> HIDE DEF w
  <2> QED BY <1>1, <1>2, <2>1
<1> HIDE DEF w
<1>5. w[Len(t) + 2] = "q" /\ w[Len(t) + 3] = "s"
  <2>1. /\ Len(t) + 2 \in 1 .. Len(a) + 2 /\ ~(Len(t) + 2 <= Len(a)) /\ (Len(t) + 2) - Len(a) = 1
        /\ Len(t) + 3 \in 1 .. Len(a) + 2 /\ ~(Len(t) + 3 <= Len(a)) /\ (Len(t) + 3) - Len(a) = 2
    BY <1>2
  <2>2. <<"q", "s">>[1] = "q" /\ <<"q", "s">>[2] = "s"
    OBVIOUS
  <2> QED BY <1>4, <2>1, <2>2
<1>6. w[1] = "q" /\ \A k \in 1 .. Len(t) : w[k + 1] = t[k]
  BY <1>2, <1>3, <1>4
<1> QED BY <1>2, <1>4, <1>5, <1>6 DEF w, a

\* What a field is written as: itself, or its escape in quotes.
LEMMA WrittenType ==
  ASSUME NEW f \in Fields, NEW quoted \in BOOLEAN
  PROVE  /\ Written(f, quoted) \in Texts
         /\ "n" \notin Range(f) => Written(f, quoted) \in Inside
         /\ "n" \in Range(f) => Written(f, quoted) = <<"q">> \o Escaped(f) \o <<"q", "s">>
         /\ \/ Written(f, quoted) = f /\ Range(f) \cap {"c", "q", "n"} = {}
            \/ Written(f, quoted) = <<"q">> \o Escaped(f) \o <<"q", "s">>
<1>1. f \in Seq(Characters) /\ ("n" \notin Range(f) => f \in Seq(Inner))
  BY FieldsType DEF Texts, Inside
<1>2. {"q", "s"} \subseteq Characters /\ {"q", "s"} \subseteq Inner
  BY CharactersKnown, InsideType
<1>3. <<"q">> \o Escaped(f) \o <<"q", "s">> \in Seq(Characters)
  BY <1>1, <1>2, EscapedType, QuotedShape
<1>4. "n" \notin Range(f) => <<"q">> \o Escaped(f) \o <<"q", "s">> \in Seq(Inner)
  BY <1>1, <1>2, EscapedType, QuotedShape
<1> QED BY <1>1, <1>3, <1>4 DEF Written, Texts, Inside

\* A field is read back from where it was written.
LEMMA WrittenIsRead ==
  ASSUME NEW f \in Fields, NEW quoted \in BOOLEAN, NEW line \in Texts, NEW i \in 1 .. Len(line),
         i + Len(Written(f, quoted)) <= Len(line),
         \A k \in 1 .. Len(Written(f, quoted)) : line[i + k - 1] = Written(f, quoted)[k],
         line[i + Len(Written(f, quoted))] \in {"c", "n"}
  PROVE  Field(line, i) = [text |-> f, end |-> i + Len(Written(f, quoted))]
<1> DEFINE w == Written(f, quoted)
           n == Len(w)
<1>1. Len(line) \in Nat /\ i \in Nat /\ f \in Texts /\ w \in Texts /\ n \in Nat
  BY FieldsType, WrittenType, TextType
<1>2. i + n <= Len(line) /\ (\A k \in 1 .. n : line[i + k - 1] = w[k]) /\ line[i + n] \in {"c", "n"}
  OBVIOUS
<1> HIDE DEF w, n
<1>3. CASE quoted \/ Range(f) \cap {"c", "q", "n"} # {}
  <2> DEFINE t == Escaped(f)
             m == Len(t)
  <2>1. w = <<"q">> \o t \o <<"q", "s">>
    BY <1>3 DEF Written, w
  <2>2. t \in Seq(Characters) /\ IsEscapeOf(t, f) /\ {"q", "s"} \subseteq Characters
    BY <1>1, CharactersKnown, EscapedType, EscapedIsReadBack DEF Texts
  <2> HIDE DEF t
  <2>3. /\ n = m + 3 /\ m \in Nat /\ w[1] = "q"
        /\ \A k \in 1 .. m : w[k + 1] = t[k]
        /\ w[m + 2] = "q" /\ w[m + 3] = "s"
    BY <2>1, <2>2, QuotedShape DEF n
  <2> HIDE DEF m
  <2>4. line[i] = "q"
    <3>1. 1 \in 1 .. n /\ i + 1 - 1 = i
      BY <1>1, <2>3
    <3> QED BY <1>2, <2>3, <3>1
  <2>5. ASSUME NEW k \in 1 .. m PROVE line[i + k] = t[k]
    <3>1. k + 1 \in 1 .. n /\ i + (k + 1) - 1 = i + k
      BY <1>1, <2>3
    <3> QED BY <1>2, <2>3, <3>1
  <2>6. line[i + m + 1] = "q" /\ line[i + m + 2] = "s"
    <3>1. /\ m + 2 \in 1 .. n /\ i + (m + 2) - 1 = i + m + 1
          /\ m + 3 \in 1 .. n /\ i + (m + 3) - 1 = i + m + 2
      BY <1>1, <2>3
    <3> QED BY <1>2, <2>3, <3>1
  <2>7. i + m + 3 = i + n /\ i + m + 3 <= Len(line) /\ line[i + m + 3] \in {"c", "n"}
    <3>1. i + m + 3 = i + n
      BY <1>1, <2>3
    <3> QED BY <1>2, <3>1
  <2>8. Field(line, i) = [text |-> f, end |-> i + m + 3]
    BY <2>2, <2>4, <2>5, <2>6, <2>7, QuotedField DEF m
  <2> QED BY <2>7, <2>8 DEF w, n
<1>4. CASE ~(quoted \/ Range(f) \cap {"c", "q", "n"} # {})
  <2>1. w = f
    BY <1>4 DEF Written, w
  <2>2. ASSUME NEW k \in 1 .. n PROVE f[k] \notin {"c", "n", "q"}
    <3>1. f[k] \in Range(f)
      BY <1>1, <2>1 DEF Range, n, Texts
    <3> QED BY <1>4, <3>1
  <2>3. i + n \in i .. Len(line) /\ (i + n) - 1 \in Int
    BY <1>1, <1>2
  <2>4. ASSUME NEW j \in i .. (i + n) - 1 PROVE line[j] \notin {"c", "n", "q"}
    <3> DEFINE k == j - i + 1
    <3>1. k \in 1 .. n /\ i + k - 1 = j
      BY <1>1
    <3> HIDE DEF k
    <3>2. line[j] = f[k]
      BY <1>2, <2>1, <3>1
    <3> QED BY <2>2, <3>1, <3>2
  <2>5. Field(line, i) = [text |-> SubSeq(line, i, (i + n) - 1), end |-> i + n]
    BY <1>2, <2>3, <2>4, PlainField
  <2>6. SubSeq(line, i, (i + n) - 1) = f
    <3> DEFINE e == (i + n) - 1
    <3>1. line \in Seq(Characters) /\ f \in Seq(Characters)
      BY FieldsType DEF Texts
    <3>2. e \in Int /\ e = i + Len(f) - 1 /\ e <= Len(line) /\ i \in Nat /\ 1 <= i
      BY <1>1, <1>2, <2>1 DEF n
    <3>3. IsPart(f, line, i)
      BY <1>2, <2>1 DEF IsPart, n
    <3> HIDE DEF e
    <3>4. SubSeq(line, i, e) = f
      BY <3>1, <3>2, <3>3, PartIs
    <3> QED BY <3>4 DEF e
  <2> QED BY <2>5, <2>6 DEF n, w
<1> QED BY <1>3, <1>4

-----------------------------------------------------------------------------
(* Lines.                                                                  *)
\* A part of a text is a text.
LEMMA PartType ==
  ASSUME NEW s \in Texts, NEW i \in Nat, NEW e \in Int, 1 <= i, e <= Len(s)
  PROVE  SubSeq(s, i, e) \in Texts
<1>1. \A k \in i .. e : s[k] \in Characters
  BY TextType
<1> QED BY <1>1, SubSeqProperties DEF Texts

\* A field ends behind its first character and within its line.
LEMMA FieldType ==
  ASSUME NEW line \in Texts, NEW i \in 1 .. Len(line), line[Len(line)] = "n"
  PROVE  Field(line, i).text \in Texts /\ Field(line, i).end \in {0} \cup (i .. Len(line))
<1> DEFINE n == Len(line)
           stop == FirstFrom(line, i, {"c", "n", "q"})
           close == Closing(line, stop)
           N == {j \in close + 1 .. n : line[j] \notin Blank} \cup {n}
           next == Min(N)
           text == SubSeq(line, i, stop - 1) \o Unescaped(SubSeq(line, stop + 1, close - 1))
<1>1. n \in Nat /\ i \in Nat /\ 1 <= i /\ i <= n /\ line[n] \in {"c", "n", "q"} /\ <<>> \in Texts
  BY TextType
<1>2. stop \in i .. n
  <2>1. i \in 1 .. n + 1 /\ n \in i .. n
    BY <1>1
  <2>2. stop \in i .. n + 1 /\ stop <= n
    BY <1>1, <2>1, FirstType
  <2> HIDE DEF stop
  <2> QED BY <1>1, <2>2
<1> HIDE DEF n
<1>3. SubSeq(line, i, stop - 1) \in Texts
  <2> HIDE DEF stop
  <2> QED BY <1>1, <1>2, PartType DEF n
<1>4. CASE line[stop] # "q"
  <2>1. Field(line, i) = [text |-> SubSeq(line, i, stop - 1), end |-> stop]
    BY <1>4 DEF Field
  <2> HIDE DEF stop
  <2> QED BY <1>2, <1>3, <2>1 DEF n
<1>5. CASE line[stop] = "q"
  <2>1. Field(line, i) = IF close > n \/ line[next] \notin {"c", "n"} THEN [text |-> <<>>, end |-> 0]
                         ELSE [text |-> text, end |-> next]
    BY <1>5 DEF Field, n
  <2>2. CASE close > n \/ line[next] \notin {"c", "n"}
    <3>1. Field(line, i) = [text |-> <<>>, end |-> 0]
      BY <2>1, <2>2
    <3> QED BY <1>1, <3>1
  <2>3. CASE ~(close > n \/ line[next] \notin {"c", "n"})
    <3>1. Field(line, i) = [text |-> text, end |-> next]
      BY <2>1, <2>3
    <3>2. close \in Nat /\ close >= i
      <4> DEFINE K == {k \in stop + 1 .. n - 1 : line[k + 1] # "q" /\ Quotes(line, stop + 1, k) % 2 = 1} \cup {n + 1}
      <4>1. close = Min(K)
        BY DEF Closing, n
      <4> HIDE DEF stop, close
      <4>2. K \subseteq Nat /\ K # {} /\ \A k \in K : k >= i
        BY <1>1, <1>2
      <4> HIDE DEF K
      <4>3. Min(K) \in K
        BY <4>2, MinOf
      <4> QED BY <4>1, <4>2, <4>3
    <3> HIDE DEF close
    <3>3. next \in i .. n
      <4>1. N \subseteq Nat /\ N # {} /\ \A k \in N : k \in i .. n
        BY <1>1, <3>2
      <4> HIDE DEF N
      <4>2. Min(N) \in N
        BY <4>1, MinOf
      <4> QED BY <4>1, <4>2
    <3>4. text \in Texts
      <4> DEFINE a == SubSeq(line, i, stop - 1)
                 b == SubSeq(line, stop + 1, close - 1)
      <4>1. b \in Texts
        <5>1. stop + 1 \in Nat /\ 1 <= stop + 1 /\ close - 1 \in Int /\ close - 1 <= n
          <6> HIDE DEF stop
          <6> QED BY <1>1, <1>2, <2>3, <3>2
        <5> HIDE DEF stop
        <5> QED BY <5>1, PartType DEF n
      <4>2. Unescaped(b) \in Texts
        <5> HIDE DEF b
        <5> QED BY <4>1, PiecesType
      <4>3. a \in Texts
        BY <1>3
      <4> HIDE DEF a, b
      <4>4. a \o Unescaped(b) \in Texts
        BY <4>2, <4>3, ConcatProperties DEF Texts
      <4> QED BY <4>4 DEF a, b
    <3> HIDE DEF next, text
    <3> QED BY <3>1, <3>3, <3>4 DEF n
  <2> QED BY <2>2, <2>3
<1> QED BY <1>4, <1>5

\* What a line gives from a place on, field by field.
ReadsFrom(line, from) ==
  \A i \in 1 .. Len(line) :
    from[i] = IF Field(line, i).end = 0 THEN IllFormed
              ELSE IF line[Field(line, i).end] = "n" THEN <<Field(line, i).text>>
              ELSE IF from[Field(line, i).end + 1] = IllFormed THEN IllFormed
              ELSE <<Field(line, i).text>> \o from[Field(line, i).end + 1]

\* csv_parse_line reads one field after the other, each from where the last one ended.
LEMMA LineIsRead ==
  ASSUME NEW line \in Texts, Len(line) >= 1, line[Len(line)] = "n"
  PROVE  \E from : ReadsFrom(line, from) /\ ParseLine(line) = from[1]
<1> DEFINE n == Len(line)
           W == Seq(Texts)
           E(i) == Field(line, i).end
           X(i) == Field(line, i).text
           OneField(i, rest) == IF E(i) = 0 THEN IllFormed
                                ELSE IF line[E(i)] = "n" THEN <<X(i)>>
                                ELSE IF rest = IllFormed THEN IllFormed ELSE <<X(i)>> \o rest
           Body(g) == [i \in 1 .. n |-> OneField(i, g[E(i) + 1])]
           Goes(i) == E(i) # 0 /\ line[E(i)] # "n"
           next == [i \in 1 .. n |-> IF Goes(i) THEN E(i) + 1 ELSE n + 1]
           step == [x \in (1 .. n) \X W |-> OneField(x[1], x[2])]
           from == CHOOSE g : g = Body(g)
<1>1. n \in Nat /\ n >= 1 /\ line[n] = "n"
  BY TextType
<1>2. ParseLine(line) = from[1]
  BY DEF ParseLine
<1>3. \A i \in 1 .. n : X(i) \in Texts /\ E(i) \in {0} \cup (i .. n)
  BY FieldType
<1> HIDE DEF E, X, n
<1>4. \A i \in 1 .. n : Goes(i) => E(i) \in i .. n - 1
  BY <1>1, <1>3
<1>5. next \in [1 .. n -> Nat] /\ \A i \in 1 .. n : i < next[i] /\ next[i] <= n + 1
  BY <1>1, <1>3, <1>4
<1>6. <<>> \in W /\ \A i \in 1 .. n : \A w \in W : <<X(i)>> \o w \in W /\ <<X(i)>> \in W
  <2>1. \A i \in 1 .. n : <<X(i)>> \in Seq(Texts)
    BY <1>3
  <2> QED BY <2>1, EmptyElements, ConcatProperties
<1>7. step \in [(1 .. n) \X W -> W]
  <2> HIDE DEF W
  <2>1. \A i \in 1 .. n : \A w \in W : OneField(i, w) \in W
    BY <1>6 DEF IllFormed
  <2> HIDE DEF OneField
  <2> QED BY <2>1
<1>8. \A i \in 1 .. n : \A w \in W : step[<<i, w>>] = OneField(i, w)
  <2> HIDE DEF OneField, W
  <2> QED OBVIOUS
<1> HIDE DEF next, step, W
<1>9. PICK f : Descends(f, n, W, next, step)
  <2>1. LooksAhead(next, n)
    BY <1>5 DEF LooksAhead
  <2> QED BY <1>1, <1>6, <1>7, <2>1, DescendingRecursion
<1>10. f \in [1 .. n + 1 -> W] /\ \A i \in 1 .. n : f[i] = step[<<i, f[next[i]]>>]
  BY <1>9 DEF Descends
<1> DEFINE g == [i \in 1 .. n |-> f[i]]
<1>11. ASSUME NEW i \in 1 .. n PROVE g[i] = OneField(i, g[E(i) + 1])
  <2>1. f[next[i]] \in W
    BY <1>1, <1>5, <1>10
  <2>2. g[i] = OneField(i, f[next[i]])
    <3> HIDE DEF OneField
    <3> QED BY <1>8, <1>10, <2>1
  <2>3. CASE Goes(i)
    <3>1. next[i] = E(i) + 1
      BY <2>3 DEF next
    <3>2. E(i) + 1 \in 1 .. n
      BY <1>1, <1>4, <2>3
    <3> HIDE DEF OneField
    <3> QED BY <2>2, <3>1, <3>2
  <2>4. CASE ~Goes(i)
    <3> HIDE DEF g
    <3> QED BY <2>2, <2>4
  <2> QED BY <2>3, <2>4
<1>12. g = Body(g)
  <2> HIDE DEF OneField
  <2> QED BY <1>11
<1>13. from = Body(from)
  <2> HIDE DEF Body, g
  <2> QED BY <1>12
<1> HIDE DEF from
<1>14. ASSUME NEW i \in 1 .. n PROVE from[i] = OneField(i, from[E(i) + 1])
  <2> HIDE DEF OneField
  <2> QED BY <1>13
<1>15. ReadsFrom(line, from)
  BY <1>14 DEF ReadsFrom, E, X, n
<1> QED BY <1>2, <1>15

-----------------------------------------------------------------------------
(* Rows.                                                                   *)
\* What a column adds to a row: a comma before it unless it is the first.
Piece(row, quoted, c) == (IF c > 1 THEN <<"c">> ELSE <<>>) \o Written(row[c], quoted)
PiecesOf(row, quoted) == [c \in DOMAIN row |-> Piece(row, quoted, c)]

\* A column of a row: a comma, unless it is the first, and the written field.
LEMMA PieceShape ==
  ASSUME NEW C, "c" \in C, NEW c, NEW w \in Seq(C), NEW p, p = (IF c > 1 THEN <<"c">> ELSE <<>>) \o w, NEW d, d = IF c > 1 THEN 1 ELSE 0
  PROVE  /\ p \in Seq(C) /\ Len(p) = Len(w) + d
         /\ \A k \in 1 .. Len(w) : p[k + d] = w[k]
         /\ c > 1 => p[1] = "c"
<1>1. <<"c">> \in Seq(C) /\ Len(<<"c">>) = 1 /\ Len(w) \in Nat
  OBVIOUS
<1>2. CASE c > 1
  <2>1. p = <<"c">> \o w /\ d = 1
    BY <1>2
  <2> DEFINE both == <<"c">> \o w
  <2>2. /\ both \in Seq(C) /\ Len(both) = 1 + Len(w)
        /\ \A i \in 1 .. 1 + Len(w) : both[i] = IF i <= 1 THEN <<"c">>[i] ELSE w[i - 1]
    BY <1>1, ConcatProperties
  <2>3. p = both
    BY <2>1
  <2> HIDE DEF both
  <2>4. both[1] = "c"
    BY <1>1, <2>2
  <2>5. ASSUME NEW k \in 1 .. Len(w) PROVE both[k + 1] = w[k]
    <3>1. k + 1 \in 1 .. 1 + Len(w) /\ ~(k + 1 <= 1) /\ (k + 1) - 1 = k
      BY <1>1
    <3> QED BY <2>2, <3>1
  <2>6. both \in Seq(C) /\ Len(both) = Len(w) + d /\ (\A k \in 1 .. Len(w) : both[k + d] = w[k]) /\ both[1] = "c"
    BY <1>1, <2>1, <2>2, <2>4, <2>5
  <2> QED BY <2>3, <2>6
<1>3. CASE ~(c > 1)
  <2>1. p = <<>> \o w /\ d = 0
    BY <1>3
  <2>2. p = w
    BY <1>1, <2>1, ConcatEmptySeq
  <2> QED BY <1>1, <1>3, <2>1, <2>2
<1> QED BY <1>2, <1>3

\* A written row is its columns put together; if no field has a line break, it has none.
LEMMA RowType ==
  ASSUME NEW row \in Rows, NEW quoted \in BOOLEAN
  PROVE  /\ row \in Seq(Fields) /\ Len(row) \in 1 .. MAX_COLUMN_COUNT /\ Len(row) \in Nat /\ DOMAIN row = 1 .. Len(row)
         /\ \A c \in 1 .. Len(row) : row[c] \in Fields /\ Written(row[c], quoted) \in Texts
         /\ PiecesOf(row, quoted) \in Seq(Texts) /\ Len(PiecesOf(row, quoted)) = Len(row)
         /\ \A c \in 1 .. Len(row) : PiecesOf(row, quoted)[c] = Piece(row, quoted, c)
         /\ WrittenRow(row, quoted) = FlattenSeq(PiecesOf(row, quoted))
         /\ WrittenRow(row, quoted) \in Texts
         /\ ~HasLineBreak(row) => WrittenRow(row, quoted) \in Inside
<1>1. /\ row \in Seq(Fields) /\ Len(row) \in 1 .. MAX_COLUMN_COUNT
  BY DEF Rows
<1>2. Len(row) \in Nat /\ DOMAIN row = 1 .. Len(row) /\ \A c \in 1 .. Len(row) : row[c] \in Fields
  BY <1>1
<1>3. ASSUME NEW C, "c" \in C, \A c \in 1 .. Len(row) : Written(row[c], quoted) \in Seq(C)
      PROVE  PiecesOf(row, quoted) \in Seq(Seq(C)) /\ FlattenSeq(PiecesOf(row, quoted)) \in Seq(C)
  <2>1. ASSUME NEW c \in 1 .. Len(row) PROVE Piece(row, quoted, c) \in Seq(C)
    BY <1>3, PieceShape DEF Piece
  <2>2. PiecesOf(row, quoted) \in [1 .. Len(row) -> Seq(C)]
    BY <1>2, <2>1 DEF PiecesOf
  <2>3. PiecesOf(row, quoted) \in Seq(Seq(C))
    BY <1>2, <2>2
  <2> QED BY <2>3, FlattenElements
<1>4. \A c \in 1 .. Len(row) : Written(row[c], quoted) \in Texts
  BY <1>2, WrittenType
<1>5. WrittenRow(row, quoted) = FlattenSeq(PiecesOf(row, quoted))
  BY DEF WrittenRow, PiecesOf, Piece
<1>6. PiecesOf(row, quoted) \in Seq(Texts) /\ WrittenRow(row, quoted) \in Texts
  BY <1>3, <1>4, <1>5, CharactersKnown DEF Texts
<1>7. Len(PiecesOf(row, quoted)) = Len(row) /\ \A c \in 1 .. Len(row) : PiecesOf(row, quoted)[c] = Piece(row, quoted, c)
  <2>1. DOMAIN PiecesOf(row, quoted) = 1 .. Len(row)
    BY <1>2 DEF PiecesOf
  <2> QED BY <1>2, <1>6, <2>1 DEF PiecesOf
<1>8. ASSUME ~HasLineBreak(row) PROVE WrittenRow(row, quoted) \in Inside
  <2>1. ASSUME NEW c \in 1 .. Len(row) PROVE Written(row[c], quoted) \in Inside
    <3>1. "n" \notin Range(row[c])
      BY <1>2, <1>8 DEF HasLineBreak
    <3> QED BY <1>2, <3>1, WrittenType
  <2> QED BY <1>3, <1>5, <2>1, InsideType DEF Inside
<1> QED BY <1>1, <1>2, <1>4, <1>5, <1>6, <1>7, <1>8

\* Where the columns are in the line of a row.
IsPlacing(at, line, row, quoted) ==
  /\ at[1] = 1
  /\ \A c \in 1 .. Len(row) :
       LET w == Written(row[c], quoted)
       IN  /\ at[c] \in 1 .. Len(line) /\ at[c] + Len(w) <= Len(line)
           /\ \A k \in 1 .. Len(w) : line[at[c] + k - 1] = w[k]
           /\ line[at[c] + Len(w)] = IF c < Len(row) THEN "c" ELSE "n"
           /\ c < Len(row) => at[c + 1] = at[c] + Len(w) + 1
           /\ c = Len(row) => at[c] + Len(w) = Len(line)

\* A text and the line break that closes it.
LEMMA LineOfText ==
  ASSUME NEW t \in Texts
  PROVE  /\ t \o <<"n">> \in Texts /\ Len(t \o <<"n">>) = Len(t) + 1 /\ Len(t) \in Nat
         /\ (t \o <<"n">>)[Len(t) + 1] = "n"
         /\ \A k \in 1 .. Len(t) : (t \o <<"n">>)[k] = t[k]
<1>1. "n" \in Characters
  BY CharactersKnown
<1>2. /\ Append(t, "n") \in Texts /\ Len(Append(t, "n")) = Len(t) + 1 /\ Append(t, "n")[Len(t) + 1] = "n"
      /\ \A k \in 1 .. Len(t) : Append(t, "n")[k] = t[k]
      /\ t \o <<"n">> = Append(t, "n") /\ Len(t) \in Nat
  BY <1>1, TextAppend, TextType
<1> QED BY <1>2, Zenon

\* Where the columns of a row stand in its line.
LEMMA RowIsPlaced ==
  ASSUME NEW row \in Rows, NEW quoted \in BOOLEAN, NEW line, line = WrittenRow(row, quoted) \o <<"n">>
  PROVE  \E at : IsPlacing(at, line, row, quoted)
<1> DEFINE m == Len(row)
           W(c) == Written(row[c], quoted)
           pieces == PiecesOf(row, quoted)
           shift(c) == IF c > 1 THEN 1 ELSE 0
<1>1. /\ m \in Nat /\ m >= 1 /\ Len(pieces) = m /\ pieces \in Seq(Seq(Characters))
      /\ \A c \in 1 .. m : W(c) \in Texts /\ Len(W(c)) \in Nat /\ pieces[c] = Piece(row, quoted, c)
      /\ WrittenRow(row, quoted) = FlattenSeq(pieces) /\ WrittenRow(row, quoted) \in Texts
  <2>1. \A c \in 1 .. m : W(c) \in Texts
    BY RowType
  <2>2. \A c \in 1 .. m : Len(W(c)) \in Nat
    BY <2>1, LineOfText
  <2> QED BY <2>1, <2>2, RowType DEF Texts
<1> HIDE DEF pieces
<1>2. PICK flat : IsFlattening(flat, pieces, Characters) /\ WrittenRow(row, quoted) = flat[m]
  BY <1>1, FlattenPrefixes
<1>3. /\ \A c \in 0 .. m : flat[c] \in Seq(Characters) /\ Len(flat[c]) \in Nat
      /\ flat[0] = <<>> /\ \A c \in 1 .. m : flat[c] = flat[c - 1] \o pieces[c]
  <2>1. flat \in [0 .. m -> Seq(Characters)]
    BY <1>1, <1>2 DEF IsFlattening
  <2>2. \A c \in 0 .. m : flat[c] \in Seq(Characters)
    BY <2>1
  <2>3. \A c \in 0 .. m : Len(flat[c]) \in Nat
    BY <2>2
  <2> QED BY <1>1, <1>2, <2>2, <2>3 DEF IsFlattening
<1>4. /\ Len(line) = Len(flat[m]) + 1 /\ line[Len(flat[m]) + 1] = "n"
      /\ \A k \in 1 .. Len(flat[m]) : line[k] = flat[m][k]
  BY <1>1, <1>2, LineOfText
<1>5. ASSUME NEW c \in 1 .. m
      PROVE  /\ Len(pieces[c]) = Len(W(c)) + shift(c)
             /\ \A k \in 1 .. Len(W(c)) : pieces[c][k + shift(c)] = W(c)[k]
             /\ c > 1 => pieces[c][1] = "c"
  <2>1. pieces[c] = (IF c > 1 THEN <<"c">> ELSE <<>>) \o W(c) /\ W(c) \in Texts
    BY <1>1 DEF Piece
  <2> DEFINE w == W(c)
  <2>2. w \in Seq(Characters) /\ "c" \in Characters
    BY <2>1, CharactersKnown DEF Texts
  <2> HIDE DEF W
  <2> QED BY <2>1, <2>2, PieceShape
<1>6. ASSUME NEW c \in 1 .. m
      PROVE  /\ Len(flat[c]) = Len(flat[c - 1]) + Len(pieces[c])
             /\ \A k \in 1 .. Len(pieces[c]) : flat[c][Len(flat[c - 1]) + k] = pieces[c][k]
  <2>1. /\ c - 1 \in 0 .. m /\ flat[c] = flat[c - 1] \o pieces[c] /\ flat[c - 1] \in Seq(Characters) /\ pieces[c] \in Seq(Characters)
        /\ Len(flat[c - 1]) \in Nat /\ Len(pieces[c]) \in Nat
    <3>1. c - 1 \in 0 .. m
      BY <1>1
    <3>2. pieces[c] \in Seq(Characters)
      BY <1>1
    <3>3. Len(pieces[c]) \in Nat
      BY <3>2
    <3> QED BY <1>3, <3>1, <3>2, <3>3
  <2> DEFINE a == flat[c - 1]
             b == pieces[c]
             whole == a \o b
  <2>2. /\ Len(whole) = Len(a) + Len(b)
        /\ \A i \in 1 .. Len(a) + Len(b) : whole[i] = IF i <= Len(a) THEN a[i] ELSE b[i - Len(a)]
    BY <2>1, ConcatProperties
  <2>3. flat[c] = whole /\ Len(a) \in Nat /\ Len(b) \in Nat
    BY <2>1
  <2> HIDE DEF a, b, whole
  <2>4. ASSUME NEW k \in 1 .. Len(b) PROVE whole[Len(a) + k] = b[k]
    <3>1. Len(a) + k \in 1 .. Len(a) + Len(b) /\ ~(Len(a) + k <= Len(a)) /\ (Len(a) + k) - Len(a) = k
      BY <2>3
    <3> QED BY <2>2, <3>1
  <2> QED BY <2>2, <2>3, <2>4 DEF a, b
<1>7. ASSUME NEW c \in 0 .. m
      PROVE  /\ Len(flat[c]) <= Len(flat[m])
             /\ \A k \in 1 .. Len(flat[c]) : line[k] = flat[c][k]
  <2>1. StartsWith(flat[m], flat[c])
    <3>1. c \in 0 .. Len(pieces) /\ m \in c .. Len(pieces)
      BY <1>1
    <3> QED BY <1>1, <1>2, <3>1, FlattenPlaces
  <2>2. Len(flat[c]) <= Len(flat[m]) /\ \A k \in 1 .. Len(flat[c]) : flat[m][k] = flat[c][k]
    BY <2>1 DEF StartsWith
  <2>3. \A k \in 1 .. Len(flat[c]) : k \in 1 .. Len(flat[m])
    <3>1. m \in 0 .. m /\ Len(flat[m]) \in Nat /\ Len(flat[c]) \in Nat
      BY <1>1, <1>3
    <3> QED BY <2>2, <3>1
  <2> QED BY <1>4, <2>2, <2>3
<1> DEFINE at == [c \in 1 .. m |-> Len(flat[c - 1]) + 1 + shift(c)]
<1>8. at[1] = 1
  <2>1. 1 \in 1 .. m /\ 1 - 1 = 0 /\ Len(flat[0]) = 0
    BY <1>1, <1>3
  <2> QED BY <2>1
<1>9. ASSUME NEW c \in 1 .. m
      PROVE  /\ at[c] \in 1 .. Len(line) /\ at[c] + Len(W(c)) <= Len(line)
             /\ \A k \in 1 .. Len(W(c)) : line[at[c] + k - 1] = W(c)[k]
             /\ line[at[c] + Len(W(c))] = IF c < m THEN "c" ELSE "n"
             /\ c < m => at[c + 1] = at[c] + Len(W(c)) + 1
             /\ c = m => at[c] + Len(W(c)) = Len(line)
  <2> DEFINE before == Len(flat[c - 1])
             w == W(c)
             d == shift(c)
  <2>1. /\ before \in Nat /\ Len(w) \in Nat /\ d \in {0, 1} /\ c \in 0 .. m /\ c - 1 \in 0 .. m
        /\ Len(flat[c]) \in Nat /\ Len(flat[m]) \in Nat
    <3>1. c \in 0 .. m /\ c - 1 \in 0 .. m /\ m \in 0 .. m
      BY <1>1
    <3>2. Len(w) \in Nat
      BY <1>1
    <3> HIDE DEF w
    <3> QED BY <1>3, <3>1, <3>2
  <2>2. at[c] = before + 1 + d
    OBVIOUS
  <2>3. Len(flat[c]) = before + Len(w) + d /\ Len(flat[c]) <= Len(flat[m])
    <3>1. Len(flat[c]) = before + Len(pieces[c]) /\ Len(pieces[c]) = Len(w) + d
      BY <1>5, <1>6
    <3>2. Len(flat[c]) <= Len(flat[m])
      BY <1>7, <2>1
    <3> HIDE DEF before, w, d
    <3> QED BY <2>1, <3>1, <3>2
  <2> HIDE DEF at
  <2>4. at[c] \in 1 .. Len(line) /\ at[c] + Len(w) = Len(flat[c]) + 1 /\ at[c] + Len(w) <= Len(line)
    <3> HIDE DEF before, w, d
    <3> QED BY <1>4, <2>1, <2>2, <2>3
  <2>5. ASSUME NEW k \in 1 .. Len(w) PROVE line[at[c] + k - 1] = w[k]
    <3>1. pieces[c][k + d] = w[k] /\ Len(pieces[c]) = Len(w) + d
      BY <1>5
    <3>2. \A j \in 1 .. Len(pieces[c]) : flat[c][before + j] = pieces[c][j]
      BY <1>6
    <3>3. \A j \in 1 .. Len(flat[c]) : line[j] = flat[c][j]
      BY <1>7, <2>1
    <3> HIDE DEF before, w, d
    <3>4. /\ k + d \in 1 .. Len(w) + d /\ before + (k + d) \in 1 .. Len(flat[c])
          /\ at[c] + k - 1 = before + (k + d)
      BY <2>1, <2>2, <2>3
    <3> QED BY <3>1, <3>2, <3>3, <3>4
  <2>6. line[at[c] + Len(w)] = IF c < m THEN "c" ELSE "n"
    <3>1. CASE c < m
      <4>1. c + 1 \in 1 .. m /\ c + 1 \in 0 .. m /\ (c + 1) - 1 = c /\ c + 1 > 1
        BY <1>1, <3>1
      <4>2. Len(pieces[c + 1]) = Len(W(c + 1)) + 1 /\ pieces[c + 1][1] = "c"
        BY <1>5, <4>1
      <4>3. Len(W(c + 1)) \in Nat
        BY <1>1, <4>1
      <4>4. 1 \in 1 .. Len(pieces[c + 1])
        BY <4>2, <4>3
      <4>5. flat[c + 1][Len(flat[c]) + 1] = "c" /\ Len(flat[c + 1]) = Len(flat[c]) + Len(pieces[c + 1])
        BY <1>6, <4>1, <4>2, <4>4
      <4>6. Len(flat[c]) + 1 \in 1 .. Len(flat[c + 1])
        <5> DEFINE x == Len(flat[c])
                   y == Len(W(c + 1))
                   z == Len(flat[c + 1])
        <5>1. x \in Nat /\ y \in Nat /\ z = x + (y + 1)
          BY <2>1, <4>2, <4>3, <4>5
        <5> HIDE DEF x, y, z
        <5>2. x + 1 \in 1 .. z
          BY <5>1
        <5> USE DEF x, z
        <5> QED BY <5>2
      <4>7. line[Len(flat[c]) + 1] = "c"
        BY <1>7, <4>1, <4>5, <4>6
      <4> QED BY <2>4, <3>1, <4>7
    <3>2. CASE ~(c < m)
      <4>1. c = m
        BY <1>1, <3>2
      <4> QED BY <1>4, <2>4, <3>2, <4>1
    <3> QED BY <3>1, <3>2
  <2>7. c < m => at[c + 1] = at[c] + Len(w) + 1
    <3> SUFFICES ASSUME c < m PROVE at[c + 1] = at[c] + Len(w) + 1
      OBVIOUS
    <3>1. c + 1 \in 1 .. m /\ (c + 1) - 1 = c /\ c + 1 > 1
      BY <1>1
    <3>2. at[c + 1] = Len(flat[c]) + 1 + 1
      BY <3>1 DEF at
    <3> QED BY <2>1, <2>4, <3>2
  <2>8. c = m => at[c] + Len(w) = Len(line)
    BY <1>4, <2>4
  <2> QED BY <2>4, <2>5, <2>6, <2>7, <2>8
<1> HIDE DEF at
<1>10. IsPlacing(at, line, row, quoted)
  BY <1>8, <1>9 DEF IsPlacing
<1> QED BY <1>10

\* A row is read back from its line.
LEMMA RowIsRead ==
  ASSUME NEW row \in Rows, NEW quoted \in BOOLEAN
  PROVE  ParseLine(WrittenRow(row, quoted) \o <<"n">>) = row
<1> DEFINE line == WrittenRow(row, quoted) \o <<"n">>
           m == Len(row)
           W(c) == Written(row[c], quoted)
<1>1. /\ m \in Nat /\ m >= 1 /\ row \in Seq(Fields) /\ \A c \in 1 .. m : row[c] \in Fields /\ W(c) \in Texts
      /\ line \in Texts /\ Len(line) \in Nat /\ Len(line) >= 1 /\ line[Len(line)] = "n"
  <2>1. WrittenRow(row, quoted) \in Texts
    BY RowType
  <2>2. line \in Texts /\ Len(line) \in Nat /\ Len(line) >= 1 /\ line[Len(line)] = "n"
    BY <2>1, LineOfText
  <2> HIDE DEF line
  <2> QED BY <2>2, RowType
<1>2. PICK at : IsPlacing(at, line, row, quoted)
  BY RowIsPlaced
<1> HIDE DEF line
<1>3. PICK from : ReadsFrom(line, from) /\ ParseLine(line) = from[1]
  BY <1>1, LineIsRead
<1>4. ASSUME NEW c \in 1 .. m
      PROVE  /\ at[c] \in 1 .. Len(line)
             /\ Field(line, at[c]) = [text |-> row[c], end |-> at[c] + Len(W(c))]
             /\ line[at[c] + Len(W(c))] = IF c < m THEN "c" ELSE "n"
             /\ at[c] + Len(W(c)) # 0
             /\ c < m => at[c + 1] = (at[c] + Len(W(c))) + 1
  <2>1. /\ at[c] \in 1 .. Len(line) /\ at[c] + Len(W(c)) <= Len(line)
        /\ \A k \in 1 .. Len(W(c)) : line[at[c] + k - 1] = W(c)[k]
        /\ line[at[c] + Len(W(c))] = IF c < m THEN "c" ELSE "n"
        /\ c < m => at[c + 1] = at[c] + Len(W(c)) + 1
    BY <1>2 DEF IsPlacing
  <2>2. line[at[c] + Len(W(c))] \in {"c", "n"}
    BY <2>1
  <2>3. Field(line, at[c]) = [text |-> row[c], end |-> at[c] + Len(W(c))]
    BY <1>1, <2>1, <2>2, WrittenIsRead
  <2>4. Len(W(c)) \in Nat
    BY <1>1, LineOfText
  <2>5. at[c] + Len(W(c)) # 0
    BY <2>1, <2>4
  <2> QED BY <2>1, <2>3, <2>5
<1> DEFINE T == {d \in Nat : d < m => from[at[m - d]] = SubSeq(row, m - d, m)}
<1>5. ASSUME NEW c \in 1 .. m
      PROVE  from[at[c]] = IF c < m THEN IF from[at[c + 1]] = IllFormed THEN IllFormed
                                         ELSE <<row[c]>> \o from[at[c + 1]]
                           ELSE <<row[c]>>
  <2> DEFINE e == at[c] + Len(W(c))
  <2>1. /\ at[c] \in 1 .. Len(line) /\ Field(line, at[c]).text = row[c] /\ Field(line, at[c]).end = e
        /\ e # 0 /\ line[e] = (IF c < m THEN "c" ELSE "n") /\ (c < m => at[c + 1] = e + 1)
    <3>1. /\ at[c] \in 1 .. Len(line) /\ Field(line, at[c]) = [text |-> row[c], end |-> e]
          /\ e # 0 /\ line[e] = (IF c < m THEN "c" ELSE "n") /\ (c < m => at[c + 1] = e + 1)
      BY <1>4
    <3> HIDE DEF e
    <3> QED BY <3>1
  <2> HIDE DEF e
  <2>2. from[at[c]] = IF line[e] = "n" THEN <<row[c]>>
                      ELSE IF from[e + 1] = IllFormed THEN IllFormed ELSE <<row[c]>> \o from[e + 1]
    BY <1>3, <2>1 DEF ReadsFrom
  <2>3. CASE c < m
    BY <2>1, <2>2, <2>3
  <2>4. CASE ~(c < m)
    BY <2>1, <2>2, <2>4
  <2> QED BY <2>3, <2>4
<1>6. 0 \in T
  <2>1. m \in 1 .. m /\ m - 0 = m /\ ~(m < m)
    BY <1>1
  <2>2. from[at[m]] = <<row[m]>>
    BY <1>5, <2>1
  <2>3. SubSeq(row, m, m) = <<row[m]>> \o SubSeq(row, m + 1, m)
    BY <1>1, <2>1, SubSeqRecursiveFirst
  <2>4. SubSeq(row, m + 1, m) = <<>>
    BY <1>1, SubSeqEmpty
  <2>5. <<row[m]>> \o <<>> = <<row[m]>>
    BY <1>1, <2>1
  <2> QED BY <2>1, <2>2, <2>3, <2>4, <2>5
<1>7. ASSUME NEW d \in Nat, d \in T PROVE d + 1 \in T
  <2> SUFFICES ASSUME d + 1 < m PROVE from[at[m - (d + 1)]] = SubSeq(row, m - (d + 1), m)
    OBVIOUS
  <2> DEFINE c == m - (d + 1)
  <2>1. c \in 1 .. m /\ c < m /\ c + 1 = m - d /\ m \in c .. m /\ from[at[c + 1]] = SubSeq(row, c + 1, m) /\ c + 1 \in Int
    BY <1>1, <1>7
  <2> HIDE DEF c
  <2>2. SubSeq(row, c, m) = <<row[c]>> \o SubSeq(row, c + 1, m)
    BY <1>1, <2>1, SubSeqRecursiveFirst
  <2>3. SubSeq(row, c + 1, m) # <<>>
    <3>1. \A i \in c + 1 .. m : row[i] \in Fields
      BY <1>1, <2>1
    <3>2. Len(SubSeq(row, c + 1, m)) = m - (c + 1) + 1
      BY <1>1, <2>1, <3>1, SubSeqProperties
    <3>3. m - (c + 1) + 1 # 0
      BY <1>1, <2>1
    <3>4. Len(<<>>) = 0
      OBVIOUS
    <3> QED BY <3>2, <3>3, <3>4
  <2>4. from[at[c]] = <<row[c]>> \o from[at[c + 1]]
    BY <1>5, <2>1, <2>3 DEF IllFormed
  <2>5. from[at[c]] = SubSeq(row, c, m)
    BY <2>1, <2>2, <2>4
  <2> QED BY <2>5 DEF c
<1>8. Nat \subseteq T
  <2> HIDE DEF T
  <2> QED BY <1>6, <1>7, NatSetInduction
<1>9. m - 1 \in Nat /\ m - 1 < m /\ m - (m - 1) = 1
  BY <1>1
<1>10. from[at[1]] = SubSeq(row, 1, m)
  BY <1>8, <1>9
<1>11. at[1] = 1 /\ SubSeq(row, 1, m) = row
  BY <1>1, <1>2, SubSeqFull DEF IsPlacing
<1> QED BY <1>3, <1>10, <1>11 DEF line

\* The first line of a row that goes on in a second one is ill-formed: its fields are
\* read up to the quoted one that the line does not close.
LEMMA BrokenIsIllFormed ==
  ASSUME NEW row \in Rows, NEW quoted \in BOOLEAN, NEW whole, whole = WrittenRow(row, quoted) \o <<"n">>,
         NEW e \in 1 .. Len(whole) - 1, whole[e] = "n", \A k \in 1 .. e - 1 : whole[k] # "n"
  PROVE  ParseLine(SubSeq(whole, 1, e)) = IllFormed
<1> DEFINE line == SubSeq(whole, 1, e)
           m == Len(row)
           W(c) == Written(row[c], quoted)
<1>1. /\ m \in Nat /\ m >= 1 /\ \A c \in 1 .. m : row[c] \in Fields /\ W(c) \in Texts /\ Len(W(c)) \in Nat
      /\ whole \in Texts /\ Len(whole) \in Nat /\ e \in Nat /\ e >= 1 /\ e < Len(whole)
  <2>1. WrittenRow(row, quoted) \in Texts /\ m \in Nat /\ m >= 1 /\ \A c \in 1 .. m : row[c] \in Fields /\ W(c) \in Texts
    BY RowType
  <2>2. whole \in Texts /\ Len(whole) \in Nat /\ \A c \in 1 .. m : Len(W(c)) \in Nat
    BY <2>1, LineOfText, TextType
  <2> QED BY <2>1, <2>2
<1> HIDE DEF W
<1>2. PICK at : IsPlacing(at, whole, row, quoted)
  BY RowIsPlaced
<1>3. /\ line \in Texts /\ Len(line) = e /\ Len(line) >= 1 /\ \A k \in 1 .. e : line[k] = whole[k]
      /\ line[Len(line)] = "n"
  <2>1. \A k \in 1 .. e : whole[k] \in Characters
    <3>1. \A k \in 1 .. e : k \in 1 .. Len(whole)
      BY <1>1
    <3> QED BY <1>1, <3>1, TextType
  <2>2. line \in Seq(Characters) /\ Len(line) = e /\ \A k \in 1 .. e : line[k] = whole[k]
    BY <1>1, <2>1, SubSeqProperties
  <2> HIDE DEF line
  <2> QED BY <1>1, <2>2 DEF Texts
<1> HIDE DEF line
<1>4. PICK from : ReadsFrom(line, from) /\ ParseLine(line) = from[1]
  BY <1>3, LineIsRead
<1> DEFINE End(c) == at[c] + Len(W(c))
<1>5. ASSUME NEW c \in 1 .. m
      PROVE  /\ at[c] \in 1 .. Len(whole) /\ End(c) \in Nat /\ End(c) <= Len(whole)
             /\ \A k \in 1 .. Len(W(c)) : whole[at[c] + k - 1] = W(c)[k]
             /\ whole[End(c)] = (IF c < m THEN "c" ELSE "n")
             /\ c < m => at[c + 1] = End(c) + 1
  <2>1. /\ at[c] \in 1 .. Len(whole) /\ End(c) <= Len(whole)
        /\ \A k \in 1 .. Len(W(c)) : whole[at[c] + k - 1] = W(c)[k]
        /\ whole[End(c)] = (IF c < m THEN "c" ELSE "n")
        /\ c < m => at[c + 1] = End(c) + 1
    BY <1>2 DEF IsPlacing, W
  <2>2. Len(W(c)) \in Nat /\ at[c] \in Nat
    BY <1>1, <2>1
  <2>3. End(c) \in Nat
    <3> DEFINE x == at[c]
               y == Len(W(c))
    <3>1. x \in Nat /\ y \in Nat
      BY <2>2
    <3> HIDE DEF x, y
    <3>2. x + y \in Nat
      BY <3>1
    <3> QED BY <3>2 DEF x, y
  <2> QED BY <2>1, <2>3
\* The first column that is not wholly in the first line.
<1>6. PICK c \in 1 .. m : End(c) >= e /\ \A d \in 1 .. c - 1 : End(d) < e
  <2> DEFINE C == {c \in 1 .. m : End(c) >= e}
  <2>1. m \in C
    <3>1. m \in 1 .. m /\ End(m) = Len(whole)
      BY <1>1, <1>2 DEF IsPlacing, W
    <3> HIDE DEF End
    <3> QED BY <1>1, <3>1
  <2>2. C \subseteq Nat /\ C # {}
    BY <2>1
  <2>3. Min(C) \in C /\ \A y \in C : Min(C) <= y
    <3> HIDE DEF C
    <3> QED BY <2>2, MinOf
  <2> DEFINE least == Min(C)
  <2> HIDE DEF least
  <2>4. least \in 1 .. m /\ End(least) >= e /\ \A y \in C : least <= y
    BY <2>3 DEF least
  <2>5. ASSUME NEW d \in 1 .. least - 1 PROVE End(d) < e
    <3>1. d \in 1 .. m /\ d \notin C
      BY <1>1, <2>4
    <3>2. End(d) \in Nat
      BY <1>5, <3>1
    <3> HIDE DEF End
    <3> QED BY <1>1, <3>1, <3>2
  <2> QED BY <2>4, <2>5
\* The line ends within what it is written as.
<1>7. at[c] \in 1 .. e /\ e < End(c)
  <2>1. End(c) # e
    <3> SUFFICES ASSUME End(c) = e PROVE FALSE
      OBVIOUS
    <3>1. ~(c < m)
      BY <1>5
    <3>2. c = m
      BY <1>1, <3>1
    <3>3. End(c) = Len(whole)
      BY <1>2, <3>2 DEF IsPlacing, W
    <3> QED BY <1>1, <3>3
  <2>2. at[c] <= e
    <3>1. CASE c = 1
      BY <1>1, <1>2, <3>1 DEF IsPlacing
    <3>2. CASE c # 1
      <4>1. c - 1 \in 1 .. m /\ c - 1 < m /\ c - 1 \in 1 .. c - 1 /\ (c - 1) + 1 = c
        BY <1>1, <3>2
      <4>2. at[c] = End(c - 1) + 1 /\ End(c - 1) < e /\ End(c - 1) \in Nat
        BY <1>5, <1>6, <4>1
      <4> HIDE DEF End
      <4> QED BY <1>1, <4>2
    <3> QED BY <3>1, <3>2
  <2>3. End(c) \in Nat /\ at[c] \in 1 .. Len(whole) /\ End(c) >= e
    BY <1>5, <1>6
  <2> HIDE DEF End
  <2> QED BY <1>1, <2>1, <2>2, <2>3
\* So it is quoted, and the line has no end of it.
<1>8. Field(line, at[c]).end = 0
  <2> DEFINE f == row[c]
             t == Escaped(f)
             p == e - at[c] + 1
  <2>1. p \in 1 .. Len(W(c)) /\ at[c] + p - 1 = e /\ at[c] \in Nat
    <3> DEFINE x == at[c]
               y == Len(W(c))
    <3>1. x \in 1 .. e /\ e < x + y /\ y \in Nat /\ e \in Nat
      BY <1>1, <1>7
    <3> HIDE DEF x, y
    <3>2. e - x + 1 \in 1 .. y /\ x + (e - x + 1) - 1 = e /\ x \in Nat
      BY <3>1
    <3> QED BY <3>2 DEF x, y
  <2> HIDE DEF p
  <2>2. W(c)[p] = "n"
    BY <1>5, <2>1
  <2>3. W(c) = <<"q">> \o t \o <<"q", "s">>
    <3>1. \/ W(c) = f /\ Range(f) \cap {"c", "q", "n"} = {}
          \/ W(c) = <<"q">> \o t \o <<"q", "s">>
      BY <1>1, WrittenType DEF W
    <3> SUFFICES ASSUME W(c) = f, "n" \notin Range(f) PROVE FALSE
      BY <3>1
    <3>2. f \in Seq(Characters)
      BY <1>1, FieldsType DEF Texts
    <3> QED BY <2>1, <2>2, <3>2 DEF Range
  <2>4. t \in Seq(Characters) /\ IsEscapeOf(t, f) /\ {"q", "s"} \subseteq Characters
    BY <1>1, FieldsType, CharactersKnown, EscapedType, EscapedIsReadBack DEF Texts
  <2> HIDE DEF t
  <2>5. /\ Len(W(c)) = Len(t) + 3 /\ Len(t) \in Nat /\ W(c)[1] = "q"
        /\ \A k \in 1 .. Len(t) : W(c)[k + 1] = t[k]
        /\ W(c)[Len(t) + 2] = "q" /\ W(c)[Len(t) + 3] = "s"
    BY <2>3, <2>4, QuotedShape
  <2>6. p # 1 /\ p # Len(t) + 2 /\ p # Len(t) + 3
    BY <2>2, <2>5
  <2>7. e = at[c] + (p - 1) /\ p - 1 \in 1 .. Len(t) /\ Len(line) - at[c] \in 1 .. Len(t)
    <3> DEFINE x == at[c]
               y == Len(t)
               z == Len(W(c))
               v == Len(line)
    <3>1. e \in Nat /\ x \in Nat /\ y \in Nat /\ z = y + 3 /\ v = e /\ p \in 1 .. z /\ x + p - 1 = e
      BY <1>1, <1>3, <2>1, <2>5
    <3>2. p # 1 /\ p # y + 2 /\ p # y + 3
      BY <2>6
    <3> HIDE DEF x, y, z, v
    <3>3. e = x + (p - 1) /\ p - 1 \in 1 .. y /\ v - x \in 1 .. y
      BY <3>1, <3>2
    <3> QED BY <3>3 DEF x, y, v
  <2>8. line[at[c]] = "q"
    <3>1. 1 \in 1 .. Len(W(c)) /\ at[c] + 1 - 1 = at[c] /\ at[c] \in 1 .. e
      BY <1>7, <2>1, <2>5
    <3>2. whole[at[c] + 1 - 1] = W(c)[1]
      BY <1>5, <3>1
    <3> QED BY <1>3, <2>5, <3>1, <3>2
  <2>9. ASSUME NEW k \in 1 .. Len(line) - at[c] PROVE line[at[c] + k] = t[k]
    <3>1. k \in 1 .. Len(t) /\ k + 1 \in 1 .. Len(W(c)) /\ at[c] + (k + 1) - 1 = at[c] + k /\ at[c] + k \in 1 .. e
      <4> DEFINE x == at[c]
                 y == Len(t)
                 z == Len(W(c))
                 v == Len(line)
      <4>1. e \in Nat /\ x \in Nat /\ y \in Nat /\ z = y + 3 /\ v = e /\ v - x \in 1 .. y /\ k \in 1 .. v - x
        BY <1>1, <1>3, <2>1, <2>5, <2>7
      <4> HIDE DEF x, y, z, v
      <4>2. k \in 1 .. y /\ k + 1 \in 1 .. z /\ x + (k + 1) - 1 = x + k /\ x + k \in 1 .. e
        BY <4>1
      <4> QED BY <4>2 DEF x, y, z
    <3>2. whole[at[c] + (k + 1) - 1] = W(c)[k + 1]
      BY <1>5, <3>1
    <3> QED BY <1>3, <2>5, <3>1, <3>2
  <2>10. at[c] \in 1 .. Len(line)
    BY <1>3, <1>7
  <2> QED BY <1>3, <2>4, <2>7, <2>8, <2>9, <2>10, UnclosedField
\* The columns before it are read, and what follows them is ill-formed.
<1> DEFINE T == {d \in Nat : d < c => from[at[c - d]] = IllFormed}
<1>9. 0 \in T
  <2>1. c - 0 = c /\ at[c] \in 1 .. Len(line)
    BY <1>3, <1>7
  <2> QED BY <1>4, <1>8, <2>1 DEF ReadsFrom
<1>10. ASSUME NEW k \in Nat, k \in T PROVE k + 1 \in T
  <2> SUFFICES ASSUME k + 1 < c PROVE from[at[c - (k + 1)]] = IllFormed
    OBVIOUS
  <2> DEFINE d == c - (k + 1)
  <2>1. d \in 1 .. m /\ d < m /\ d \in 1 .. c - 1 /\ d + 1 = c - k /\ from[at[d + 1]] = IllFormed
    BY <1>1, <1>10
  <2> HIDE DEF d
  <2>2. End(d) < e /\ End(d) \in Nat /\ at[d] \in Nat /\ at[d] >= 1 /\ whole[End(d)] = "c" /\ at[d + 1] = End(d) + 1
    <3>1. /\ at[d] \in 1 .. Len(whole) /\ End(d) \in Nat /\ (d < m => at[d + 1] = End(d) + 1)
          /\ whole[End(d)] = (IF d < m THEN "c" ELSE "n")
      BY <1>5, <2>1
    <3>2. End(d) < e
      BY <1>6, <2>1
    <3>3. at[d] \in Nat /\ at[d] >= 1
      BY <1>1, <3>1
    <3> QED BY <2>1, <3>1, <3>2, <3>3
  <2>3. at[d] \in 1 .. Len(line) /\ End(d) <= Len(line) /\ End(d) # 0 /\ End(d) \in 1 .. e /\ Len(W(d)) \in Nat
    <3>1. Len(W(d)) \in Nat /\ End(d) = at[d] + Len(W(d))
      BY <1>1, <2>1
    <3> DEFINE x == at[d]
               y == Len(W(d))
               z == End(d)
               v == Len(line)
    <3>2. x \in Nat /\ x >= 1 /\ y \in Nat /\ z = x + y /\ z < e /\ e \in Nat /\ v = e
      BY <1>1, <1>3, <2>2, <3>1
    <3> HIDE DEF x, y, z, v
    <3>3. x \in 1 .. v /\ z <= v /\ z # 0 /\ z \in 1 .. e /\ y \in Nat
      BY <3>2
    <3> QED BY <3>3 DEF x, y, z, v
  <2>4. line[End(d)] = "c"
    BY <1>3, <2>2, <2>3
  <2>5. ASSUME NEW j \in 1 .. Len(W(d)) PROVE line[at[d] + j - 1] = W(d)[j]
    <3>1. at[d] + j - 1 \in 1 .. e
      <4> DEFINE x == at[d]
                 y == Len(W(d))
      <4>1. x \in Nat /\ x >= 1 /\ y \in Nat /\ x + y < e /\ e \in Nat /\ j \in 1 .. y
        BY <1>1, <2>2, <2>3
      <4> HIDE DEF x, y
      <4>2. x + j - 1 \in 1 .. e
        BY <4>1
      <4> QED BY <4>2 DEF x
    <3> QED BY <1>3, <1>5, <2>1, <3>1
  <2>6. Field(line, at[d]) = [text |-> row[d], end |-> End(d)]
    BY <1>1, <1>3, <2>1, <2>3, <2>4, <2>5, WrittenIsRead DEF W
  <2>7. Field(line, at[d]).end = End(d) /\ from[End(d) + 1] = IllFormed
    <3>1. from[End(d) + 1] = IllFormed
      BY <2>1, <2>2
    <3> HIDE DEF End
    <3> QED BY <2>6, <3>1
  <2>8. from[at[d]] = IllFormed
    <3> HIDE DEF End
    <3> QED BY <1>4, <2>3, <2>4, <2>7 DEF ReadsFrom
  <2> QED BY <2>8 DEF d
<1>11. Nat \subseteq T
  <2> HIDE DEF T
  <2> QED BY <1>9, <1>10, NatSetInduction
<1>12. c - 1 \in Nat /\ c - 1 < c /\ c - (c - 1) = 1
  OBVIOUS
<1>13. from[at[1]] = IllFormed
  BY <1>11, <1>12
<1> QED BY <1>2, <1>4, <1>13 DEF IsPlacing, line

\* A row goes on in a second line if and only if one of its fields has a line break.
LEMMA FirstBreakType ==
  ASSUME NEW row \in Rows, NEW quoted \in BOOLEAN, NEW whole, whole = WrittenRow(row, quoted) \o <<"n">>
  PROVE  /\ whole \in Texts /\ Len(whole) \in Nat /\ FirstBreak(whole) \in 1 .. Len(whole)
         /\ whole[FirstBreak(whole)] = "n" /\ \A k \in 1 .. FirstBreak(whole) - 1 : whole[k] # "n"
         /\ HasLineBreak(row) => FirstBreak(whole) \in 1 .. Len(whole) - 1
         /\ ~HasLineBreak(row) => FirstBreak(whole) = Len(whole)
<1> DEFINE t == WrittenRow(row, quoted)
           size == Len(whole)
           b == FirstBreak(whole)
<1>1. /\ t \in Texts /\ whole \in Texts /\ size = Len(t) + 1 /\ Len(t) \in Nat /\ size \in Nat /\ whole[size] = "n"
      /\ \A k \in 1 .. Len(t) : whole[k] = t[k]
  BY RowType, LineOfText
<1> HIDE DEF size
<1>2. b \in 1 .. size /\ whole[b] = "n" /\ \A j \in 1 .. size : whole[j] = "n" => b <= j
  <2>1. 1 \in 1 .. Len(whole) + 1 /\ size \in 1 .. Len(whole)
    BY <1>1 DEF size
  <2>2. /\ b \in 1 .. size + 1 /\ (b <= size => whole[b] \in {"n"})
        /\ \A j \in 1 .. size : whole[j] \in {"n"} => b <= j
    BY <1>1, <2>1, FirstType DEF size, FirstBreak
  <2> HIDE DEF b
  <2> QED BY <1>1, <2>1, <2>2 DEF size
<1> HIDE DEF b
<1>3. \A k \in 1 .. b - 1 : whole[k] # "n"
  BY <1>1, <1>2
<1>4. ASSUME HasLineBreak(row) PROVE b \in 1 .. size - 1
  <2>1. PICK c \in 1 .. Len(row) : row[c] \in Fields /\ "n" \in Range(row[c])
    BY <1>4, RowType DEF HasLineBreak
  <2> DEFINE f == row[c]
             e == Escaped(f)
             w == Written(f, quoted)
  <2>2. w = <<"q">> \o e \o <<"q", "s">>
    BY <2>1, WrittenType
  <2>3. e \in Seq(Characters) /\ IsEscapeOf(e, f) /\ {"q", "s"} \subseteq Characters
    BY <2>1, FieldsType, CharactersKnown, EscapedType, EscapedIsReadBack DEF Texts
  <2> HIDE DEF e, w
  <2>4. Len(w) = Len(e) + 3 /\ Len(e) \in Nat /\ \A k \in 1 .. Len(e) : w[k + 1] = e[k]
    BY <2>2, <2>3, QuotedShape
  <2>5. PICK k \in 1 .. Len(e) : e[k] = "n"
    <3> SUFFICES ASSUME \A k \in 1 .. Len(e) : e[k] # "n" PROVE FALSE
      OBVIOUS
    <3>1. \A k \in 1 .. Len(e) : e[k] \in Inner
      BY <2>3 DEF Inner
    <3>2. e = [k \in 1 .. Len(e) |-> e[k]]
      BY <2>3
    <3> DEFINE m == Len(e)
    <3>3. e \in [1 .. m -> Inner] /\ m \in Nat
      BY <2>4, <3>1, <3>2
    <3> HIDE DEF m
    <3>4. e \in Inside
      BY <3>3 DEF Inside
    <3>5. f \in Inside
      BY <2>3, <3>4, UnescapedInside DEF IsEscapeOf
    <3>6. \A k \in 1 .. Len(f) : f[k] # "n"
      BY <3>5, InsideType
    <3>7. f \in Seq(Inner)
      BY <3>5 DEF Inside
    <3> QED BY <2>1, <3>6, <3>7 DEF Range
  <2>6. PICK at : IsPlacing(at, whole, row, quoted)
    BY RowIsPlaced
  <2>7. at[c] \in 1 .. size /\ at[c] + Len(w) <= size /\ \A j \in 1 .. Len(w) : whole[at[c] + j - 1] = w[j]
    BY <2>1, <2>6 DEF IsPlacing, w, size
  <2>8. whole[at[c] + (k + 1) - 1] = "n"
    <3>1. k + 1 \in 1 .. Len(w)
      BY <2>4
    <3> QED BY <2>4, <2>5, <2>7, <3>1
  <2> DEFINE x == at[c]
             y == Len(e)
             z == Len(w)
  <2>9. x \in 1 .. size /\ x + z <= size /\ z = y + 3 /\ y \in Nat /\ k \in 1 .. y /\ whole[x + (k + 1) - 1] = "n"
    BY <2>4, <2>7, <2>8
  <2> HIDE DEF x, y, z
  <2>10. x + (k + 1) - 1 \in 1 .. size /\ x + (k + 1) - 1 < size
    BY <1>1, <2>9
  <2> QED BY <1>1, <1>2, <2>9, <2>10
<1>5. ASSUME ~HasLineBreak(row) PROVE b = size
  <2>1. t \in Inside
    BY <1>5, RowType
  <2>2. \A k \in 1 .. Len(t) : whole[k] # "n"
    BY <1>1, <2>1, InsideType
  <2>3. b \notin 1 .. Len(t)
    BY <1>2, <2>2
  <2> HIDE DEF t
  <2> QED BY <1>1, <1>2, <2>3
<1> QED BY <1>1, <1>2, <1>3, <1>4, <1>5 DEF b, size

-----------------------------------------------------------------------------
(* Files.                                                                  *)
\* What is left of a file behind its first r lines.
Rest(file, r) == FlattenSeq(SubSeq(LinesOf(file), r + 1, Len(LinesOf(file))))
RowOf(file, i) == IF i = 1 THEN WrittenRow(file.header, FALSE) ELSE WrittenRow(file.rows[i - 1], file.quoted)

\* The lines of a reply: the header, which fits, and the rows.
LEMMA LinesType ==
  ASSUME NEW file \in Files, file.whole
  PROVE  /\ file.header \in Rows /\ file.rows \in Seq(Rows) /\ file.quoted \in BOOLEAN /\ Len(file.rows) \in Nat
         /\ \A i \in 1 .. Len(file.rows) : file.rows[i] \in Rows
         /\ LinesOf(file) \in Seq(Texts) /\ Len(LinesOf(file)) = Len(file.rows) + 1
         /\ \A i \in 1 .. Len(file.rows) + 1 : LinesOf(file)[i] = RowOf(file, i) \o <<"n">> /\ RowOf(file, i) \in Texts
         /\ file.text = FlattenSeq(LinesOf(file))
         /\ MAX_LINE_LEN \in Nat /\ Len(RowOf(file, 1)) + 1 < MAX_LINE_LEN
         /\ FirstBreak(RowOf(file, 1) \o <<"n">>) = Len(RowOf(file, 1)) + 1
<1> DEFINE m == Len(file.rows)
<1>1. /\ file.header \in Rows /\ file.rows \in Seq(Rows) /\ file.quoted \in BOOLEAN
      /\ file.text = FlattenSeq(LinesOf(file))
      /\ MAX_LINE_LEN \in Nat /\ Len(LinesOf(file)[1]) < MAX_LINE_LEN /\ ~HasLineBreak(file.header)
  BY FilesAssumption
<1>2. m \in Nat /\ \A i \in 1 .. m : file.rows[i] \in Rows
  BY <1>1
<1> HIDE DEF m
<1>3. ASSUME NEW i \in 1 .. m + 1 PROVE RowOf(file, i) \in Texts /\ RowOf(file, i) \o <<"n">> \in Texts
  <2>1. RowOf(file, i) \in Texts
    <3>1. CASE i = 1
      <4>1. FALSE \in BOOLEAN
        OBVIOUS
      <4> QED BY <1>1, <3>1, <4>1, RowType DEF RowOf
    <3>2. CASE i # 1
      <4>1. i - 1 \in 1 .. m
        BY <1>2, <3>2
      <4> QED BY <1>1, <1>2, <3>2, <4>1, RowType DEF RowOf
    <3> QED BY <3>1, <3>2
  <2> QED BY <2>1, LineOfText
<1>4. LinesOf(file) = [i \in 1 .. m + 1 |-> RowOf(file, i) \o <<"n">>]
  BY DEF LinesOf, RowOf, m
<1>5. /\ LinesOf(file) \in Seq(Texts) /\ Len(LinesOf(file)) = m + 1
      /\ \A i \in 1 .. m + 1 : LinesOf(file)[i] = RowOf(file, i) \o <<"n">>
  <2>1. LinesOf(file) \in [1 .. m + 1 -> Texts]
    BY <1>3, <1>4
  <2>2. \A i \in 1 .. m + 1 : LinesOf(file)[i] = RowOf(file, i) \o <<"n">>
    BY <1>4
  <2> QED BY <1>2, <2>1, <2>2
<1>6. Len(RowOf(file, 1)) + 1 < MAX_LINE_LEN
  <2>1. 1 \in 1 .. m + 1
    BY <1>2
  <2>2. Len(LinesOf(file)[1]) = Len(RowOf(file, 1)) + 1
    BY <1>3, <1>5, <2>1, LineOfText
  <2> QED BY <1>1, <2>2
<1>7. FirstBreak(RowOf(file, 1) \o <<"n">>) = Len(RowOf(file, 1)) + 1
  <2>1. RowOf(file, 1) = WrittenRow(file.header, FALSE) /\ FALSE \in BOOLEAN
    BY DEF RowOf
  <2>2. FirstBreak(WrittenRow(file.header, FALSE) \o <<"n">>) = Len(WrittenRow(file.header, FALSE) \o <<"n">>)
    BY <1>1, <2>1, FirstBreakType
  <2>3. 1 \in 1 .. m + 1
    BY <1>2
  <2> QED BY <1>3, <2>1, <2>2, <2>3, LineOfText
<1> QED BY <1>1, <1>2, <1>3, <1>5, <1>6, <1>7 DEF m

\* What is left behind some lines: one line and the rest, or nothing.
LEMMA RestType ==
  ASSUME NEW file \in Files, file.whole
  PROVE  /\ Rest(file, 0) = file.text
         /\ Rest(file, Len(file.rows) + 1) = <<>>
         /\ \A r \in 0 .. Len(file.rows) :
              Rest(file, r) = (RowOf(file, r + 1) \o <<"n">>) \o Rest(file, r + 1) /\ Rest(file, r + 1) \in Texts
<1> DEFINE lines == LinesOf(file)
           m == Len(file.rows)
<1>1. /\ lines \in Seq(Seq(Characters)) /\ Len(lines) = m + 1 /\ m \in Nat /\ file.text = FlattenSeq(lines)
      /\ \A i \in 1 .. m + 1 : lines[i] = RowOf(file, i) \o <<"n">>
  BY LinesType DEF Texts
<1> HIDE DEF lines, m
<1>2. Rest(file, 0) = file.text
  <2>1. SubSeq(lines, 1, Len(lines)) = lines
    BY <1>1, SubSeqFull
  <2>2. 0 + 1 = 1
    OBVIOUS
  <2> QED BY <1>1, <2>1, <2>2 DEF Rest, lines
<1>3. Rest(file, m + 1) = <<>>
  <2>1. SubSeq(lines, (m + 1) + 1, m + 1) = <<>>
    BY <1>1, SubSeqEmpty
  <2>2. FlattenSeq(<<>>) = <<>>
    BY EmptyIsEscaped, PiecesType DEF FlattenSeq
  <2> QED BY <1>1, <2>1, <2>2 DEF Rest, lines
<1>4. ASSUME NEW r \in 0 .. m
      PROVE  Rest(file, r) = (RowOf(file, r + 1) \o <<"n">>) \o Rest(file, r + 1) /\ Rest(file, r + 1) \in Texts
  <2>1. r \in Nat /\ r < Len(lines) /\ r + 1 \in 1 .. m + 1 /\ (r + 1) + 1 \in Int /\ Len(lines) \in Int
    BY <1>1
  <2>2. Rest(file, r) = lines[r + 1] \o Rest(file, r + 1)
    BY <1>1, <2>1, FlattenRest DEF Rest, lines
  <2>3. SubSeq(lines, (r + 1) + 1, Len(lines)) \in Seq(Seq(Characters))
    <3>1. \A i \in (r + 1) + 1 .. Len(lines) : lines[i] \in Seq(Characters)
      BY <1>1, <2>1
    <3> QED BY <2>1, <3>1, SubSeqProperties
  <2>4. FlattenSeq(SubSeq(lines, (r + 1) + 1, Len(lines))) \in Seq(Characters)
    BY <2>3, FlattenElements
  <2> QED BY <1>1, <2>1, <2>2, <2>4 DEF Rest, lines, Texts
<1> QED BY <1>2, <1>3, <1>4 DEF m

\* fgets reads up to the first line break, as far as it fits.
LEMMA NextLine ==
  ASSUME NEW t \in Texts, NEW rest \in Texts, fp = (t \o <<"n">>) \o rest,
         NEW b, b = FirstBreak(t \o <<"n">>),
         b \in 1 .. Len(t) + 1, (t \o <<"n">>)[b] = "n", \A k \in 1 .. b - 1 : (t \o <<"n">>)[k] # "n",
         MAX_LINE_LEN \in Nat, MAX_LINE_LEN >= 2
  PROVE  /\ fp # <<>>
         /\ b < MAX_LINE_LEN => Line = SubSeq(t \o <<"n">>, 1, b) /\ ~IsTooWide(Line) /\ Ends(Line)
         /\ b < MAX_LINE_LEN /\ b = Len(t) + 1 =>
              Line = t \o <<"n">> /\ SubSeq(fp, Len(Line) + 1, Len(fp)) = rest
         /\ ~(b < MAX_LINE_LEN) => IsTooWide(Line)
<1> DEFINE line == t \o <<"n">>
           n == Len(t)
           whole == line \o rest
           size == Len(whole)
           e == Min({FirstFrom(whole, 1, {"n"}), Len(whole), MAX_LINE_LEN - 1})
           first == SubSeq(whole, 1, e)
<1>1. /\ line \in Seq(Characters) /\ Len(line) = n + 1 /\ n \in Nat
      /\ rest \in Seq(Characters) /\ Len(rest) \in Nat
  BY LineOfText, TextType DEF Texts
<1>2. b \in 1 .. n + 1 /\ line[b] = "n" /\ \A k \in 1 .. b - 1 : line[k] # "n"
  OBVIOUS
<1> HIDE DEF line, n
<1>3. /\ whole \in Seq(Characters) /\ size = (n + 1) + Len(rest) /\ size \in Nat
      /\ \A i \in 1 .. (n + 1) + Len(rest) : whole[i] = IF i <= n + 1 THEN line[i] ELSE rest[i - (n + 1)]
  <2>1. /\ whole \in Seq(Characters) /\ Len(whole) = Len(line) + Len(rest)
        /\ \A i \in 1 .. Len(line) + Len(rest) : whole[i] = IF i <= Len(line) THEN line[i] ELSE rest[i - Len(line)]
    BY <1>1, ConcatProperties
  <2> HIDE DEF whole
  <2> QED BY <1>1, <2>1
<1>4. fp = whole /\ Line = first
  BY DEF Line, line
<1> HIDE DEF whole
<1>5. \A k \in 1 .. n + 1 : whole[k] = line[k]
  BY <1>1, <1>3
<1>6. FirstFrom(whole, 1, {"n"}) = b
  <2>1. b \in 1 .. Len(whole) /\ whole[b] \in {"n"}
    BY <1>1, <1>2, <1>3, <1>5
  <2>2. \A j \in 1 .. b - 1 : whole[j] \notin {"n"}
    BY <1>1, <1>2, <1>5
  <2>3. whole \in Texts /\ 1 \in Nat
    BY <1>3 DEF Texts
  <2> QED BY <2>1, <2>2, <2>3, FirstIs
<1>7. fp # <<>>
  <2>1. size # 0 /\ Len(<<>>) = 0
    BY <1>1, <1>3
  <2> QED BY <1>4, <2>1 DEF size
\* The end of what is read is the first break, or the end of the buffer.
<1>8. e = IF b < MAX_LINE_LEN THEN b ELSE MAX_LINE_LEN - 1
  <2> DEFINE B == {FirstFrom(whole, 1, {"n"}), Len(whole), MAX_LINE_LEN - 1}
             m == IF b < MAX_LINE_LEN THEN b ELSE MAX_LINE_LEN - 1
  <2>1. B = {b, size, MAX_LINE_LEN - 1}
    BY <1>6 DEF size
  <2> HIDE DEF B, size
  <2>2. B \subseteq Nat /\ m \in B /\ \A x \in B : m <= x
    BY <1>1, <1>2, <1>3, <2>1
  <2> HIDE DEF m
  <2>3. Min(B) = m
    BY <2>2, MinIs
  <2> QED BY <2>3 DEF B, m
<1> HIDE DEF e, size
<1>9. /\ e \in Nat /\ e \in 1 .. n + 1 /\ e \in 1 .. size /\ (b < MAX_LINE_LEN => e = b)
      /\ ~(b < MAX_LINE_LEN) => e = MAX_LINE_LEN - 1 /\ e \in 1 .. b - 1
  <2>1. b \in Nat /\ n \in Nat /\ size \in Nat /\ 1 <= b /\ b <= n + 1 /\ n + 1 <= size
    BY <1>1, <1>2, <1>3
  <2>2. CASE b < MAX_LINE_LEN
    BY <1>8, <2>1, <2>2
  <2>3. CASE ~(b < MAX_LINE_LEN)
    BY <1>8, <2>1, <2>3
  <2> QED BY <2>2, <2>3
<1>10. Len(first) = e /\ first[e] = line[e] /\ first = SubSeq(line, 1, e)
  <2>1. \A i \in 1 .. e : whole[i] \in Characters /\ whole[i] = line[i] /\ line[i] \in Characters
    <3>1. \A i \in 1 .. e : i \in 1 .. n + 1 /\ i \in 1 .. size
      BY <1>1, <1>3, <1>9
    <3> QED BY <1>1, <1>3, <1>5, <3>1 DEF size
  <2> DEFINE other == SubSeq(line, 1, e)
  <2>2. e - 1 + 1 = e /\ 1 <= e /\ e \in Int /\ e \in 1 .. e /\ \A i \in 1 .. e : 1 + i - 1 = i
    BY <1>9
  <2>3. first \in Seq(Characters) /\ Len(first) = e /\ \A i \in 1 .. e : first[i] = whole[i]
    BY <2>1, <2>2, SubSeqProperties
  <2>4. other \in Seq(Characters) /\ Len(other) = e /\ \A i \in 1 .. e : other[i] = line[i]
    BY <2>1, <2>2, SubSeqProperties
  <2> HIDE DEF first, other
  <2>5. \A i \in 1 .. e : first[i] = other[i]
    BY <2>1, <2>3, <2>4
  <2>6. first = other
    BY <2>3, <2>4, <2>5, SeqEqual
  <2> QED BY <2>1, <2>2, <2>3, <2>6 DEF other
<1> HIDE DEF first
<1>11. ASSUME b < MAX_LINE_LEN PROVE Line = SubSeq(line, 1, b) /\ ~IsTooWide(Line) /\ Ends(Line)
  BY <1>2, <1>4, <1>9, <1>10, <1>11 DEF IsTooWide, Ends
<1>12. ASSUME ~(b < MAX_LINE_LEN) PROVE IsTooWide(Line)
  BY <1>2, <1>4, <1>9, <1>10, <1>12 DEF IsTooWide, Ends
<1>13. ASSUME b < MAX_LINE_LEN, b = n + 1
       PROVE  Line = line /\ SubSeq(fp, Len(Line) + 1, Len(fp)) = rest
  <2>1. SubSeq(line, 1, n + 1) = line
    BY <1>1, SubSeqFull
  <2>2. Line = line
    BY <1>11, <1>13, <2>1
  <2>3. SubSeq(whole, (n + 1) + 1, size) = rest
    <3> DEFINE p == (n + 1) + 1
    <3>1. p \in Nat /\ 1 <= p /\ size \in Int /\ size = p + Len(rest) - 1 /\ size <= Len(whole)
      BY <1>1, <1>3 DEF size
    <3>2. IsPart(rest, whole, p)
      <4> SUFFICES ASSUME NEW k \in 1 .. Len(rest) PROVE whole[p + k - 1] = rest[k]
        BY DEF IsPart
      <4>1. p + k - 1 \in 1 .. (n + 1) + Len(rest) /\ ~(p + k - 1 <= n + 1) /\ (p + k - 1) - (n + 1) = k
        BY <1>1
      <4> HIDE DEF p
      <4> QED BY <1>3, <4>1
    <3> HIDE DEF p
    <3>3. SubSeq(whole, p, size) = rest
      BY <1>1, <1>3, <3>1, <3>2, PartIs
    <3> QED BY <3>3 DEF p
  <2> QED BY <1>1, <1>4, <2>2, <2>3 DEF size
<1> QED BY <1>7, <1>11, <1>12, <1>13 DEF line, n

-----------------------------------------------------------------------------
(* Records, the inductive invariant and the theorems.                      *)
\* The records a row may give.
Kinds == {[StartedAt |-> fields[1], values |-> [c \in Required \cup Optional |-> Stod(fields[c])]] : fields \in Rows}
OutOf(rows) == [i \in DOMAIN rows |-> PushRow(rows[i])]

\* What PushRow adds for each row.
LEMMA OutType ==
  ASSUME NEW rows \in Seq(Rows)
  PROVE  /\ OutOf(rows) \in Seq(Seq(Kinds)) /\ Len(OutOf(rows)) = Len(rows) /\ Len(rows) \in Nat
         /\ \A i \in 1 .. Len(rows) : OutOf(rows)[i] = PushRow(rows[i]) /\ PushRow(rows[i]) \in Seq(Kinds)
         /\ RecordsOf(rows) = FlattenSeq(OutOf(rows))
<1>1. Len(rows) \in Nat /\ DOMAIN rows = 1 .. Len(rows) /\ \A i \in 1 .. Len(rows) : rows[i] \in Rows
  OBVIOUS
<1>2. ASSUME NEW i \in 1 .. Len(rows) PROVE PushRow(rows[i]) \in Seq(Kinds)
  <2> DEFINE fields == rows[i]
             record == [StartedAt |-> fields[1], values |-> [c \in Required \cup Optional |-> Stod(fields[c])]]
  <2>1. record \in Kinds
    BY <1>1 DEF Kinds
  <2>2. PushRow(fields) = IF IsHeader(fields) \/ IsBroken(fields) THEN <<>> ELSE <<record>>
    BY DEF PushRow
  <2> HIDE DEF record
  <2>3. <<record>> \in Seq(Kinds) /\ <<>> \in Seq(Kinds)
    BY <2>1
  <2> QED BY <2>2, <2>3
<1>3. OutOf(rows) \in [1 .. Len(rows) -> Seq(Kinds)]
  BY <1>1, <1>2 DEF OutOf
<1>4. OutOf(rows) \in Seq(Seq(Kinds)) /\ Len(OutOf(rows)) = Len(rows)
  BY <1>1, <1>3
<1>5. \A i \in 1 .. Len(rows) : OutOf(rows)[i] = PushRow(rows[i])
  BY <1>1 DEF OutOf
<1>6. RecordsOf(rows) = FlattenSeq(OutOf(rows))
  BY DEF RecordsOf, OutOf
<1> QED BY <1>1, <1>2, <1>4, <1>5, <1>6

\* The records of the first rows.
LEMMA RecordsGrow ==
  ASSUME NEW rows \in Seq(Rows)
  PROVE  /\ RecordsOf(SubSeq(rows, 1, 0)) = <<>>
         /\ \A k \in 1 .. Len(rows) :
              RecordsOf(SubSeq(rows, 1, k)) = RecordsOf(SubSeq(rows, 1, k - 1)) \o PushRow(rows[k])
         /\ \A k, j \in 0 .. Len(rows) :
              k <= j => IsPrefix(RecordsOf(SubSeq(rows, 1, k)), RecordsOf(SubSeq(rows, 1, j)))
<1> DEFINE n == Len(rows)
           out == OutOf(rows)
<1>1. n \in Nat /\ out \in Seq(Seq(Kinds)) /\ Len(out) = n /\ \A i \in 1 .. n : out[i] = PushRow(rows[i])
  BY OutType
<1>2. PICK flat : IsFlattening(flat, out, Kinds)
  BY <1>1, FlattenPrefixes
<1> HIDE DEF out
<1>3. ASSUME NEW k \in 0 .. n PROVE RecordsOf(SubSeq(rows, 1, k)) = flat[k]
  <2> DEFINE first == SubSeq(rows, 1, k)
  <2>1. first \in Seq(Rows) /\ Len(first) = k /\ \A i \in 1 .. k : first[i] = rows[i]
    BY <1>1
  <2> HIDE DEF first
  <2>2. /\ OutOf(first) \in Seq(Seq(Kinds)) /\ Len(OutOf(first)) = k
        /\ \A i \in 1 .. k : OutOf(first)[i] = PushRow(first[i])
        /\ RecordsOf(first) = FlattenSeq(OutOf(first))
    BY <2>1, OutType
  <2>3. PICK g : IsFlattening(g, OutOf(first), Kinds) /\ FlattenSeq(OutOf(first)) = g[k]
    BY <2>2, FlattenPrefixes
  <2>4. flat[k] = g[k]
    <3> DEFINE those == OutOf(first)
    <3>1. /\ k \in Nat /\ k <= Len(out) /\ k <= Len(those)
          /\ \A i \in 1 .. k : out[i] = those[i]
      BY <1>1, <2>1, <2>2
    <3>2. /\ out \in Seq(Seq(Kinds)) /\ those \in Seq(Seq(Kinds))
          /\ IsFlattening(flat, out, Kinds) /\ IsFlattening(g, those, Kinds)
      BY <1>1, <1>2, <2>2, <2>3
    <3> HIDE DEF those
    <3> QED BY <3>1, <3>2, FlatteningsAgree
  <2> QED BY <2>2, <2>3, <2>4 DEF first
<1>4. /\ flat[0] = <<>> /\ \A k \in 1 .. n : flat[k] = flat[k - 1] \o out[k]
      /\ \A k \in 0 .. n : flat[k] \in Seq(Kinds)
  BY <1>1, <1>2 DEF IsFlattening
<1>5. RecordsOf(SubSeq(rows, 1, 0)) = <<>>
  BY <1>1, <1>3, <1>4
<1>6. ASSUME NEW k \in 1 .. n
      PROVE  RecordsOf(SubSeq(rows, 1, k)) = RecordsOf(SubSeq(rows, 1, k - 1)) \o PushRow(rows[k])
  <2>1. k \in 0 .. n /\ k - 1 \in 0 .. n
    BY <1>1
  <2>2. RecordsOf(SubSeq(rows, 1, k)) = flat[k] /\ RecordsOf(SubSeq(rows, 1, k - 1)) = flat[k - 1]
    BY <1>3, <2>1
  <2> QED BY <1>1, <1>4, <2>2
<1>7. ASSUME NEW k \in 0 .. n, NEW j \in 0 .. n, k <= j
      PROVE  IsPrefix(RecordsOf(SubSeq(rows, 1, k)), RecordsOf(SubSeq(rows, 1, j)))
  <2> DEFINE a == flat[k]
             b == flat[j]
  <2>1. StartsWith(b, a)
    <3>1. k \in 0 .. Len(out) /\ j \in k .. Len(out)
      BY <1>1, <1>7
    <3> QED BY <1>1, <1>2, <3>1, FlattenPlaces
  <2>2. a \in Seq(Kinds) /\ b \in Seq(Kinds)
    BY <1>4
  <2> HIDE DEF a, b
  <2>3. Len(a) \in Nat /\ Len(b) \in Nat /\ Len(a) <= Len(b) /\ \A i \in 1 .. Len(a) : b[i] = a[i]
    BY <2>1, <2>2 DEF StartsWith
  <2>4. SubSeq(b, 1, Len(a)) = a
    <3> DEFINE part == SubSeq(b, 1, Len(a))
    <3>1. part \in Seq(Kinds) /\ Len(part) = Len(a) /\ \A i \in 1 .. Len(a) : part[i] = b[i]
      BY <2>2, <2>3
    <3> HIDE DEF part
    <3>2. part = a
      BY <2>2, <2>3, <3>1, SeqEqual
    <3> QED BY <3>2 DEF part
  <2>5. SubSeq(a, 1, Len(a)) = a
    BY <2>2, SubSeqFull
  <2>6. IsPrefix(a, b)
    BY <2>3, <2>4, <2>5 DEF IsPrefix
  <2> QED BY <1>3, <2>6 DEF a, b
<1> QED BY <1>5, <1>6, <1>7

\* The rows before the first that ends the reading.
LEMMA ReadType ==
  ASSUME NEW file \in Files, file.whole
  PROVE  /\ Len(Read(file)) \in 0 .. Len(file.rows)
         /\ Read(file) = SubSeq(file.rows, 1, Len(Read(file)))
         /\ \A i \in 1 .. Len(Read(file)) : ~Stops(file.rows[i], file)
         /\ Len(Read(file)) < Len(file.rows) => Stops(file.rows[Len(Read(file)) + 1], file)
<1> DEFINE rows == file.rows
           n == Len(rows)
           J == {j \in DOMAIN rows : Stops(rows[j], file)}
           M == {i - 1 : i \in J} \cup {n}
           m == Min(M)
<1>1. rows \in Seq(Rows) /\ n \in Nat /\ DOMAIN rows = 1 .. n
  <2>1. rows \in Seq(Rows)
    BY LinesType
  <2> HIDE DEF rows
  <2> QED BY <2>1
<1>2. Read(file) = SubSeq(rows, 1, m)
  BY DEF Read
<1> HIDE DEF rows, n
<1>3. M \subseteq Nat /\ M # {} /\ \A x \in M : x <= n
  BY <1>1
<1>4. m \in M /\ \A x \in M : m <= x
  <2> HIDE DEF M
  <2> QED BY <1>3, MinOf
<1>5. m \in 0 .. n
  <2> HIDE DEF M, m
  <2> QED BY <1>1, <1>3, <1>4
<1>6. Len(Read(file)) = m
  <2> HIDE DEF m
  <2>1. Len(SubSeq(rows, 1, m)) = m
    BY <1>1, <1>5 DEF n
  <2> QED BY <1>2, <2>1
<1>7. ASSUME NEW i \in 1 .. m PROVE ~Stops(rows[i], file)
  <2> SUFFICES ASSUME Stops(rows[i], file) PROVE FALSE
    OBVIOUS
  <2>1. i \in 1 .. n /\ i - 1 < m /\ i \in DOMAIN rows
    <3> HIDE DEF m
    <3> QED BY <1>1, <1>5
  <2>2. i - 1 \in M
    BY <2>1
  <2> HIDE DEF m, M
  <2> QED BY <1>1, <1>4, <1>5, <2>1, <2>2
<1>8. m < n => Stops(rows[m + 1], file)
  <2> SUFFICES ASSUME m < n PROVE Stops(rows[m + 1], file)
    OBVIOUS
  <2>1. m # n
    <3> HIDE DEF m
    <3> QED BY <1>1, <1>5
  <2>2. PICK i \in J : m = i - 1
    <3> HIDE DEF m, J
    <3> QED BY <1>4, <2>1
  <2>3. m + 1 = i
    <3>1. i \in 1 .. n
      BY <1>1
    <3> HIDE DEF m
    <3> QED BY <2>2, <3>1
  <2> HIDE DEF m
  <2> QED BY <2>3
<1> HIDE DEF m
<1> QED BY <1>2, <1>5, <1>6, <1>7, <1>8 DEF rows, n

-----------------------------------------------------------------------------
\* The header and r - 1 rows have been read.
HasRead(r) ==
  LET rows == reply.rows
      last == Len(Read(reply))
  IN  /\ r \in 0 .. Len(rows) + 1 /\ r <= last + 1
      /\ fp = Rest(reply, r)
      /\ skip_line = IF r = 0 THEN 1 ELSE 0
      /\ records_ = IF r = 0 THEN <<>> ELSE RecordsOf(SubSeq(rows, 1, r - 1))
      /\ result = "reading" \/ (result = Verdict(reply) /\ r = last + 1)

\* The inductive invariant.
ReadingInv == reply \in Files /\ (reply.whole => \E r : HasRead(r))

\* At first no line is read.
LEMMA ReadingInit == Init => ReadingInv
<1> SUFFICES ASSUME Init, reply.whole PROVE HasRead(0)
  BY DEF Init, ReadingInv
<1>1. reply \in Files /\ fp = Rest(reply, 0) /\ Len(reply.rows) \in Nat /\ Len(Read(reply)) \in Nat
  <2>1. reply \in Files /\ fp = reply.text
    BY DEF Init
  <2>2. Len(reply.rows) \in Nat
    BY <2>1, LinesType
  <2>3. Len(Read(reply)) \in 0 .. Len(reply.rows)
    BY <2>1, ReadType
  <2> QED BY <2>1, <2>2, <2>3, RestType
<1> QED BY <1>1 DEF HasRead, Init

\* A step reads one more line, or ends the reading where it has to end.
LEMMA ReadingStep == ReadingInv /\ [Next]_vars => ReadingInv'
<1> SUFFICES ASSUME ReadingInv, [Next]_vars PROVE ReadingInv'
  OBVIOUS
<1> USE DEF ReadingInv
<1>1. CASE UNCHANGED vars
  <2>1. UNCHANGED <<reply, fp, skip_line, records_, result>>
    BY <1>1 DEF vars
  <2>2. ASSUME NEW r, HasRead(r) PROVE HasRead(r)'
    BY <2>1, <2>2 DEF HasRead
  <2> QED BY <2>1, <2>2
<1> SUFFICES ASSUME Next, reply.whole PROVE reply' = reply /\ \E s : HasRead(s)'
  <2>1. Next => reply' = reply
    BY DEF Next, EndOfFile, LineTooWide, Skip, Unterminated, Record, Returns
  <2> QED BY <1>1, <2>1
<1> DEFINE rows == reply.rows
           n == Len(rows)
           last == Len(Read(reply))
<1>2. /\ reply \in Files /\ rows \in Seq(Rows) /\ n \in Nat /\ last \in 0 .. n
      /\ reply.quoted \in BOOLEAN /\ \A i \in 1 .. n : rows[i] \in Rows
      /\ MAX_LINE_LEN \in Nat /\ MAX_LINE_LEN >= 2
  <2>1. /\ reply \in Files /\ rows \in Seq(Rows) /\ n \in Nat /\ last \in 0 .. n
        /\ reply.quoted \in BOOLEAN /\ \A i \in 1 .. n : rows[i] \in Rows
    BY LinesType, ReadType
  <2>2. MAX_LINE_LEN \in Nat /\ Len(RowOf(reply, 1)) + 1 < MAX_LINE_LEN /\ RowOf(reply, 1) \in Texts
    <3>1. 1 \in 1 .. n + 1
      BY <2>1
    <3> QED BY <2>1, <3>1, LinesType
  <2>3. Len(RowOf(reply, 1)) \in Nat
    BY <2>2, LineOfText
  <2> QED BY <2>1, <2>2, <2>3
<1>3. /\ \A i \in 1 .. last : ~Stops(rows[i], reply)
      /\ last < n => Stops(rows[last + 1], reply)
  BY <1>2, ReadType
<1>4. PICK r : HasRead(r)
  OBVIOUS
<1>5. /\ r \in 0 .. n + 1 /\ r <= last + 1 /\ fp = Rest(reply, r) /\ skip_line = (IF r = 0 THEN 1 ELSE 0)
      /\ records_ = (IF r = 0 THEN <<>> ELSE RecordsOf(SubSeq(rows, 1, r - 1)))
  BY <1>4 DEF HasRead
<1>6. result = "reading"
  BY DEF Next, EndOfFile, LineTooWide, Skip, Unterminated, Record
<1> DEFINE t == RowOf(reply, r + 1)
           line == t \o <<"n">>
           b == FirstBreak(line)
<1>7. ASSUME r # n + 1
      PROVE  /\ fp # <<>> /\ t \in Texts /\ Len(t) \in Nat /\ Len(line) = Len(t) + 1
             /\ b \in 1 .. Len(line) /\ line[b] = "n" /\ \A k \in 1 .. b - 1 : line[k] # "n"
             /\ b < MAX_LINE_LEN => Line = SubSeq(line, 1, b) /\ ~IsTooWide(Line) /\ Ends(Line)
             /\ b < MAX_LINE_LEN /\ b = Len(t) + 1 =>
                  Line = line /\ SubSeq(fp, Len(Line) + 1, Len(fp)) = Rest(reply, r + 1)
             /\ ~(b < MAX_LINE_LEN) => IsTooWide(Line)
  <2>1. r \in 0 .. n /\ r + 1 \in 1 .. n + 1
    BY <1>2, <1>5, <1>7
  <2>2. t \in Texts
    BY <1>2, <2>1, LinesType
  <2>3. fp = line \o Rest(reply, r + 1) /\ Rest(reply, r + 1) \in Texts
    BY <1>2, <1>5, <2>1, RestType
  <2>4. Len(t) \in Nat /\ Len(line) = Len(t) + 1
    BY <2>2, LineOfText
  <2>5. b \in 1 .. Len(line) /\ line[b] = "n" /\ \A k \in 1 .. b - 1 : line[k] # "n"
    <3>1. CASE r + 1 = 1
      <4>1. t = WrittenRow(reply.header, FALSE) /\ reply.header \in Rows /\ FALSE \in BOOLEAN
        BY <1>2, <3>1, LinesType DEF RowOf
      <4> QED BY <4>1, FirstBreakType
    <3>2. CASE r + 1 # 1
      <4>1. (r + 1) - 1 \in 1 .. n
        BY <1>2, <2>1, <3>2
      <4>2. t = WrittenRow(rows[(r + 1) - 1], reply.quoted)
        BY <3>2 DEF RowOf
      <4> DEFINE row == rows[(r + 1) - 1]
      <4>3. row \in Rows /\ reply.quoted \in BOOLEAN /\ line = WrittenRow(row, reply.quoted) \o <<"n">>
        BY <1>2, <4>1, <4>2
      <4> HIDE DEF row, line
      <4>4. FirstBreak(line) \in 1 .. Len(line) /\ line[FirstBreak(line)] = "n" /\ \A k \in 1 .. FirstBreak(line) - 1 : line[k] # "n"
        BY <4>3, FirstBreakType
      <4> QED BY <4>4
    <3> QED BY <3>1, <3>2
  <2> DEFINE fb == b
             rest == Rest(reply, r + 1)
  <2>6. /\ fb = FirstBreak(line) /\ fb \in 1 .. Len(t) + 1 /\ line[fb] = "n" /\ (\A k \in 1 .. fb - 1 : line[k] # "n")
        /\ rest \in Texts /\ fp = line \o rest
    BY <2>3, <2>4, <2>5
  <2> HIDE DEF t, rest, fb
  <2>7. /\ fp # <<>>
        /\ fb < MAX_LINE_LEN => Line = SubSeq(line, 1, fb) /\ ~IsTooWide(Line) /\ Ends(Line)
        /\ fb < MAX_LINE_LEN /\ fb = Len(t) + 1 =>
             Line = line /\ SubSeq(fp, Len(Line) + 1, Len(fp)) = rest
        /\ ~(fb < MAX_LINE_LEN) => IsTooWide(Line)
    <3>1. MAX_LINE_LEN \in Nat /\ MAX_LINE_LEN >= 2
      BY <1>2
    <3> QED BY <2>2, <2>6, <3>1, NextLine
  <2> QED BY <2>2, <2>4, <2>5, <2>7 DEF fb, rest
<1>8. ASSUME r # 0, r # n + 1
      PROVE  /\ r \in 1 .. n /\ t = WrittenRow(rows[r], reply.quoted)
             /\ IsTooLong(rows[r], reply) <=> ~(b < MAX_LINE_LEN)
             /\ HasLineBreak(rows[r]) => b \in 1 .. Len(line) - 1
             /\ ~HasLineBreak(rows[r]) => b = Len(t) + 1
             /\ Stops(rows[r], reply) => r = last + 1
             /\ r = last + 1 => Stops(rows[r], reply)
  <2>1. r \in 1 .. n /\ r + 1 # 1 /\ (r + 1) - 1 = r /\ rows[r] \in Rows
    BY <1>2, <1>5, <1>8
  <2>2. t = WrittenRow(rows[r], reply.quoted)
    BY <2>1 DEF RowOf
  <2>3. /\ HasLineBreak(rows[r]) => b \in 1 .. Len(line) - 1
        /\ ~HasLineBreak(rows[r]) => b = Len(line)
        /\ b \in 1 .. Len(line)
    <3> DEFINE row == rows[r]
    <3>1. row \in Rows /\ reply.quoted \in BOOLEAN /\ line = WrittenRow(row, reply.quoted) \o <<"n">>
      BY <1>2, <2>1, <2>2
    <3> HIDE DEF row, line
    <3>2. /\ HasLineBreak(row) => FirstBreak(line) \in 1 .. Len(line) - 1
          /\ ~HasLineBreak(row) => FirstBreak(line) = Len(line)
          /\ FirstBreak(line) \in 1 .. Len(line)
      BY <3>1, FirstBreakType
    <3> QED BY <3>2 DEF row
  <2>4. IsTooLong(rows[r], reply) <=> ~(b < MAX_LINE_LEN)
    <3>1. IsTooLong(rows[r], reply) <=> b >= MAX_LINE_LEN
      BY <2>2 DEF IsTooLong
    <3>2. b \in Nat
      BY <1>7, <1>8
    <3> HIDE DEF b
    <3> QED BY <1>2, <3>1, <3>2
  <2>5. Stops(rows[r], reply) => r = last + 1
    <3>1. r \in 1 .. last \/ r = last + 1
      <4> HIDE DEF last, n
      <4> QED BY <1>2, <1>5, <2>1
    <3> QED BY <1>3, <3>1
  <2>6. r = last + 1 => Stops(rows[r], reply)
    <3> HIDE DEF last, n
    <3> QED BY <1>2, <1>3, <2>1
  <2>7. Len(line) = Len(t) + 1
    BY <1>7, <1>8
  <2> QED BY <2>1, <2>2, <2>3, <2>4, <2>5, <2>6, <2>7
<1>9. ASSUME r = 0 PROVE b < MAX_LINE_LEN /\ b = Len(t) + 1 /\ r # n + 1
  <2>1. r + 1 = 1
    BY <1>9
  <2>2. b = Len(t) + 1 /\ Len(t) + 1 < MAX_LINE_LEN
    BY <1>2, <2>1, LinesType
  <2>3. r # n + 1
    <3> HIDE DEF n
    <3> QED BY <1>2, <1>9
  <2> HIDE DEF b, t
  <2> QED BY <2>2, <2>3
\* What the verdict is at the place where the reading ends.
<1>10. /\ last = n => Verdict(reply) = "ok"
       /\ last < n => Verdict(reply) = IF IsTooLong(rows[last + 1], reply) THEN "E_LINE_TOO_WIDE"
                                       ELSE IF HasLineBreak(rows[last + 1]) THEN "E_QUOTED_STRING" ELSE "ok"
  <2>1. Read(reply) = SubSeq(rows, 1, last)
    BY <1>2, ReadType
  <2>2. SubSeq(rows, 1, n) = rows
    BY <1>2, SubSeqFull
  <2>3. last < n => last # n
    <3> HIDE DEF last, n
    <3> QED BY <1>2
  <2> QED BY <2>1, <2>2, <2>3 DEF Verdict
\* The file ends, the reading ends with a value.
<1>11. ASSUME Returns(Verdict(reply)), r = last + 1
       PROVE  reply' = reply /\ HasRead(r)'
  <2>1. result' = Verdict(reply) /\ reply' = reply /\ fp' = fp /\ skip_line' = skip_line /\ records_' = records_
    BY <1>11 DEF Returns
  <2> QED BY <1>5, <1>11, <2>1 DEF HasRead
<1>12. CASE EndOfFile
  <2>1. fp = <<>> /\ Returns("ok")
    BY <1>12 DEF EndOfFile
  <2>2. r = n + 1
    BY <1>7, <2>1
  <2>3. r = last + 1 /\ last = n
    <3> HIDE DEF last, n
    <3> QED BY <1>2, <1>5, <2>2
  <2>4. Verdict(reply) = "ok"
    BY <1>10, <2>3
  <2> HIDE DEF last, n
  <2> QED BY <1>11, <2>1, <2>3, <2>4
<1>13. CASE LineTooWide
  <2>1. fp # <<>> /\ IsTooWide(Line) /\ Returns("E_LINE_TOO_WIDE")
    BY <1>13 DEF LineTooWide
  <2>2. r # n + 1
    BY <1>2, <1>5, <2>1, RestType
  <2>3. ~(b < MAX_LINE_LEN)
    BY <1>7, <2>1, <2>2
  <2>4. r # 0
    BY <1>9, <2>3
  <2>5. r = last + 1 /\ last < n /\ IsTooLong(rows[last + 1], reply)
    <3>1. IsTooLong(rows[r], reply) /\ r = last + 1 /\ r \in 1 .. n
      BY <1>8, <2>2, <2>3, <2>4 DEF Stops
    <3> HIDE DEF last, n
    <3> QED BY <1>2, <3>1
  <2>6. Verdict(reply) = "E_LINE_TOO_WIDE"
    BY <1>10, <2>5
  <2> HIDE DEF last, n, rows
  <2> QED BY <1>11, <2>1, <2>5, <2>6
<1>14. CASE Skip
  <2>1. /\ skip_line > 0 /\ skip_line' = skip_line - 1 /\ fp' = SubSeq(fp, Len(Line) + 1, Len(fp))
        /\ reply' = reply /\ records_' = records_ /\ result' = result
    BY <1>14 DEF Skip
  <2>2. r = 0
    BY <1>5, <2>1
  <2>3. fp' = Rest(reply, 0 + 1) /\ skip_line' = 0
    <3>1. b < MAX_LINE_LEN /\ b = Len(t) + 1 /\ r # n + 1
      BY <1>9, <2>2
    <3>2. SubSeq(fp, Len(Line) + 1, Len(fp)) = Rest(reply, r + 1)
      BY <1>7, <3>1
    <3>3. skip_line = 1
      BY <1>5, <2>2
    <3> QED BY <2>1, <2>2, <3>2, <3>3
  <2>4. records_' = RecordsOf(SubSeq(rows, 1, 0)) /\ 0 + 1 = 1 /\ 1 - 1 = 0
    BY <1>2, <1>5, <2>1, <2>2, RecordsGrow
  <2>5. 1 \in 0 .. n + 1 /\ 1 <= last + 1
    <3> HIDE DEF last, n
    <3> QED BY <1>2
  <2>6. HasRead(1)'
    BY <1>6, <2>1, <2>3, <2>4, <2>5 DEF HasRead
  <2> QED BY <2>1, <2>6
<1>15. CASE Unterminated
  <2>1. fp # <<>> /\ ~IsTooWide(Line) /\ ~Ends(Line)
    BY <1>15 DEF Unterminated
  <2>2. r # n + 1
    BY <1>2, <1>5, <2>1, RestType
  <2> QED BY <1>7, <2>1, <2>2
<1>16. CASE Record
  <2>1. fp # <<>> /\ ~IsTooWide(Line) /\ skip_line = 0
    BY <1>16 DEF Record
  <2>2. r # n + 1 /\ r # 0
    BY <1>2, <1>5, <2>1, RestType
  <2>3. b < MAX_LINE_LEN /\ Line = SubSeq(line, 1, b)
    BY <1>7, <2>1, <2>2
  <2>4. r \in 1 .. n /\ t = WrittenRow(rows[r], reply.quoted) /\ ~IsTooLong(rows[r], reply) /\ rows[r] \in Rows
    BY <1>2, <1>8, <2>2, <2>3
  <2>5. CASE HasLineBreak(rows[r])
    <3>1. b \in 1 .. Len(line) - 1 /\ line[b] = "n" /\ \A k \in 1 .. b - 1 : line[k] # "n"
      BY <1>7, <1>8, <2>2, <2>5
    <3> DEFINE fb == b
    <3>2. fb \in 1 .. Len(line) - 1 /\ line[fb] = "n" /\ (\A k \in 1 .. fb - 1 : line[k] # "n") /\ Line = SubSeq(line, 1, fb)
      BY <2>3, <3>1
    <3> HIDE DEF fb, rows
    <3>3. ParseLine(Line) = IllFormed
      BY <1>2, <2>4, <3>2, BrokenIsIllFormed
    <3> USE DEF rows
    <3>4. Returns("E_QUOTED_STRING")
      BY <1>16, <3>3 DEF Record
    <3>5. r = last + 1
      BY <1>8, <2>2, <2>5 DEF Stops
    <3>6. last < n
      <4> HIDE DEF last, n
      <4> QED BY <1>2, <2>4, <3>5
    <3>7. Verdict(reply) = "E_QUOTED_STRING"
      BY <1>10, <2>4, <2>5, <3>5, <3>6
    <3> QED BY <1>11, <3>4, <3>5, <3>7
  <2> SUFFICES ASSUME ~HasLineBreak(rows[r]) PROVE reply' = reply /\ \E s : HasRead(s)'
    BY <2>5
  <2>6. Line = line /\ SubSeq(fp, Len(Line) + 1, Len(fp)) = Rest(reply, r + 1)
    BY <1>7, <1>8, <2>2, <2>3
  <2>7. ParseLine(Line) = rows[r]
    BY <1>2, <2>4, <2>6, RowIsRead
  <2>8. rows[r] # IllFormed /\ ~(Len(rows[r]) > MAX_COLUMN_COUNT)
    <3>1. Len(rows[r]) \in 1 .. MAX_COLUMN_COUNT /\ MAX_COLUMN_COUNT \in Nat
      BY <2>4, FilesAssumption DEF Rows
    <3>2. Len(<<>>) = 0
      OBVIOUS
    <3> HIDE DEF rows
    <3> QED BY <3>1, <3>2 DEF IllFormed
  <2>9. IF Len(rows[r]) < kColumns THEN Returns("ok")
        ELSE /\ records_' = records_ \o PushRow(rows[r]) /\ fp' = SubSeq(fp, Len(Line) + 1, Len(fp))
             /\ UNCHANGED <<reply, skip_line, result>>
    <3> HIDE DEF rows
    <3> QED BY <1>16, <2>7, <2>8 DEF Record
  <2>10. CASE Len(rows[r]) < kColumns
    <3>1. r = last + 1
      BY <1>8, <2>2, <2>10 DEF Stops
    <3>2. last = n \/ last < n
      <4> HIDE DEF last, n
      <4> QED BY <1>2
    <3>3. Verdict(reply) = "ok"
      BY <1>10, <2>4, <3>1, <3>2
    <3> QED BY <1>11, <2>9, <2>10, <3>1, <3>3
  <2>11. CASE ~(Len(rows[r]) < kColumns)
    <3>1. ~Stops(rows[r], reply)
      BY <2>4, <2>11 DEF Stops
    <3>2. r # last + 1
      BY <1>8, <2>2, <3>1
    <3>3. r + 1 \in 0 .. n + 1 /\ r + 1 <= last + 1 /\ r + 1 # 0 /\ (r + 1) - 1 = r
      <4> HIDE DEF last, n
      <4> QED BY <1>2, <1>5, <2>4, <3>2
    <3>4. records_' = RecordsOf(SubSeq(rows, 1, r - 1)) \o PushRow(rows[r])
      BY <1>5, <2>2, <2>9, <2>11
    <3>5. records_' = RecordsOf(SubSeq(rows, 1, r))
      BY <1>2, <2>4, <3>4, RecordsGrow
    <3>6. fp' = Rest(reply, r + 1) /\ reply' = reply /\ skip_line' = 0 /\ result' = "reading"
      BY <1>6, <2>1, <2>9, <2>11, <2>6
    <3>7. HasRead(r + 1)'
      BY <3>3, <3>5, <3>6 DEF HasRead
    <3> QED BY <3>6, <3>7
  <2> QED BY <2>10, <2>11
<1> QED BY <1>12, <1>13, <1>14, <1>15, <1>16 DEF Next

\* ReadingInv is an invariant.
LEMMA Reading == Spec => []ReadingInv
<1>1. Init => ReadingInv
  BY ReadingInit
<1>2. ReadingInv /\ [Next]_vars => ReadingInv'
  BY ReadingStep
<1> QED BY <1>1, <1>2, PTL DEF Spec

\* For every reply written by the rules of the format, whatever is quoted or escaped:
\* csv_parse hands PushRow the rows as they were written, in their order and up to the
\* first that is too short, too long or broken into two lines, and records_ has what
\* PushRow makes of them.
THEOREM RowsAreReadBack == Spec => []RowsSurvive
<1>1. ReadingInv => RowsSurvive
  <2> SUFFICES ASSUME ReadingInv, reply.whole
               PROVE  /\ IsPrefix(records_, RecordsOf(Read(reply)))
                      /\ result # "reading" => records_ = RecordsOf(Read(reply))
    BY DEF RowsSurvive
  <2> DEFINE rows == reply.rows
             n == Len(rows)
             last == Len(Read(reply))
  <2>1. reply \in Files /\ rows \in Seq(Rows) /\ n \in Nat /\ last \in 0 .. n /\ Read(reply) = SubSeq(rows, 1, last)
    BY LinesType, ReadType DEF ReadingInv
  <2>2. PICK r : HasRead(r)
    BY DEF ReadingInv
  <2>3. /\ r \in 0 .. n + 1 /\ r <= last + 1
        /\ records_ = (IF r = 0 THEN <<>> ELSE RecordsOf(SubSeq(rows, 1, r - 1)))
        /\ result # "reading" => r = last + 1
    BY <2>2 DEF HasRead
  <2> DEFINE k == IF r = 0 THEN 0 ELSE r - 1
  <2>4. k \in 0 .. n /\ k <= last /\ last \in 0 .. n /\ (r = last + 1 => k = last)
    <3> HIDE DEF last, n
    <3> QED BY <2>1, <2>3
  <2>5. records_ = RecordsOf(SubSeq(rows, 1, k))
    BY <2>1, <2>3, RecordsGrow
  <2> HIDE DEF k
  <2>6. IsPrefix(RecordsOf(SubSeq(rows, 1, k)), RecordsOf(SubSeq(rows, 1, last)))
    BY <2>1, <2>4, RecordsGrow
  <2> HIDE DEF rows, last
  <2> QED BY <2>1, <2>3, <2>4, <2>5, <2>6
<1> QED BY <1>1, Reading, PTL

\* For every such reply csv_parse writes nothing past the columns it has room for, and
\* what it returns is decided by the first row that ends the reading: E_LINE_TOO_WIDE if
\* its first line does not fit in the line buffer; else E_QUOTED_STRING if one of its
\* fields has a line break, and for no other row that the rules allow; else 0.
THEOREM VerdictsAreRight == Spec => []VerdictIsRight
<1>1. ReadingInv => VerdictIsRight
  <2> SUFFICES ASSUME ReadingInv, reply.whole PROVE result \in {"reading", Verdict(reply)}
    BY DEF VerdictIsRight
  <2>1. PICK r : HasRead(r)
    BY DEF ReadingInv
  <2> QED BY <2>1 DEF HasRead
<1> QED BY <1>1, Reading, PTL

=============================================================================
