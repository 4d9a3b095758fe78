---------------------------- MODULE InductionLemmas ----------------------------
(***************************************************************************)
(* Induction over the natural numbers and definitions by recursion, stated *)
(* over SETS of numbers and over functions, so that every lemma is first   *)
(* order: the least-element principle of a well-founded relation is all    *)
(* they rest on.                                                           *)
(***************************************************************************)
EXTENDS Integers, SequencesExt, SequenceTheorems, WellFoundedInduction, TLAPS

\* A set of natural numbers that is not empty has a least element.
LEMMA NatMinimum ==
  ASSUME NEW T, T \subseteq Nat, T # {}
  PROVE  \E m \in T : \A n \in T : m <= n
<1> DEFINE R == {ss \in Nat \X Nat : ss[1] < ss[2]}
<1>1. IsWellFoundedOn(R, Nat)
  BY NatLessThanWellFounded, Zenon DEF OpToRel
<1> HIDE DEF R
<1>2. PICK m \in T : \A n \in T : ~(<<n, m>> \in R)
  BY <1>1, WFMin
<1>3. \A n \in T : ~(n < m)
  BY <1>2 DEF R
<1> QED
  BY <1>3

\* A set that holds 0 and with a number the next one holds all of them.
LEMMA NatSetInduction ==
  ASSUME NEW T, 0 \in T, \A n \in Nat : n \in T => n + 1 \in T
  PROVE  Nat \subseteq T
<1> SUFFICES ASSUME Nat \ T # {} PROVE FALSE
  OBVIOUS
<1>1. PICK m \in Nat \ T : \A n \in Nat \ T : m <= n
  BY NatMinimum
<1>2. m # 0 /\ m - 1 \in Nat
  BY <1>1
<1> QED
  BY <1>1, <1>2

\* So has a set of integers with a lower bound.
LEMMA IntMinimum ==
  ASSUME NEW T, T \subseteq Int, T # {}, NEW low \in Int, \A n \in T : low <= n
  PROVE  \E m \in T : \A n \in T : m <= n
<1> DEFINE above == {n - low : n \in T}
<1>1. above \subseteq Nat /\ above # {}
  <2>1. \A n \in T : n - low \in Nat
    OBVIOUS
  <2>2. PICK n : n \in T
    OBVIOUS
  <2>3. n - low \in above
    BY <2>2
  <2> QED BY <2>1, <2>3
<1>2. PICK d \in above : \A n \in above : d <= n
  BY <1>1, NatMinimum
<1>3. PICK m \in T : d = m - low
  BY <1>2
<1>4. ASSUME NEW n \in T PROVE m <= n
  <2>1. n - low \in above
    OBVIOUS
  <2>2. m - low <= n - low
    BY <1>2, <1>3, <2>1
  <2> QED BY <2>2
<1> QED BY <1>3, <1>4

\* Finitely many integers, one at least, have a largest one.
LEMMA FiniteMaximum ==
  ASSUME NEW n \in Nat \ {0}, NEW f \in [1 .. n -> Int]
  PROVE  \E i \in 1 .. n : \A j \in 1 .. n : f[j] <= f[i]
<1> DEFINE Has(k) == \E i \in 1 .. k : \A j \in 1 .. k : f[j] <= f[i]
           T == {k \in Nat : k + 1 <= n => Has(k + 1)}
<1>1. 0 \in T
  <2>1. Has(1)
    <3>1. 1 .. 1 = {1} /\ 1 \in 1 .. n
      OBVIOUS
    <3>2. f[1] \in Int
      BY <3>1
    <3> QED BY <3>1, <3>2
  <2> HIDE DEF Has
  <2> QED BY <2>1
<1>2. ASSUME NEW k \in Nat, k \in T  PROVE k + 1 \in T
  <2> SUFFICES ASSUME (k + 1) + 1 <= n
               PROVE  Has((k + 1) + 1)
    OBVIOUS
  <2> DEFINE m == k + 1
  <2>1. /\ Has(m) /\ m \in Nat /\ m + 1 <= n
        /\ \A j \in 1 .. m + 1 : j \in 1 .. m \/ j = m + 1
    <3>1. m <= n
      OBVIOUS
    <3>2. Has(m)
      <4> HIDE DEF Has
      <4> QED BY <1>2, <3>1
    <3> QED BY <3>2
  <2> HIDE DEF m
  <2>2. PICK i \in 1 .. m : \A j \in 1 .. m : f[j] <= f[i]
    BY <2>1
  <2>3. /\ i \in 1 .. m + 1 /\ m + 1 \in 1 .. m + 1 /\ f[i] \in Int /\ f[m + 1] \in Int
        /\ \A j \in 1 .. m : f[j] \in Int
    BY <2>1
  <2>4. ASSUME f[m + 1] <= f[i]  PROVE Has(m + 1)
    <3>1. \A j \in 1 .. m + 1 : f[j] <= f[i]
      BY <2>1, <2>2, <2>4
    <3> QED BY <2>3, <3>1
  <2>5. ASSUME f[i] <= f[m + 1]  PROVE Has(m + 1)
    <3>1. \A j \in 1 .. m : f[j] <= f[m + 1]
      BY <2>2, <2>3, <2>5
    <3>2. f[m + 1] <= f[m + 1]
      BY <2>3
    <3>3. \A j \in 1 .. m + 1 : f[j] <= f[m + 1]
      BY <2>1, <3>1, <3>2
    <3> QED BY <2>3, <3>3
  <2>6. Has(m + 1)
    <3> HIDE DEF Has
    <3> QED BY <2>3, <2>4, <2>5
  <2> QED BY <2>6 DEF m
<1>3. Nat \subseteq T
  <2> HIDE DEF T
  <2> QED BY <1>1, <1>2, NatSetInduction
<1>4. n - 1 \in T /\ (n - 1) + 1 = n
  <2>1. n - 1 \in Nat /\ (n - 1) + 1 = n
    OBVIOUS
  <2> HIDE DEF T
  <2> QED BY <1>3, <2>1
<1> QED BY <1>4

-----------------------------------------------------------------------------
\* f is defined up to n by its value at 0 and a step from each value to the next.
Defines(f, n, V, base, step) ==
  /\ f \in [0 .. n -> V]
  /\ f[0] = base
  /\ \A i \in 1 .. n : f[i] = step[<<i, f[i - 1]>>]

\* f is defined for every number that way.
DefinesAll(f, V, base, step) ==
  /\ f \in [Nat -> V]
  /\ f[0] = base
  /\ \A i \in Nat \ {0} : f[i] = step[<<i, f[i - 1]>>]

\* A recursion over 0 .. n has a solution.
LEMMA FiniteRecursion ==
  ASSUME NEW V, NEW base \in V, NEW step \in [(Nat \ {0}) \X V -> V], NEW n \in Nat
  PROVE  \E f : Defines(f, n, V, base, step)
<1> DEFINE T == {k \in Nat : \E f : Defines(f, k, V, base, step)}
<1>1. 0 \in T
  <2>1. Defines([i \in 0 .. 0 |-> base], 0, V, base, step)
    BY DEF Defines
  <2> QED
    BY <2>1
<1>2. ASSUME NEW k \in Nat, k \in T
      PROVE  k + 1 \in T
  <2>1. PICK f : Defines(f, k, V, base, step)
    BY <1>2
  <2>2. /\ f \in [0 .. k -> V] /\ f[0] = base
        /\ \A i \in 1 .. k : f[i] = step[<<i, f[i - 1]>>]
    BY <2>1 DEF Defines
  <2> DEFINE last == step[<<k + 1, f[k]>>]
             g == [i \in 0 .. k + 1 |-> IF i = k + 1 THEN last ELSE f[i]]
  <2>3. last \in V
    BY <2>2
  <2> HIDE DEF last
  <2>4. g \in [0 .. k + 1 -> V] /\ g[0] = base /\ g[k + 1] = last /\ g[k] = f[k]
    BY <2>2, <2>3
  <2>5. \A i \in 1 .. k : g[i] = f[i] /\ g[i - 1] = f[i - 1]
    OBVIOUS
  <2> HIDE DEF g
  <2>6. \A i \in 1 .. k + 1 : g[i] = step[<<i, g[i - 1]>>]
    <3> SUFFICES ASSUME NEW i \in 1 .. k + 1
                 PROVE  g[i] = step[<<i, g[i - 1]>>]
      OBVIOUS
    <3>1. CASE i = k + 1
      BY <2>4, <3>1 DEF last
    <3>2. CASE i # k + 1
      <4>1. i \in 1 .. k
        BY <3>2
      <4> QED BY <2>2, <2>5, <4>1
    <3> QED BY <3>1, <3>2
  <2>7. Defines(g, k + 1, V, base, step)
    BY <2>4, <2>6 DEF Defines
  <2> QED BY <2>7
<1>3. Nat \subseteq T
  <2> HIDE DEF T
  <2> QED BY <1>1, <1>2, NatSetInduction
<1> QED
  BY <1>3

\* Two solutions agree where both are defined.
LEMMA RecursionIsUnique ==
  ASSUME NEW V, NEW base, NEW step, NEW m \in Nat, NEW n \in Nat, NEW f, NEW g,
         Defines(f, m, V, base, step), Defines(g, n, V, base, step),
         NEW k \in Nat, k <= m, k <= n
  PROVE  f[k] = g[k]
<1> DEFINE T == {i \in Nat : i <= m /\ i <= n => f[i] = g[i]}
<1>1. 0 \in T
  BY DEF Defines
<1>2. ASSUME NEW i \in Nat, i \in T
      PROVE  i + 1 \in T
  <2> SUFFICES ASSUME i + 1 <= m, i + 1 <= n
               PROVE  f[i + 1] = g[i + 1]
    OBVIOUS
  <2>1. f[i] = g[i] /\ i + 1 \in 1 .. m /\ i + 1 \in 1 .. n /\ (i + 1) - 1 = i
    BY <1>2
  <2> QED BY <2>1 DEF Defines
<1>3. Nat \subseteq T
  <2> HIDE DEF T
  <2> QED BY <1>1, <1>2, NatSetInduction
<1> QED
  BY <1>3

\* A recursion over all natural numbers has a solution.
LEMMA NatRecursion ==
  ASSUME NEW V, NEW base \in V, NEW step \in [(Nat \ {0}) \X V -> V]
  PROVE  \E f : DefinesAll(f, V, base, step)
<1> DEFINE F(n) == CHOOSE f : Defines(f, n, V, base, step)
           f == [n \in Nat |-> F(n)[n]]
<1>1. \A n \in Nat : Defines(F(n), n, V, base, step)
  BY FiniteRecursion
<1> HIDE DEF F
<1>2. \A n \in Nat : f[n] \in V
  BY <1>1 DEF Defines
<1>3. f[0] = base
  BY <1>1 DEF Defines
<1>4. ASSUME NEW i \in Nat \ {0}
      PROVE  f[i] = step[<<i, f[i - 1]>>]
  <2>1. F(i)[i] = step[<<i, F(i)[i - 1]>>]
    BY <1>1 DEF Defines
  <2>2. F(i)[i - 1] = F(i - 1)[i - 1]
    <3>1. i - 1 \in Nat /\ i \in Nat /\ i - 1 <= i /\ i - 1 <= i - 1
      OBVIOUS
    <3>2. Defines(F(i), i, V, base, step) /\ Defines(F(i - 1), i - 1, V, base, step)
      BY <1>1, <3>1
    <3> QED BY <3>1, <3>2, RecursionIsUnique
  <2> QED BY <2>1, <2>2
<1>5. DefinesAll(f, V, base, step)
  BY <1>2, <1>3, <1>4 DEF DefinesAll
<1> QED
  BY <1>5

-----------------------------------------------------------------------------
(* Sequences: what the results of loops contain.                           *)

LEMMA AppendElements ==
  ASSUME NEW S, NEW s \in Seq(S), NEW x \in S
  PROVE  Append(s, x) \in Seq(S) /\ Append(s, x) # <<>> /\ ToSet(Append(s, x)) = ToSet(s) \cup {x}
         /\ Last(Append(s, x)) = x
<1>1. /\ DOMAIN Append(s, x) = 1 .. Len(s) + 1 /\ DOMAIN s = 1 .. Len(s) /\ Len(s) \in Nat
      /\ Len(Append(s, x)) = Len(s) + 1
      /\ \A i \in 1 .. Len(s) : Append(s, x)[i] = s[i]
      /\ Append(s, x)[Len(s) + 1] = x
      /\ Append(s, x) \in Seq(S) /\ Append(s, x) # <<>>
  OBVIOUS
<1>2. ToSet(Append(s, x)) \subseteq ToSet(s) \cup {x}
  BY <1>1 DEF ToSet
<1>3. ToSet(s) \cup {x} \subseteq ToSet(Append(s, x))
  BY <1>1 DEF ToSet
<1> QED BY <1>1, <1>2, <1>3 DEF Last

LEMMA ConcatElements ==
  ASSUME NEW S, NEW s \in Seq(S), NEW t \in Seq(S)
  PROVE  s \o t \in Seq(S) /\ ToSet(s \o t) = ToSet(s) \cup ToSet(t)
<1>1. /\ Len(s \o t) = Len(s) + Len(t) /\ s \o t \in Seq(S) /\ Len(s) \in Nat /\ Len(t) \in Nat
      /\ DOMAIN s = 1 .. Len(s) /\ DOMAIN t = 1 .. Len(t) /\ DOMAIN (s \o t) = 1 .. Len(s) + Len(t)
      /\ \A i \in 1 .. Len(s) : (s \o t)[i] = s[i]
      /\ \A i \in 1 .. Len(t) : (s \o t)[Len(s) + i] = t[i]
  OBVIOUS
<1>2. ToSet(s \o t) \subseteq ToSet(s) \cup ToSet(t)
  <2> SUFFICES ASSUME NEW i \in DOMAIN (s \o t)
               PROVE  (s \o t)[i] \in ToSet(s) \cup ToSet(t)
    BY DEF ToSet
  <2>1. CASE i \in 1 .. Len(s)
    BY <1>1, <2>1 DEF ToSet
  <2>2. CASE i \notin 1 .. Len(s)
    <3>1. i - Len(s) \in 1 .. Len(t) /\ Len(s) + (i - Len(s)) = i
      BY <1>1, <2>2
    <3> QED BY <1>1, <3>1 DEF ToSet
  <2> QED BY <2>1, <2>2
<1>3. ToSet(s) \subseteq ToSet(s \o t)
  BY <1>1 DEF ToSet
<1>4. ToSet(t) \subseteq ToSet(s \o t)
  <2> SUFFICES ASSUME NEW i \in DOMAIN t
               PROVE  t[i] \in ToSet(s \o t)
    BY DEF ToSet
  <2>1. Len(s) + i \in DOMAIN (s \o t) /\ (s \o t)[Len(s) + i] = t[i]
    BY <1>1
  <2> QED BY <2>1 DEF ToSet
<1> QED BY <1>1, <1>2, <1>3, <1>4

LEMMA EmptyElements == ToSet(<<>>) = {} /\ \A S : <<>> \in Seq(S)
BY DEF ToSet

\* What FlattenSeq computes, from the first sequence on.
LEMMA FlattenRecursion ==
  ASSUME NEW S, NEW seqs \in Seq(Seq(S)), Len(seqs) # 0
  PROVE  \E flat : /\ FlattenSeq(seqs) = flat[Len(seqs)]
                   /\ flat[1] = seqs[1]
                   /\ \A i \in 1 .. Len(seqs) : i # 1 => flat[i] = flat[i - 1] \o seqs[i]
<1> DEFINE n == Len(seqs)
           V == Seq(S)
           base == seqs[1]
           step == [x \in (Nat \ {0}) \X V |-> IF x[1] + 1 \in 1 .. n THEN x[2] \o seqs[x[1] + 1] ELSE x[2]]
           Body(f) == [i \in 1 .. n |-> IF i = 1 THEN seqs[i] ELSE f[i - 1] \o seqs[i]]
           flat == CHOOSE f : f = Body(f)
<1>1. n \in Nat /\ n # 0 /\ DOMAIN seqs = 1 .. n /\ \A i \in 1 .. n : seqs[i] \in Seq(S)
  OBVIOUS
<1>2. FlattenSeq(seqs) = flat[n]
  BY <1>1 DEF FlattenSeq
<1>3. base \in V /\ n - 1 \in Nat
  BY <1>1
<1> HIDE DEF n
<1>4. \A i \in Nat \ {0}, v \in V : i + 1 \in 1 .. n => step[<<i, v>>] = v \o seqs[i + 1]
  OBVIOUS
<1>5. step \in [(Nat \ {0}) \X V -> V]
  BY <1>1, ConcatElements
<1> HIDE DEF step
<1>6. PICK g : Defines(g, n - 1, V, base, step)
  <2> HIDE DEF V, base
  <2> QED BY <1>3, <1>5, FiniteRecursion
<1> DEFINE f == [i \in 1 .. n |-> g[i - 1]]
<1>7. f = Body(f)
  <2>1. /\ g \in [0 .. n - 1 -> V] /\ g[0] = base
        /\ \A i \in 1 .. n - 1 : g[i] = step[<<i, g[i - 1]>>]
    BY <1>6 DEF Defines
  <2>2. \A i \in 1 .. n : i # 1 => f[i] = f[i - 1] \o seqs[i]
    <3> SUFFICES ASSUME NEW i \in 1 .. n, i # 1
                 PROVE  f[i] = f[i - 1] \o seqs[i]
      OBVIOUS
    <3>1. /\ i - 1 \in Nat \ {0} /\ i - 1 \in 1 .. n - 1 /\ (i - 1) + 1 = i /\ i - 1 \in 1 .. n
          /\ (i - 1) - 1 \in 0 .. n - 1
      BY <1>1
    <3>2. f[i] = g[i - 1] /\ f[i - 1] = g[(i - 1) - 1] /\ g[(i - 1) - 1] \in V
      BY <2>1, <3>1
    <3> HIDE DEF f, V, base
    <3>3. g[i - 1] = step[<<i - 1, g[(i - 1) - 1]>>]
      BY <2>1, <3>1
    <3>4. step[<<i - 1, g[(i - 1) - 1]>>] = g[(i - 1) - 1] \o seqs[i]
      BY <1>4, <3>1, <3>2
    <3> QED BY <3>2, <3>3, <3>4
  <2>3. f[1] = seqs[1]
    BY <1>1, <2>1
  <2>4. f = [i \in 1 .. n |-> f[i]]
    OBVIOUS
  <2> HIDE DEF f
  <2> QED BY <2>2, <2>3, <2>4
<1> HIDE DEF f
<1>8. flat = Body(flat)
  <2> HIDE DEF Body
  <2> QED BY <1>7
<1> HIDE DEF flat
<1>9. flat[1] = seqs[1] /\ \A i \in 1 .. n : i # 1 => flat[i] = flat[i - 1] \o seqs[i]
  <2>1. 1 \in 1 .. n
    BY <1>1
  <2>2. \A i \in 1 .. n : flat[i] = IF i = 1 THEN seqs[i] ELSE flat[i - 1] \o seqs[i]
    BY <1>8, Zenon
  <2> QED BY <2>1, <2>2
<1> HIDE DEF Body
<1> QED
  BY <1>2, <1>9 DEF n

\* t is found in s from place i on.
IsPart(t, s, i) == \A k \in 1 .. Len(t) : s[i + k - 1] = t[k]

LEMMA PartIs ==
  ASSUME NEW S, NEW s \in Seq(S), NEW t \in Seq(S), NEW i \in Nat, 1 <= i,
         NEW e \in Int, e = i + Len(t) - 1, e <= Len(s), IsPart(t, s, i)
  PROVE  SubSeq(s, i, e) = t
<1> DEFINE part == SubSeq(s, i, e)
           n == Len(t)
<1>1. n \in Nat /\ e - i + 1 = n /\ (i <= e <=> n # 0) /\ Len(s) \in Nat /\ \A k \in 1 .. Len(s) : s[k] \in S
  OBVIOUS
<1>2. \A k \in i .. e : s[k] \in S
  BY <1>1
<1>3. /\ part \in Seq(S) /\ Len(part) = IF i <= e THEN e - i + 1 ELSE 0
      /\ \A k \in 1 .. e - i + 1 : part[k] = s[i + k - 1]
  BY <1>2, SubSeqProperties
<1>4. \A k \in 1 .. n : s[i + k - 1] = t[k]
  BY DEF IsPart
<1> HIDE DEF part, n
<1>5. Len(part) = n /\ \A k \in 1 .. n : part[k] = t[k]
  BY <1>1, <1>3, <1>4
<1>6. part = t
  BY <1>3, <1>5, SeqEqual DEF n
<1> QED BY <1>6 DEF part

\* What a sequence is made of.
LEMMA ElementType ==
  ASSUME NEW S, NEW s \in Seq(S), NEW i \in DOMAIN s
  PROVE  s[i] \in S
OBVIOUS

\* The first two elements.
LEMMA FirstTwo ==
  ASSUME NEW S, NEW s \in Seq(S), Len(s) >= 2
  PROVE  SubSeq(s, 1, 2) = <<s[1], s[2]>>
<1> DEFINE t == SubSeq(s, 1, 2)
<1>1. t \in Seq(S) /\ Len(t) = 2
  OBVIOUS
<1>2. t[1] = s[1] /\ t[2] = s[2]
  OBVIOUS
<1>3. t[1] \in S /\ t[2] \in S
  BY <1>2
<1> HIDE DEF t
<1>4. t = <<t[1], t[2]>>
  BY <1>1, <1>3
<1> QED BY <1>2, <1>4 DEF t

\* Flattened sequences hold the elements of all of them.
LEMMA FlattenElements ==
  ASSUME NEW S, NEW seqs \in Seq(Seq(S))
  PROVE  /\ FlattenSeq(seqs) \in Seq(S)
         /\ ToSet(FlattenSeq(seqs)) = UNION {ToSet(seqs[i]) : i \in DOMAIN seqs}
<1> DEFINE n == Len(seqs)
<1>1. n \in Nat /\ DOMAIN seqs = 1 .. n /\ \A i \in 1 .. n : seqs[i] \in Seq(S)
  OBVIOUS
<1>2. CASE n = 0
  <2>1. FlattenSeq(seqs) = <<>> /\ DOMAIN seqs = {}
    BY <1>2 DEF FlattenSeq
  <2> QED BY <2>1, EmptyElements
<1>3. CASE n # 0
  <2>1. PICK flat : /\ FlattenSeq(seqs) = flat[n] /\ flat[1] = seqs[1]
                    /\ \A i \in 1 .. n : i # 1 => flat[i] = flat[i - 1] \o seqs[i]
    BY <1>3, FlattenRecursion
  <2> HIDE DEF n
  <2> DEFINE All(k) == UNION {ToSet(seqs[i]) : i \in 1 .. k}
             Good(k) == flat[k] \in Seq(S) /\ ToSet(flat[k]) = All(k)
             T == {k \in Nat : k + 1 <= n => Good(k + 1)}
  <2>2. 0 \in T
    <3>1. Good(1)
      <4>1. 1 .. 1 = {1} /\ 1 \in 1 .. n
        BY <1>1, <1>3
      <4> QED BY <1>1, <2>1, <4>1
    <3> HIDE DEF Good
    <3> QED BY <3>1
  <2>3. ASSUME NEW k \in Nat, k \in T  PROVE k + 1 \in T
    <3> SUFFICES ASSUME (k + 1) + 1 <= n
                 PROVE  Good((k + 1) + 1)
      OBVIOUS
    <3> DEFINE m == k + 1
    <3>1. Good(m) /\ m + 1 \in 1 .. n /\ m + 1 # 1 /\ (m + 1) - 1 = m
      <4>1. m <= n /\ m + 1 \in 1 .. n /\ m + 1 # 1 /\ (m + 1) - 1 = m
        BY <1>1
      <4> HIDE DEF Good
      <4> QED BY <2>3, <4>1
    <3>2. 1 .. m + 1 = (1 .. m) \cup {m + 1}
      OBVIOUS
    <3> HIDE DEF m
    <3>3. flat[m + 1] = flat[m] \o seqs[m + 1]
      BY <2>1, <3>1
    <3>4. All(m + 1) = All(m) \cup ToSet(seqs[m + 1])
      BY <3>2
    <3>5. Good(m + 1)
      <4>1. seqs[m + 1] \in Seq(S) /\ flat[m] \in Seq(S) /\ ToSet(flat[m]) = All(m)
        BY <1>1, <3>1
      <4> HIDE DEF All
      <4>2. /\ flat[m] \o seqs[m + 1] \in Seq(S)
            /\ ToSet(flat[m] \o seqs[m + 1]) = All(m) \cup ToSet(seqs[m + 1])
        BY <4>1, ConcatElements
      <4> QED BY <3>3, <3>4, <4>2
    <3> QED BY <3>5 DEF m
  <2>4. Nat \subseteq T
    <3> HIDE DEF T
    <3> QED BY <2>2, <2>3, NatSetInduction
  <2>5. Good(n)
    <3>1. n - 1 \in Nat /\ (n - 1) + 1 = n /\ (n - 1) + 1 <= n
      BY <1>1, <1>3
    <3>2. n - 1 \in T
      <4> HIDE DEF T
      <4> QED BY <2>4, <3>1
    <3> HIDE DEF Good
    <3> QED BY <3>1, <3>2
  <2> QED BY <1>1, <2>1, <2>5
<1> QED BY <1>2, <1>3

\* p is how s begins.
StartsWith(s, p) == Len(p) <= Len(s) /\ \A k \in 1 .. Len(p) : s[k] = p[k]

LEMMA ConcatStarts ==
  ASSUME NEW S, NEW s \in Seq(S), NEW t \in Seq(S), NEW p \in Seq(S)
  PROVE  /\ StartsWith(s, p) => StartsWith(s \o t, p)
         /\ t = <<>> => s \o t = s
         /\ s = <<>> => s \o t = t
         /\ StartsWith(s, s)
<1>1. StartsWith(s, p) => StartsWith(s \o t, p)
  <2> SUFFICES ASSUME StartsWith(s, p) PROVE StartsWith(s \o t, p)
    OBVIOUS
  <2>1. /\ Len(s \o t) = Len(s) + Len(t) /\ Len(s) \in Nat /\ Len(t) \in Nat /\ Len(p) \in Nat
        /\ \A k \in 1 .. Len(s) : (s \o t)[k] = s[k]
    OBVIOUS
  <2> QED BY <2>1 DEF StartsWith
<1>2. (t = <<>> => s \o t = s) /\ (s = <<>> => s \o t = t)
  OBVIOUS
<1> QED BY <1>1, <1>2 DEF StartsWith

\* Flattening begins with the first sequence that is not empty, and is that sequence
\* if no other follows it.
LEMMA FlattenStarts ==
  ASSUME NEW S, NEW seqs \in Seq(Seq(S)), NEW m \in DOMAIN seqs,
         \A i \in 1 .. m - 1 : seqs[i] = <<>>
  PROVE  /\ StartsWith(FlattenSeq(seqs), seqs[m])
         /\ (\A i \in m + 1 .. Len(seqs) : seqs[i] = <<>>) => FlattenSeq(seqs) = seqs[m]
<1> DEFINE n == Len(seqs)
<1>1. n \in Nat /\ n # 0 /\ m \in 1 .. n /\ \A i \in 1 .. n : seqs[i] \in Seq(S)
  OBVIOUS
<1>2. PICK flat : /\ FlattenSeq(seqs) = flat[n] /\ flat[1] = seqs[1]
                  /\ \A i \in 1 .. n : i # 1 => flat[i] = flat[i - 1] \o seqs[i]
  BY <1>1, FlattenRecursion
<1> HIDE DEF n
<1> DEFINE Added(k) == {i \in m + 1 .. k : seqs[i] # <<>>}
           Good(k) == /\ flat[k] \in Seq(S)
                      /\ k < m => flat[k] = <<>>
                      /\ k >= m => StartsWith(flat[k], seqs[m]) /\ (flat[k] = seqs[m] \/ Added(k) # {})
           T == {k \in Nat : k + 1 <= n => Good(k + 1)}
<1>3. 0 \in T
  <2>1. Good(1)
    <3>1. 1 \in 1 .. n /\ flat[1] \in Seq(S)
      BY <1>1, <1>2
    <3>2. CASE m = 1
      BY <1>2, <3>1, <3>2, ConcatStarts
    <3>3. CASE m # 1
      BY <1>1, <1>2, <3>1, <3>3
    <3> QED BY <3>2, <3>3
  <2> HIDE DEF Good
  <2> QED BY <2>1
<1>4. ASSUME NEW k \in Nat, k \in T  PROVE k + 1 \in T
  <2> SUFFICES ASSUME (k + 1) + 1 <= n
               PROVE  Good((k + 1) + 1)
    OBVIOUS
  <2> DEFINE i == k + 1
  <2>1. Good(i) /\ i \in Nat /\ i + 1 \in 1 .. n /\ i + 1 # 1 /\ (i + 1) - 1 = i
    <3>1. i <= n /\ i \in Nat /\ i + 1 \in 1 .. n /\ i + 1 # 1 /\ (i + 1) - 1 = i
      BY <1>1
    <3> HIDE DEF Good
    <3> QED BY <1>4, <3>1
  <2> HIDE DEF i
  <2> HIDE DEF T, Added
  <2>2. flat[i + 1] = flat[i] \o seqs[i + 1] /\ flat[i] \in Seq(S) /\ seqs[i + 1] \in Seq(S)
        /\ seqs[m] \in Seq(S)
    BY <1>1, <1>2, <2>1
  <2>3. flat[i + 1] \in Seq(S)
    BY <2>2, ConcatElements
  <2>4. Good(i + 1)
    <3>1. CASE i + 1 < m
      <4>1. m \in Int /\ i < m /\ i + 1 \in 1 .. m - 1
        BY <1>1, <2>1, <3>1
      <4>2. seqs[i + 1] = <<>>
        BY <4>1
      <4>3. flat[i] = <<>>
        BY <2>1, <4>1
      <4>4. flat[i + 1] = <<>>
        BY <2>2, <4>2, <4>3, ConcatStarts
      <4> QED BY <1>1, <2>1, <2>3, <3>1, <4>4
    <3>2. CASE i + 1 = m
      <4>1. flat[i] = <<>>
        BY <1>1, <2>1, <3>2
      <4>2. flat[m] = seqs[m]
        BY <2>2, <3>2, <4>1, ConcatStarts
      <4>3. StartsWith(flat[m], seqs[m])
        BY <2>2, <4>2, ConcatStarts
      <4> QED BY <1>1, <2>3, <3>2, <4>2, <4>3
    <3>3. CASE i + 1 > m
      <4>1. StartsWith(flat[i], seqs[m]) /\ (flat[i] = seqs[m] \/ Added(i) # {})
        BY <1>1, <2>1, <3>3
      <4>2. StartsWith(flat[i + 1], seqs[m])
        BY <2>2, <4>1, ConcatStarts
      <4>3. Added(i + 1) = IF seqs[i + 1] = <<>> THEN Added(i) ELSE Added(i) \cup {i + 1}
        <5>1. m + 1 .. i + 1 = (m + 1 .. i) \cup {i + 1}
          BY <1>1, <2>1, <3>3
        <5> QED BY <5>1 DEF Added
      <4>4. flat[i + 1] = seqs[m] \/ Added(i + 1) # {}
        <5>1. CASE seqs[i + 1] = <<>>
          BY <2>2, <4>1, <4>3, <5>1, ConcatStarts
        <5>2. CASE seqs[i + 1] # <<>>
          BY <4>3, <5>2
        <5> QED BY <5>1, <5>2
      <4> QED BY <1>1, <2>1, <2>3, <3>3, <4>2, <4>4
    <3> QED BY <1>1, <2>1, <3>1, <3>2, <3>3
  <2> QED BY <2>4 DEF i
<1>5. Nat \subseteq T
  <2> HIDE DEF T
  <2> QED BY <1>3, <1>4, NatSetInduction
<1>6. Good(n)
  <2>1. n - 1 \in Nat /\ (n - 1) + 1 = n /\ (n - 1) + 1 <= n
    BY <1>1
  <2>2. n - 1 \in T
    <3> HIDE DEF T
    <3> QED BY <1>5, <2>1
  <2> HIDE DEF Good
  <2> QED BY <2>1, <2>2
<1> QED BY <1>1, <1>2, <1>6 DEF n

\* flat[i] is what the first i sequences give.
IsFlattening(flat, seqs, S) ==
  /\ flat \in [0 .. Len(seqs) -> Seq(S)]
  /\ flat[0] = <<>>
  /\ \A i \in 1 .. Len(seqs) : flat[i] = flat[i - 1] \o seqs[i]

\* Flattening goes through the sequences one after another.
LEMMA FlattenPrefixes ==
  ASSUME NEW S, NEW seqs \in Seq(Seq(S))
  PROVE  \E flat : IsFlattening(flat, seqs, S) /\ FlattenSeq(seqs) = flat[Len(seqs)]
<1> DEFINE n == Len(seqs)
<1>1. n \in Nat /\ \A i \in 1 .. n : seqs[i] \in Seq(S)
  OBVIOUS
<1>2. CASE n = 0
  <2> DEFINE flat == [i \in 0 .. n |-> <<>>]
  <2>1. IsFlattening(flat, seqs, S)
    BY <1>2, EmptyElements DEF IsFlattening
  <2>2. FlattenSeq(seqs) = <<>>
    BY <1>2 DEF FlattenSeq
  <2> QED BY <1>2, <2>1, <2>2
<1>3. CASE n # 0
  <2>1. PICK f : /\ FlattenSeq(seqs) = f[n] /\ f[1] = seqs[1]
                 /\ \A i \in 1 .. n : i # 1 => f[i] = f[i - 1] \o seqs[i]
    BY <1>3, FlattenRecursion
  <2> DEFINE flat == [i \in 0 .. n |-> IF i = 0 THEN <<>> ELSE f[i]]
             T == {i \in Nat : i <= n => flat[i] \in Seq(S)}
  <2> HIDE DEF n
  <2>2. \A i \in 1 .. n : flat[i] = flat[i - 1] \o seqs[i]
    <3> SUFFICES ASSUME NEW i \in 1 .. n PROVE flat[i] = flat[i - 1] \o seqs[i]
      OBVIOUS
    <3>1. CASE i = 1
      <4>1. flat[i] = seqs[1] /\ flat[i - 1] = <<>> /\ seqs[1] \in Seq(S)
        BY <1>1, <2>1, <3>1
      <4> HIDE DEF flat
      <4> QED BY <3>1, <4>1, ConcatEmptySeq
    <3>2. CASE i # 1
      <4>1. i \in 0 .. n /\ i - 1 \in 0 .. n /\ i # 0 /\ i - 1 # 0
        BY <1>1, <3>2
      <4>2. flat[i] = f[i] /\ flat[i - 1] = f[i - 1]
        BY <4>1
      <4> HIDE DEF flat
      <4> QED BY <2>1, <3>2, <4>2
    <3> QED BY <3>1, <3>2
  <2>3. flat[0] = <<>> /\ FlattenSeq(seqs) = flat[n] /\ DOMAIN flat = 0 .. n /\ flat = [i \in 0 .. n |-> flat[i]]
    BY <1>1, <1>3, <2>1
  <2> HIDE DEF flat
  <2>4. 0 \in T
    BY <2>3, EmptyElements
  <2>5. ASSUME NEW i \in Nat, i \in T PROVE i + 1 \in T
    <3> SUFFICES ASSUME i + 1 <= n PROVE flat[i + 1] \in Seq(S)
      OBVIOUS
    <3>1. i + 1 \in 1 .. n /\ (i + 1) - 1 = i /\ flat[i] \in Seq(S)
      BY <1>1, <2>5
    <3>2. flat[i + 1] = flat[i] \o seqs[i + 1] /\ seqs[i + 1] \in Seq(S)
      BY <1>1, <2>2, <3>1
    <3> QED BY <3>1, <3>2, ConcatElements
  <2>6. Nat \subseteq T
    <3> HIDE DEF T
    <3> QED BY <2>4, <2>5, NatSetInduction
  <2>7. flat \in [0 .. n -> Seq(S)]
    BY <1>1, <2>3, <2>6
  <2> QED BY <2>2, <2>3, <2>7 DEF IsFlattening, n
<1> QED BY <1>2, <1>3

\* Sequences that begin in the same way are flattened in the same way so far.
LEMMA FlatteningsAgree ==
  ASSUME NEW S, NEW seqs \in Seq(Seq(S)), NEW others \in Seq(Seq(S)), NEW flat, NEW g,
         IsFlattening(flat, seqs, S), IsFlattening(g, others, S),
         NEW k \in Nat, k <= Len(seqs), k <= Len(others), \A i \in 1 .. k : seqs[i] = others[i]
  PROVE  flat[k] = g[k]
<1> DEFINE T == {i \in Nat : i <= k => flat[i] = g[i]}
<1>0. Len(seqs) \in Nat /\ Len(others) \in Nat
  OBVIOUS
<1>1. 0 \in T
  BY DEF IsFlattening
<1>2. ASSUME NEW i \in Nat, i \in T PROVE i + 1 \in T
  <2> SUFFICES ASSUME i + 1 <= k PROVE flat[i + 1] = g[i + 1]
    OBVIOUS
  <2>1. /\ i + 1 \in 1 .. Len(seqs) /\ i + 1 \in 1 .. Len(others) /\ (i + 1) - 1 = i
        /\ flat[i] = g[i] /\ seqs[i + 1] = others[i + 1]
    BY <1>0, <1>2
  <2> QED BY <2>1 DEF IsFlattening
<1>3. Nat \subseteq T
  <2> HIDE DEF T
  <2> QED BY <1>1, <1>2, NatSetInduction
<1> QED BY <1>3

\* The first k sequences by themselves.
LEMMA FlattenFirst ==
  ASSUME NEW S, NEW seqs \in Seq(Seq(S)), NEW flat, IsFlattening(flat, seqs, S), NEW k \in 0 .. Len(seqs)
  PROVE  FlattenSeq(SubSeq(seqs, 1, k)) = flat[k]
<1> DEFINE first == SubSeq(seqs, 1, k)
<1>1. /\ Len(seqs) \in Nat /\ k \in Nat /\ k <= Len(seqs)
      /\ \A i \in 1 .. k : seqs[i] \in Seq(S)
  OBVIOUS
<1>2. /\ first \in Seq(Seq(S)) /\ Len(first) = k
      /\ \A i \in 1 .. k : first[i] = seqs[i]
  BY <1>1, SubSeqProperties
<1> HIDE DEF first
<1>3. PICK g : IsFlattening(g, first, S) /\ FlattenSeq(first) = g[Len(first)]
  BY <1>2, FlattenPrefixes
<1>4. flat[k] = g[k]
  BY <1>1, <1>2, <1>3, FlatteningsAgree
<1> QED BY <1>2, <1>3, <1>4 DEF first

\* One more sequence at the end.
LEMMA FlattenAppend ==
  ASSUME NEW S, NEW seqs \in Seq(Seq(S)), NEW last \in Seq(S)
  PROVE  FlattenSeq(Append(seqs, last)) = FlattenSeq(seqs) \o last
<1> DEFINE all == Append(seqs, last)
           n == Len(seqs)
<1>1. /\ all \in Seq(Seq(S)) /\ Len(all) = n + 1 /\ n \in Nat /\ all[n + 1] = last
      /\ \A i \in 1 .. n : all[i] = seqs[i]
  OBVIOUS
<1> HIDE DEF all, n
<1>2. PICK flat : IsFlattening(flat, seqs, S) /\ FlattenSeq(seqs) = flat[n]
  BY FlattenPrefixes DEF n
<1>3. PICK g : IsFlattening(g, all, S) /\ FlattenSeq(all) = g[n + 1]
  BY <1>1, FlattenPrefixes
<1>4. flat[n] = g[n]
  <2>1. n <= Len(seqs) /\ n <= Len(all) /\ \A i \in 1 .. n : seqs[i] = all[i]
    <3>1. n = Len(seqs)
      BY DEF n
    <3>2. n <= Len(seqs) /\ n <= Len(all)
      BY <1>1, <3>1
    <3>3. \A i \in 1 .. n : seqs[i] = all[i]
      BY <1>1
    <3> QED BY <3>2, <3>3
  <2>2. IsFlattening(flat, seqs, S) /\ IsFlattening(g, all, S) /\ n \in Nat /\ all \in Seq(Seq(S))
    BY <1>1, <1>2, <1>3
  <2> QED BY <2>1, <2>2, FlatteningsAgree
<1>5. g[n + 1] = g[n] \o all[n + 1]
  <2>1. n \in Nat /\ Len(all) = n + 1
    BY <1>1
  <2>2. n + 1 \in 1 .. n + 1 /\ (n + 1) - 1 = n
    BY <2>1
  <2> QED BY <1>3, <2>1, <2>2 DEF IsFlattening
<1> QED BY <1>1, <1>2, <1>3, <1>4, <1>5 DEF all

\* What a part gives is found in the whole, behind what those before it give.
LEMMA FlattenPlaces ==
  ASSUME NEW S, NEW seqs \in Seq(Seq(S)), NEW flat, IsFlattening(flat, seqs, S),
         NEW i \in 0 .. Len(seqs), NEW j \in i .. Len(seqs)
  PROVE  StartsWith(flat[j], flat[i])
<1> DEFINE T == {d \in Nat : i + d <= Len(seqs) => StartsWith(flat[i + d], flat[i])}
<1>0. /\ Len(seqs) \in Nat /\ i \in Nat /\ \A k \in 0 .. Len(seqs) : flat[k] \in Seq(S)
      /\ \A k \in 1 .. Len(seqs) : seqs[k] \in Seq(S)
  <2>1. flat \in [0 .. Len(seqs) -> Seq(S)]
    BY DEF IsFlattening
  <2>2. \A k \in 1 .. Len(seqs) : seqs[k] \in Seq(S)
    OBVIOUS
  <2>3. Len(seqs) \in Nat /\ i \in Nat
    OBVIOUS
  <2>4. \A k \in 0 .. Len(seqs) : flat[k] \in Seq(S)
    BY <2>1
  <2> QED BY <2>2, <2>3, <2>4
<1>1. 0 \in T
  <2>1. i + 0 = i /\ StartsWith(flat[i], flat[i])
    BY <1>0 DEF StartsWith
  <2> QED BY <2>1
<1>2. ASSUME NEW d \in Nat, d \in T PROVE d + 1 \in T
  <2> SUFFICES ASSUME i + (d + 1) <= Len(seqs) PROVE StartsWith(flat[i + (d + 1)], flat[i])
    OBVIOUS
  <2> DEFINE m == i + (d + 1)
  <2>1. m \in 1 .. Len(seqs) /\ m - 1 = i + d /\ m - 1 \in 0 .. Len(seqs) /\ StartsWith(flat[m - 1], flat[i])
    BY <1>0, <1>2
  <2> HIDE DEF m
  <2>2. flat[m] = flat[m - 1] \o seqs[m] /\ flat[m - 1] \in Seq(S) /\ seqs[m] \in Seq(S) /\ flat[i] \in Seq(S)
    BY <1>0, <2>1 DEF IsFlattening
  <2>3. StartsWith(flat[m], flat[i])
    BY <2>1, <2>2, ConcatStarts
  <2> QED BY <2>3 DEF m
<1>3. Nat \subseteq T
  <2> HIDE DEF T
  <2> QED BY <1>1, <1>2, NatSetInduction
<1>4. j - i \in Nat /\ i + (j - i) = j /\ i + (j - i) <= Len(seqs)
  BY <1>0
<1>5. j - i \in T
  BY <1>3, <1>4
<1> QED BY <1>4, <1>5

\* Flattening what is left is one sequence and then the rest.
LEMMA FlattenRest ==
  ASSUME NEW S, NEW seqs \in Seq(Seq(S)), NEW r \in Nat, r < Len(seqs)
  PROVE  FlattenSeq(SubSeq(seqs, r + 1, Len(seqs))) = seqs[r + 1] \o FlattenSeq(SubSeq(seqs, (r + 1) + 1, Len(seqs)))
<1> DEFINE n == Len(seqs)
           a == SubSeq(seqs, r + 1, n)
           b == SubSeq(seqs, (r + 1) + 1, n)
           l == n - (r + 1)
           head == seqs[r + 1]
<1>1. n \in Nat /\ r < n /\ l \in Nat /\ \A i \in 1 .. n : seqs[i] \in Seq(S)
  OBVIOUS
<1>2. /\ a \in Seq(Seq(S)) /\ Len(a) = l + 1 /\ \A i \in 1 .. l + 1 : a[i] = seqs[r + i]
  <2>1. \A i \in r + 1 .. n : seqs[i] \in Seq(S)
    BY <1>1
  <2>2. r + 1 \in Int /\ n \in Int /\ n - (r + 1) + 1 = l + 1 /\ r + 1 <= n /\ \A i \in 1 .. l + 1 : (r + 1) + i - 1 = r + i
    BY <1>1
  <2>3. a \in Seq(Seq(S)) /\ Len(a) = l + 1 /\ \A i \in 1 .. l + 1 : a[i] = seqs[(r + 1) + i - 1]
    <3> HIDE DEF n, l
    <3> QED BY <2>1, <2>2, SubSeqProperties
  <2> HIDE DEF a, l
  <2> QED BY <2>2, <2>3
<1>3. /\ b \in Seq(Seq(S)) /\ Len(b) = l /\ \A i \in 1 .. l : b[i] = seqs[r + (i + 1)]
  <2>1. \A i \in (r + 1) + 1 .. n : seqs[i] \in Seq(S)
    BY <1>1
  <2>2. (r + 1) + 1 \in Int /\ n \in Int /\ n - ((r + 1) + 1) + 1 = l /\ (~((r + 1) + 1 <= n) => l = 0) /\ \A i \in 1 .. l : ((r + 1) + 1) + i - 1 = r + (i + 1)
    BY <1>1
  <2>3. b \in Seq(Seq(S)) /\ Len(b) = l /\ \A i \in 1 .. l : b[i] = seqs[((r + 1) + 1) + i - 1]
    <3> HIDE DEF n, l
    <3> QED BY <2>1, <2>2, SubSeqProperties
  <2> HIDE DEF b, l
  <2> QED BY <2>2, <2>3
<1>4. head \in Seq(S)
  BY <1>1
<1> HIDE DEF a, b, l, n, head
<1>5. a[1] = head /\ \A i \in 1 .. l : a[i + 1] = b[i] /\ b[i] \in Seq(S)
  <2>1. a[1] = head
    BY <1>1, <1>2 DEF head
  <2>2. ASSUME NEW i \in 1 .. l PROVE a[i + 1] = b[i] /\ b[i] \in Seq(S)
    <3>1. i + 1 \in 1 .. l + 1
      BY <1>1
    <3>2. a[i + 1] = seqs[r + (i + 1)] /\ b[i] = seqs[r + (i + 1)]
      BY <1>2, <1>3, <3>1
    <3>3. b[i] \in Seq(S)
      BY <1>3
    <3> QED BY <3>2, <3>3
  <2> QED BY <2>1, <2>2
<1>6. PICK g : IsFlattening(g, a, S) /\ FlattenSeq(a) = g[l + 1]
  <2>1. a \in Seq(Seq(S))
    BY <1>2
  <2>2. PICK g : IsFlattening(g, a, S) /\ FlattenSeq(a) = g[Len(a)]
    BY <2>1, FlattenPrefixes
  <2> QED BY <1>2, <2>2
<1>7. PICK h : IsFlattening(h, b, S) /\ FlattenSeq(b) = h[l]
  BY <1>3, FlattenPrefixes
<1>8. /\ g[0] = <<>> /\ h[0] = <<>>
      /\ \A i \in 1 .. l + 1 : g[i] = g[i - 1] \o a[i]
      /\ \A i \in 1 .. l : h[i] = h[i - 1] \o b[i]
      /\ \A i \in 0 .. l : h[i] \in Seq(S)
  BY <1>2, <1>3, <1>6, <1>7 DEF IsFlattening
<1> DEFINE T == {k \in Nat : k <= l => g[k + 1] = head \o h[k]}
<1>9. 0 \in T
  <2>1. 1 \in 1 .. l + 1 /\ 1 - 1 = 0 /\ 0 + 1 = 1
    BY <1>1
  <2>2. g[1] = <<>> \o head
    BY <1>5, <1>8, <2>1
  <2>3. g[1] = head \o <<>>
    BY <1>4, <2>2, ConcatEmptySeq
  <2> QED BY <1>8, <2>1, <2>3
<1>10. ASSUME NEW k \in Nat, k \in T PROVE k + 1 \in T
  <2> SUFFICES ASSUME k + 1 <= l PROVE g[(k + 1) + 1] = head \o h[k + 1]
    OBVIOUS
  <2>1. /\ k + 1 \in 1 .. l /\ (k + 1) + 1 \in 1 .. l + 1 /\ ((k + 1) + 1) - 1 = k + 1 /\ (k + 1) - 1 = k /\ k \in 0 .. l
        /\ g[k + 1] = head \o h[k]
    BY <1>1, <1>10
  <2>2. g[(k + 1) + 1] = (head \o h[k]) \o b[k + 1]
    BY <1>5, <1>8, <2>1
  <2>3. h[k + 1] = h[k] \o b[k + 1] /\ h[k] \in Seq(S) /\ b[k + 1] \in Seq(S)
    BY <1>5, <1>8, <2>1
  <2>4. (head \o h[k]) \o b[k + 1] = head \o (h[k] \o b[k + 1])
    <3> DEFINE y == h[k]
               z == b[k + 1]
    <3>1. y \in Seq(S) /\ z \in Seq(S)
      BY <2>3
    <3> HIDE DEF y, z
    <3>2. (head \o y) \o z = head \o (y \o z)
      BY ONLY <1>4, <3>1, SMTT(30)
    <3> QED BY <3>2 DEF y, z
  <2> QED BY <2>2, <2>3, <2>4
<1>11. Nat \subseteq T
  <2> HIDE DEF T
  <2> QED BY <1>9, <1>10, NatSetInduction
<1>12. g[l + 1] = head \o h[l]
  BY <1>1, <1>11
<1> QED BY <1>6, <1>7, <1>12 DEF a, b, head, n

\* f is what it is at a place further on, one step back.
Descends(f, n, W, next, step) ==
  /\ f \in [1 .. n + 1 -> W]
  /\ \A i \in 1 .. n : f[i] = step[<<i, f[next[i]]>>]
LooksAhead(next, n) == next \in [1 .. n -> Nat] /\ \A i \in 1 .. n : i < next[i] /\ next[i] <= n + 1

\* A function over 1 .. n may be defined that way.
LEMMA DescendingRecursion ==
  ASSUME NEW n \in Nat, NEW W, NEW base \in W,
         NEW next, LooksAhead(next, n),
         NEW step \in [(1 .. n) \X W -> W]
  PROVE  \E f : Descends(f, n, W, next, step)
<1>0. next \in [1 .. n -> Nat] /\ \A i \in 1 .. n : i < next[i] /\ next[i] <= n + 1
  BY DEF LooksAhead
<1> DEFINE Solves(f, d) == /\ f \in [(n + 1) - d .. n + 1 -> W]
                           /\ \A i \in (n + 1) - d .. n : f[i] = step[<<i, f[next[i]]>>]
           T == {d \in Nat : d <= n => \E f : Solves(f, d)}
<1>1. 0 \in T
  <2>1. Solves([i \in (n + 1) - 0 .. n + 1 |-> base], 0)
    OBVIOUS
  <2> QED BY <2>1
<1>2. ASSUME NEW d \in Nat, d \in T PROVE d + 1 \in T
  <2> SUFFICES ASSUME d + 1 <= n PROVE \E f : Solves(f, d + 1)
    OBVIOUS
  <2> DEFINE p == n - d
  <2>1. /\ p \in 1 .. n /\ (n + 1) - d = p + 1 /\ (n + 1) - (d + 1) = p /\ d <= n
        /\ next[p] \in p + 1 .. n + 1
    BY <1>0
  <2>2. PICK f : Solves(f, d)
    BY <1>2, <2>1
  <2> HIDE DEF p
  <2>3. /\ f \in [p + 1 .. n + 1 -> W]
        /\ \A i \in p + 1 .. n : f[i] = step[<<i, f[next[i]]>>]
    BY <2>1, <2>2
  <2> DEFINE new == step[<<p, f[next[p]]>>]
             g == [i \in p .. n + 1 |-> IF i = p THEN new ELSE f[i]]
  <2>4. new \in W
    BY <2>1, <2>3
  <2> HIDE DEF new
  <2>5. g \in [p .. n + 1 -> W] /\ g[p] = new /\ \A i \in p + 1 .. n + 1 : g[i] = f[i]
    BY <2>1, <2>3, <2>4
  <2> HIDE DEF g
  <2>6. ASSUME NEW i \in p .. n PROVE g[i] = step[<<i, g[next[i]]>>]
    <3>1. i \in 1 .. n
      BY <2>1
    <3>2. next[i] \in p + 1 .. n + 1
      BY <1>0, <2>1, <3>1
    <3>3. CASE i = p
      BY <2>5, <3>2, <3>3 DEF new
    <3>4. CASE i # p
      <4>1. i \in p + 1 .. n /\ i \in p + 1 .. n + 1
        BY <2>1, <3>4
      <4> QED BY <2>3, <2>5, <3>2, <4>1
    <3> QED BY <3>3, <3>4
  <2>7. Solves(g, d + 1)
    BY <2>1, <2>5, <2>6
  <2> HIDE DEF Solves
  <2> QED BY <2>7
<1>3. Nat \subseteq T
  <2> HIDE DEF T
  <2> QED BY <1>1, <1>2, NatSetInduction
<1>4. PICK f : Solves(f, n)
  BY <1>3
<1>5. (n + 1) - n = 1
  OBVIOUS
<1>6. Descends(f, n, W, next, step)
  BY <1>4, <1>5 DEF Descends
<1> QED BY <1>6

=============================================================================
