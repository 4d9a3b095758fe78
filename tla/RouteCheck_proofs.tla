--------------------------- MODULE RouteCheck_proofs ---------------------------
(***************************************************************************)
(* What one check of a route promises, for every route, ship and rows; and *)
(* that what the panel and the overlay show of it belongs together, for    *)
(* every chart and every form.                                             *)
(***************************************************************************)
EXTENDS RouteCheck, RouteValidatePanel, InductionLemmas, FiniteSetTheorems, TLAPS

-----------------------------------------------------------------------------
(* The loops: what their results contain.                                  *)

\* At keeps the elements at the positions it is given, and no other.
LEMMA AtElements ==
  ASSUME NEW S, NEW s \in Seq(S), NEW I \in SUBSET DOMAIN s
  PROVE  At(s, I) \in Seq(S) /\ ToSet(At(s, I)) = {s[i] : i \in I}
<1> DEFINE V == Seq(S)
           base == <<>>
           n == Len(s)
           step == [x \in (Nat \ {0}) \X V |-> IF x[1] \in I THEN Append(x[2], s[x[1]]) ELSE x[2]]
           Body(f) == [i \in 0 .. n |-> IF i = 0 THEN base
                                        ELSE IF i \in I THEN Append(f[i - 1], s[i]) ELSE f[i - 1]]
           kept == CHOOSE f : f = Body(f)
<1>1. At(s, I) = kept[n]
  BY DEF At
<1>2. n \in Nat /\ DOMAIN s = 1 .. n /\ base \in V /\ \A i \in I : s[i] \in S
  OBVIOUS
<1>3. \A i \in Nat \ {0}, v \in V : step[<<i, v>>] = IF i \in I THEN Append(v, s[i]) ELSE v
  OBVIOUS
<1>4. step \in [(Nat \ {0}) \X V -> V]
  BY <1>2, AppendElements
<1> HIDE DEF step, n
<1>5. PICK f : Defines(f, n, V, base, step)
  BY <1>2, <1>4, FiniteRecursion
<1>6. f = Body(f)
  <2>1. /\ f \in [0 .. n -> V] /\ f[0] = base
        /\ \A i \in 1 .. n : f[i] = step[<<i, f[i - 1]>>]
    BY <1>5 DEF Defines
  <2>2. \A i \in 1 .. n : f[i] = IF i \in I THEN Append(f[i - 1], s[i]) ELSE f[i - 1]
    <3> SUFFICES ASSUME NEW i \in 1 .. n
                 PROVE  f[i] = IF i \in I THEN Append(f[i - 1], s[i]) ELSE f[i - 1]
      OBVIOUS
    <3>1. i \in Nat \ {0} /\ f[i - 1] \in V
      BY <1>2, <2>1
    <3> HIDE DEF V, base
    <3>2. step[<<i, f[i - 1]>>] = IF i \in I THEN Append(f[i - 1], s[i]) ELSE f[i - 1]
      BY <1>3, <3>1, Zenon
    <3> QED BY <2>1, <3>2
  <2> HIDE DEF V, base
  <2>3. \A i \in 0 .. n : f[i] = IF i = 0 THEN base
                                 ELSE IF i \in I THEN Append(f[i - 1], s[i]) ELSE f[i - 1]
    <3>1. \A i \in 0 .. n : i = 0 \/ i \in 1 .. n
      BY <1>2
    <3> QED BY <2>1, <2>2, <3>1
  <2> QED BY <2>1, <2>3
<1>7. kept = Body(kept)
  <2> HIDE DEF Body
  <2> QED BY <1>6
<1> HIDE DEF kept
<1>8. /\ kept[0] = base
      /\ \A i \in 1 .. n : kept[i] = IF i \in I THEN Append(kept[i - 1], s[i]) ELSE kept[i - 1]
  <2>1. 0 \in 0 .. n /\ \A i \in 1 .. n : i \in 0 .. n /\ i # 0
    BY <1>2
  <2> HIDE DEF base
  <2>2. \A i \in 0 .. n : kept[i] = IF i = 0 THEN base
                                    ELSE IF i \in I THEN Append(kept[i - 1], s[i]) ELSE kept[i - 1]
    BY <1>7, Zenon
  <2> QED BY <2>1, <2>2
<1> HIDE DEF Body
<1> DEFINE Kept(k) == {s[i] : i \in {j \in I : j <= k}}
           T == {k \in Nat : k <= n => kept[k] \in Seq(S) /\ ToSet(kept[k]) = Kept(k)}
<1>9. 0 \in T
  <2>1. Kept(0) = {}
    BY <1>2
  <2> QED BY <1>8, <2>1, EmptyElements
<1>10. ASSUME NEW k \in Nat, k \in T  PROVE k + 1 \in T
  <2> SUFFICES ASSUME k + 1 <= n
               PROVE  kept[k + 1] \in Seq(S) /\ ToSet(kept[k + 1]) = Kept(k + 1)
    OBVIOUS
  <2>1. kept[k] \in Seq(S) /\ ToSet(kept[k]) = Kept(k)
    BY <1>2, <1>10
  <2>2. kept[k + 1] = IF k + 1 \in I THEN Append(kept[k], s[k + 1]) ELSE kept[k]
    <3>1. k + 1 \in 1 .. n /\ (k + 1) - 1 = k
      BY <1>2
    <3> QED BY <1>8, <3>1
  <2>3. \A j \in I : j <= k + 1 <=> j <= k \/ j = k + 1
    BY <1>2
  <2>4. CASE k + 1 \in I
    <3>1. Kept(k + 1) = Kept(k) \cup {s[k + 1]}
      BY <2>3, <2>4
    <3> QED BY <1>2, <2>1, <2>2, <2>4, <3>1, AppendElements
  <2>5. CASE k + 1 \notin I
    <3>1. Kept(k + 1) = Kept(k)
      BY <2>3, <2>5
    <3> QED BY <2>1, <2>2, <2>5, <3>1
  <2> QED BY <2>4, <2>5
<1>11. Nat \subseteq T
  <2> HIDE DEF T
  <2> QED BY <1>9, <1>10, NatSetInduction
<1>12. {j \in I : j <= n} = I
  BY <1>2
<1>13. kept[n] \in Seq(S) /\ ToSet(kept[n]) = Kept(n)
  <2>1. n \in Nat /\ n <= n
    BY <1>2
  <2>2. n \in T
    <3> HIDE DEF T
    <3> QED BY <1>11, <2>1
  <2> HIDE DEF Kept
  <2> QED BY <2>1, <2>2
<1> QED BY <1>1, <1>12, <1>13

\* The filter keeps only what it is given, and something less than kStep away from
\* everything it drops.
LEMMA FilterElements ==
  ASSUME NEW S, \A h \in S : h.pos \in Int, NEW points \in Seq(S)
  PROVE  LET result == FilterDiagnosticPoints(points)
         IN  /\ result \in Seq(S) /\ ToSet(result) \subseteq ToSet(points)
             /\ \A h \in ToSet(points) : \E r \in ToSet(result) : Distance(r.pos, h.pos) < kStep
<1> DEFINE V == Seq(S)
           base == <<>>
           n == Len(points)
           Next1(result, point) ==
             IF result = <<>> \/ Distance(Last(result).pos, point.pos) >= kStep
               THEN Append(result, point) ELSE result
           step == [x \in (Nat \ {0}) \X V |->
                      IF x[1] \in 1 .. n THEN Next1(x[2], points[x[1]]) ELSE x[2]]
           Body(f) == [i \in 0 .. n |-> IF i = 0 THEN base ELSE Next1(f[i - 1], points[i])]
           kept == CHOOSE f : f = Body(f)
<1>1. FilterDiagnosticPoints(points) = kept[n]
  BY DEF FilterDiagnosticPoints
<1>2. n \in Nat /\ DOMAIN points = 1 .. n /\ base \in V /\ \A i \in 1 .. n : points[i] \in S
  OBVIOUS
<1>a. \A v \in V, h \in S : Next1(v, h) \in V
  BY AppendElements
<1> HIDE DEF Next1, n
<1>3. \A i \in 1 .. n, v \in V : step[<<i, v>>] = Next1(v, points[i])
  BY <1>2
<1>4. step \in [(Nat \ {0}) \X V -> V]
  BY <1>2, <1>a
<1> HIDE DEF step
<1>5. PICK f : Defines(f, n, V, base, step)
  BY <1>2, <1>4, FiniteRecursion
<1>6. f = Body(f)
  <2>1. /\ f \in [0 .. n -> V] /\ f[0] = base
        /\ \A i \in 1 .. n : f[i] = step[<<i, f[i - 1]>>]
    BY <1>5 DEF Defines
  <2>2. \A i \in 1 .. n : f[i] = Next1(f[i - 1], points[i])
    <3> SUFFICES ASSUME NEW i \in 1 .. n
                 PROVE  f[i] = Next1(f[i - 1], points[i])
      OBVIOUS
    <3>1. f[i - 1] \in V
      BY <1>2, <2>1
    <3> HIDE DEF V, base
    <3> QED BY <1>3, <2>1, <3>1, Zenon
  <2>3. \A i \in 0 .. n : i = 0 \/ i \in 1 .. n
    BY <1>2
  <2> HIDE DEF V, base
  <2> QED BY <2>1, <2>2, <2>3
<1>7. kept = Body(kept)
  <2> HIDE DEF Body
  <2> QED BY <1>6
<1> HIDE DEF kept
<1>8. kept[0] = base /\ \A i \in 1 .. n : kept[i] = Next1(kept[i - 1], points[i])
  <2>1. 0 \in 0 .. n /\ \A i \in 1 .. n : i \in 0 .. n /\ i # 0
    BY <1>2
  <2> HIDE DEF base
  <2>2. \A i \in 0 .. n : kept[i] = IF i = 0 THEN base ELSE Next1(kept[i - 1], points[i])
    BY <1>7, Zenon
  <2> QED BY <2>1, <2>2
<1> HIDE DEF Body
<1> DEFINE Near(result, h) == \E r \in ToSet(result) : Distance(r.pos, h.pos) < kStep
           Good(k) == /\ kept[k] \in Seq(S) /\ ToSet(kept[k]) \subseteq ToSet(points)
                      /\ \A i \in 1 .. k : Near(kept[k], points[i])
           T == {k \in Nat : k <= n => Good(k)}
<1>9. 0 \in T
  <2>1. 1 .. 0 = {}
    OBVIOUS
  <2>2. Good(0)
    BY <1>8, <2>1, EmptyElements
  <2> HIDE DEF Good
  <2> QED BY <2>2
<1>10. ASSUME NEW k \in Nat, k \in T  PROVE k + 1 \in T
  <2> SUFFICES ASSUME k + 1 <= n
               PROVE  Good(k + 1)
    OBVIOUS
  <2>1. Good(k)
    BY <1>2, <1>10
  <2> DEFINE point == points[k + 1]
             result == kept[k]
  <2>2. point \in S /\ point \in ToSet(points) /\ kept[k + 1] = Next1(result, point)
    <3>1. k + 1 \in 1 .. n /\ (k + 1) - 1 = k
      BY <1>2
    <3> QED BY <1>2, <1>8, <3>1 DEF ToSet
  <2>3. result \in Seq(S) /\ \A i \in 1 .. k : Near(result, points[i])
    BY <2>1
  <2>4. \A i \in 1 .. k + 1 : i \in 1 .. k \/ i = k + 1
    OBVIOUS
  <2> HIDE DEF point, result
  <2>5. CASE kept[k + 1] = Append(result, point)
    <3>1. kept[k + 1] \in Seq(S) /\ ToSet(kept[k + 1]) = ToSet(result) \cup {point}
      BY <2>2, <2>3, <2>5, AppendElements
    <3>2. Distance(point.pos, point.pos) < kStep
      BY <2>2, StepAssumption DEF Distance
    <3>3. \A i \in 1 .. k + 1 : Near(kept[k + 1], points[i])
      BY <2>3, <2>4, <3>1, <3>2 DEF point
    <3> QED BY <2>1, <2>2, <3>1, <3>3 DEF result
  <2>6. CASE kept[k + 1] = result /\ result # <<>> /\ ~(Distance(Last(result).pos, point.pos) >= kStep)
    <3>1. Last(result) \in ToSet(result) /\ Last(result) \in S
      <4>1. Len(result) \in DOMAIN result /\ result[Len(result)] \in S
        BY <2>3, <2>6
      <4> QED BY <4>1 DEF Last, ToSet
    <3>2. Distance(Last(result).pos, point.pos) < kStep
      BY <2>2, <2>6, <3>1, StepAssumption DEF Distance
    <3>3. \A i \in 1 .. k + 1 : Near(kept[k + 1], points[i])
      BY <2>3, <2>4, <2>6, <3>1, <3>2 DEF point
    <3> QED BY <2>1, <2>6, <3>3 DEF result
  <2> QED BY <2>2, <2>5, <2>6 DEF Next1
<1>11. Nat \subseteq T
  <2> HIDE DEF T
  <2> QED BY <1>9, <1>10, NatSetInduction
<1>12. Good(n)
  <2>1. n \in Nat /\ n <= n
    BY <1>2
  <2>2. n \in T
    <3> HIDE DEF T
    <3> QED BY <1>11, <2>1
  <2> HIDE DEF Good
  <2> QED BY <2>1, <2>2
<1>13. \A h \in ToSet(points) : \E i \in 1 .. n : h = points[i]
  BY <1>2 DEF ToSet
<1> QED BY <1>1, <1>12, <1>13

-----------------------------------------------------------------------------
(* The route and its samples.                                              *)

\* What InputsAssumption says of a route.
IsCourse(w) ==
  /\ w \in Seq(Int) /\ Len(w) > 1
  /\ \A i \in GetSegments(w) : LegLength(w, i) \in Lengths \cap Nat

\* A course never turns back.
LEMMA CourseAdvances ==
  ASSUME NEW w, IsCourse(w), NEW i \in 1 .. Len(w), NEW j \in 1 .. Len(w), i <= j
  PROVE  w[i] \in Int /\ w[j] \in Int /\ w[i] <= w[j]
<1> DEFINE n == Len(w)
           T == {k \in Nat : i + k <= n => w[i] <= w[i + k]}
<1>1. n \in Nat /\ \A k \in 1 .. n : w[k] \in Int
  BY DEF IsCourse
<1>2. 0 \in T
  BY <1>1
<1>3. ASSUME NEW k \in Nat, k \in T  PROVE k + 1 \in T
  <2> SUFFICES ASSUME i + (k + 1) <= n
               PROVE  w[i] <= w[i + (k + 1)]
    OBVIOUS
  <2>1. /\ i + k \in 1 .. n - 1 /\ i + k \in 1 .. n /\ i + (k + 1) \in 1 .. n
        /\ i + (k + 1) = (i + k) + 1
    BY <1>1
  <2>2. w[i] <= w[i + k]
    BY <1>1, <1>3, <2>1
  <2>3. w[(i + k) + 1] - w[i + k] \in Nat
    BY <2>1 DEF IsCourse, GetSegments, LegLength
  <2> QED BY <1>1, <2>1, <2>2, <2>3
<1>4. j - i \in Nat /\ i + (j - i) = j
  BY <1>1
<1>5. j - i \in T
  <2> HIDE DEF T
  <2>1. Nat \subseteq T
    BY <1>2, <1>3, NatSetInduction
  <2> QED BY <1>4, <2>1
<1> QED BY <1>1, <1>4, <1>5

LEMMA Multiples ==
  /\ \A m, n \in Int : m <= n => m * kStep <= n * kStep
  /\ \A n \in Int : n * kStep \in Int /\ (n + 1) * kStep = n * kStep + kStep
  /\ \A n \in Nat : n * kStep \in Nat
  /\ \A n \in Nat : n \div kStep \in Nat /\ (n \div kStep) * kStep <= n
                    /\ n < (n \div kStep) * kStep + kStep
<1>1. \A m, n \in Int : m <= n => m * kStep <= n * kStep
  BY StepAssumption
<1>2. \A n \in Int : n * kStep \in Int /\ (n + 1) * kStep = n * kStep + kStep
  BY StepAssumption
<1>3. \A n \in Nat : n * kStep \in Nat
  BY StepAssumption
<1>4. \A n \in Nat : n \div kStep \in Nat
  BY StepAssumption
<1>5. \A n \in Nat : (n \div kStep) * kStep <= n
  BY StepAssumption
<1>6. \A n \in Nat : n < (n \div kStep) * kStep + kStep
  BY StepAssumption
<1> QED BY <1>1, <1>2, <1>3, <1>4, <1>5, <1>6

\* The samples are the multiples of kStep that are shorter than the route.
LEMMA SampleNumbers ==
  ASSUME NEW w, IsCourse(w)
  PROVE  /\ Len(GetRoutePoints(w)) \in Nat
         /\ DOMAIN GetRoutePoints(w) = 1 .. Len(GetRoutePoints(w))
         /\ GetDistance(w) \in Nat
         /\ \A i \in Nat \ {0} :
              i \in DOMAIN GetRoutePoints(w) <=> (i - 1) * kStep < GetDistance(w)
<1> DEFINE D == GetDistance(w)
           N == (D + kStep - 1) \div kStep
<1>1. D \in Nat
  <2>1. Len(w) \in Nat /\ 1 \in 1 .. Len(w) /\ Len(w) \in 1 .. Len(w) /\ 1 <= Len(w)
    BY DEF IsCourse
  <2>2. w[1] \in Int /\ w[Len(w)] \in Int /\ w[1] <= w[Len(w)]
    BY <2>1, CourseAdvances
  <2> QED BY <2>2 DEF GetDistance
<1> HIDE DEF D
<1>2. D + kStep - 1 \in Nat
  BY <1>1, StepAssumption
<1>3. N \in Nat /\ N * kStep <= D + kStep - 1 /\ D + kStep - 1 < N * kStep + kStep
  BY <1>2, Multiples
<1> HIDE DEF N
<1>4. \A i \in Nat \ {0} : i \in 1 .. N <=> (i - 1) * kStep < D
  <2> SUFFICES ASSUME NEW i \in Nat \ {0}
               PROVE  i \in 1 .. N <=> (i - 1) * kStep < D
    OBVIOUS
  <2>1. (i - 1) * kStep \in Int /\ N * kStep \in Int /\ i * kStep = (i - 1) * kStep + kStep
    <3>1. i - 1 \in Int /\ (i - 1) + 1 = i /\ N \in Int
      BY <1>3
    <3> QED BY <3>1, Multiples
  <2>2. CASE i <= N
    <3>1. i * kStep <= N * kStep
      BY <1>3, <2>2, Multiples
    <3> QED BY <1>1, <1>3, <2>1, <2>2, <3>1, StepAssumption
  <2>3. CASE i > N
    <3>1. N * kStep <= (i - 1) * kStep
      <4>1. N <= i - 1 /\ N \in Int /\ i - 1 \in Int
        BY <1>3, <2>3
      <4> QED BY <4>1, Multiples
    <3> QED BY <1>1, <1>3, <2>1, <2>3, <3>1, StepAssumption
  <2> QED BY <1>3, <2>2, <2>3
<1>5. /\ DOMAIN GetRoutePoints(w) = 1 .. N /\ Len(GetRoutePoints(w)) = N
  BY <1>3 DEF GetRoutePoints, N, D
<1> QED BY <1>1, <1>3, <1>4, <1>5 DEF D

\* A sample lies on its leg, and on none before it.
LEMMA SampleOnLeg ==
  ASSUME NEW w, IsCourse(w), NEW i \in DOMAIN GetRoutePoints(w)
  PROVE  LET sample == GetRoutePoints(w)[i]
             leg == sample.segment_id
         IN  /\ sample.pos = w[1] + (i - 1) * kStep /\ leg \in GetSegments(w)
             /\ (i - 1) * kStep <= w[leg + 1] - w[1]
             /\ \A j \in 1 .. leg - 1 : w[j + 1] - w[1] < (i - 1) * kStep
<1> DEFINE len == (i - 1) * kStep
           On == {k \in GetSegments(w) : len <= w[k + 1] - w[1]}
           IsFirst(k) == len <= w[k + 1] - w[1] /\ \A j \in 1 .. k - 1 : w[j + 1] - w[1] < len
           n == Len(w)
<1>1. /\ n \in Nat /\ n > 1 /\ GetSegments(w) = 1 .. n - 1
      /\ \A k \in 1 .. n : w[k] \in Int
  BY DEF IsCourse, GetSegments
<1>2. i \in Nat \ {0} /\ len < w[n] - w[1] /\ len \in Int
  <2>1. i \in Nat \ {0}
    BY SampleNumbers
  <2>2. len < GetDistance(w)
    BY <2>1, SampleNumbers
  <2> QED BY <2>1, <2>2, Multiples DEF GetDistance
<1> HIDE DEF len
<1>3. n - 1 \in On
  BY <1>1, <1>2
<1>4. PICK k \in On : \A j \in On : k <= j
  <2>1. On \subseteq Nat
    BY <1>1
  <2> QED BY <1>3, <2>1, NatMinimum
<1>5. k \in GetSegments(w) /\ IsFirst(k)
  <2>1. k \in 1 .. n - 1
    BY <1>1
  <2>2. \A j \in 1 .. k - 1 : j \in GetSegments(w) /\ ~(k <= j)
    BY <1>1, <2>1
  <2>3. \A j \in 1 .. k - 1 : j \notin On
    <3> HIDE DEF On
    <3> QED BY <1>4, <2>2
  <2>4. \A j \in 1 .. k - 1 : w[j + 1] - w[1] < len
    <3>1. \A j \in 1 .. k - 1 : ~(len <= w[j + 1] - w[1])
      BY <2>2, <2>3
    <3>2. \A j \in 1 .. k - 1 : w[j + 1] - w[1] \in Int
      BY <1>1, <2>1
    <3> QED BY <1>2, <3>1, <3>2
  <2> QED BY <1>1, <2>1, <2>4
<1> DEFINE leg == CHOOSE m \in GetSegments(w) : IsFirst(m)
<1>6. leg \in GetSegments(w) /\ IsFirst(leg)
  <2> HIDE DEF IsFirst
  <2> QED BY <1>5
<1>7. GetRoutePoints(w)[i] = [pos |-> w[1] + len, segment_id |-> leg]
  BY DEF GetRoutePoints, GetPointFromStart, len
<1> HIDE DEF leg
<1> QED BY <1>6, <1>7 DEF len

-----------------------------------------------------------------------------
(* The ship on its way.                                                    *)

Record == [pos : Int, end_at : Nat, wave : WaveHeights]

LEMMA InputType ==
  ASSUME NEW in \in Inputs
  PROVE  IsCourse(in.route) /\ in.depart \in Nat /\ in.ship.speed \in Speeds
BY InputsAssumption DEF IsCourse

LEMMA ForecastsType ==
  ASSUME NEW rows \in Tables
  PROVE  /\ rows.forecasts \in Seq(Record)
         /\ \A f \in ToSet(rows.forecasts) : f \in Record
<1>1. rows.forecasts \in Seq(Record)
  BY TablesAssumption DEF Record
<1>2. ASSUME NEW R, NEW s \in Seq(R), NEW i \in DOMAIN s  PROVE s[i] \in R
  OBVIOUS
<1> QED BY <1>1, <1>2 DEF ToSet

LEMMA PossibleSpeedsType ==
  ASSUME NEW in \in Inputs, NEW rows \in Tables
  PROVE  /\ PossibleSpeeds(in, rows) \subseteq Speeds
         /\ \A f \in ToSet(rows.forecasts) : GetSpeed(in.ship, f.wave) \in PossibleSpeeds(in, rows)
<1>1. in.ship.speed \in Speeds
  BY InputType
<1>2. \A wave \in WaveHeights : GetSpeed(in.ship, wave) \in Speeds
  BY <1>1, SpeedsAssumption DEF GetSpeed
<1>3. \A i \in DOMAIN rows.forecasts : rows.forecasts[i].wave \in WaveHeights
  <2>1. \A i \in DOMAIN rows.forecasts : rows.forecasts[i] \in Record
    BY ForecastsType DEF ToSet
  <2>2. \A f \in Record : f.wave \in WaveHeights
    BY DEF Record
  <2> QED BY <2>1, <2>2
<1> QED BY <1>1, <1>2, <1>3 DEF PossibleSpeeds, ToSet

LEMMA Candidates ==
  ASSUME NEW rows \in Tables, NEW pos, NEW date
  PROVE  LET found == SelectClosestForecasts(rows, pos, date)
         IN  /\ found \in Seq(Record)
             /\ ToSet(found) = {f \in ToSet(rows.forecasts) :
                  /\ Distance(f.pos, pos) <= kDangerousDistance
                  /\ date <= f.end_at /\ f.end_at <= date + kWindow}
<1> DEFINE I == {i \in DOMAIN rows.forecasts :
                   /\ Distance(rows.forecasts[i].pos, pos) <= kDangerousDistance
                   /\ date <= rows.forecasts[i].end_at /\ rows.forecasts[i].end_at <= date + kWindow}
<1>1. SelectClosestForecasts(rows, pos, date) = At(rows.forecasts, I)
  BY DEF SelectClosestForecasts
<1>2. I \in SUBSET DOMAIN rows.forecasts /\ rows.forecasts \in Seq(Record)
  BY ForecastsType
<1>3. {rows.forecasts[i] : i \in I} =
        {f \in {rows.forecasts[i] : i \in DOMAIN rows.forecasts} :
           /\ Distance(f.pos, pos) <= kDangerousDistance
           /\ date <= f.end_at /\ f.end_at <= date + kWindow}
  OBVIOUS
<1> HIDE DEF I
<1>4. /\ At(rows.forecasts, I) \in Seq(Record)
      /\ ToSet(At(rows.forecasts, I)) = {rows.forecasts[i] : i \in I}
  BY <1>2, AtElements
<1> QED BY <1>1, <1>3, <1>4 DEF ToSet

\* The forecast chosen is one of those found, not too late, and none of them ends closer
\* to the time.
LEMMA ClosestForecast ==
  ASSUME NEW found \in Seq(Record), NEW time \in Int, GetClosestForecast(found, time) # NoForecast
  PROVE  LET f == GetClosestForecast(found, time)
         IN  /\ f \in ToSet(found)
             /\ f.end_at - time <= kTooLate
             /\ \A g \in ToSet(found) : Distance(f.end_at, time) <= Distance(g.end_at, time)
<1> DEFINE i == CHOOSE k \in DOMAIN found : IsNearest(found, k, time)
<1>1. /\ i \in DOMAIN found /\ IsNearest(found, i, time) /\ GetClosestForecast(found, time) = found[i]
      /\ \E k \in DOMAIN found : IsNearest(found, k, time) /\ found[k].end_at - time <= kTooLate
  BY DEF GetClosestForecast
<1> HIDE DEF i
<1>2. \A j \in DOMAIN found : found[j].end_at \in Nat
  <2>1. \A j \in DOMAIN found : found[j] \in Record
    OBVIOUS
  <2> QED BY <2>1 DEF Record
<1>3. \A j \in DOMAIN found : Distance(found[i].end_at, time) <= Distance(found[j].end_at, time)
  <2>1. \A j \in DOMAIN found : Distance(found[j].end_at, time) \in Int
    BY <1>2 DEF Distance
  <2>2. \A j \in DOMAIN found : \/ Distance(found[i].end_at, time) < Distance(found[j].end_at, time)
                               \/ Distance(found[i].end_at, time) = Distance(found[j].end_at, time)
    BY <1>1 DEF IsNearest
  <2> QED BY <1>1, <2>1, <2>2
<1>4. \A k \in DOMAIN found : IsNearest(found, k, time) => k = i
  <2> SUFFICES ASSUME NEW k \in DOMAIN found, IsNearest(found, k, time)
               PROVE  k = i
    OBVIOUS
  <2>1. Distance(found[i].end_at, time) \in Int /\ Distance(found[k].end_at, time) \in Int
    BY <1>1, <1>2 DEF Distance
  <2>2. i \in Nat /\ k \in Nat
    BY <1>1
  <2> QED BY <1>1, <2>1, <2>2 DEF IsNearest
<1> QED BY <1>1, <1>3, <1>4 DEF ToSet

\* If none is chosen, none of those found ends near the time.
LEMMA NoneIsClose ==
  ASSUME NEW found \in Seq(Record), NEW time \in Int, GetClosestForecast(found, time) = NoForecast,
         NEW g \in ToSet(found)
  PROVE  Distance(g.end_at, time) > kTooLate
<1> DEFINE n == Len(found)
           far(i) == Distance(found[i].end_at, time)
           D == {far(i) : i \in 1 .. n}
<1>1. n \in Nat /\ DOMAIN found = 1 .. n /\ \A i \in 1 .. n : found[i].end_at \in Nat
  <2>1. \A j \in DOMAIN found : found[j] \in Record
    OBVIOUS
  <2> QED BY <2>1 DEF Record
<1>2. \A i \in 1 .. n : far(i) \in Nat
  BY <1>1 DEF Distance
<1>3. PICK k \in 1 .. n : g = found[k]
  BY <1>1 DEF ToSet
<1> HIDE DEF n, far
<1>4. PICK least \in D : \A d \in D : least <= d
  <2>1. D \subseteq Nat /\ D # {}
    BY <1>2, <1>3
  <2> QED BY <2>1, NatMinimum
<1> DEFINE N == {i \in 1 .. n : far(i) = least}
<1>5. PICK i \in N : \A j \in N : i <= j
  <2>1. N \subseteq Nat /\ N # {}
    BY <1>1, <1>4
  <2> QED BY <2>1, NatMinimum
<1>6. /\ i \in DOMAIN found /\ far(i) = least
      /\ \A j \in DOMAIN found : far(i) < far(j) \/ (far(i) = far(j) /\ i <= j)
  <2> SUFFICES ASSUME NEW j \in 1 .. n
               PROVE  far(i) < far(j) \/ (far(i) = far(j) /\ i <= j)
    BY <1>1, <1>5
  <2>1. far(i) = least /\ far(i) <= far(j) /\ far(i) \in Nat /\ far(j) \in Nat
    BY <1>2, <1>4, <1>5
  <2> QED BY <1>5, <2>1
<1>7. IsNearest(found, i, time)
  BY <1>6 DEF IsNearest, far
<1>8. ~(found[i].end_at - time <= kTooLate)
  <2> SUFFICES ASSUME found[i].end_at - time <= kTooLate
               PROVE  FALSE
    OBVIOUS
  <2> DEFINE m == CHOOSE l \in DOMAIN found : IsNearest(found, l, time)
  <2>1. m \in DOMAIN found /\ GetClosestForecast(found, time) = found[m]
    BY <1>6, <1>7 DEF GetClosestForecast
  <2> HIDE DEF m
  <2>2. found[m].end_at \in Nat
    BY <1>1, <2>1
  <2> QED BY <2>1, <2>2 DEF NoForecast
<1>9. far(i) > kTooLate /\ far(i) <= far(k) /\ far(i) \in Nat /\ far(k) \in Nat
  <2>1. far(i) > kTooLate
    BY <1>1, <1>6, <1>8, TooLateAssumption DEF far, Distance
  <2> QED BY <1>2, <1>3, <1>4, <1>6, <2>1
<1> QED BY <1>3, <1>9, TooLateAssumption DEF far

\* What is known at a sample, and how it follows from what was known before.
InfoType(in, rows) ==
  [forecast : ToSet(rows.forecasts) \cup {NoForecast}, speed : PossibleSpeeds(in, rows), expected_time : Nat]

FirstInfo(in) == [forecast |-> NoForecast, speed |-> in.ship.speed, expected_time |-> in.depart]

Found(in, rows, i) ==
  SelectClosestForecasts(rows, GetRoutePoints(in.route)[i].pos, in.depart - kLookBack)

NextInfo(in, rows, i, before) ==
  LET forecast == GetClosestForecast(Found(in, rows, i), before.expected_time)
      speed == IF forecast = NoForecast THEN before.speed ELSE GetSpeed(in.ship, forecast.wave)
  IN  [forecast |-> forecast, speed |-> speed,
       expected_time |-> before.expected_time + (IF i = 1 THEN 0 ELSE kStep \div speed)]

LEMMA NextInfoType ==
  ASSUME NEW in \in Inputs, NEW rows \in Tables, NEW i, NEW before \in InfoType(in, rows)
  PROVE  NextInfo(in, rows, i, before) \in InfoType(in, rows)
<1> DEFINE time == before.expected_time
           forecast == GetClosestForecast(Found(in, rows, i), time)
           speed == IF forecast = NoForecast THEN before.speed ELSE GetSpeed(in.ship, forecast.wave)
           later == time + (IF i = 1 THEN 0 ELSE kStep \div speed)
<1>1. time \in Nat /\ before.speed \in PossibleSpeeds(in, rows)
  BY DEF InfoType
<1>2. forecast \in ToSet(rows.forecasts) \cup {NoForecast}
  <2>1. Found(in, rows, i) \in Seq(Record) /\ ToSet(Found(in, rows, i)) \subseteq ToSet(rows.forecasts)
    BY Candidates DEF Found
  <2> HIDE DEF time
  <2> QED BY <1>1, <2>1, ClosestForecast
<1> HIDE DEF forecast, time
<1>3. speed \in PossibleSpeeds(in, rows) /\ speed \in Nat \ {0}
  BY <1>1, <1>2, PossibleSpeedsType, SpeedsAssumption
<1> HIDE DEF speed
<1>4. later \in Nat
  <2>1. kStep \div speed \in Nat
    BY <1>3, StepAssumption
  <2> QED BY <1>1, <2>1
<1> HIDE DEF later
<1>5. NextInfo(in, rows, i, before) = [forecast |-> forecast, speed |-> speed, expected_time |-> later]
  BY DEF NextInfo, forecast, speed, later, time
<1> QED BY <1>2, <1>3, <1>4, <1>5 DEF InfoType

LEMMA InfoEquation ==
  ASSUME NEW in \in Inputs, NEW rows \in Tables
  PROVE  LET info == GetRouteInfo(in, rows)
             n == Len(GetRoutePoints(in.route))
         IN  /\ n \in Nat /\ info \in [0 .. n -> InfoType(in, rows)] /\ info[0] = FirstInfo(in)
             /\ \A i \in 1 .. n : info[i] = NextInfo(in, rows, i, info[i - 1])
<1> DEFINE n == Len(GetRoutePoints(in.route))
           V == InfoType(in, rows)
           base == FirstInfo(in)
           step == [x \in (Nat \ {0}) \X V |-> NextInfo(in, rows, x[1], x[2])]
           Body(f) == [i \in 0 .. n |-> IF i = 0 THEN base ELSE NextInfo(in, rows, i, f[i - 1])]
           info == CHOOSE f : f = Body(f)
<1>1. GetRouteInfo(in, rows) = info
  BY DEF GetRouteInfo, FirstInfo, NextInfo, Found, TimeAsked
<1>2. n \in Nat /\ base \in V
  BY InputType, SampleNumbers DEF InfoType, FirstInfo, PossibleSpeeds
<1>3. \A i \in Nat \ {0}, v \in V : step[<<i, v>>] = NextInfo(in, rows, i, v)
  OBVIOUS
<1>4. step \in [(Nat \ {0}) \X V -> V]
  BY NextInfoType
<1> HIDE DEF n, V, base, step
<1>5. PICK f : Defines(f, n, V, base, step)
  BY <1>2, <1>4, FiniteRecursion
<1>6. f = Body(f)
  <2>1. /\ f \in [0 .. n -> V] /\ f[0] = base
        /\ \A i \in 1 .. n : f[i] = step[<<i, f[i - 1]>>]
    BY <1>5 DEF Defines
  <2>2. \A i \in 1 .. n : f[i] = NextInfo(in, rows, i, f[i - 1])
    <3> SUFFICES ASSUME NEW i \in 1 .. n
                 PROVE  f[i] = NextInfo(in, rows, i, f[i - 1])
      OBVIOUS
    <3>1. f[i - 1] \in V /\ i \in Nat \ {0}
      BY <1>2, <2>1
    <3> QED BY <1>3, <2>1, <3>1, Zenon
  <2>3. \A i \in 0 .. n : i = 0 \/ i \in 1 .. n
    BY <1>2
  <2> QED BY <2>1, <2>2, <2>3
<1>7. info = Body(info)
  <2> HIDE DEF Body
  <2> QED BY <1>6
<1> HIDE DEF info
<1>8. info[0] = base /\ \A i \in 1 .. n : info[i] = NextInfo(in, rows, i, info[i - 1])
  <2>1. 0 \in 0 .. n /\ \A i \in 1 .. n : i \in 0 .. n /\ i # 0
    BY <1>2
  <2>2. \A i \in 0 .. n : info[i] = IF i = 0 THEN base ELSE NextInfo(in, rows, i, info[i - 1])
    BY <1>7, Zenon
  <2> QED BY <2>1, <2>2
<1>9. info \in [0 .. n -> V]
  <2> DEFINE T == {k \in Nat : k <= n => info[k] \in V}
  <2>1. 0 \in T
    BY <1>2, <1>8
  <2>2. ASSUME NEW k \in Nat, k \in T  PROVE k + 1 \in T
    <3> SUFFICES ASSUME k + 1 <= n
                 PROVE  info[k + 1] \in V
      OBVIOUS
    <3>1. k + 1 \in 1 .. n /\ (k + 1) - 1 = k /\ info[k] \in V
      BY <1>2, <2>2
    <3>2. info[k + 1] = NextInfo(in, rows, k + 1, info[k])
      BY <1>8, <3>1
    <3> QED BY <3>1, <3>2, NextInfoType DEF V
  <2>3. Nat \subseteq T
    <3> HIDE DEF T
    <3> QED BY <2>1, <2>2, NatSetInduction
  <2>4. \A i \in 0 .. n : info[i] \in V
    BY <1>2, <2>3
  <2> QED BY <1>7, <2>4
<1> QED BY <1>1, <1>2, <1>8, <1>9 DEF n, V, base

-----------------------------------------------------------------------------
(* The hazards that are found, and those that are reported.                *)

Hazards(kind) == [kind : {kind}, pos : Int, side : Int, time : Int]

\* High waves are reported only where a forecast was found.
LEMMA WavesFound ==
  ASSUME NEW in \in Inputs, NEW rows \in Tables
  PROVE  LET info == GetRouteInfo(in, rows)
             found == GetForecastDiagnostic(in, info)
         IN  /\ found \in Seq(Hazards("waves"))
             /\ found # <<>> => \E i \in DOMAIN GetRoutePoints(in.route) : info[i].forecast # NoForecast
<1> DEFINE info == GetRouteInfo(in, rows)
           n == Len(GetRoutePoints(in.route))
           samples == DOMAIN GetRoutePoints(in.route)
           s == [i \in samples |-> info[i]]
           I == {i \in samples : info[i].forecast # NoForecast /\ info[i].forecast.wave > in.ship.danger_height}
           high == At(s, I)
           marked == [i \in DOMAIN high |-> Hazard("waves", high[i].forecast.pos, 0, high[i].expected_time)]
           S == InfoType(in, rows)
<1>1. GetForecastDiagnostic(in, info) = marked
  BY DEF GetForecastDiagnostic
<1>2. samples = 1 .. n /\ n \in Nat /\ \A i \in samples : info[i] \in S
  <2>1. samples = 1 .. n
    BY InputType, SampleNumbers
  <2> HIDE DEF info, n, samples, S
  <2>2. n \in Nat /\ info \in [0 .. n -> S]
    BY InfoEquation DEF info, n, S
  <2> QED BY <2>1, <2>2
<1> HIDE DEF info, n, samples, S
<1>3. s \in Seq(S) /\ DOMAIN s = samples /\ I \in SUBSET DOMAIN s
  BY <1>2
<1> HIDE DEF s
<1>4. high \in Seq(S) /\ ToSet(high) = {s[i] : i \in I}
  <2> HIDE DEF I
  <2> QED BY <1>3, AtElements
<1>5. \A i \in samples : s[i] = info[i]
  BY DEF s
<1> HIDE DEF high
<1>6. \A k \in DOMAIN high : \E i \in I : high[k] = info[i]
  BY <1>4, <1>5 DEF ToSet
<1>7. \A k \in DOMAIN high : marked[k] \in Hazards("waves")
  <2> SUFFICES ASSUME NEW k \in DOMAIN high
               PROVE  Hazard("waves", high[k].forecast.pos, 0, high[k].expected_time) \in Hazards("waves")
    OBVIOUS
  <2>1. PICK i \in I : high[k] = info[i]
    BY <1>6
  <2>2. info[i] \in S /\ info[i].forecast # NoForecast
    BY <1>2, <2>1
  <2>3. info[i].forecast \in Record /\ info[i].expected_time \in Nat
    BY <2>2, ForecastsType DEF S, InfoType
  <2> QED BY <2>1, <2>3 DEF Hazard, Hazards, Record
<1>8. marked \in Seq(Hazards("waves")) /\ Len(marked) = Len(high)
  <2>1. DOMAIN high = 1 .. Len(high) /\ Len(high) \in Nat
    BY <1>4
  <2> QED BY <1>7, <2>1
<1>9. ASSUME marked # <<>>
      PROVE  \E i \in samples : info[i].forecast # NoForecast
  <2>1. DOMAIN high = 1 .. Len(high) /\ Len(high) \in Nat
    BY <1>4
  <2>2. Len(high) # 0
    BY <1>8, <1>9
  <2>3. 1 \in DOMAIN high
    BY <2>1, <2>2
  <2> QED BY <1>6, <2>3
<1> QED BY <1>1, <1>8, <1>9 DEF info, samples

\* The shallows a sample finds, and what is said of one.
Hits(in, rows, i, hand) ==
  LET w == in.route
      leg == GetRoutePoints(w)[i].segment_id
      length == LegLength(w, leg)
  IN  {k \in DOMAIN rows.depths :
         /\ rows.depths[k].depth <= in.ship.ship_draft
         /\ InTriangle(rows.depths[k], w[leg], length,
                       GetRouteInfo(in, rows)[i].speed, hand)}

Shallow(in, rows, i, k) ==
  LET d == rows.depths[k]
  IN  Hazard("depth", d.pos, d.side,
             TimeAt(GetRouteInfo(in, rows)[i], GetRoutePoints(in.route)[i].pos, d.pos))

LEMMA DistanceType ==
  ASSUME NEW a \in Int, NEW b \in Int
  PROVE  Distance(a, b) \in Nat
BY DEF Distance

LEMMA ShallowType ==
  ASSUME NEW in \in Inputs, NEW rows \in Tables,
         NEW i \in DOMAIN GetRoutePoints(in.route), NEW k \in DOMAIN rows.depths
  PROVE  Shallow(in, rows, i, k) \in Hazards("depth") /\ rows.depths[k].pos \in Int
<1> DEFINE D == [pos : Int, side : Int, depth : Int]
           p == GetRoutePoints(in.route)[i].pos
           sample == GetRouteInfo(in, rows)[i]
<1>1. rows.depths[k] \in D
  <2>1. rows.depths \in Seq(D)
    BY TablesAssumption
  <2> HIDE DEF D
  <2> QED BY <2>1
<1>2. p \in Int
  <2>1. IsCourse(in.route) /\ i \in Nat
    BY InputType, SampleNumbers
  <2>2. in.route[1] \in Int /\ (i - 1) * kStep \in Int
    <3>1. i - 1 \in Int /\ in.route[1] \in Int
      BY <2>1 DEF IsCourse
    <3> QED BY <3>1, Multiples
  <2>3. p = in.route[1] + (i - 1) * kStep
    BY <2>1, SampleOnLeg
  <2> HIDE DEF p
  <2> QED BY <2>2, <2>3
<1>3. sample.expected_time \in Nat /\ sample.speed \in Nat \ {0}
  <2>1. sample \in InfoType(in, rows)
    <3>1. i \in 0 .. Len(GetRoutePoints(in.route))
      BY InputType, SampleNumbers
    <3> QED BY <3>1, InfoEquation
  <2> QED BY <2>1, PossibleSpeedsType, SpeedsAssumption DEF InfoType
<1> HIDE DEF p, sample
<1>4. Distance(rows.depths[k].pos, p) \in Nat
  BY <1>1, <1>2, DistanceType
<1>5. Distance(rows.depths[k].pos, p) \div sample.speed \in Int
  BY <1>3, <1>4
<1>6. TimeAt(sample, p, rows.depths[k].pos) \in Int
  BY <1>3, <1>5 DEF TimeAt
<1> QED BY <1>1, <1>6 DEF Shallow, Hazard, Hazards, p, sample

\* A shallow is found from the first sample of a leg, whichever side it lies on, and
\* in no other way.
LEMMA ShallowsFound ==
  ASSUME NEW in \in Inputs, NEW rows \in Tables
  PROVE  LET found == GetDepthDiagnostic(in, GetRouteInfo(in, rows), rows)
             starts == FirstSamples(GetRoutePoints(in.route))
         IN  /\ found \in Seq(Hazards("depth"))
             /\ ToSet(found) = UNION {{Shallow(in, rows, i, k) : k \in Hits(in, rows, i, 1)
                                                                  \cup Hits(in, rows, i, -1)} : i \in starts}
<1> DEFINE info == GetRouteInfo(in, rows)
           points == GetRoutePoints(in.route)
           starts == FirstSamples(points)
           S == Hazards("depth")
           all(i) == [k \in DOMAIN rows.depths |-> Shallow(in, rows, i, k)]
           Part(i, hand) == At(all(i), Hits(in, rows, i, hand))
           seqs == [i \in DOMAIN points |-> IF i \in starts THEN Part(i, 1) \o Part(i, -1) ELSE <<>>]
           Of(i) == {Shallow(in, rows, i, k) : k \in Hits(in, rows, i, 1) \cup Hits(in, rows, i, -1)}
<1>1. GetDepthDiagnostic(in, info, rows) = FlattenSeq(seqs)
  BY DEF GetDepthDiagnostic, Shallow, Hits
<1>2. ASSUME NEW i \in DOMAIN points, NEW hand \in {1, -1}
      PROVE  /\ Part(i, hand) \in Seq(S)
             /\ ToSet(Part(i, hand)) = {Shallow(in, rows, i, k) : k \in Hits(in, rows, i, hand)}
  <2> DEFINE I == Hits(in, rows, i, hand)
             s == all(i)
  <2>1. s \in Seq(S)
    <3>1. DOMAIN rows.depths = 1 .. Len(rows.depths) /\ Len(rows.depths) \in Nat
      BY TablesAssumption
    <3>2. \A k \in DOMAIN rows.depths : Shallow(in, rows, i, k) \in S
      BY ShallowType
    <3> HIDE DEF S
    <3> QED BY <3>1, <3>2
  <2>2. DOMAIN s = DOMAIN rows.depths /\ I \in SUBSET DOMAIN s
    BY DEF Hits
  <2>3. \A k \in I : s[k] = Shallow(in, rows, i, k)
    BY <2>2
  <2> HIDE DEF s, I, S
  <2>4. At(s, I) \in Seq(S) /\ ToSet(At(s, I)) = {s[k] : k \in I}
    BY <2>1, <2>2, AtElements
  <2>5. At(s, I) \in Seq(S) /\ ToSet(At(s, I)) = {Shallow(in, rows, i, k) : k \in I}
    BY <2>3, <2>4
  <2> QED BY <2>5 DEF s, I
<1> HIDE DEF Part, S
<1>3. starts \subseteq DOMAIN points
  BY DEF FirstSamples
<1> HIDE DEF starts
<1>4. ASSUME NEW i \in DOMAIN points
      PROVE  seqs[i] \in Seq(S) /\ ToSet(seqs[i]) = IF i \in starts THEN Of(i) ELSE {}
  <2>1. CASE i \in starts
    <3>1. Part(i, 1) \in Seq(S) /\ Part(i, -1) \in Seq(S)
      BY <1>2
    <3>2. /\ Part(i, 1) \o Part(i, -1) \in Seq(S)
          /\ ToSet(Part(i, 1) \o Part(i, -1)) = ToSet(Part(i, 1)) \cup ToSet(Part(i, -1))
      BY <3>1, ConcatElements
    <3>3. ToSet(Part(i, 1)) \cup ToSet(Part(i, -1)) = Of(i)
      BY <1>2
    <3>4. seqs[i] = Part(i, 1) \o Part(i, -1)
      BY <2>1
    <3> HIDE DEF seqs, Of
    <3> QED BY <2>1, <3>2, <3>3, <3>4
  <2>2. CASE i \notin starts
    <3>1. seqs[i] = <<>>
      BY <2>2
    <3> HIDE DEF seqs, Of
    <3> QED BY <2>2, <3>1, EmptyElements
  <2> QED BY <2>1, <2>2
<1>5. DOMAIN seqs = DOMAIN points /\ seqs \in Seq(Seq(S))
  <2>1. DOMAIN points = 1 .. Len(points) /\ Len(points) \in Nat
    BY InputType, SampleNumbers
  <2> HIDE DEF points
  <2>2. DOMAIN seqs = 1 .. Len(points) /\ seqs = [i \in 1 .. Len(points) |-> seqs[i]]
    BY <2>1
  <2>3. \A i \in 1 .. Len(points) : seqs[i] \in Seq(S)
    <3> HIDE DEF seqs
    <3> QED BY <1>4, <2>1
  <2> HIDE DEF seqs
  <2> QED BY <2>1, <2>2, <2>3
<1> HIDE DEF seqs, Of
<1>6. /\ FlattenSeq(seqs) \in Seq(S)
      /\ ToSet(FlattenSeq(seqs)) = UNION {ToSet(seqs[i]) : i \in DOMAIN seqs}
  BY <1>5, FlattenElements
<1>7. UNION {ToSet(seqs[i]) : i \in DOMAIN seqs} = UNION {Of(i) : i \in starts}
  BY <1>3, <1>4, <1>5
<1> QED BY <1>1, <1>6, <1>7 DEF S, Of, starts

\* What a check reports is what it found, thinned out kind by kind.
LEMMA Reported ==
  ASSUME NEW in \in Inputs, NEW rows \in Tables, DoCrossDetect(in, rows) # NoDiagnostic
  PROVE  LET info == GetRouteInfo(in, rows)
             found == ToSet(GetForecastDiagnostic(in, info)) \cup ToSet(GetDepthDiagnostic(in, info, rows))
             reported == ToSet(DoCrossDetect(in, rows).hazard_points)
         IN  /\ reported \subseteq found
             /\ \A h \in found : \E r \in reported : r.kind = h.kind /\ Distance(r.pos, h.pos) < kStep
<1> DEFINE info == GetRouteInfo(in, rows)
           waves == GetForecastDiagnostic(in, info)
           depth == GetDepthDiagnostic(in, info, rows)
           fw == FilterDiagnosticPoints(waves)
           fd == FilterDiagnosticPoints(depth)
           All == Hazards("waves") \cup Hazards("depth")
<1>1. DoCrossDetect(in, rows).hazard_points = fd \o fw
  BY DEF DoCrossDetect
<1>2. waves \in Seq(Hazards("waves")) /\ depth \in Seq(Hazards("depth"))
  BY WavesFound, ShallowsFound
<1> HIDE DEF waves, depth
<1>3. ASSUME NEW kind, NEW points \in Seq(Hazards(kind))
      PROVE  LET result == FilterDiagnosticPoints(points)
             IN  /\ result \in Seq(Hazards(kind)) /\ ToSet(result) \subseteq ToSet(points)
                 /\ \A h \in ToSet(points) : \E r \in ToSet(result) :
                      r.kind = h.kind /\ Distance(r.pos, h.pos) < kStep
  <2> DEFINE result == FilterDiagnosticPoints(points)
  <2>1. \A h \in Hazards(kind) : h.pos \in Int /\ h.kind = kind
    BY DEF Hazards
  <2>2. /\ result \in Seq(Hazards(kind)) /\ ToSet(result) \subseteq ToSet(points)
        /\ \A h \in ToSet(points) : \E r \in ToSet(result) : Distance(r.pos, h.pos) < kStep
    BY <2>1, FilterElements
  <2>3. \A h \in ToSet(points) : h.kind = kind
    <3>1. \A i \in DOMAIN points : points[i] \in Hazards(kind)
      OBVIOUS
    <3> QED BY <2>1, <3>1 DEF ToSet
  <2> HIDE DEF result
  <2> QED BY <2>2, <2>3 DEF result
<1>4. /\ fw \in Seq(Hazards("waves")) /\ ToSet(fw) \subseteq ToSet(waves)
      /\ \A h \in ToSet(waves) : \E r \in ToSet(fw) : r.kind = h.kind /\ Distance(r.pos, h.pos) < kStep
  BY <1>2, <1>3
<1>5. /\ fd \in Seq(Hazards("depth")) /\ ToSet(fd) \subseteq ToSet(depth)
      /\ \A h \in ToSet(depth) : \E r \in ToSet(fd) : r.kind = h.kind /\ Distance(r.pos, h.pos) < kStep
  BY <1>2, <1>3
<1> HIDE DEF fw, fd
<1>6. ToSet(fd \o fw) = ToSet(fd) \cup ToSet(fw)
  <2>1. ASSUME NEW A, NEW B, NEW s \in Seq(A)  PROVE s \in Seq(A \cup B)
    OBVIOUS
  <2>2. fd \in Seq(All) /\ fw \in Seq(All)
    <3>1. All = Hazards("depth") \cup Hazards("waves")
      OBVIOUS
    <3>2. fd \in Seq(Hazards("depth") \cup Hazards("waves"))
      BY <1>5, <2>1
    <3>3. fw \in Seq(Hazards("waves") \cup Hazards("depth"))
      BY <1>4, <2>1
    <3> QED BY <3>1, <3>2, <3>3
  <2> HIDE DEF All
  <2> QED BY <2>2, ConcatElements
<1>7. LET found == ToSet(waves) \cup ToSet(depth)
          reported == ToSet(fd \o fw)
      IN  /\ reported \subseteq found
          /\ \A h \in found : \E r \in reported : r.kind = h.kind /\ Distance(r.pos, h.pos) < kStep
  BY <1>4, <1>5, <1>6
<1> QED BY <1>1, <1>7 DEF waves, depth

-----------------------------------------------------------------------------
(* The check as a state machine.                                           *)

CheckInv == /\ input \in Inputs /\ tables \in Tables
            /\ diagnostic \in {NotChecked, DoCrossDetect(input, tables)}

LEMMA InitCheckInv == ScanInit => CheckInv
BY DEF ScanInit, CheckInv

LEMMA CheckStep == CheckInv /\ [CrossDetect]_scanVars => CheckInv'
<1> SUFFICES ASSUME CheckInv, [CrossDetect]_scanVars  PROVE CheckInv'
  OBVIOUS
<1>1. input' = input /\ tables' = tables
  BY DEF CrossDetect, scanVars
<1>2. diagnostic' = diagnostic \/ diagnostic' = DoCrossDetect(input, tables)
  BY DEF CrossDetect, scanVars
<1>3. DoCrossDetect(input, tables)' = DoCrossDetect(input, tables)
  BY <1>1
<1> QED BY <1>1, <1>2, <1>3 DEF CheckInv

\* In every state, a reported hazard of its kind is less than kStep from everything
\* that was found (FilterDiagnosticPoints).
THEOREM FoundAreReported == ScanSpec => []FoundIsReported
<1>1. ASSUME CheckInv  PROVE FoundIsReported
  <2> SUFFICES ASSUME diagnostic \notin {NotChecked, NoDiagnostic}
               PROVE  \A h \in ToSet(GetForecastDiagnostic(input, Info))
                               \cup ToSet(GetDepthDiagnostic(input, Info, tables)) :
                        \E r \in ToSet(diagnostic.hazard_points) :
                          r.kind = h.kind /\ Distance(r.pos, h.pos) < kStep
    BY DEF FoundIsReported
  <2>1. /\ input \in Inputs /\ tables \in Tables /\ diagnostic = DoCrossDetect(input, tables)
        /\ DoCrossDetect(input, tables) # NoDiagnostic
    BY <1>1 DEF CheckInv
  <2> QED BY <2>1, Reported DEF Info
<1> QED BY <1>1, InitCheckInv, CheckStep, PTL DEF ScanSpec

\* The leg a sample was put on has a length, unless the course starts with none.
LEMMA SampledLegHasLength ==
  ASSUME NEW w, IsCourse(w), w[1] < w[2], NEW i \in DOMAIN GetRoutePoints(w)
  PROVE  LegLength(w, GetRoutePoints(w)[i].segment_id) # 0
<1> DEFINE leg == GetRoutePoints(w)[i].segment_id
           at == (i - 1) * kStep
<1>1. /\ leg \in GetSegments(w) /\ at <= w[leg + 1] - w[1]
      /\ \A j \in 1 .. leg - 1 : w[j + 1] - w[1] < at
  BY SampleOnLeg
<1>2. at \in Int
  <2>1. i - 1 \in Int
    BY SampleNumbers
  <2> QED BY <2>1, Multiples
<1> HIDE DEF leg, at
<1>3. leg \in Nat \ {0} /\ w[leg] \in Int /\ w[leg + 1] \in Int /\ w[1] \in Int
  BY <1>1 DEF IsCourse, GetSegments
<1>4. CASE leg = 1
  BY <1>3, <1>4 DEF LegLength, leg
<1>5. CASE leg # 1
  <2>1. leg - 1 \in 1 .. leg - 1 /\ (leg - 1) + 1 = leg
    BY <1>3, <1>5
  <2>2. w[leg] - w[1] < at
    BY <1>1, <2>1
  <2>3. w[leg + 1] - w[leg] # 0
    BY <1>1, <1>2, <1>3, <2>2
  <2> QED BY <2>3 DEF LegLength, leg
<1> QED BY <1>4, <1>5

\* A complete form and a course that starts with a real leg never make a check fail.
THEOREM CompleteFormsAreChecked == ScanSpec => []CompleteFormIsChecked
<1>1. ASSUME CheckInv  PROVE CompleteFormIsChecked
  <2> SUFFICES ASSUME input.route[1] < input.route[2],
                      NoValue \notin {input.ship.ship_draft, input.ship.danger_height}
               PROVE  diagnostic # NoDiagnostic
    BY DEF CompleteFormIsChecked
  <2> DEFINE w == input.route
             points == GetRoutePoints(w)
  <2>1. IsCourse(w)
    BY <1>1, InputType DEF CheckInv
  <2>2. \A i \in DOMAIN points : LegLength(w, points[i].segment_id) # 0
    BY <2>1, SampledLegHasLength
  <2>3. points # <<>>
    <3>1. Len(w) \in Nat /\ Len(w) > 1 /\ 1 \in 1 .. Len(w) /\ 2 \in 1 .. Len(w) /\ Len(w) \in 1 .. Len(w)
      BY <2>1 DEF IsCourse
    <3>2. w[1] \in Int /\ w[2] \in Int /\ w[Len(w)] \in Int /\ w[2] <= w[Len(w)]
      BY <2>1, <3>1, CourseAdvances
    <3>3. 0 < GetDistance(w)
      BY <3>2 DEF GetDistance
    <3>4. 1 \in DOMAIN points
      <4>1. (1 - 1) * kStep = 0
        BY StepAssumption
      <4> QED BY <2>1, <3>3, <4>1, SampleNumbers
    <3> HIDE DEF points
    <3> QED BY <3>4
  <2>4. ~IsSqlError(points, w)
    <3> HIDE DEF points
    <3> QED BY <2>2, <2>3 DEF IsSqlError
  <2>5. DoCrossDetect(input, tables).result \in {"kOk", "kWarning"}
    BY <2>4 DEF DoCrossDetect
  <2>6. diagnostic.result # "none"
    BY <1>1, <2>5 DEF CheckInv, NotChecked
  <2> QED BY <2>6 DEF NoDiagnostic
<1> QED BY <1>1, InitCheckInv, CheckStep, PTL DEF ScanSpec

\* Two points of time.
LEMMA CloserThanTwice ==
  ASSUME NEW a \in Int, NEW b \in Int, NEW asked \in Int, NEW sailed \in Nat,
         Distance(a, asked) <= Distance(b, asked)
  PROVE  Distance(a, asked + sailed) <= Distance(b, asked + sailed) + 2 * sailed
BY DEF Distance

\* Of all forecasts stored near a sample, the one chosen for the time at the sample before
\* is hardly worse at the sample than any other; on a voyage that leaves the window, of
\* those inside the window.
THEOREM ForecastsAreUsedTimely == ScanSpec => []ForecastsAreTimely
<1>1. ASSUME CheckInv  PROVE ForecastsAreTimely
  <2> SUFFICES ASSUME NEW i \in DOMAIN Samples
               PROVE  LET used == Info[i].forecast
                          now == Info[i].expected_time
                          asked == Info[i - 1].expected_time
                          stored == IF asked + kTooLate <= WindowEnd THEN InReach(i, asked)
                                    ELSE {f \in InReach(i, asked) : f.end_at <= WindowEnd}
                      IN  IF used = NoForecast
                            THEN \A f \in stored : f.end_at < asked - kTooLate
                            ELSE /\ used.end_at <= asked + kTooLate /\ used.end_at <= WindowEnd
                                 /\ \A f \in stored : Distance(used.end_at, now)
                                      <= Distance(f.end_at, now) + 2 * (now - asked)
    BY DEF ForecastsAreTimely
  <2> DEFINE before == Info[i - 1]
             asked == before.expected_time
             found == Found(input, tables, i)
             used == GetClosestForecast(found, asked)
             speed == IF used = NoForecast THEN before.speed ELSE GetSpeed(input.ship, used.wave)
             sailed == IF i = 1 THEN 0 ELSE kStep \div speed
             stored == IF asked + kTooLate <= WindowEnd THEN InReach(i, asked)
                       ELSE {f \in InReach(i, asked) : f.end_at <= WindowEnd}
             n == Len(GetRoutePoints(input.route))
  <2>1. input \in Inputs /\ tables \in Tables
    BY <1>1 DEF CheckInv
  <2>2. n \in Nat /\ i \in 1 .. n /\ i - 1 \in 0 .. n
    BY <2>1, InputType, SampleNumbers DEF Samples
  <2>3. before \in InfoType(input, tables) /\ Info[i] = NextInfo(input, tables, i, before)
    BY <2>1, <2>2, InfoEquation DEF Info
  <2>4. asked \in Nat /\ before.speed \in PossibleSpeeds(input, tables)
    BY <2>3 DEF InfoType
  <2> HIDE DEF before, n
  <2>5. Info[i].forecast = used /\ Info[i].expected_time = asked + sailed
    BY <2>3 DEF NextInfo
  <2>6. /\ found \in Seq(Record)
        /\ ToSet(found) = {f \in ToSet(tables.forecasts) :
             /\ Distance(f.pos, Samples[i].pos) <= kDangerousDistance
             /\ input.depart - kLookBack <= f.end_at /\ f.end_at <= WindowEnd}
    BY <2>1, Candidates DEF Found, Samples, WindowEnd
  <2>7. /\ \A f \in ToSet(tables.forecasts) : f.end_at \in Nat /\ f.wave \in WaveHeights
        /\ asked \in Int /\ WindowEnd \in Int /\ kTooLate \in Nat
    <3>1. \A f \in ToSet(tables.forecasts) : f.end_at \in Nat /\ f.wave \in WaveHeights
      BY <2>1, ForecastsType DEF Record
    <3>2. WindowEnd \in Int
      BY <2>1, InputType, WindowAssumption DEF WindowEnd
    <3> QED BY <2>4, <3>1, <3>2, TooLateAssumption
  <2> HIDE DEF found, asked
  <2>8. \A f \in stored : /\ f \in ToSet(found) /\ f \in ToSet(tables.forecasts)
                          /\ f.end_at <= asked + kTooLate
    <3> SUFFICES ASSUME NEW f \in stored
                 PROVE  /\ f \in ToSet(found) /\ f \in ToSet(tables.forecasts)
                        /\ f.end_at <= asked + kTooLate
      OBVIOUS
    <3>1. f \in InReach(i, asked) /\ (f.end_at <= WindowEnd \/ asked + kTooLate <= WindowEnd)
      OBVIOUS
    <3> HIDE DEF stored
    <3>2. /\ f \in ToSet(tables.forecasts) /\ Distance(f.pos, Samples[i].pos) <= kDangerousDistance
          /\ input.depart - kLookBack <= f.end_at /\ f.end_at <= asked + kTooLate
      BY <3>1 DEF InReach
    <3>3. f.end_at <= WindowEnd
      BY <2>7, <3>1, <3>2
    <3> QED BY <2>6, <3>2, <3>3
  <2> HIDE DEF stored
  <2>9. CASE used = NoForecast
    <3> SUFFICES ASSUME NEW f \in stored
                 PROVE  f.end_at < asked - kTooLate
      BY <2>5, <2>9 DEF stored, asked, before
    <3>1. Distance(f.end_at, asked) > kTooLate
      BY <2>6, <2>7, <2>8, <2>9, NoneIsClose
    <3>2. f.end_at \in Nat /\ f.end_at <= asked + kTooLate
      BY <2>7, <2>8
    <3> QED BY <2>7, <3>1, <3>2 DEF Distance
  <2>10. CASE used # NoForecast
    <3>1. /\ used \in ToSet(found) /\ used.end_at - asked <= kTooLate
          /\ \A g \in ToSet(found) : Distance(used.end_at, asked) <= Distance(g.end_at, asked)
      BY <2>6, <2>7, <2>10, ClosestForecast
    <3>2. /\ used.end_at \in Nat /\ used.wave \in WaveHeights /\ used.end_at <= WindowEnd
          /\ used \in ToSet(tables.forecasts)
      BY <2>6, <2>7, <3>1
    <3>3. sailed \in Nat
      <4>1. speed \in PossibleSpeeds(input, tables)
        BY <2>1, <2>4, <3>2, PossibleSpeedsType
      <4>2. speed \in Nat \ {0}
        BY <2>1, <4>1, PossibleSpeedsType, SpeedsAssumption
      <4> HIDE DEF speed
      <4> QED BY <4>2, StepAssumption
    <3> HIDE DEF used, sailed
    <3>4. used.end_at <= asked + kTooLate
      BY <2>7, <3>1, <3>2
    <3>5. \A f \in stored : Distance(used.end_at, asked + sailed)
                              <= Distance(f.end_at, asked + sailed) + 2 * sailed
      <4> SUFFICES ASSUME NEW f \in stored
                   PROVE  Distance(used.end_at, asked + sailed)
                            <= Distance(f.end_at, asked + sailed) + 2 * sailed
        OBVIOUS
      <4>1. used.end_at \in Int /\ f.end_at \in Int /\ asked \in Int
        BY <2>7, <2>8, <3>2
      <4>2. Distance(used.end_at, asked) <= Distance(f.end_at, asked)
        BY <2>8, <3>1
      <4> QED BY <3>3, <4>1, <4>2, CloserThanTwice
    <3>6. (asked + sailed) - asked = sailed
      BY <2>7, <3>3
    <3> QED BY <2>5, <2>10, <3>2, <3>4, <3>5, <3>6 DEF asked, before, stored
  <2> QED BY <2>9, <2>10
<1> QED BY <1>1, InitCheckInv, CheckStep, PTL DEF ScanSpec

-----------------------------------------------------------------------------
(* The times of the shallows.                                              *)

LEMMA Quotients ==
  ASSUME NEW x \in Nat, NEW v \in Nat \ {0}
  PROVE  x \div v \in Nat /\ (x \div v) * v <= x /\ x < (x \div v) * v + v
<1>1. x \div v \in Nat
  OBVIOUS
<1>2. (x \div v) * v <= x
  OBVIOUS
<1>3. x < (x \div v) * v + v
  OBVIOUS
<1> QED BY <1>1, <1>2, <1>3

LEMMA Products ==
  ASSUME NEW v \in Nat \ {0}, NEW x \in Int, NEW y \in Int
  PROVE  /\ x * v \in Int /\ (x + y) * v = x * v + y * v /\ (x + 1) * v = x * v + v
         /\ x <= y => x * v <= y * v
         /\ x * v < y * v => x < y
<1>1. x * v \in Int /\ (x + y) * v = x * v + y * v /\ (x + 1) * v = x * v + v
  OBVIOUS
<1>2. \A m, n \in Int : m <= n => m * v <= n * v
  OBVIOUS
<1> QED BY <1>1, <1>2

\* After n samples, at d from the start, at the same speed v all the way: truncation
\* makes the time early by less than a second per sample, and a point behind the last
\* sample makes it late.
LEMMA Truncations ==
  ASSUME NEW n \in Nat, NEW v \in Nat \ {0}, NEW d \in Nat, n = 0 \/ n * kStep - kStep < d
  PROVE  LET time == n * (kStep \div v) + Distance(d, n * kStep) \div v
         IN  d \div v - n - 1 <= time /\ time <= d \div v + 2 * (kStep \div v + 1)
<1> DEFINE t == kStep \div v
           s == n * kStep
           e == Distance(d, s)
           q == d \div v
           r == e \div v
           p == n * t
           a == t * v
           b == p * v
<1>1. /\ t \in Nat /\ a <= kStep /\ kStep < a + v /\ a \in Int
      /\ q \in Nat /\ q * v <= d /\ d < q * v + v
  BY Quotients, Products, StepAssumption
<1>2. s \in Nat /\ (n = 0 => s = 0)
  BY StepAssumption
<1>3. e \in Nat /\ e = IF d < s THEN s - d ELSE d - s
  BY <1>2, DistanceType DEF Distance
<1> HIDE DEF e
<1>4. r \in Nat /\ r * v <= e /\ e < r * v + v
  BY <1>3, Quotients
<1> HIDE DEF r, q, t
<1>5. p \in Nat /\ b = n * a
  BY <1>1
<1>6. b <= s /\ s <= b + n * v /\ n * v \in Nat /\ b \in Nat
  <2>1. n * a <= n * kStep
    BY <1>1, StepAssumption
  <2>2. n * kStep <= n * (a + v)
    BY <1>1, StepAssumption
  <2>3. n * (a + v) = n * a + n * v
    BY <1>1
  <2>4. n * a \in Nat /\ n * v \in Nat
    BY <1>1, <1>5
  <2> QED BY <1>5, <2>1, <2>2, <2>3, <2>4
<1> DEFINE m == n * v
<1>7. (p + r) * v = b + r * v /\ r * v \in Int /\ q * v \in Int
  BY <1>1, <1>4, <1>5, Products
<1> HIDE DEF s, b, p, a
<1>8. q < p + r + n + 2
  <2>1. q * v < (p + r + n + 2) * v
    <3>1. (p + r + n + 2) * v = ((p + r) * v + n * v) + 2 * v
      <4>1. (p + r) + n \in Int /\ p + r \in Int
        BY <1>4, <1>5
      <4>2. ((p + r) + n) * v = (p + r) * v + n * v
        BY <4>1, Products
      <4>3. (((p + r) + n) + 2) * v = ((p + r) + n) * v + 2 * v
        BY <4>1, Products
      <4> QED BY <4>1, <4>2, <4>3
    <3> HIDE DEF m
    <3> QED BY <1>1, <1>2, <1>3, <1>4, <1>6, <1>7, <3>1
  <2>2. p + r + n + 2 \in Int /\ q \in Int
    BY <1>1, <1>4, <1>5
  <2> QED BY <2>1, <2>2, Products
<1>9. CASE d >= s
  <2>1. (p + r) * v < (q + 1) * v
    <3>1. (q + 1) * v = q * v + v
      BY <1>1, Products
    <3> QED BY <1>1, <1>2, <1>3, <1>4, <1>6, <1>7, <1>9, <3>1
  <2>2. p + r < q + 1
    <3>1. p + r \in Int /\ q + 1 \in Int
      BY <1>1, <1>4, <1>5
    <3> QED BY <2>1, <3>1, Products
  <2> QED BY <1>1, <1>4, <1>5, <1>8, <2>2 DEF p, r, t, q, e, s
<1>10. CASE d < s
  <2>1. s - kStep < d
    BY <1>2, <1>10 DEF s
  <2>2. r < t + 1
    <3>1. (t + 1) * v = a + v
      BY <1>1, Products DEF a
    <3>2. r * v < (t + 1) * v
      BY <1>1, <1>2, <1>3, <1>4, <1>7, <1>10, <2>1, <3>1, StepAssumption
    <3>3. r \in Int /\ t + 1 \in Int
      BY <1>1, <1>4
    <3> QED BY <3>2, <3>3, Products
  <2>3. p < q + t + 2
    <3>1. (q + t + 2) * v = (q * v + a) + 2 * v
      <4>1. q + t \in Int /\ (q + t) * v = q * v + t * v
        BY <1>1, Products
      <4>2. ((q + t) + 2) * v = (q + t) * v + 2 * v
        BY <4>1, Products
      <4> QED BY <1>1, <4>1, <4>2 DEF a
    <3>2. p * v < (q + t + 2) * v
      BY <1>1, <1>2, <1>6, <1>7, <1>10, <2>1, <3>1, StepAssumption DEF b
    <3>3. p \in Int /\ q + t + 2 \in Int
      BY <1>1, <1>5
    <3> QED BY <3>2, <3>3, Products
  <2> QED BY <1>1, <1>4, <1>5, <1>8, <2>2, <2>3 DEF p, r, t, q, e, s
<1> QED BY <1>2, <1>9, <1>10

\* Without forecasts the ship keeps its speed.
LEMMA CalmVoyage ==
  ASSUME NEW in \in Inputs, NEW rows \in Tables, rows.forecasts = <<>>,
         NEW i \in DOMAIN GetRoutePoints(in.route)
  PROVE  LET at == GetRouteInfo(in, rows)[i]
         IN  /\ at.forecast = NoForecast /\ at.speed = in.ship.speed
             /\ at.expected_time = in.depart + (i - 1) * (kStep \div in.ship.speed)
<1> DEFINE info == GetRouteInfo(in, rows)
           n == Len(GetRoutePoints(in.route))
           v == in.ship.speed
           t == kStep \div v
           Calm(k) == /\ info[k + 1].forecast = NoForecast /\ info[k + 1].speed = v
                      /\ info[k + 1].expected_time = in.depart + k * t
           T == {k \in Nat : k + 1 <= n => Calm(k)}
<1>1. /\ n \in Nat /\ info \in [0 .. n -> InfoType(in, rows)] /\ info[0] = FirstInfo(in)
      /\ \A k \in 1 .. n : info[k] = NextInfo(in, rows, k, info[k - 1])
  BY InfoEquation
<1>2. t \in Nat /\ in.depart \in Nat
  <2>1. v \in Nat \ {0}
    BY InputType, SpeedsAssumption
  <2> HIDE DEF v
  <2> QED BY <2>1, InputType, Quotients, StepAssumption
<1> HIDE DEF info, n, v, t
<1>3. ASSUME NEW k \in 1 .. n, info[k - 1].speed = v
      PROVE  /\ info[k].forecast = NoForecast /\ info[k].speed = v
             /\ info[k].expected_time = info[k - 1].expected_time + (IF k = 1 THEN 0 ELSE t)
  <2>1. ToSet(rows.forecasts) = {}
    BY EmptyElements
  <2>2. info[k].forecast = NoForecast
    BY <1>1, <2>1 DEF InfoType
  <2> QED BY <1>1, <1>3, <2>2 DEF NextInfo, t
<1>4. 0 \in T
  <2> SUFFICES ASSUME 0 + 1 <= n  PROVE Calm(0)
    OBVIOUS
  <2>1. 1 \in 1 .. n /\ 1 - 1 = 0
    BY <1>1
  <2>2. info[0].speed = v /\ info[0].expected_time = in.depart
    BY <1>1 DEF FirstInfo, v
  <2>3. info[1].forecast = NoForecast /\ info[1].speed = v /\ info[1].expected_time = in.depart + 0
    BY <1>3, <2>1, <2>2
  <2> QED BY <1>2, <2>3
<1>5. ASSUME NEW k \in Nat, k \in T  PROVE k + 1 \in T
  <2> SUFFICES ASSUME (k + 1) + 1 <= n  PROVE Calm(k + 1)
    OBVIOUS
  <2>1. (k + 1) + 1 \in 1 .. n /\ ((k + 1) + 1) - 1 = k + 1 /\ (k + 1) + 1 # 1 /\ k + 1 <= n
    BY <1>1
  <2>2. Calm(k)
    BY <1>5, <2>1
  <2>3. /\ info[(k + 1) + 1].forecast = NoForecast /\ info[(k + 1) + 1].speed = v
        /\ info[(k + 1) + 1].expected_time = (in.depart + k * t) + t
    BY <1>3, <2>1, <2>2
  <2>4. (in.depart + k * t) + t = in.depart + (k + 1) * t
    BY <1>2
  <2> QED BY <2>3, <2>4
<1>6. i - 1 \in Nat /\ (i - 1) + 1 = i /\ i <= n
  BY InputType, SampleNumbers DEF n
<1>7. i - 1 \in T
  <2> HIDE DEF T
  <2>1. Nat \subseteq T
    BY <1>4, <1>5, NatSetInduction
  <2> QED BY <1>6, <2>1
<1> QED BY <1>6, <1>7 DEF info, t, v

\* The first sample of a leg is less than kStep from its start.
LEMMA FirstSampleIsNear ==
  ASSUME NEW w, IsCourse(w), NEW i \in FirstSamples(GetRoutePoints(w)), i # 1
  PROVE  (i - 1) * kStep - kStep <= w[GetRoutePoints(w)[i].segment_id] - w[1]
<1> DEFINE points == GetRoutePoints(w)
           leg == points[i].segment_id
           old == points[i - 1].segment_id
           at == (i - 1) * kStep
           was == ((i - 1) - 1) * kStep
<1>1. i \in DOMAIN points /\ i - 1 \in DOMAIN points /\ i \in Nat \ {0}
  BY SampleNumbers DEF FirstSamples
<1>2. leg # old
  BY DEF FirstSamples
<1>3. at \in Int /\ was = at - kStep /\ was \in Int
  <2>1. (i - 1) - 1 \in Int /\ ((i - 1) - 1) + 1 = i - 1
    BY <1>1
  <2> QED BY <2>1, Multiples, StepAssumption
<1>4. leg \in GetSegments(w) /\ at <= w[leg + 1] - w[1]
  BY <1>1, SampleOnLeg
<1>5. /\ old \in GetSegments(w) /\ was <= w[old + 1] - w[1]
      /\ \A j \in 1 .. old - 1 : w[j + 1] - w[1] < was
  BY <1>1, SampleOnLeg
<1> HIDE DEF points, leg, old, at, was
<1>6. /\ leg \in 1 .. Len(w) /\ leg + 1 \in 1 .. Len(w) /\ old + 1 \in 1 .. Len(w)
      /\ 1 \in 1 .. Len(w) /\ leg \in Nat /\ old \in Nat /\ \A k \in 1 .. Len(w) : w[k] \in Int
  BY <1>4, <1>5 DEF IsCourse, GetSegments
<1>7. CASE old < leg
  <2>1. w[old + 1] <= w[leg]
    BY <1>6, <1>7, CourseAdvances
  <2>2. was <= w[leg] - w[1]
    BY <1>3, <1>5, <1>6, <2>1
  <2>3. at - kStep <= w[leg] - w[1]
    BY <1>3, <2>2
  <2> QED BY <2>3 DEF leg, points, at
<1>8. CASE leg < old
  <2>1. leg \in 1 .. old - 1
    BY <1>6, <1>8
  <2>2. w[leg + 1] - w[1] < was
    BY <1>5, <2>1
  <2> QED BY <1>3, <1>4, <1>6, <2>2, StepAssumption
<1> QED BY <1>2, <1>6, <1>7, <1>8

\* What lies inside a triangle lies beside its leg.
LEMMA TriangleIsBesideLeg ==
  ASSUME NEW length \in Lengths \cap Nat, NEW speed \in Speeds, NEW start \in Int,
         NEW hand \in {1, -1}, NEW d \in [pos : Int, side : Int, depth : Int],
         InTriangle(d, start, length, speed, hand)
  PROVE  start < d.pos
<1> DEFINE x == d.pos - start
           y == d.side * hand
           along == Corner(length, speed).along
           side == Corner(length, speed).side
<1>1. along \in Nat /\ side \in Nat
  <2>1. Corner(length, speed) \in [along : 0 .. length, side : Nat]
    BY CornerAssumption
  <2> QED BY <2>1
<1>2. x \in Int /\ y \in Int /\ 0 < y /\ y * along < x * side
  BY DEF InTriangle
<1> HIDE DEF x, y, along, side
<1>3. y * along >= 0
  BY <1>1, <1>2
<1>4. x * side \in Int /\ y * along \in Int
  BY <1>1, <1>2
<1>5. ~(x <= 0)
  <2> SUFFICES ASSUME x <= 0
               PROVE  x * side <= 0
    BY <1>2, <1>3, <1>4
  <2> QED BY <1>1, <1>2
<1> QED BY <1>2, <1>5 DEF x

\* The time given for a shallow is that of passing it, but for the truncation of
\* seconds and a shallow behind the first sample of its leg.
THEOREM ShallowsHaveTheirTime == ScanSpec => []ShallowsAreTimed
<1>1. ASSUME CheckInv  PROVE ShallowsAreTimed
  <2> SUFFICES ASSUME tables.forecasts = <<>>, NEW h \in ToSet(diagnostic.hazard_points)
               PROVE  LET arrival == input.depart + (h.pos - input.route[1]) \div input.ship.speed
                      IN  /\ arrival - Len(Samples) <= h.time
                          /\ h.time <= arrival + 2 * (kStep \div input.ship.speed + 1)
    BY DEF ShallowsAreTimed
  <2> DEFINE w == input.route
             points == GetRoutePoints(w)
             v == input.ship.speed
  <2>1. input \in Inputs /\ tables \in Tables /\ IsCourse(w) /\ v \in Nat \ {0} /\ input.depart \in Nat
    BY <1>1, InputType, SpeedsAssumption DEF CheckInv
  <2>2. diagnostic = DoCrossDetect(input, tables) /\ DoCrossDetect(input, tables) # NoDiagnostic
    <3>1. NotChecked.hazard_points = <<>> /\ NoDiagnostic.hazard_points = <<>>
      BY DEF NotChecked, NoDiagnostic
    <3> QED BY <1>1, <3>1, EmptyElements DEF CheckInv
  <2>3. h \in ToSet(GetDepthDiagnostic(input, Info, tables))
    <3>1. GetForecastDiagnostic(input, Info) = <<>>
      BY <2>1, WavesFound, CalmVoyage DEF Info
    <3> QED BY <2>1, <2>2, <3>1, Reported, EmptyElements DEF Info
  <2>4. PICK i \in FirstSamples(points) :
          h \in {Shallow(input, tables, i, k) : k \in Hits(input, tables, i, 1) \cup Hits(input, tables, i, -1)}
    BY <2>1, <2>3, ShallowsFound DEF Info
  <2>5. PICK k \in Hits(input, tables, i, 1) \cup Hits(input, tables, i, -1) : h = Shallow(input, tables, i, k)
    BY <2>4
  <2>6. i \in DOMAIN points /\ i \in Nat \ {0} /\ Len(points) \in Nat /\ i <= Len(points)
    BY <2>1, SampleNumbers DEF FirstSamples
  <2> DEFINE leg == points[i].segment_id
             d == tables.depths[k]
             n == i - 1
             pos == d.pos - w[1]
             t == kStep \div v
  <2>7. k \in DOMAIN tables.depths /\ d.pos > w[leg] /\ d.pos \in Int
    <3>1. k \in DOMAIN tables.depths
      BY DEF Hits
    <3>2. d.pos \in Int
      BY <2>1, <2>6, <3>1, ShallowType
    <3>3. w[leg] \in Int /\ LegLength(w, leg) \in Lengths \cap Nat
      <4>1. leg \in GetSegments(w)
        BY <2>1, <2>6, SampleOnLeg
      <4> HIDE DEF leg, w
      <4> QED BY <2>1, <4>1 DEF IsCourse, GetSegments
    <3>4. w[leg] < d.pos
      <4>1. PICK hand \in {1, -1} :
              InTriangle(d, w[leg], LegLength(w, leg), GetRouteInfo(input, tables)[i].speed, hand)
        BY DEF Hits
      <4>2. d \in [pos : Int, side : Int, depth : Int]
        <5> DEFINE D == [pos : Int, side : Int, depth : Int]
        <5>1. tables.depths \in Seq(D)
          BY <2>1, TablesAssumption
        <5> HIDE DEF D
        <5>2. tables.depths[k] \in D
          BY <3>1, <5>1
        <5> QED BY <5>2 DEF D
      <4>3. GetRouteInfo(input, tables)[i].speed \in Speeds
        <5>1. i \in 0 .. Len(points)
          BY <2>6
        <5>2. GetRouteInfo(input, tables)[i].speed \in PossibleSpeeds(input, tables)
          BY <2>1, <5>1, InfoEquation DEF InfoType
        <5> QED BY <2>1, <5>2, PossibleSpeedsType
      <4> HIDE DEF d, leg, w
      <4> QED BY <3>3, <4>1, <4>2, <4>3, TriangleIsBesideLeg
    <3> QED BY <3>1, <3>2, <3>4
  <2>8. /\ leg \in 1 .. Len(w) /\ 1 \in 1 .. Len(w) /\ w[1] \in Int /\ w[leg] \in Int /\ w[1] <= w[leg]
        /\ points[i].pos = w[1] + n * kStep
    <3>1. leg \in GetSegments(w) /\ points[i].pos = w[1] + n * kStep
      BY <2>1, <2>6, SampleOnLeg
    <3> HIDE DEF leg, w, points
    <3>2. leg \in 1 .. Len(w) /\ 1 \in 1 .. Len(w) /\ 1 <= leg
      BY <2>1, <3>1 DEF IsCourse, GetSegments
    <3> QED BY <2>1, <3>1, <3>2, CourseAdvances
  <2>9. i = 1 \/ n * kStep - kStep <= w[leg] - w[1]
    BY <2>1, FirstSampleIsNear
  <2>10. n \in Nat /\ n * kStep \in Nat /\ pos \in Nat
    <3>1. n \in Nat
      BY <2>6
    <3> HIDE DEF n
    <3>2. n * kStep \in Nat
      BY <3>1, Multiples
    <3> HIDE DEF leg, d, w
    <3> QED BY <2>7, <2>8, <3>1, <3>2
  <2>11. n = 0 \/ n * kStep - kStep < pos
    <3> DEFINE s == n * kStep
    <3>1. s \in Int /\ (i = 1 => n = 0)
      BY <2>10
    <3>2. i = 1 \/ s - kStep <= w[leg] - w[1]
      BY <2>9
    <3> HIDE DEF leg, d, w, n, s
    <3> QED BY <2>7, <2>8, <3>1, <3>2, StepAssumption DEF s
  <2>a. Distance(pos, n * kStep) \in Nat
    <3> DEFINE s == n * kStep
    <3>1. s \in Int /\ pos \in Int
      BY <2>10
    <3> HIDE DEF s, pos
    <3>2. Distance(pos, s) \in Nat
      BY <3>1, DistanceType
    <3> QED BY <3>2 DEF s
  <2>12. h.time = input.depart + n * t + Distance(pos, n * kStep) \div v
    <3> DEFINE at == GetRouteInfo(input, tables)[i]
    <3>1. at.speed = v /\ at.expected_time = input.depart + n * t
      BY <2>1, <2>6, CalmVoyage
    <3>2. Distance(d.pos, points[i].pos) = Distance(pos, n * kStep)
      <4> DEFINE s == n * kStep
      <4>1. s \in Int
        BY <2>10
      <4> HIDE DEF s, d, w, n, points
      <4>2. points[i].pos = w[1] + s
        BY <2>8 DEF s
      <4>3. Distance(d.pos, w[1] + s) = Distance(d.pos - w[1], s)
        BY <2>7, <2>8, <4>1 DEF Distance
      <4> QED BY <4>2, <4>3 DEF s
    <3>3. h.time = at.expected_time + Distance(d.pos, points[i].pos) \div at.speed
      <4> HIDE DEF at, points
      <4> QED BY <2>5 DEF Shallow, Hazard, TimeAt, at, points
    <3> HIDE DEF at, n, t, v, pos, d, points
    <3> QED BY <3>1, <3>2, <3>3
  <2> HIDE DEF n, pos, v, points, leg, d, t
  <2> DEFINE time == n * t + Distance(pos, n * kStep) \div v
             q == pos \div v
  <2>13. q - n - 1 <= time /\ time <= q + 2 * (t + 1)
    BY <2>1, <2>10, <2>11, Truncations DEF t
  <2>14. time \in Int /\ q \in Nat /\ t \in Nat
    <3>1. t \in Nat /\ q \in Nat
      BY <2>1, <2>10, Quotients, StepAssumption DEF t
    <3>2. Distance(pos, n * kStep) \div v \in Nat
      BY <2>1, <2>a, Quotients
    <3>3. n * t \in Nat
      BY <2>10, <3>1
    <3> QED BY <3>1, <3>2, <3>3
  <2>15. h.time = input.depart + time
    <3>1. n * t \in Int /\ Distance(pos, n * kStep) \div v \in Int
      <4>1. t \in Nat
        BY <2>14
      <4>2. Distance(pos, n * kStep) \div v \in Nat
        BY <2>1, <2>a, Quotients
      <4> QED BY <2>10, <4>1, <4>2
    <3> QED BY <2>1, <2>12, <3>1
  <2> HIDE DEF time, q
  <2>16. (input.depart + q) - Len(points) <= h.time /\ h.time <= input.depart + q + 2 * (t + 1)
    <3> DEFINE total == Len(points)
    <3>1. total \in Nat /\ n \in Int /\ n + 1 <= total
      BY <2>6 DEF n
    <3> HIDE DEF total
    <3>2. (input.depart + q) - total <= input.depart + time
      BY <2>1, <2>13, <2>14, <3>1
    <3>3. input.depart + time <= input.depart + q + 2 * (t + 1)
      BY <2>1, <2>13, <2>14
    <3> QED BY <2>15, <3>2, <3>3 DEF total
  <2>17. q = (h.pos - w[1]) \div v
    <3>1. h.pos = d.pos
      BY <2>5 DEF Shallow, Hazard, d
    <3> QED BY <3>1 DEF q, pos
  <2>18. /\ kStep \div input.ship.speed = t
         /\ (h.pos - input.route[1]) \div input.ship.speed = q
    BY <2>17 DEF t, v
  <2> DEFINE arrival == input.depart + (h.pos - input.route[1]) \div input.ship.speed
  <2>19. arrival = input.depart + q
    BY <2>18
  <2> HIDE DEF arrival
  <2>20. Samples = points
    BY DEF Samples, points
  <2>21. arrival - Len(points) <= h.time /\ h.time <= arrival + 2 * (t + 1)
    BY <2>16, <2>19
  <2> QED BY <2>18, <2>20, <2>21 DEF arrival
<1> QED BY <1>1, InitCheckInv, CheckStep, PTL DEF ScanSpec

-----------------------------------------------------------------------------
(* What has to be seen is seen.                                            *)

\* On a leg longer than kStep there is a sample, and a first one.
LEMMA LongLegIsSampled ==
  ASSUME NEW w, IsCourse(w), NEW leg \in GetSegments(w), LegLength(w, leg) > kStep
  PROVE  \E i \in FirstSamples(GetRoutePoints(w)) : GetRoutePoints(w)[i].segment_id = leg
<1> DEFINE points == GetRoutePoints(w)
           off == w[leg] - w[1]
           n == off \div kStep + 1
           at == n * kStep
<1>1. /\ leg \in 1 .. Len(w) /\ leg + 1 \in 1 .. Len(w) /\ 1 \in 1 .. Len(w) /\ Len(w) \in 1 .. Len(w)
      /\ leg + 1 <= Len(w) /\ 1 <= leg /\ leg \in Nat /\ Len(w) \in Nat
      /\ \A k \in 1 .. Len(w) : w[k] \in Int
  BY DEF IsCourse, GetSegments
<1>2. off \in Nat /\ w[leg + 1] <= w[Len(w)]
  BY <1>1, CourseAdvances
<1>3. w[leg + 1] - w[leg] > kStep
  BY DEF LegLength
<1>4. n \in Nat \ {0} /\ at \in Nat /\ off < at /\ at <= off + kStep
  <2> DEFINE q == off \div kStep
  <2> HIDE DEF off
  <2>1. q \in Nat /\ q * kStep <= off /\ off < q * kStep + kStep
    BY <1>2, Multiples
  <2> HIDE DEF q
  <2>2. (q + 1) * kStep = q * kStep + kStep /\ (q + 1) * kStep \in Nat
    BY <2>1, Multiples
  <2>3. n = q + 1
    BY DEF q
  <2> QED BY <1>2, <2>1, <2>2, <2>3, StepAssumption
<1> HIDE DEF n
<1>5. off < at /\ at < w[leg + 1] - w[1] /\ at \in Nat
  <2> DEFINE from == w[leg]
             to == w[leg + 1]
             start == w[1]
  <2>1. off = from - start /\ from \in Int /\ start \in Int /\ to \in Int /\ kStep \in Int
    BY <1>1, StepAssumption
  <2>2. to - from > kStep /\ at \in Nat /\ off < at /\ at <= off + kStep
    BY <1>3, <1>4
  <2> HIDE DEF at, off, from, to, start
  <2>3. at < to - start
    BY <2>1, <2>2
  <2> QED BY <2>2, <2>3 DEF to, start
<1> DEFINE i == n + 1
<1>6. i \in DOMAIN points /\ i - 1 = n
  <2>1. i \in Nat \ {0} /\ i - 1 = n
    BY <1>4
  <2>2. at < GetDistance(w)
    <3> HIDE DEF at
    <3> QED BY <1>1, <1>2, <1>5 DEF GetDistance
  <2> HIDE DEF i
  <2> QED BY <2>1, <2>2, SampleNumbers
<1> DEFINE on == points[i].segment_id
<1>7. /\ on \in GetSegments(w) /\ at <= w[on + 1] - w[1]
      /\ \A j \in 1 .. on - 1 : w[j + 1] - w[1] < at
  <2> HIDE DEF i
  <2> QED BY <1>6, SampleOnLeg
<1> HIDE DEF i, at, points, on
<1>8. on \in Nat /\ on \in 1 .. Len(w) /\ on + 1 \in 1 .. Len(w)
  BY <1>7 DEF IsCourse, GetSegments
<1>9. on = leg
  <2>1. CASE on < leg
    <3>1. w[on + 1] <= w[leg]
      BY <1>1, <1>8, <2>1, CourseAdvances
    <3> DEFINE behind == w[on + 1]
               from == w[leg]
               start == w[1]
    <3>2. behind \in Int /\ from \in Int /\ start \in Int
      BY <1>1, <1>8
    <3>3. behind <= from /\ at <= behind - start /\ from - start < at /\ at \in Nat
      BY <1>5, <1>7, <3>1
    <3> HIDE DEF behind, from, start
    <3> QED BY <3>2, <3>3
  <2>2. CASE leg < on
    <3>1. leg \in 1 .. on - 1
      BY <1>1, <1>8, <2>2
    <3>2. w[leg + 1] - w[1] < at
      BY <1>7, <3>1
    <3> QED BY <1>1, <1>5, <3>2
  <2> QED BY <1>1, <1>8, <2>1, <2>2
<1> DEFINE T == {k \in DOMAIN points : points[k].segment_id = leg}
<1>10. i \in T /\ T \subseteq Nat
  BY <1>6, <1>9, SampleNumbers DEF on, points
<1>11. PICK m \in T : \A k \in T : m <= k
  <2> HIDE DEF T
  <2> QED BY <1>10, NatMinimum
<1>12. m \in Nat /\ m - 1 \notin T
  <2>1. m \in Nat /\ ~(m <= m - 1)
    BY <1>10
  <2> HIDE DEF T
  <2> QED BY <1>11, <2>1
<1>13. m = 1 \/ m - 1 \in DOMAIN points
  BY <1>12, SampleNumbers DEF points
<1>14. m \in FirstSamples(points)
  BY <1>12, <1>13 DEF FirstSamples
<1> QED BY <1>14 DEF points

\* Every shallow inside the triangle of a leg longer than kStep at every possible speed has a
\* reported one less than kStep away (GetDepthDiagnostic, FilterDiagnosticPoints).
THEOREM ShallowsReported == ScanSpec => []ShallowsAreReported
<1>1. ASSUME CheckInv  PROVE ShallowsAreReported
  <2> SUFFICES ASSUME diagnostic \notin {NotChecked, NoDiagnostic},
                      NEW d \in ShallowsBeside(input, tables, input.ship.ship_draft)
               PROVE  \E i \in DOMAIN diagnostic.hazard_points :
                        /\ diagnostic.hazard_points[i].kind = "depth"
                        /\ Distance(diagnostic.hazard_points[i].pos, d.pos) < kStep
    BY DEF ShallowsAreReported, ReportsAll
  <2> DEFINE w == input.route
             points == GetRoutePoints(w)
  <2>1. /\ input \in Inputs /\ tables \in Tables /\ IsCourse(w)
        /\ diagnostic = DoCrossDetect(input, tables) /\ DoCrossDetect(input, tables) # NoDiagnostic
    BY <1>1, InputType DEF CheckInv
  <2>2. PICK leg \in GetSegments(w) : \E hand \in {1, -1} :
          /\ LegLength(w, leg) > kStep
          /\ \A speed \in PossibleSpeeds(input, tables) :
               InTriangle(d, w[leg], LegLength(w, leg), speed, hand)
    BY DEF ShallowsBeside
  <2>3. PICK hand \in {1, -1} : \A speed \in PossibleSpeeds(input, tables) :
          InTriangle(d, w[leg], LegLength(w, leg), speed, hand)
    BY <2>2
  <2> DEFINE length == LegLength(w, leg)
  <2>4. PICK k \in DOMAIN tables.depths : d = tables.depths[k] /\ d.depth <= input.ship.ship_draft
    BY DEF ShallowsBeside, ToSet
  <2>5. length > kStep /\ length \in Lengths
    BY <2>1, <2>2 DEF IsCourse
  <2>6. PICK i \in FirstSamples(points) : points[i].segment_id = leg
    BY <2>1, <2>5, LongLegIsSampled
  <2> DEFINE speed == GetRouteInfo(input, tables)[i].speed
  <2>7. speed \in PossibleSpeeds(input, tables)
    <3>1. i \in 0 .. Len(points)
      BY <2>1, SampleNumbers DEF FirstSamples
    <3> QED BY <2>1, <3>1, InfoEquation DEF InfoType
  <2> HIDE DEF speed
  <2>9. InTriangle(d, w[leg], length, speed, hand)
    BY <2>3, <2>7
  <2>10. k \in Hits(input, tables, i, hand)
    BY <2>4, <2>6, <2>9 DEF Hits, length, speed, points
  <2> DEFINE found == ToSet(GetDepthDiagnostic(input, GetRouteInfo(input, tables), tables))
             h == Shallow(input, tables, i, k)
  <2>11. h \in found
    <3>1. k \in Hits(input, tables, i, 1) \cup Hits(input, tables, i, -1)
      BY <2>10
    <3> HIDE DEF found, points
    <3>2. found = UNION {{Shallow(input, tables, m, l) : l \in Hits(input, tables, m, 1)
                                       \cup Hits(input, tables, m, -1)} : m \in FirstSamples(points)}
      BY <2>1, ShallowsFound DEF found, points
    <3> QED BY <3>1, <3>2
  <2>12. h.kind = "depth" /\ h.pos = d.pos
    BY <2>4 DEF Shallow, Hazard
  <2> HIDE DEF h, found
  <2>13. \E r \in ToSet(DoCrossDetect(input, tables).hazard_points) :
           r.kind = h.kind /\ Distance(r.pos, h.pos) < kStep
    BY <2>1, <2>11, Reported DEF found
  <2> QED BY <2>1, <2>12, <2>13 DEF ToSet
<1> QED BY <1>1, InitCheckInv, CheckStep, PTL DEF ScanSpec

-----------------------------------------------------------------------------
(* The panel.                                                              *)

\* The scanner's diagnostic is the one in the text, or there is none; and nothing was
\* drawn since the last check, or exactly that diagnostic's marks.
ShownInv ==
  /\ diagnostic_ = NoDiagnostic \/ c_diagnostic_message_ = diagnostic_
  /\ rendered => marks = Marks(diagnostic_)

\* A check that failed leaves nothing to draw.
LEMMA NothingToMark == Marks(NoDiagnostic) = {}
<1>1. DOMAIN NoDiagnostic.hazard_points = {}
  BY DEF NoDiagnostic
<1> QED
  BY <1>1 DEF Marks

\* No mark is drawn before the first check.
LEMMA ShownInit == Init => ShownInv
BY DEF Init, ShownInv

\* A check writes its diagnostic into both places, or only empties the scanner's; a
\* repaint replaces the marks; every other handler leaves all of them alone.
LEMMA ShownStep == ShownInv /\ [Next]_vars => ShownInv'
<1> SUFFICES ASSUME ShownInv, [Next]_vars
             PROVE  ShownInv'
  OBVIOUS
<1>1. CASE OnCheckPathClicked
  <2>1. PICK made : diagnostic_' = made /\ UpdateDiagnostic(made) /\ rendered' = FALSE
    BY <1>1 DEF OnCheckPathClicked
  <2>2. CASE made = NoDiagnostic
    BY <2>1, <2>2 DEF ShownInv
  <2>3. CASE made # NoDiagnostic
    BY <2>1, <2>3 DEF ShownInv, UpdateDiagnostic
  <2> QED
    BY <2>2, <2>3
<1>2. CASE Render
  BY <1>2 DEF Render, ShownInv, checkVars, Marks
<1>3. CASE UNCHANGED <<checkVars, marks, rendered>>
  BY <1>3 DEF checkVars, ShownInv, Marks
<1>4. CASE OnRefreshRouteList
  BY <1>3, <1>4 DEF OnRefreshRouteList
<1>5. CASE SelectRoute
  BY <1>3, <1>5 DEF SelectRoute
<1>6. CASE EditForm
  BY <1>3, <1>6 DEF EditForm
<1>7. CASE HostEditsChart
  BY <1>3, <1>7 DEF HostEditsChart
<1>8. CASE LoadStoresRows
  BY <1>3, <1>8 DEF LoadStoresRows
<1>9. CASE UNCHANGED vars
  BY <1>3, <1>9 DEF vars
<1> QED
  BY <1>1, <1>2, <1>4, <1>5, <1>6, <1>7, <1>8, <1>9 DEF Next

\* In every state of the panel (route_validate_panel.cpp) and the overlay
\* (render_overlay.cpp): marks drawn since the last check are those of the text.
THEOREM ShownBelongsTogether == Spec => []MarksAgreeWithText
<1>1. ShownInv => MarksAgreeWithText
  BY NothingToMark DEF ShownInv, MarksAgreeWithText
<1> QED
  BY <1>1, ShownInit, ShownStep, PTL DEF Spec

-----------------------------------------------------------------------------
\* The chart is one of the charts there are.
ChartInv == chart \in Charts

\* Only the chart plotter changes it.
LEMMA ChartStep == ChartInv /\ [Next]_vars => ChartInv'
<1> SUFFICES ASSUME ChartInv, [Next]_vars
             PROVE  ChartInv'
  OBVIOUS
<1>1. CASE UNCHANGED chart
  BY <1>1 DEF ChartInv
<1>2. CASE HostEditsChart
  BY <1>2 DEF HostEditsChart, ChartInv
<1>3. CASE OnRefreshRouteList \/ SelectRoute \/ EditForm \/ LoadStoresRows
  BY <1>1, <1>3 DEF OnRefreshRouteList, SelectRoute, EditForm, LoadStoresRows
<1>4. CASE OnCheckPathClicked \/ Render \/ UNCHANGED vars
  <2>1. UNCHANGED userVars
    BY <1>4 DEF OnCheckPathClicked, Render, vars
  <2> QED BY <1>1, <2>1 DEF userVars
<1> QED
  BY <1>2, <1>3, <1>4 DEF Next

\* Only a check gives the scanner a route, with two waypoints at least.
LEMMA OnlyCheckSetsRoute ==
  ASSUME [Next]_vars, route_data_' # route_data_
  PROVE  /\ route_data_'.route = GetRoute(route_list_box_[selection])
         /\ Len(GetRoute(route_list_box_[selection])) > 1
<1>1. OnCheckPathClicked
  <2>1. ~UNCHANGED checkVars
    BY DEF checkVars
  <2>2. ~UNCHANGED vars
    BY <2>1 DEF vars
  <2> QED
    BY <2>1, <2>2 DEF Next, OnRefreshRouteList, SelectRoute, EditForm, HostEditsChart, LoadStoresRows, Render
<1> QED
  BY <1>1 DEF OnCheckPathClicked

\* The look-up of a name joins all routes that have it: it is empty without one, and
\* the route itself if there is only one.
LEMMA RouteOfName ==
  ASSUME chart \in Charts, NEW name, Len(GetRoute(name)) > 1
  PROVE  LET named == {i \in DOMAIN chart : chart[i].name = name}
         IN  \/ \E i \in named : chart[i].waypoints = GetRoute(name)
             \/ Cardinality(named) > 1
<1> DEFINE named == {i \in DOMAIN chart : chart[i].name = name}
           n == Len(chart)
           parts == [i \in DOMAIN chart |-> IF chart[i].name = name THEN chart[i].waypoints ELSE <<>>]
<1>1. /\ n \in Nat /\ DOMAIN chart = 1 .. n
      /\ \A i \in 1 .. n : chart[i].waypoints \in Seq(Int)
  <2> DEFINE Routes == [name : STRING, waypoints : Seq(Int)]
  <2>1. chart \in Seq(Routes)
    BY ChartsAssumption
  <2>2. \A r \in Routes : r.waypoints \in Seq(Int)
    OBVIOUS
  <2> HIDE DEF Routes
  <2> QED BY <2>1, <2>2
<1>2. parts \in Seq(Seq(Int)) /\ Len(parts) = n /\ DOMAIN parts = 1 .. n
  BY <1>1
<1>3. GetRoute(name) = FlattenSeq(parts)
  BY DEF GetRoute
<1>4. /\ \A i \in named : parts[i] = chart[i].waypoints
      /\ \A i \in (1 .. n) \ named : parts[i] = <<>>
  BY <1>1
<1>5. IsFiniteSet(named)
  <2>1. IsFiniteSet(1 .. n)
    BY <1>1, FS_Interval
  <2> QED BY <1>1, <2>1, FS_Subset
<1> HIDE DEF parts, n
<1>6. CASE named = {}
  <2>1. \A i \in DOMAIN parts : ToSet(parts[i]) = {}
    BY <1>2, <1>4, <1>6, EmptyElements
  <2>2. ToSet(FlattenSeq(parts)) = {} /\ FlattenSeq(parts) \in Seq(Int)
    <3>1. UNION {ToSet(parts[i]) : i \in DOMAIN parts} = {}
      BY <2>1
    <3> QED BY <1>2, <3>1, FlattenElements
  <2>3. 1 \in DOMAIN FlattenSeq(parts)
    BY <1>3, <2>2
  <2> QED BY <2>2, <2>3 DEF ToSet
<1>7. CASE \E x : named = {x}
  <2>1. PICK m : named = {m}
    BY <1>7
  <2>2. m \in 1 .. n
    BY <1>1, <2>1
  <2>3. \A i \in 1 .. n : i # m => parts[i] = <<>>
    BY <1>4, <2>1
  <2>4. /\ \A i \in 1 .. m - 1 : parts[i] = <<>>
        /\ \A i \in m + 1 .. Len(parts) : parts[i] = <<>>
    BY <1>1, <1>2, <2>2, <2>3
  <2>5. FlattenSeq(parts) = parts[m]
    BY <1>2, <2>2, <2>4, FlattenStarts
  <2> QED BY <1>3, <1>4, <2>1, <2>5
<1>8. CASE named # {} /\ ~\E x : named = {x}
  <2> HIDE DEF named
  <2>1. Cardinality(named) \in Nat /\ Cardinality(named) # 0 /\ Cardinality(named) # 1
    BY <1>5, <1>8, FS_CardinalityType, FS_EmptySet, FS_Singleton
  <2> QED BY <2>1 DEF named
<1> QED
  BY <1>6, <1>7, <1>8

\* The course the scanner gets (route_validate_panel.cpp) is one route of the chart, as
\* it is drawn at the click, unless several have the name: a list that is old never
\* lets a check run on a course nobody drew.
THEOREM CheckedCourseIsDrawn == Spec => CourseIsDrawn
<1> DEFINE Drawn ==
      route_data_' # route_data_ =>
        LET named == {i \in DOMAIN chart : chart[i].name = route_list_box_[selection]}
        IN  \/ \E i \in named : chart[i].waypoints = route_data_'.route
            \/ Cardinality(named) > 1
<1>1. ChartInv /\ [Next]_vars => [Drawn]_vars
  BY OnlyCheckSetsRoute, RouteOfName DEF ChartInv
<1>2. Init => ChartInv
  BY DEF Init, ChartInv
<1> QED
  BY <1>1, <1>2, ChartStep, PTL DEF Spec, CourseIsDrawn

=============================================================================
