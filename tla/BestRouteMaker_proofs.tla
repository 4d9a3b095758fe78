------------------------ MODULE BestRouteMaker_proofs ------------------------
(***************************************************************************)
(* Theorems about BestRouteMaker, for every grid, every duration of the    *)
(* legs, every set of dangerous points and all stored forecasts.           *)
(***************************************************************************)
EXTENDS BestRouteMaker, InductionLemmas, FiniteSetTheorems, TLAPS

(* The inductive invariant, in parts.                                      *)

\* The start has the label it was given, a point without one has the largest.
Labels ==
  /\ dp[StartId] = 0 /\ expected_time[StartId] = 0 /\ prev[StartId] = NoPoint
  /\ \A q \in Points : dp[q] <= kMaxScore
  /\ \A q \in Points \ Reached : dp[q] = kMaxScore

\* The queue never goes back behind a settled point, and an entry is never better
\* than the label of its point.
Queue ==
  \A e \in order : /\ dp[e[2]] <= e[1]
                   /\ \A p \in settled : dp[p] <= e[1]
                   /\ e[2] \in Reached

SettledAreReached == settled \subseteq Reached

IInv == /\ TypeOK /\ Labels /\ Queue /\ SettledAreReached
        /\ NeverIntoDanger /\ LabelsAreWays /\ NothingToImprove /\ TimesAreElapsed

-----------------------------------------------------------------------------
\* The ends of the route are points of the grid.
LEMMA Ends ==
  ASSUME route \in Routes
  PROVE  StartId \in Points /\ EndId \in Points
<1> DEFINE Segments == [start : Points, end : Points]
<1>1. route \in Seq(Segments) /\ route # <<>>
  BY InputAssumption
<1>2. route[1] \in Segments
  <2> HIDE DEF Segments
  <2> QED BY <1>1
<1> QED BY <1>2 DEF StartId, EndId

LEMMA EndsStay ==
  ASSUME UNCHANGED route
  PROVE  StartId' = StartId /\ EndId' = EndId
BY DEF StartId, EndId

\* A leg takes a whole number of seconds, whichever forecast is found.
LEMMA TravelType ==
  ASSUME NEW p \in Points, NEW q \in Points, NEW t \in Nat
  PROVE  Travel(p, q, t) \in Nat
<1> DEFINE fs == Forecasts[p]
           f == GetClosestForecast(fs, t)
<1> DEFINE Record == [end_at : Nat, wave : WaveHeights]
<1>1. \A i \in DOMAIN fs : fs[i].wave \in WaveHeights
  <2>1. fs \in Seq(Record)
    BY ForecastsAssumption
  <2>2. \A i \in DOMAIN fs : fs[i] \in Record
    <3> HIDE DEF fs, Record
    <3> QED BY <2>1
  <2> QED BY <2>2
<1>2. f.wave \in WaveHeights
  <2>1. CASE \E i \in DOMAIN fs : IsNearest(fs, i, t) /\ fs[i].end_at - t <= kTooLate
    <3>1. f = fs[CHOOSE i \in DOMAIN fs : IsNearest(fs, i, t)]
      BY <2>1 DEF GetClosestForecast
    <3>2. (CHOOSE i \in DOMAIN fs : IsNearest(fs, i, t)) \in DOMAIN fs
      BY <2>1
    <3> QED BY <1>1, <3>1, <3>2
  <2>2. CASE ~ \E i \in DOMAIN fs : IsNearest(fs, i, t) /\ fs[i].end_at - t <= kTooLate
    BY <2>2, ForecastsAssumption DEF GetClosestForecast, NoForecast
  <2> QED BY <2>1, <2>2
<1> HIDE DEF f
<1>3. Travel(p, q, t) = Duration(p, q, f.wave)
  BY DEF Travel, f
<1> QED BY <1>2, <1>3, DurationAssumption

LEMMA ScoreType ==
  ASSUME NEW p \in Points, NEW q \in Points, NEW t \in Nat
  PROVE  GetScore(p, q, t) \in Nat
BY TravelType, InputAssumption DEF GetScore

-----------------------------------------------------------------------------
LEMMA InitIInv == Init => IInv
<1> SUFFICES ASSUME Init PROVE IInv
  OBVIOUS
<1> USE DEF Init
<1>1. StartId \in Points /\ EndId \in Points
  BY Ends
<1>2. NoPoint \notin Points
  BY PointsAssumption DEF NoPoint
<1>3. Reached = {StartId}
  BY <1>1, <1>2 DEF Reached
<1>4. TypeOK
  BY <1>1, InputAssumption DEF TypeOK
<1>5. Labels
  BY <1>1, <1>3, InputAssumption DEF Labels
<1>6. Queue /\ SettledAreReached
  BY <1>1, <1>3 DEF Queue, SettledAreReached
<1>7. NeverIntoDanger /\ LabelsAreWays /\ NothingToImprove
  BY <1>3 DEF NeverIntoDanger, LabelsAreWays, NothingToImprove
<1>8. TimesAreElapsed
  BY <1>1, <1>3 DEF TimesAreElapsed
<1> QED BY <1>4, <1>5, <1>6, <1>7, <1>8 DEF IInv

-----------------------------------------------------------------------------
\* Looking at the neighbours of the point on top of the queue.
LEMMA ExpandStep ==
  ASSUME IInv, Expand
  PROVE  IInv' /\ KeepSettled
<1> USE DEF IInv
<1>1. PICK e \in order :
        /\ IsTop(e) /\ ~IsStale(e) /\ e[2] # EndId
        /\ Relax(e[1], e[2], Improved(e[1], e[2]))
        /\ order' = (order \ {e}) \cup
                      {<<ScoreVia(e[1], e[2], q), q>> : q \in Improved(e[1], e[2])}
        /\ settled' = settled \cup {e[2]}
  BY DEF Expand
<1> DEFINE score == e[1]
           p == e[2]
           better == Improved(score, p)
           via(q) == ScoreVia(score, p, q)
\* What is known before the step.
<1>2. /\ score \in Nat /\ p \in Points /\ p \in Reached /\ dp[p] = score
      /\ expected_time[p] \in Nat /\ kMaxScore \in Nat
      /\ \A q \in Points : dp[q] \in Nat
  BY <1>1, InputAssumption DEF TypeOK, Queue, IsStale
<1>3. StartId \in Points /\ NoPoint \notin Points
  BY Ends, PointsAssumption DEF TypeOK, NoPoint
<1>4. \A q \in Points : via(q) = score + GetScore(p, q, expected_time[p])
  BY DEF ScoreVia
<1>5. \A q \in Points : GetScore(p, q, expected_time[p]) \in Nat
  BY <1>2, ScoreType
<1>6. \A q \in Points : via(q) \in Nat /\ score <= via(q)
  BY <1>2, <1>4, <1>5
<1>7. /\ better \subseteq Points /\ better \subseteq Adj[p] /\ p \notin better
      /\ \A q \in better : via(q) < dp[q]
      /\ \A q \in Adj[p] \ better : dp[q] <= via(q)
  <2>1. Adj[p] \subseteq Points /\ p \notin Adj[p]
    BY <1>2, AdjAssumption
  <2>2. better = {q \in Adj[p] : dp[q] > via(q)}
    BY DEF Improved
  <2> HIDE DEF better, via, p, score
  <2> QED BY <1>2, <1>6, <2>1, <2>2
<1>8. better \cap settled = {} /\ StartId \notin better /\ better \cap danger = {}
  <2>1. \A s \in settled : dp[s] <= score
    BY DEF Queue
  <2>2. \A q \in better : q \in danger => via(q) >= kMaxScore
    <3>1. \A q \in better : q \in danger => GetScore(p, q, expected_time[p]) = kMaxScore
      BY DEF GetScore
    <3> HIDE DEF better, via, p, score
    <3> QED BY <1>2, <1>4, <1>7, <3>1
  <2>3. dp[StartId] = 0 /\ \A q \in Points : dp[q] <= kMaxScore
    BY DEF Labels
  <2> HIDE DEF better, via, p, score
  <2> QED BY <1>2, <1>3, <1>6, <1>7, <2>1, <2>2, <2>3
\* What is known of the state after it.
<1>9. /\ \A q \in better : /\ dp'[q] = via(q) /\ prev'[q] = p
                           /\ expected_time'[q] = GetArrivalTime(p, q, expected_time[p])
      /\ \A q \in Points \ better : /\ dp'[q] = dp[q] /\ prev'[q] = prev[q]
                                    /\ expected_time'[q] = expected_time[q]
      /\ dp' \in [Points -> Nat]
      /\ prev' \in [Points -> Points \cup {NoPoint}]
      /\ DOMAIN expected_time' = Points
  <2>1. /\ dp' = [q \in Points |-> IF q \in better THEN via(q) ELSE dp[q]]
        /\ prev' = [q \in Points |-> IF q \in better THEN p ELSE prev[q]]
        /\ expected_time' = [q \in Points |->
             IF q \in better THEN GetArrivalTime(p, q, expected_time[p])
                             ELSE expected_time[q]]
    BY <1>1 DEF Relax
  <2>2. prev \in [Points -> Points \cup {NoPoint}]
    BY DEF TypeOK
  <2> HIDE DEF better, via, p, score
  <2> QED BY <1>2, <1>6, <1>7, <2>1, <2>2
<1>10. /\ order' = (order \ {e}) \cup {<<via(q), q>> : q \in better}
       /\ settled' = settled \cup {p}
       /\ UNCHANGED <<route, danger, pc, result, point_id, StartId, EndId>>
  BY <1>1 DEF Expand, inputVars, StartId, EndId
<1> HIDE DEF better, via, p, score
<1>11. Reached' = Reached \cup better
  <2>1. Reached' = {q \in Points : q = StartId \/ prev'[q] # NoPoint}
    BY <1>10 DEF Reached
  <2> QED BY <1>2, <1>3, <1>7, <1>9, <2>1 DEF Reached
<1>12. \A q \in better : GetArrivalTime(p, q, expected_time[p]) \in Nat
  BY <1>2, <1>7, TravelType DEF GetArrivalTime
<1>13. settled \subseteq Points
  BY DEF TypeOK
<1>14. \A s \in settled : /\ dp'[s] = dp[s] /\ prev'[s] = prev[s]
                          /\ expected_time'[s] = expected_time[s]
  BY <1>8, <1>9, <1>13
<1>15. dp'[p] = dp[p] /\ prev'[p] = prev[p] /\ expected_time'[p] = expected_time[p]
  BY <1>2, <1>7, <1>9
\* The parts of the invariant.
<1>16. TypeOK'
  <2>1. expected_time' \in [Points -> Nat]
    <3>1. expected_time \in [Points -> Nat]
      BY DEF TypeOK
    <3>2. expected_time' = [q \in Points |->
             IF q \in better THEN GetArrivalTime(p, q, expected_time[p])
                             ELSE expected_time[q]]
      BY <1>1 DEF Relax, better, p, score
    <3> QED BY <1>12, <3>1, <3>2
  <2>2. order' \subseteq Nat \X Points
    BY <1>6, <1>7, <1>10 DEF TypeOK
  <2>3. settled' \subseteq Points
    BY <1>2, <1>10, <1>13
  <2> QED BY <1>9, <1>10, <2>1, <2>2, <2>3 DEF TypeOK
<1>17. Labels'
  <2>1. /\ dp'[StartId] = 0 /\ expected_time'[StartId] = 0 /\ prev'[StartId] = NoPoint
    BY <1>3, <1>8, <1>9 DEF Labels
  <2>2. \A q \in Points : dp'[q] <= kMaxScore
    BY <1>2, <1>6, <1>7, <1>9 DEF Labels
  <2>3. \A q \in Points \ Reached' : dp'[q] = kMaxScore
    BY <1>9, <1>11 DEF Labels
  <2> QED BY <1>10, <2>1, <2>2, <2>3 DEF Labels
<1>18. Queue'
  <2>1. ASSUME NEW f \in order
        PROVE  /\ dp'[f[2]] <= f[1] /\ f[2] \in Reached'
               /\ \A s \in settled' : dp'[s] <= f[1]
    <3>1. /\ dp[f[2]] <= f[1] /\ f[2] \in Reached /\ f[2] \in Points /\ f[1] \in Nat
          /\ \A s \in settled : dp[s] <= f[1]
      BY DEF Queue, TypeOK
    <3>2. score <= f[1]
      BY <1>1, <1>2, <3>1 DEF IsTop, score
    <3>3. dp'[f[2]] <= dp[f[2]]
      BY <1>2, <1>6, <1>7, <1>9, <3>1
    <3>4. dp'[f[2]] \in Nat
      BY <1>9, <3>1
    <3> QED BY <1>2, <1>10, <1>11, <1>14, <1>15, <3>1, <3>2, <3>3, <3>4
  <2>2. ASSUME NEW q \in better
        PROVE  /\ dp'[q] <= via(q) /\ q \in Reached'
               /\ \A s \in settled' : dp'[s] <= via(q)
    <3>1. \A s \in settled : dp[s] <= score /\ dp[s] \in Nat
      BY <1>1, <1>2, <1>13 DEF Queue, score
    <3> QED BY <1>2, <1>6, <1>7, <1>9, <1>10, <1>11, <1>14, <1>15, <3>1
  <2>3. \A f \in order' : f \in order \/ \E q \in better : f = <<via(q), q>>
    BY <1>10
  <2> QED BY <2>1, <2>2, <2>3 DEF Queue
<1>19. SettledAreReached' /\ NeverIntoDanger'
  BY <1>2, <1>8, <1>10, <1>11 DEF SettledAreReached, NeverIntoDanger
<1>20. ASSUME NEW s \in settled', NEW q \in Points
       PROVE  ScoreVia(dp[s], s, q)' = dp'[s] + GetScore(s, q, expected_time'[s])
  BY <1>10 DEF ScoreVia, GetScore
<1>21. LabelsAreWays'
  <2> SUFFICES ASSUME NEW q \in Reached' \ {StartId}
               PROVE  /\ prev'[q] \in settled' /\ q \in Adj[prev'[q]]
                      /\ dp'[q] = dp'[prev'[q]] + GetScore(prev'[q], q, expected_time'[prev'[q]])
    <3>1. Reached' \subseteq Points
      BY DEF Reached
    <3> QED BY <1>10, <1>20, <3>1 DEF LabelsAreWays
  <2>1. q \in Points
    BY <1>7, <1>11 DEF Reached
  <2>2. CASE q \in better
    BY <1>2, <1>4, <1>7, <1>9, <1>10, <1>15, <2>1, <2>2
  <2>3. CASE q \notin better
    <3>1. /\ prev[q] \in settled /\ q \in Adj[prev[q]]
          /\ dp[q] = dp[prev[q]] + GetScore(prev[q], q, expected_time[prev[q]])
      BY <1>11, <2>3 DEF LabelsAreWays, ScoreVia
    <3>2. dp'[q] = dp[q] /\ prev'[q] = prev[q]
      BY <1>9, <2>1, <2>3
    <3> QED BY <1>10, <1>14, <3>1, <3>2
  <2> QED BY <2>2, <2>3
<1>22. NothingToImprove'
  <2> SUFFICES ASSUME NEW s \in settled', NEW q \in Adj[s]
               PROVE  dp'[q] <= dp'[s] + GetScore(s, q, expected_time'[s])
    BY <1>2, <1>10, <1>13, <1>20, AdjAssumption DEF NothingToImprove
  <2>1. s \in Points /\ q \in Points
    BY <1>2, <1>10, <1>13, AdjAssumption
  <2>2. dp'[q] <= dp[q] /\ dp'[q] \in Nat /\ dp[q] \in Nat
    BY <1>2, <1>6, <1>7, <1>9, <2>1
  <2>3. CASE s = p
    <3>1. dp'[q] <= via(q)
      BY <1>6, <1>7, <1>9, <2>1, <2>2, <2>3
    <3> QED BY <1>2, <1>4, <1>15, <2>1, <2>3, <3>1
  <2>4. CASE s # p
    <3>1. s \in settled
      BY <1>10, <2>4
    <3>2. dp[q] <= dp[s] + GetScore(s, q, expected_time[s])
      BY <3>1 DEF NothingToImprove, ScoreVia
    <3>3. GetScore(s, q, expected_time[s]) \in Nat /\ dp[s] \in Nat
      BY <2>1, ScoreType DEF TypeOK
    <3> QED BY <1>14, <2>2, <3>1, <3>2, <3>3
  <2> QED BY <2>3, <2>4
<1>23. TimesAreElapsed'
  <2> SUFFICES ASSUME NEW q \in Reached'  PROVE expected_time'[q] = dp'[q]
    BY DEF TimesAreElapsed
  <2>1. CASE q \in better
    <3>1. q \in Points /\ q \notin danger
      BY <1>7, <1>8, <2>1
    <3>2. via(q) = score + Travel(p, q, expected_time[p])
      BY <1>4, <3>1 DEF GetScore
    <3>3. expected_time'[q] = expected_time[p] + Travel(p, q, expected_time[p])
      BY <1>9, <2>1 DEF GetArrivalTime
    <3>4. expected_time[p] = score
      BY <1>2 DEF TimesAreElapsed
    <3> QED BY <1>9, <2>1, <3>2, <3>3, <3>4
  <2>2. CASE q \notin better
    BY <1>9, <1>11, <2>2 DEF TimesAreElapsed, Reached
  <2> QED BY <2>1, <2>2
<1> QED BY <1>14, <1>16, <1>17, <1>18, <1>19, <1>21, <1>22, <1>23 DEF KeepSettled

\* Every other step leaves the labels alone.
LEMMA LabelsStay ==
  ASSUME IInv, TypeOK', order' \subseteq order, UNCHANGED <<inputVars, labelVars, settled>>
  PROVE  IInv'
<1>1. /\ UNCHANGED <<route, danger, dp, expected_time, prev, settled, Reached, StartId>>
  BY DEF inputVars, labelVars, Reached, StartId
<1>2. Labels' /\ Queue' /\ SettledAreReached'
  BY <1>1 DEF IInv, Labels, Queue, SettledAreReached
<1>3. NeverIntoDanger' /\ LabelsAreWays' /\ NothingToImprove' /\ TimesAreElapsed'
  BY <1>1 DEF IInv, NeverIntoDanger, LabelsAreWays, NothingToImprove, TimesAreElapsed,
              ScoreVia, GetScore
<1> QED BY <1>2, <1>3 DEF IInv

LEMMA StepIInv ==
  ASSUME IInv, [Next]_vars
  PROVE  IInv' /\ KeepSettled
<1>1. CASE Expand
  BY <1>1, ExpandStep
<1>2. ASSUME TypeOK', order' \subseteq order, UNCHANGED <<inputVars, labelVars, settled>>
      PROVE  IInv' /\ KeepSettled
  BY <1>2, LabelsStay DEF labelVars, KeepSettled
<1>3. TypeOK
  BY DEF IInv
<1>4. CASE PopStale \/ StopSearch \/ Return
  <2>1. order' \subseteq order /\ UNCHANGED <<inputVars, labelVars, settled, result, point_id>>
    BY <1>4 DEF PopStale, StopSearch, Return
  <2>2. pc' \in {"search", "rebuild", "done"}
    BY <1>3, <1>4 DEF PopStale, StopSearch, Return, TypeOK
  <2>3. TypeOK'
    BY <1>3, <2>1, <2>2 DEF TypeOK, inputVars, labelVars
  <2> QED BY <1>2, <2>1, <2>3
<1>5. CASE Rebuild
  <2>1. point_id \in Points
    BY <1>3, <1>5 DEF Rebuild, TypeOK
  <2>2. result' \in Seq(Points) /\ point_id' \in Points \cup {NoPoint}
    BY <1>3, <1>5, <2>1 DEF Rebuild, TypeOK
  <2>3. TypeOK'
    BY <1>3, <1>5, <2>2 DEF Rebuild, TypeOK, inputVars, labelVars
  <2> QED BY <1>2, <1>5, <2>3 DEF Rebuild
<1>6. CASE UNCHANGED vars
  <2>1. TypeOK'
    BY <1>3, <1>6 DEF TypeOK, vars, inputVars, labelVars
  <2> QED BY <1>2, <1>6, <2>1 DEF vars
<1> QED BY <1>1, <1>4, <1>5, <1>6 DEF Next

\* The inductive invariant holds in every reachable state.
THEOREM Invariance == Spec => []IInv
<1>1. IInv /\ [Next]_vars => IInv'
  BY StepIInv
<1> QED BY <1>1, InitIInv, PTL DEF Spec

\* The variables have their types: in particular no score is ever negative.
THEOREM TypeCorrect == Spec => []TypeOK
<1>1. IInv => TypeOK
  BY DEF IInv
<1> QED BY <1>1, Invariance, PTL

\* On no grid is a point with a shallow near it ever labelled, except the start.
THEOREM DangerIsAvoided == Spec => []NeverIntoDanger
<1>1. IInv => NeverIntoDanger
  BY DEF IInv
<1> QED BY <1>1, Invariance, PTL

\* Every label is the score of a real way, no leg out of a settled point improves
\* one, and the times that go with the scores are seconds since the departure.
THEOREM LabelsStaySound == Spec => []LabelsAreSound
<1>1. IInv => LabelsAreSound
  BY DEF IInv, LabelsAreSound
<1> QED BY <1>1, Invariance, PTL

\* Once its neighbours were looked at, a point keeps its score, its time and the
\* way it was reached: what Dijkstra's algorithm rests on.
THEOREM SettledStays == Spec => SettledIsFinal
<1>1. IInv /\ [Next]_vars => [KeepSettled]_vars
  BY StepIInv
<1> QED BY <1>1, Invariance, PTL DEF Spec, SettledIsFinal

-----------------------------------------------------------------------------
(* The way back from the end.                                              *)

\* The part of the route found so far leads from its first point to the end along
\* prev, and point_id is where it goes on.
Way ==
  /\ IF result = <<>>
       THEN point_id = EndId
       ELSE /\ result[Len(result)] = EndId
            /\ point_id = prev[result[1]]
  /\ \A i \in 1 .. Len(result) - 1 : prev[result[i + 1]] = result[i]
  /\ EndId \in Reached => \A i \in 1 .. Len(result) : result[i] \in Reached
  /\ EndId \notin Reached => Len(result) <= 1
  /\ pc = "search" => result = <<>>
  /\ pc = "done" => point_id = NoPoint

LEMMA RebuildStep ==
  ASSUME IInv, Way, Rebuild
  PROVE  Way'
<1> USE DEF IInv
<1>1. /\ point_id # NoPoint /\ result' = <<point_id>> \o result
      /\ point_id' = prev[point_id] /\ pc = "rebuild" /\ pc' = "rebuild"
      /\ UNCHANGED <<prev, EndId, Reached>>
  BY DEF Rebuild, inputVars, labelVars, EndId, Reached, StartId
<1>2. point_id \in Points /\ result \in Seq(Points) /\ EndId \in Points
  BY <1>1, Ends DEF TypeOK
<1>3. /\ Len(result') = Len(result) + 1 /\ Len(result) \in Nat
      /\ result'[1] = point_id
      /\ \A i \in 1 .. Len(result) : result'[i + 1] = result[i]
      /\ result' # <<>>
  BY <1>1, <1>2
<1>4. result'[Len(result')] = EndId /\ point_id' = prev'[result'[1]]
  <2>1. CASE result = <<>>
    BY <1>1, <1>2, <1>3, <2>1 DEF Way
  <2>2. CASE result # <<>>
    <3>1. Len(result) \in 1 .. Len(result)
      BY <1>2, <2>2
    <3> QED BY <1>1, <1>3, <2>2, <3>1 DEF Way
  <2> QED BY <2>1, <2>2
<1>5. ASSUME NEW i \in 1 .. Len(result') - 1
      PROVE  prev'[result'[i + 1]] = result'[i]
  <2>1. i \in 1 .. Len(result) /\ result'[i + 1] = result[i]
    BY <1>3
  <2>2. CASE i = 1
    <3>1. result # <<>>
      BY <1>2, <2>1
    <3> QED BY <1>1, <1>3, <2>1, <2>2, <3>1 DEF Way
  <2>3. CASE i # 1
    <3>1. i - 1 \in 1 .. Len(result) - 1 /\ (i - 1) + 1 = i
      BY <1>3, <2>1, <2>3
    <3>2. prev[result[(i - 1) + 1]] = result[i - 1]
      BY <3>1 DEF Way
    <3>3. result'[(i - 1) + 1] = result[i - 1]
      BY <1>3, <3>1
    <3> QED BY <1>1, <2>1, <3>1, <3>2, <3>3
  <2> QED BY <2>2, <2>3
<1>6. CASE EndId \in Reached
  <2>1. point_id \in Reached
    <3>1. CASE result = <<>>
      BY <1>6, <3>1 DEF Way
    <3>2. CASE result # <<>>
      <4>1. result[1] \in Reached /\ point_id = prev[result[1]]
        BY <1>2, <1>6, <3>2 DEF Way
      <4>2. result[1] # StartId
        BY <1>1, <4>1 DEF Labels
      <4> QED BY <4>1, <4>2 DEF LabelsAreWays, SettledAreReached
    <3> QED BY <3>1, <3>2
  <2>2. \A i \in 1 .. Len(result') : result'[i] \in Reached
    <3> SUFFICES ASSUME NEW i \in 1 .. Len(result')  PROVE result'[i] \in Reached
      OBVIOUS
    <3>1. CASE i = 1
      BY <1>3, <2>1, <3>1
    <3>2. CASE i # 1
      <4>1. i - 1 \in 1 .. Len(result) /\ (i - 1) + 1 = i
        BY <1>3, <3>2
      <4> QED BY <1>3, <1>6, <4>1 DEF Way
    <3> QED BY <3>1, <3>2
  <2> QED BY <1>1, <1>3, <1>4, <1>5, <1>6, <2>2 DEF Way
<1>7. CASE EndId \notin Reached
  <2>1. result = <<>>
    <3>1. ASSUME result # <<>>  PROVE FALSE
      <4>1. Len(result) = 1
        <5>1. Len(result) <= 1
          BY <1>7 DEF Way
        <5>2. result \in Seq(Points)
          BY <1>2
        <5>3. Len(result) \in Nat /\ Len(result) >= 1
          BY <3>1, <5>2
        <5>4. \A n \in Nat : n <= 1 /\ n >= 1 => n = 1
          OBVIOUS
        <5> QED BY <5>1, <5>3, <5>4
      <4>2. result[1] = EndId /\ point_id = prev[EndId]
        BY <3>1, <4>1 DEF Way
      <4> QED BY <1>1, <1>2, <1>7, <4>2 DEF Reached
    <3> QED BY <3>1
  <2> QED BY <1>1, <1>3, <1>4, <1>5, <1>7, <2>1 DEF Way
<1> QED BY <1>6, <1>7

LEMMA WayStep ==
  ASSUME IInv, Way, [Next]_vars
  PROVE  Way'
<1> USE DEF IInv
<1>1. CASE Rebuild
  BY <1>1, RebuildStep
\* A step of the search: nothing of the route is there yet.
<1>2. ASSUME pc = "search", UNCHANGED <<route, result, point_id>>, pc' # "done"
      PROVE  Way'
  <2>1. result' = <<>> /\ point_id' = EndId' /\ Len(<<>>) = 0
    BY <1>2 DEF Way, EndId
  <2> QED BY <1>2, <2>1 DEF Way
<1>3. CASE PopStale \/ StopSearch \/ Expand
  BY <1>2, <1>3 DEF PopStale, StopSearch, Expand, inputVars
<1>4. CASE Return
  <2>1. /\ UNCHANGED <<result, point_id, prev, EndId, Reached>> /\ pc' = "done"
        /\ point_id = NoPoint
    BY <1>4 DEF Return, inputVars, labelVars, EndId, Reached, StartId
  <2> QED BY <2>1 DEF Way
<1>5. CASE UNCHANGED vars
  <2>1. UNCHANGED <<result, point_id, prev, EndId, Reached, pc>>
    BY <1>5 DEF vars, inputVars, labelVars, EndId, Reached, StartId
  <2> QED BY <2>1 DEF Way
<1> QED BY <1>1, <1>3, <1>4, <1>5 DEF Next

LEMMA WayIsSound ==
  ASSUME IInv, Way
  PROVE  RouteIsSound
<1> USE DEF IInv
<1> SUFFICES ASSUME pc = "done"
             PROVE  /\ result[Len(result)] = EndId
                    /\ \/ result[1] = StartId
                       \/ Len(result) = 1 /\ EndId \notin Reached
                    /\ \A i \in 1 .. Len(result) - 1 :
                         result[i + 1] \in Adj[result[i]] /\ result[i + 1] \notin danger
  BY DEF RouteIsSound
<1>1. point_id = NoPoint /\ EndId \in Points /\ NoPoint \notin Points
  BY Ends, PointsAssumption DEF Way, TypeOK, NoPoint
<1>2. result # <<>> /\ result[Len(result)] = EndId /\ prev[result[1]] = NoPoint
  BY <1>1 DEF Way
<1>3. result \in Seq(Points) /\ Len(result) \in Nat /\ Len(result) >= 1
  <2>1. result \in Seq(Points)
    BY DEF TypeOK
  <2> QED BY <1>2, <2>1
<1>4. CASE EndId \in Reached
  <2>1. \A i \in 1 .. Len(result) : result[i] \in Reached
    BY <1>4 DEF Way
  <2>2. result[1] = StartId
    BY <1>2, <1>3, <2>1 DEF Reached
  <2>3. ASSUME NEW i \in 1 .. Len(result) - 1
        PROVE  result[i + 1] \in Adj[result[i]] /\ result[i + 1] \notin danger
    <3>1. /\ i \in 1 .. Len(result) /\ i + 1 \in 1 .. Len(result)
          /\ prev[result[i + 1]] = result[i]
      BY <1>3 DEF Way
    <3>2. result[i] \in Points /\ result[i + 1] \in Reached
      BY <1>3, <2>1, <3>1 DEF Reached
    <3>3. result[i + 1] # StartId
      BY <1>1, <3>1, <3>2 DEF Labels
    <3> QED BY <3>1, <3>2, <3>3 DEF LabelsAreWays, NeverIntoDanger
  <2> QED BY <1>2, <2>2, <2>3
<1>5. CASE EndId \notin Reached
  <2>1. Len(result) = 1
    <3>1. Len(result) <= 1
      BY <1>5 DEF Way
    <3> QED BY <1>3, <3>1
  <2> QED BY <1>2, <1>5, <2>1
<1> QED BY <1>4, <1>5

\* On every grid, what MakeBestRoute returns is a way over neighbouring points from
\* the start to the end, clear of shallows after its start; or the bare end, and
\* then the end was never reached.
THEOREM ReturnedRouteIsSound == Spec => []RouteIsSound
<1>1. Init => Way
  <2> SUFFICES ASSUME Init PROVE Way
    OBVIOUS
  <2>1. result = <<>> /\ point_id = EndId /\ pc = "search" /\ Len(<<>>) = 0
    BY DEF Init
  <2> QED BY <2>1 DEF Way
<1>2. IInv /\ Way /\ [Next]_vars => Way'
  BY WayStep
<1>3. IInv /\ Way => RouteIsSound
  BY WayIsSound
<1> QED BY <1>1, <1>2, <1>3, Invariance, PTL DEF Spec

-----------------------------------------------------------------------------
(* The fastest way on a calm sea.                                          *)

Place == Points \X Nat

LEMMA OneMoreLegType ==
  ASSUME NEW ways \in SUBSET Place
  PROVE  OneMoreLeg(ways) \in SUBSET Place
<1>1. \A way \in ways : way[1] \in Points /\ way[2] \in Nat /\ Adj[way[1]] \subseteq Points
  BY AdjAssumption DEF Place
<1>2. \A way \in ways : \A q \in Adj[way[1]] : Duration(way[1], q, 0) \in Nat
  BY <1>1, DurationAssumption, ForecastsAssumption
<1>3. \A way \in ways : \A q \in Adj[way[1]] \ danger :
        <<q, way[2] + Duration(way[1], q, 0)>> \in Place
  BY <1>1, <1>2 DEF Place
<1> QED BY <1>3 DEF OneMoreLeg

LEMMA CalmEquation ==
  ASSUME StartId \in Points
  PROVE  /\ Calm \in [Nat -> SUBSET Place]
         /\ Calm[0] = {<<StartId, 0>>}
         /\ \A n \in Nat \ {0} : Calm[n] = Calm[n - 1] \cup OneMoreLeg(Calm[n - 1])
<1> DEFINE V == SUBSET Place
           base == {<<StartId, 0>>}
           step == [x \in (Nat \ {0}) \X V |-> x[2] \cup OneMoreLeg(x[2])]
           Body(f) == [n \in Nat |->
                         IF n = 0 THEN base ELSE f[n - 1] \cup OneMoreLeg(f[n - 1])]
<1>1. base \in V
  BY DEF Place
<1>2. step \in [(Nat \ {0}) \X V -> V]
  BY OneMoreLegType
<1>3. \A i \in Nat \ {0}, v \in V : step[<<i, v>>] = v \cup OneMoreLeg(v)
  OBVIOUS
<1> HIDE DEF V, base, step
<1>4. PICK f : DefinesAll(f, V, base, step)
  BY <1>1, <1>2, NatRecursion
<1>5. \A i \in Nat \ {0} : f[i] = f[i - 1] \cup OneMoreLeg(f[i - 1])
  <2> SUFFICES ASSUME NEW i \in Nat \ {0}
               PROVE  f[i] = f[i - 1] \cup OneMoreLeg(f[i - 1])
    OBVIOUS
  <2>1. f[i - 1] \in V
    BY <1>4 DEF DefinesAll
  <2>2. step[<<i, f[i - 1]>>] = f[i - 1] \cup OneMoreLeg(f[i - 1])
    BY <1>3, <2>1, Zenon
  <2> QED BY <1>4, <2>2 DEF DefinesAll
<1>6. f = Body(f)
  BY <1>4, <1>5 DEF DefinesAll
<1>7. Calm = CHOOSE g : g = Body(g)
  BY DEF Calm, base
<1>8. Calm = Body(Calm)
  <2> HIDE DEF Body
  <2> QED BY <1>6, <1>7
<1> HIDE DEF Calm
<1>9. Calm[0] = base /\ \A n \in Nat \ {0} : Calm[n] = Calm[n - 1] \cup OneMoreLeg(Calm[n - 1])
  BY <1>8
<1>10. \A n \in Nat : Calm[n] \in V
  <2> DEFINE T == {n \in Nat : Calm[n] \in V}
  <2>1. 0 \in T
    BY <1>1, <1>9
  <2>2. ASSUME NEW n \in Nat, n \in T  PROVE n + 1 \in T
    <3>1. Calm[n + 1] = Calm[n] \cup OneMoreLeg(Calm[n])
      BY <1>9
    <3> QED BY <2>2, <3>1, OneMoreLegType DEF V
  <2>3. Nat \subseteq T
    <3> HIDE DEF T
    <3> QED BY <2>1, <2>2, NatSetInduction
  <2> QED BY <2>3
<1>11. Calm \in [Nat -> V]
  BY <1>8, <1>10
<1> QED BY <1>9, <1>11 DEF V, base

LEMMA CalmMonotone ==
  ASSUME StartId \in Points, NEW m \in Nat, NEW n \in Nat, m <= n
  PROVE  Calm[m] \subseteq Calm[n]
<1> DEFINE T == {k \in Nat : Calm[m] \subseteq Calm[m + k]}
<1>1. 0 \in T
  OBVIOUS
<1>2. ASSUME NEW k \in Nat, k \in T  PROVE k + 1 \in T
  <2>1. m + k + 1 \in Nat \ {0} /\ (m + k + 1) - 1 = m + k /\ m + (k + 1) = m + k + 1
    OBVIOUS
  <2>2. Calm[m + k + 1] = Calm[m + k] \cup OneMoreLeg(Calm[m + k])
    BY <2>1, CalmEquation
  <2> QED BY <1>2, <2>1, <2>2
<1>3. Nat \subseteq T
  <2> HIDE DEF T
  <2> QED BY <1>1, <1>2, NatSetInduction
<1>4. n - m \in Nat /\ m + (n - m) = n
  OBVIOUS
<1> QED BY <1>3, <1>4

LEMMA CalmLeg ==
  ASSUME StartId \in Points, NEW n \in Nat, NEW p, NEW t, <<p, t>> \in Calm[n],
         NEW q \in Adj[p] \ danger
  PROVE  <<q, t + Duration(p, q, 0)>> \in Calm[n + 1]
<1>1. <<q, t + Duration(p, q, 0)>> \in OneMoreLeg(Calm[n])
  <2>1. <<p, t>>[1] = p /\ <<p, t>>[2] = t
    OBVIOUS
  <2> DEFINE way == <<p, t>>
  <2>2. <<q, way[2] + Duration(way[1], q, 0)>> \in
          {<<r, way[2] + Duration(way[1], r, 0)>> : r \in Adj[way[1]] \ danger}
    BY <2>1
  <2>3. way \in Calm[n]
    OBVIOUS
  <2> HIDE DEF way
  <2>4. <<q, way[2] + Duration(way[1], q, 0)>> \in OneMoreLeg(Calm[n])
    BY <2>2, <2>3 DEF OneMoreLeg
  <2> QED BY <2>1, <2>4 DEF way
<1>2. n + 1 \in Nat \ {0} /\ (n + 1) - 1 = n
  OBVIOUS
<1> QED BY <1>1, <1>2, CalmEquation

\* Before the departure time is reached on the clock of elapsed seconds, no stored
\* forecast is close enough to be taken.
LEMMA TravelIsCalm ==
  ASSUME NEW p \in Points, NEW q \in Points, NEW t \in Nat, t + kTooLate < DepartTime
  PROVE  Travel(p, q, t) = Duration(p, q, 0)
<1> DEFINE fs == Forecasts[p]
           Record == [end_at : Nat, wave : WaveHeights]
<1>1. \A i \in DOMAIN fs : fs[i].end_at \in Nat /\ fs[i].end_at >= DepartTime
  <2>1. fs \in Seq(Record) /\ \A i \in DOMAIN fs : fs[i].end_at >= DepartTime
    BY ForecastsAssumption
  <2>2. \A i \in DOMAIN fs : fs[i] \in Record
    <3> HIDE DEF fs, Record
    <3> QED BY <2>1
  <2> QED BY <2>1, <2>2
<1> HIDE DEF fs
<1>2. \A i \in DOMAIN fs : ~(fs[i].end_at - t <= kTooLate)
  BY <1>1, TooLateAssumption, InputAssumption
<1>3. GetClosestForecast(fs, t) = NoForecast
  BY <1>2 DEF GetClosestForecast
<1> QED BY <1>3 DEF Travel, NoForecast, fs

-----------------------------------------------------------------------------
\* The points that are labelled and not settled wait in the queue ...
Waiting ==
  pc = "search" => \A p \in Reached \ settled : <<dp[p], p>> \in order

\* ... and none of them is better than the end when the search is over.
Frontier ==
  pc # "search" => \A p \in Reached \ settled : EndId \in Reached /\ dp[EndId] <= dp[p]

\* The label of a point is a calm way, with at most one leg for every other settled
\* point.
WaysAreCalm ==
  \A p \in Reached :
    IsPresent(dp[p]) => <<p, dp[p]>> \in Calm[Cardinality(settled \ {p})]

SearchInv == Waiting /\ Frontier /\ WaysAreCalm

\* What an expansion does to the labels of the points.
LEMMA ExpandLabels ==
  ASSUME IInv, Expand
  PROVE  \E e \in order :
           /\ e[2] \in Reached /\ dp[e[2]] = e[1] /\ e[2] \in Points /\ e[1] \in Nat
           /\ expected_time[e[2]] = e[1]
           /\ Improved(e[1], e[2]) \subseteq Adj[e[2]] \ danger
           /\ Improved(e[1], e[2]) \subseteq Points
           /\ e[2] \notin Improved(e[1], e[2]) /\ StartId \notin Improved(e[1], e[2])
           /\ Improved(e[1], e[2]) \cap settled = {}
           /\ \A q \in Improved(e[1], e[2]) :
                /\ dp'[q] = e[1] + Travel(e[2], q, e[1])
                /\ Travel(e[2], q, e[1]) \in Nat
           /\ \A q \in Points \ Improved(e[1], e[2]) : dp'[q] = dp[q]
           /\ Reached' = Reached \cup Improved(e[1], e[2])
           /\ order' = (order \ {e}) \cup {<<dp'[q], q>> : q \in Improved(e[1], e[2])}
           /\ settled' = settled \cup {e[2]}
           /\ pc = "search" /\ pc' = "search" /\ UNCHANGED <<route, danger>>
<1> USE DEF IInv
<1>1. PICK e \in order :
        /\ IsTop(e) /\ ~IsStale(e) /\ e[2] # EndId
        /\ Relax(e[1], e[2], Improved(e[1], e[2]))
        /\ order' = (order \ {e}) \cup
                      {<<ScoreVia(e[1], e[2], q), q>> : q \in Improved(e[1], e[2])}
        /\ settled' = settled \cup {e[2]}
  BY DEF Expand
<1> DEFINE score == e[1]
           p == e[2]
           better == Improved(score, p)
<1>2. /\ score \in Nat /\ p \in Points /\ p \in Reached /\ dp[p] = score
      /\ expected_time[p] = score /\ kMaxScore \in Nat
      /\ \A q \in Points : dp[q] \in Nat
  BY <1>1, InputAssumption DEF TypeOK, Queue, IsStale, TimesAreElapsed
<1>3. Adj[p] \subseteq Points /\ p \notin Adj[p]
  BY <1>2, AdjAssumption
<1>4. \A q \in Points : ScoreVia(score, p, q) = score + GetScore(p, q, score)
  BY <1>2 DEF ScoreVia
<1>5. \A q \in Points : GetScore(p, q, score) \in Nat /\ Travel(p, q, score) \in Nat
  BY <1>2, ScoreType, TravelType
<1>6. better \subseteq Adj[p] /\ \A q \in better : ScoreVia(score, p, q) < dp[q]
  <2>1. \A q \in Adj[p] : dp[q] > ScoreVia(score, p, q) => ScoreVia(score, p, q) < dp[q]
    BY <1>2, <1>3, <1>4, <1>5
  <2> QED BY <2>1 DEF Improved
<1> HIDE DEF better, p, score
<1>7. better \subseteq Points /\ p \notin better
  BY <1>3, <1>6
<1>8. \A q \in better : /\ q \notin danger /\ q # StartId /\ q \notin settled
                        /\ ScoreVia(score, p, q) = score + Travel(p, q, score)
  <2> SUFFICES ASSUME NEW q \in better
               PROVE  /\ q \notin danger /\ q # StartId /\ q \notin settled
                      /\ ScoreVia(score, p, q) = score + Travel(p, q, score)
    OBVIOUS
  <2>1. /\ score + GetScore(p, q, score) < dp[q] /\ dp[q] <= kMaxScore /\ q \in Points
        /\ GetScore(p, q, score) \in Nat /\ dp[q] \in Nat
    BY <1>2, <1>4, <1>5, <1>6, <1>7 DEF Labels
  <2>2. q \notin danger
    <3>1. q \in danger => GetScore(p, q, score) = kMaxScore
      BY DEF GetScore
    <3> QED BY <1>2, <2>1, <3>1
  <2>3. q # StartId
    BY <1>2, <2>1 DEF Labels
  <2>4. q \notin settled
    <3>1. q \in settled => dp[q] <= score
      BY <1>1 DEF Queue, score
    <3> QED BY <1>2, <2>1, <3>1
  <2>5. GetScore(p, q, score) = Travel(p, q, score)
    BY <2>2 DEF GetScore
  <2> QED BY <1>4, <2>1, <2>2, <2>3, <2>4, <2>5
<1>9. /\ \A q \in better : dp'[q] = ScoreVia(score, p, q) /\ prev'[q] = p
      /\ \A q \in Points \ better : dp'[q] = dp[q] /\ prev'[q] = prev[q]
  <2>1. /\ dp' = [q \in Points |-> IF q \in better THEN ScoreVia(score, p, q) ELSE dp[q]]
        /\ prev' = [q \in Points |-> IF q \in better THEN p ELSE prev[q]]
    BY <1>1 DEF Relax, better, p, score
  <2> QED BY <1>7, <2>1
<1>10. /\ pc = "search" /\ pc' = "search" /\ UNCHANGED <<route, danger, StartId>>
  BY <1>1 DEF Expand, inputVars, StartId
<1>11. Reached' = Reached \cup better
  <2>1. Reached' = {q \in Points : q = StartId \/ prev'[q] # NoPoint}
    BY <1>10 DEF Reached
  <2>2. NoPoint \notin Points
    BY PointsAssumption DEF NoPoint
  <2> QED BY <1>2, <1>7, <1>9, <2>1, <2>2 DEF Reached
<1>12. order' = (order \ {e}) \cup {<<dp'[q], q>> : q \in better}
  <2>1. order' = (order \ {e}) \cup {<<ScoreVia(score, p, q), q>> : q \in better}
    BY <1>1 DEF better, p, score
  <2> QED BY <1>9, <2>1
<1>13. settled' = settled \cup {p}
  BY <1>1 DEF p
<1>14. /\ p \in Reached /\ dp[p] = score /\ p \in Points /\ score \in Nat
       /\ expected_time[p] = score
       /\ better \subseteq Adj[p] \ danger /\ better \subseteq Points
       /\ p \notin better /\ StartId \notin better /\ better \cap settled = {}
       /\ \A q \in better : dp'[q] = score + Travel(p, q, score) /\ Travel(p, q, score) \in Nat
       /\ \A q \in Points \ better : dp'[q] = dp[q]
  BY <1>2, <1>5, <1>6, <1>7, <1>8, <1>9
<1> QED BY <1>10, <1>11, <1>12, <1>13, <1>14 DEF better, p, score

LEMMA ExpandKeepsSearch ==
  ASSUME IInv, SearchInv, Expand
  PROVE  SearchInv'
<1>1. PICK e \in order :
           /\ e[2] \in Reached /\ dp[e[2]] = e[1] /\ e[2] \in Points /\ e[1] \in Nat
           /\ expected_time[e[2]] = e[1]
           /\ Improved(e[1], e[2]) \subseteq Adj[e[2]] \ danger
           /\ Improved(e[1], e[2]) \subseteq Points
           /\ e[2] \notin Improved(e[1], e[2]) /\ StartId \notin Improved(e[1], e[2])
           /\ Improved(e[1], e[2]) \cap settled = {}
           /\ \A q \in Improved(e[1], e[2]) :
                /\ dp'[q] = e[1] + Travel(e[2], q, e[1])
                /\ Travel(e[2], q, e[1]) \in Nat
           /\ \A q \in Points \ Improved(e[1], e[2]) : dp'[q] = dp[q]
           /\ Reached' = Reached \cup Improved(e[1], e[2])
           /\ order' = (order \ {e}) \cup {<<dp'[q], q>> : q \in Improved(e[1], e[2])}
           /\ settled' = settled \cup {e[2]}
           /\ pc = "search" /\ pc' = "search" /\ UNCHANGED <<route, danger>>
  BY ExpandLabels
<1> DEFINE score == e[1]
           p == e[2]
           better == Improved(score, p)
<1>2. better \subseteq Points /\ Reached \subseteq Points /\ p \in Points /\ settled \subseteq Points
  BY <1>1 DEF Reached, IInv, TypeOK
<1>3. StartId \in Points /\ StartId' = StartId /\ danger' = danger
  BY <1>1, Ends DEF IInv, TypeOK, StartId
<1>a. \A q \in better : /\ q \in Adj[p] \ danger /\ q \notin settled /\ q # p
                        /\ dp'[q] = score + Travel(p, q, score) /\ Travel(p, q, score) \in Nat
  BY <1>1
<1>b. /\ \A q \in Points \ better : dp'[q] = dp[q]
      /\ Reached' = Reached \cup better /\ settled' = settled \cup {p}
      /\ order' = (order \ {e}) \cup {<<dp'[q], q>> : q \in better}
      /\ dp[p] = score /\ score \in Nat /\ p \in Reached /\ pc = "search" /\ pc' = "search"
  BY <1>1
<1>c. e = <<score, p>>
  BY DEF IInv, TypeOK
<1> HIDE DEF better, score, p
<1>4. Waiting'
  <2> SUFFICES ASSUME NEW q \in Reached' \ settled'  PROVE <<dp'[q], q>> \in order'
    BY DEF Waiting
  <2>1. CASE q \in better
    BY <1>b, <2>1
  <2>2. CASE q \notin better
    <3>1. q \in Reached \ settled /\ q # p /\ q \in Points
      BY <1>2, <1>b, <2>2
    <3>2. <<dp[q], q>> \in order /\ <<dp[q], q>> # e
      BY <1>b, <1>c, <3>1 DEF SearchInv, Waiting
    <3> QED BY <1>b, <2>2, <3>1, <3>2
  <2> QED BY <2>1, <2>2
<1>5. Frontier'
  BY <1>b DEF Frontier
<1>6. WaysAreCalm'
  <2>1. Calm' = Calm
    BY <1>3 DEF Calm, OneMoreLeg
  <2>2. \A S \in SUBSET Points : IsFiniteSet(S) /\ Cardinality(S) \in Nat
    BY PointsAssumption, FS_Subset, FS_CardinalityType
  <2> SUFFICES ASSUME NEW q \in Reached', IsPresent(dp'[q])
               PROVE  <<q, dp'[q]>> \in Calm[Cardinality(settled' \ {q})]
    BY <2>1 DEF WaysAreCalm, IsPresent
  <2>3. CASE q \in better
    <3>1. settled' \ {q} = settled \cup {p} /\ p \notin settled \ {p}
      BY <1>a, <1>b, <2>3
    <3>2. Cardinality(settled' \ {q}) = Cardinality(settled \ {p}) + 1
      <4>1. settled \cup {p} = (settled \ {p}) \cup {p}
        OBVIOUS
      <4>2. IsFiniteSet(settled \ {p})
        BY <1>2, <2>2
      <4> QED BY <3>1, <4>1, <4>2, FS_AddElement
    <3>3. dp'[q] = score + Travel(p, q, score) /\ Travel(p, q, score) \in Nat
      BY <1>a, <2>3
    <3>4. IsPresent(score)
      BY <1>b, <3>3, TooLateAssumption, InputAssumption DEF IsPresent
    <3>5. <<p, score>> \in Calm[Cardinality(settled \ {p})]
      BY <1>b, <3>4 DEF SearchInv, WaysAreCalm
    <3>6. Travel(p, q, score) = Duration(p, q, 0)
      BY <1>2, <1>b, <2>3, <3>4, TravelIsCalm DEF IsPresent
    <3>7. q \in Adj[p] \ danger /\ Cardinality(settled \ {p}) \in Nat
      BY <1>2, <1>a, <2>2, <2>3
    <3> HIDE DEF SearchInv
    <3>8. <<q, score + Duration(p, q, 0)>> \in Calm[Cardinality(settled \ {p}) + 1]
      BY <1>3, <3>5, <3>7, CalmLeg
    <3> QED BY <3>2, <3>3, <3>6, <3>8
  <2>4. CASE q \notin better
    <3>1. q \in Reached /\ dp'[q] = dp[q]
      BY <1>2, <1>b, <2>4
    <3>2. <<q, dp[q]>> \in Calm[Cardinality(settled \ {q})]
      BY <2>4, <3>1 DEF SearchInv, WaysAreCalm
    <3>3. settled \ {q} \subseteq settled' \ {q} /\ settled' \subseteq Points
      BY <1>2, <1>b
    <3>4. Cardinality(settled \ {q}) <= Cardinality(settled' \ {q})
      BY <2>2, <3>3, FS_Subset
    <3>5. Calm[Cardinality(settled \ {q})] \subseteq Calm[Cardinality(settled' \ {q})]
      BY <1>2, <1>3, <2>2, <3>3, <3>4, CalmMonotone
    <3> QED BY <3>1, <3>2, <3>5
  <2> QED BY <2>3, <2>4
<1> QED BY <1>4, <1>5, <1>6 DEF SearchInv

\* A step that leaves the labels and the route alone.
LEMMA WaysStay ==
  ASSUME WaysAreCalm, UNCHANGED <<inputVars, labelVars, settled>>
  PROVE  WaysAreCalm' /\ UNCHANGED <<StartId, EndId, Reached, dp, settled>>
<1>1. UNCHANGED <<StartId, EndId, Reached, dp, settled, danger>>
  BY DEF inputVars, labelVars, StartId, EndId, Reached
<1>2. Calm' = Calm
  BY <1>1 DEF Calm, OneMoreLeg
<1> QED BY <1>1, <1>2 DEF WaysAreCalm, IsPresent

LEMMA SearchStep ==
  ASSUME IInv, SearchInv, [Next]_vars
  PROVE  SearchInv'
<1>1. CASE Expand
  BY <1>1, ExpandKeepsSearch
<1>2. CASE PopStale
  <2>1. PICK e \in order : IsStale(e) /\ order' = order \ {e}
    BY <1>2 DEF PopStale
  <2>2. WaysAreCalm' /\ UNCHANGED <<StartId, EndId, Reached, dp, settled>>
    BY <1>2, WaysStay DEF PopStale, SearchInv
  <2>3. pc = "search" /\ pc' = "search"
    BY <1>2 DEF PopStale
  <2>4. \A q : <<dp[q], q>> # e
    BY <2>1 DEF IsStale
  <2>5. Waiting' /\ Frontier'
    BY <2>1, <2>2, <2>3, <2>4 DEF SearchInv, Waiting, Frontier
  <2> QED BY <2>2, <2>5 DEF SearchInv
<1>3. CASE StopSearch
  <2>1. WaysAreCalm' /\ UNCHANGED <<StartId, EndId, Reached, dp, settled>>
    BY <1>3, WaysStay DEF StopSearch, SearchInv
  <2>2. pc = "search" /\ pc' = "rebuild"
    BY <1>3 DEF StopSearch
  <2>3. ASSUME NEW q \in Reached \ settled
        PROVE  EndId \in Reached /\ dp[EndId] <= dp[q]
    <3>1. <<dp[q], q>> \in order
      BY <2>2 DEF SearchInv, Waiting
    <3>2. PICK e \in order : IsTop(e) /\ ~IsStale(e) /\ e[2] = EndId
      BY <1>3, <3>1 DEF StopSearch
    <3>3. e[1] = dp[EndId] /\ EndId \in Reached
      BY <3>2 DEF IsStale, IInv, Queue
    <3>4. e[1] < dp[q] \/ e[1] = dp[q]
      BY <3>1, <3>2 DEF IsTop
    <3>5. dp[q] \in Nat /\ dp[EndId] \in Nat
      BY <3>3 DEF IInv, TypeOK, Reached
    <3> QED BY <3>3, <3>4, <3>5
  <2>4. Waiting' /\ Frontier'
    BY <2>1, <2>2, <2>3 DEF Waiting, Frontier
  <2> QED BY <2>1, <2>4 DEF SearchInv
<1>4. CASE Rebuild \/ Return \/ UNCHANGED vars
  <2>1. /\ UNCHANGED <<inputVars, labelVars, order, settled>>
        /\ pc' = "search" <=> pc = "search"
    BY <1>4 DEF Rebuild, Return, vars
  <2>2. WaysAreCalm' /\ UNCHANGED <<StartId, EndId, Reached, dp, settled>>
    BY <2>1, WaysStay DEF SearchInv
  <2>3. Waiting' /\ Frontier'
    BY <2>1, <2>2 DEF SearchInv, Waiting, Frontier
  <2> QED BY <2>2, <2>3 DEF SearchInv
<1> QED BY <1>1, <1>2, <1>3, <1>4 DEF Next

LEMMA InitSearchInv == Init => SearchInv
<1> SUFFICES ASSUME Init PROVE SearchInv
  OBVIOUS
<1>1. StartId \in Points /\ NoPoint \notin Points
  BY Ends, PointsAssumption DEF Init, NoPoint
<1>2. Reached = {StartId} /\ dp[StartId] = 0 /\ settled = {} /\ pc = "search"
      /\ order = {<<0, StartId>>}
  BY <1>1 DEF Init, Reached
<1>3. Waiting /\ Frontier
  BY <1>2 DEF Waiting, Frontier
<1>4. WaysAreCalm
  <2>1. Cardinality(settled \ {StartId}) = 0
    BY <1>2, FS_EmptySet
  <2> QED BY <1>1, <1>2, <2>1, CalmEquation DEF WaysAreCalm
<1> QED BY <1>3, <1>4 DEF SearchInv

\* No calm way is faster than the label of its point, or of the end.
LEMMA NoWayIsFaster ==
  ASSUME IInv, Frontier, pc # "search", NEW n \in Nat, NEW p, NEW t,
         <<p, t>> \in Calm[n], IsPresent(t)
  PROVE  \/ p \in settled /\ dp[p] <= t
         \/ EndId \in Reached /\ dp[EndId] <= t
<1> DEFINE Bounded(q, u) == \/ q \in settled /\ dp[q] <= u
                            \/ EndId \in Reached /\ dp[EndId] <= u
           T == {k \in Nat : \A way \in Calm[k] : IsPresent(way[2]) => Bounded(way[1], way[2])}
<1>0. /\ StartId \in Points /\ EndId \in Points /\ settled \subseteq Points
      /\ \A q \in Points : dp[q] \in Nat /\ expected_time[q] \in Nat
      /\ settled \subseteq Reached /\ Reached \subseteq Points
      /\ dp[StartId] = 0 /\ kMaxScore \in Nat /\ kTooLate \in Nat /\ DepartTime \in Nat
  BY Ends, InputAssumption, TooLateAssumption
     DEF IInv, TypeOK, SettledAreReached, Reached, Labels
<1>1. 0 \in T
  <2>1. Bounded(StartId, 0)
    <3>1. StartId \in Reached
      BY <1>0 DEF Reached
    <3> QED BY <1>0, <3>1 DEF Frontier
  <2> QED BY <1>0, <2>1, CalmEquation
<1>2. ASSUME NEW k \in Nat, k \in T  PROVE k + 1 \in T
  <2> SUFFICES ASSUME NEW way \in Calm[k + 1], IsPresent(way[2])
               PROVE  Bounded(way[1], way[2])
    OBVIOUS
  <2>1. /\ Calm[k + 1] = Calm[k] \cup OneMoreLeg(Calm[k])
        /\ Calm[k] \subseteq Place
    <3>1. k + 1 \in Nat \ {0} /\ (k + 1) - 1 = k
      OBVIOUS
    <3> QED BY <1>0, <3>1, CalmEquation
  <2>2. CASE way \in Calm[k]
    BY <1>2, <2>2
  <2>3. CASE way \in OneMoreLeg(Calm[k])
    <3>1. PICK old \in Calm[k] : \E q \in Adj[old[1]] \ danger :
            way = <<q, old[2] + Duration(old[1], q, 0)>>
      BY <2>3 DEF OneMoreLeg
    <3>a. PICK q \in Adj[old[1]] \ danger : way = <<q, old[2] + Duration(old[1], q, 0)>>
      BY <3>1
    <3> DEFINE s == old[1]
               u == old[2]
               leg == Duration(s, q, 0)
    <3>2. s \in Points /\ u \in Nat /\ q \in Points /\ q \in Adj[s]
      BY <2>1, <3>a, AdjAssumption DEF Place
    <3>3. leg \in Nat
      BY <3>2, DurationAssumption, ForecastsAssumption
    <3>4. way[1] = q /\ way[2] = u + leg
      BY <3>a
    <3>5. old \in Calm[k] /\ q \notin danger
      BY <3>1
    <3> HIDE DEF leg
    <3>6. IsPresent(u)
      BY <1>0, <3>2, <3>3, <3>4 DEF IsPresent
    <3>7. Bounded(s, u)
      BY <1>2, <3>5, <3>6
    <3> HIDE DEF s, u
    <3>8. CASE EndId \in Reached /\ dp[EndId] <= u
      BY <1>0, <3>2, <3>3, <3>4, <3>8
    <3>9. CASE s \in settled /\ dp[s] <= u
      <4>1. expected_time[s] = dp[s] /\ dp[s] \in Nat /\ dp[q] \in Nat
        BY <1>0, <3>2, <3>9 DEF IInv, TimesAreElapsed
      <4>2. dp[s] + kTooLate < DepartTime
        BY <1>0, <3>2, <3>6, <3>9, <4>1 DEF IsPresent
      <4>3. Travel(s, q, expected_time[s]) = leg
        BY <3>2, <4>1, <4>2, TravelIsCalm DEF leg
      <4>4. dp[q] <= dp[s] + leg
        BY <3>2, <3>5, <3>9, <4>3 DEF IInv, NothingToImprove, ScoreVia, GetScore
      <4>5. dp[q] <= u + leg
        BY <3>2, <3>3, <3>9, <4>1, <4>4
      <4>6. q \in Reached
        <5>1. dp[q] < kMaxScore
          BY <1>0, <2>1, <3>2, <3>3, <3>4, <4>1, <4>5 DEF IsPresent
        <5> QED BY <1>0, <3>2, <4>1, <5>1 DEF IInv, Labels
      <4>7. CASE q \in settled
        BY <3>4, <4>5, <4>7
      <4>8. CASE q \notin settled
        <5>1. EndId \in Reached /\ dp[EndId] <= dp[q]
          BY <4>6, <4>8 DEF Frontier
        <5> QED BY <1>0, <3>2, <3>3, <3>4, <4>1, <4>5, <5>1
      <4> QED BY <4>7, <4>8
    <3> QED BY <3>7, <3>8, <3>9
  <2> QED BY <2>1, <2>2, <2>3
<1>3. Nat \subseteq T
  <2> HIDE DEF T
  <2> QED BY <1>1, <1>2, NatSetInduction
<1>4. <<p, t>>[1] = p /\ <<p, t>>[2] = t
  OBVIOUS
<1> QED BY <1>3, <1>4

\* On every grid whose voyages are shorter than the time since 1970, the returned route
\* is one of the fastest ways at the speed of a calm sea, whatever was forecast.
THEOREM RouteIgnoresForecasts == Spec => []ReturnsFastestCalmRoute
<1>1. ASSUME IInv, SearchInv
      PROVE  ReturnsFastestCalmRoute
  <2> SUFFICES ASSUME pc = "done"
               PROVE  LET times == {way[2] : way \in {w \in Calm[Cardinality(Points) - 1] :
                                                        w[1] = EndId}}
                      IN  /\ EndId \in Reached /\ IsPresent(dp[EndId]) => dp[EndId] \in times
                          /\ \A t \in times : IsPresent(t) => EndId \in Reached /\ dp[EndId] <= t
    BY DEF ReturnsFastestCalmRoute
  <2> DEFINE ways == {w \in Calm[Cardinality(Points) - 1] : w[1] = EndId}
  <2>1. StartId \in Points /\ EndId \in Points /\ settled \subseteq Reached /\ settled \subseteq Points
    BY <1>1, Ends DEF IInv, TypeOK, SettledAreReached
  <2>2. /\ Cardinality(Points) - 1 \in Nat
        /\ Cardinality(settled \ {EndId}) \in Nat
        /\ Cardinality(settled \ {EndId}) <= Cardinality(Points) - 1
    <3>1. settled \ {EndId} \subseteq Points \ {EndId}
      BY <2>1
    <3>2. IsFiniteSet(Points \ {EndId}) /\ Cardinality(Points \ {EndId}) = Cardinality(Points) - 1
      BY <2>1, PointsAssumption, FS_RemoveElement
    <3>3. IsFiniteSet(settled \ {EndId})
          /\ Cardinality(settled \ {EndId}) <= Cardinality(Points \ {EndId})
      BY <3>1, <3>2, FS_Subset
    <3> QED BY <3>2, <3>3, FS_CardinalityType
  <2>3. ASSUME EndId \in Reached, IsPresent(dp[EndId])
        PROVE  \E w \in ways : w[2] = dp[EndId]
    <3>1. <<EndId, dp[EndId]>> \in Calm[Cardinality(settled \ {EndId})]
      BY <1>1, <2>3 DEF SearchInv, WaysAreCalm
    <3>2. <<EndId, dp[EndId]>> \in Calm[Cardinality(Points) - 1]
      BY <2>1, <2>2, <3>1, CalmMonotone
    <3> QED BY <3>2
  <2>4. ASSUME NEW w \in ways, IsPresent(w[2])
        PROVE  EndId \in Reached /\ dp[EndId] <= w[2]
    <3>1. w = <<EndId, w[2]>>
      BY <2>1, <2>2, CalmEquation DEF Place
    <3>2. <<EndId, w[2]>> \in Calm[Cardinality(Points) - 1]
      BY <3>1
    <3>3. \/ EndId \in settled /\ dp[EndId] <= w[2]
          \/ EndId \in Reached /\ dp[EndId] <= w[2]
      BY <1>1, <2>2, <2>4, <3>2, NoWayIsFaster DEF SearchInv
    <3> QED BY <2>1, <3>3
  <2> QED BY <2>3, <2>4
<1>2. IInv /\ SearchInv /\ [Next]_vars => SearchInv'
  BY SearchStep
<1> QED BY <1>1, <1>2, InitSearchInv, Invariance, PTL DEF Spec

=============================================================================
