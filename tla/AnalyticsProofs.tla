--------------------------- MODULE AnalyticsProofs ---------------------------
(***************************************************************************)
(* Proofs about the ranking runs, the factors behind their scores, and the *)
(* readings of published posts, for any number of runs, posts and rows.    *)
(***************************************************************************)
EXTENDS Ranking, Metrics, FiniteSetTheorems, WellFoundedInduction, SequenceTheorems, TLAPS

-----------------------------------------------------------------------------
(* Ranking: what is in the table came there by whole runs. *)

\* The rows of run n, of engine e, dated at.
RunRows(n, e, at, total) ==
  {[run |-> n, by |-> e, platform |-> p, score |-> total[p], at |-> at] : p \in RanksOn[e]}

WholeRuns ==
  /\ \A a \in scores : a.run \in 1..runs /\ a.platform \in RanksOn[a.by]
  /\ \A a \in scores : \A p \in RanksOn[a.by] :
       \E b \in scores : b.run = a.run /\ b.platform = p
  /\ \A a, b \in scores : a.run = b.run =>
       a.by = b.by /\ a.at = b.at /\ (a.platform = b.platform => a = b)

\* A run on its way to its insert has a number of its own.
OwnNumbers ==
  \A r \in Request : ranking[r].pc = "insert" =>
    \E n \in 1..runs, e \in Engine, at \in 0..MaxRankClock :
      /\ \E total \in [RanksOn[e] -> Score] : ranking[r].rows = RunRows(n, e, at, total)
      /\ \A a \in scores : a.run # n
      /\ \A q \in Request \ {r} : ranking[q].pc = "insert" => \A a \in ranking[q].rows : a.run # n

\* A row of the engine in force that nothing on its platform is younger than.
IsYoungest(row) ==
  /\ row \in OfEngine(engine)
  /\ \A other \in OfEngine(engine) : other.platform = row.platform => other.at <= row.at

Tied == \E a, b \in scores : a.run # b.run /\ a.at = b.at

Asking(x) ==
  /\ x = [pc |-> "again", on |-> x.on, recommended |-> None, quiet |-> x.quiet, floor |-> x.floor,
          selected |-> x.selected]
  /\ x.floor \subseteq {row.at : row \in OfEngine(engine)}
  /\ x.quiet /\ x.selected # None => IsYoungest(x.selected)

Decided(r) ==
  LET chosen == ranking[r].selected
      best   == ranking[r].recommended
  IN /\ best = None => ranking[r].floor = {} /\ ~WasOverride(r)
     /\ best # None => best.by = engine /\ \A at \in ranking[r].floor : best.at >= at
     /\ chosen # None /\ best # None /\ ranking[r].quiet =>
          (chosen.run = best.run /\ best.score >= chosen.score) \/ Tied

RankInv ==
  /\ engine \in Engine /\ runs \in 0..MaxRuns /\ rankClock \in 0..MaxRankClock
  /\ scores \subseteq ScoreRow
  /\ ranking = [r \in Request |-> ranking[r]]
  /\ WholeRuns
  /\ OwnNumbers
  /\ \A r \in Request : ranking[r].pc = "again" => Asking(ranking[r])
  /\ \A r \in Request : ranking[r].pc = "decided" => Decided(r)

\* Before the first run there is nothing to compare.
LEMMA RankInit1 == RankingInit => RankInv
BY RankingAssumption DEF RankingInit, RankInv, WholeRuns, OwnNumbers, Idle

\* Of the engine in force, every platform's youngest row is as young as any row.
LEMMA YoungestOfAll ==
  ASSUME RankInv, NEW row, IsYoungest(row), NEW other \in OfEngine(engine)
  PROVE  other.at <= row.at
<1>1. /\ row \in scores /\ row.by = engine /\ other \in scores /\ other.by = engine
      /\ row.platform \in RanksOn[engine]
  BY DEF RankInv, WholeRuns, IsYoungest, OfEngine
<1>2. PICK b \in scores : b.run = other.run /\ b.platform = row.platform
  BY <1>1 DEF RankInv, WholeRuns
<1>3. b.by = engine /\ b.at = other.at
  BY <1>1, <1>2 DEF RankInv, WholeRuns
<1> QED
  BY <1>2, <1>3 DEF IsYoungest, OfEngine

\* Without a tie they are all of one run.
LEMMA YoungestAreOneRun ==
  ASSUME RankInv, NEW a, NEW b, IsYoungest(a), IsYoungest(b), ~Tied
  PROVE  a.run = b.run
<1>1. a \in ScoreRow /\ b \in ScoreRow /\ a \in scores /\ b \in scores
  BY DEF RankInv, IsYoungest, OfEngine
<1>2. a.at <= b.at /\ b.at <= a.at
  BY YoungestOfAll DEF IsYoungest
<1>3. a.at = b.at
  BY <1>1, <1>2, RankingAssumption DEF ScoreRow
<1> QED
  BY <1>1, <1>3 DEF Tied

\* What getLatestScores returns are rows of the engine, none older than another.
LEMMA LatestAreYoungest ==
  ASSUME RankInv, NEW latest \in LatestScores
  PROVE  /\ \A row \in latest : IsYoungest(row) /\ row \in scores /\ row \in ScoreRow /\ row.by = engine
         /\ \A a, b \in latest : a.platform = b.platform => a = b
         /\ \A row \in OfEngine(engine) : \E x \in latest : x.platform = row.platform
<1>1. /\ latest \subseteq {row \in OfEngine(engine) : \A other \in OfEngine(engine) :
                             other.platform = row.platform => other.at <= row.at}
      /\ {row.platform : row \in latest} = {row.platform : row \in OfEngine(engine)}
      /\ \A a, b \in latest : a.platform = b.platform => a = b
  BY DEF LatestScores
<1>2. \A row \in latest : IsYoungest(row)
  BY <1>1 DEF IsYoungest
<1>3. \A row \in OfEngine(engine) : \E x \in latest : x.platform = row.platform
  <2> SUFFICES ASSUME NEW row \in OfEngine(engine) PROVE \E x \in latest : x.platform = row.platform
    OBVIOUS
  <2>1. row.platform \in {x.platform : x \in latest}
    BY <1>1
  <2> QED
    BY <2>1
<1> QED
  BY <1>1, <1>2, <1>3 DEF IsYoungest, OfEngine, RankInv

\* Rows of one instant are of one run, unless two runs shared it.
LEMMA OneRunLatest == RankInv => LatestScoresAreOneRun
<1> SUFFICES ASSUME RankInv, NEW latest \in LatestScores, latest # {}
             PROVE  /\ {row.platform : row \in latest} = RanksOn[engine]
                    /\ ~Tied => \E row \in latest : latest = {other \in scores : other.run = row.run}
  BY DEF LatestScoresAreOneRun, Tied
<1>0. /\ \A row \in latest : IsYoungest(row) /\ row \in scores /\ row \in ScoreRow /\ row.by = engine
      /\ \A row \in OfEngine(engine) : \E x \in latest : x.platform = row.platform
  BY LatestAreYoungest
<1>1. PICK row \in latest : TRUE
  OBVIOUS
<1>2. \A p \in RanksOn[engine] : \E x \in latest : x.platform = p
  <2> SUFFICES ASSUME NEW p \in RanksOn[engine] PROVE \E x \in latest : x.platform = p
    OBVIOUS
  <2>0. row \in scores /\ p \in RanksOn[row.by] /\ WholeRuns
    BY <1>0, <1>1 DEF RankInv
  <2>1. PICK b \in scores : b.run = row.run /\ b.platform = p
    BY <2>0, Zenon DEF WholeRuns
  <2>2. b \in OfEngine(engine)
    BY <1>0, <1>1, <2>1 DEF RankInv, WholeRuns, OfEngine
  <2> QED
    BY <1>0, <2>1, <2>2
<1>3. \A x \in latest : x.platform \in RanksOn[engine]
  BY <1>0 DEF RankInv, WholeRuns
<1>4. ASSUME ~Tied PROVE latest = {other \in scores : other.run = row.run}
  <2>1. \A x \in latest : x \in scores /\ x.run = row.run
    BY <1>0, <1>1, <1>4, YoungestAreOneRun
  <2>2. ASSUME NEW other \in scores, other.run = row.run PROVE other \in latest
    <3>1. other \in OfEngine(engine)
      BY <1>0, <1>1, <2>2 DEF RankInv, WholeRuns, OfEngine
    <3>2. PICK x \in latest : x.platform = other.platform
      BY <1>0, <3>1
    <3>3. x.run = other.run /\ x \in scores
      BY <2>1, <2>2, <3>2
    <3> QED
      BY <2>2, <3>2, <3>3 DEF RankInv, WholeRuns
  <2> QED
    BY <2>1, <2>2
<1> QED
  BY <1>1, <1>2, <1>3, <1>4

\* The order of the tie break is total on the platforms.
LEMMA TieBreakIsTotal ==
  ASSUME NEW p \in Ranked, NEW q \in Ranked, ~(RankIn(p) < RankIn(q)), ~(RankIn(q) < RankIn(p))
  PROVE  p = q
<1>1. /\ RankIn(p) \in DOMAIN TieBreak /\ TieBreak[RankIn(p)] = p
      /\ RankIn(q) \in DOMAIN TieBreak /\ TieBreak[RankIn(q)] = q
  BY DEF Ranked, RankIn
<1>2. RankIn(p) \in Nat /\ RankIn(q) \in Nat
  BY <1>1, RankingAssumption
<1> QED
  BY <1>1, <1>2

\* Of the scores of one run, sorting leaves one to recommend.
LEMMA OneRecommendation ==
  ASSUME RankInv, NEW latest \in LatestScores, NEW a \in Recommendable(latest), NEW b \in Recommendable(latest)
  PROVE  a = b
<1>1. /\ a \in latest /\ b \in latest /\ ~Beats(a, b) /\ ~Beats(b, a)
      /\ a \in ScoreRow /\ b \in ScoreRow
      /\ a.platform = b.platform => a = b
  BY LatestAreYoungest DEF Recommendable
<1>2. a.score = b.score
  <2>1. a.score \in Nat /\ b.score \in Nat
    BY <1>1, RankingAssumption DEF ScoreRow
  <2>2. ~(a.score > b.score) /\ ~(b.score > a.score)
    BY <1>1 DEF Beats
  <2> QED
    BY <2>1, <2>2
<1>3. a.platform = b.platform
  BY <1>1, <1>2, TieBreakIsTotal DEF Beats, ScoreRow
<1> QED
  BY <1>1, <1>3
\* A request starts, answers or gives up, and the table stays as it is.
LEMMA RequestMoves ==
  ASSUME RankInv, NEW r \in Request, NEW x, ranking' = [ranking EXCEPT ![r] = x],
         UNCHANGED <<engine, scores, runs, rankClock>>, x.pc # "insert",
         x.pc = "again" => Asking(x), x.pc = "decided" => Decided(r)'
  PROVE  RankInv'
<1>1. /\ \A q \in Request : ranking'[q] = IF q = r THEN x ELSE ranking[q]
      /\ ranking' = [q \in Request |-> ranking'[q]]
  BY DEF RankInv
<1>2. WholeRuns'
  BY DEF RankInv, WholeRuns
<1>3. OwnNumbers'
  <2>1. \A q \in Request : ranking'[q].pc = "insert" => q # r /\ ranking'[q] = ranking[q]
    BY <1>1
  <2>2. ASSUME NEW q \in Request, ranking'[q].pc = "insert"
        PROVE  \E n \in 1..runs', e \in Engine, at \in 0..MaxRankClock :
                 /\ \E t \in [RanksOn[e] -> Score] : ranking'[q].rows = RunRows(n, e, at, t)
                 /\ \A a \in scores' : a.run # n
                 /\ \A s \in Request \ {q} : ranking'[s].pc = "insert" => \A a \in ranking'[s].rows : a.run # n
    <3>0. ranking[q].pc = "insert"
      BY <2>1, <2>2
    <3>1. PICK n \in 1..runs, e \in Engine, at \in 0..MaxRankClock :
            /\ \E t \in [RanksOn[e] -> Score] : ranking[q].rows = RunRows(n, e, at, t)
            /\ \A a \in scores : a.run # n
            /\ \A s \in Request \ {q} : ranking[s].pc = "insert" => \A a \in ranking[s].rows : a.run # n
      BY <3>0 DEF RankInv, OwnNumbers
    <3>2. \A s \in Request \ {q} : ranking'[s].pc = "insert" => \A a \in ranking'[s].rows : a.run # n
      BY <2>1, <3>1
    <3>3. ranking'[q] = ranking[q]
      BY <2>1, <2>2
    <3> QED
      BY <3>1, <3>2, <3>3
  <2> QED
    BY <2>2 DEF OwnNumbers
<1>5. ASSUME NEW q \in Request, ranking'[q].pc = "again" PROVE Asking(ranking[q])'
  <2>1. Asking(ranking'[q])
    BY <1>1, <1>5 DEF RankInv
  <2> QED
    BY <2>1 DEF Asking, IsYoungest, OfEngine
<1>6. ASSUME NEW q \in Request, ranking'[q].pc = "decided" PROVE Decided(q)'
  <2>1. CASE q = r
    BY <1>1, <1>6, <2>1
  <2>2. CASE q # r
    BY <1>1, <1>6, <2>2 DEF RankInv, Decided, WasOverride, Tied
  <2> QED
    BY <2>1, <2>2
<1> QED
  BY <1>1, <1>2, <1>3, <1>5, <1>6 DEF RankInv

\* A run in hand has a number of its own and totals for its platforms.
LEMMA RankBeginsKeeps ==
  ASSUME RankInv, NEW r \in Request, RankBegins(r)
  PROVE  RankInv'
<1>0. /\ runs \in Nat /\ runs + 1 \in 0..MaxRuns /\ runs' = runs + 1
      /\ UNCHANGED <<engine, scores, rankClock>> /\ engine \in Engine /\ rankClock \in 0..MaxRankClock
  BY RankingAssumption DEF RankInv, RankBegins
<1>1. PICK total \in [RanksOn[engine] -> Score] :
        ranking' = [ranking EXCEPT ![r] = [pc |-> "insert", rows |-> RunRows(runs + 1, engine, rankClock, total)]]
  BY DEF RankBegins, RunRows
<1> DEFINE mine == RunRows(runs + 1, engine, rankClock, total)
<1>2. /\ \A q \in Request \ {r} : ranking'[q] = ranking[q]
      /\ ranking'[r].pc = "insert" /\ ranking'[r].rows = mine
      /\ ranking' = [q \in Request |-> ranking'[q]]
  BY <1>1 DEF RankInv
<1>3. \A a \in mine : a.run = runs + 1
  BY DEF RunRows
<1>4. \A a \in scores : a.run \in 1..runs
  BY DEF RankInv, WholeRuns
<1>5. \A q \in Request \ {r} : ranking[q].pc = "insert" => \A a \in ranking[q].rows : a.run \in 1..runs
  BY DEF RankInv, OwnNumbers, RunRows
<1> HIDE DEF mine
<1>6. WholeRuns'
  BY <1>0 DEF RankInv, WholeRuns
<1>7. ASSUME NEW q \in Request, ranking'[q].pc = "insert"
      PROVE  \E n \in 1..runs', e \in Engine, at \in 0..MaxRankClock :
               /\ \E t \in [RanksOn[e] -> Score] : ranking'[q].rows = RunRows(n, e, at, t)
               /\ \A a \in scores' : a.run # n
               /\ \A s \in Request \ {q} : ranking'[s].pc = "insert" => \A a \in ranking'[s].rows : a.run # n
  <2>1. CASE q = r
    <3>1. \A a \in scores' : a.run # runs + 1
      BY <1>0, <1>4
    <3>2. \A s \in Request \ {r} : ranking'[s].pc = "insert" => \A a \in ranking'[s].rows : a.run # runs + 1
      BY <1>0, <1>2, <1>5
    <3>3. runs + 1 \in 1..runs'
      BY <1>0
    <3> QED
      BY <1>0, <1>2, <2>1, <3>1, <3>2, <3>3 DEF mine
  <2>2. CASE q # r
    <3>0. ranking[q].pc = "insert"
      BY <1>2, <1>7, <2>2
    <3>1. PICK n \in 1..runs, e \in Engine, at \in 0..MaxRankClock :
            /\ \E t \in [RanksOn[e] -> Score] : ranking[q].rows = RunRows(n, e, at, t)
            /\ \A a \in scores : a.run # n
            /\ \A s \in Request \ {q} : ranking[s].pc = "insert" => \A a \in ranking[s].rows : a.run # n
      BY <3>0 DEF RankInv, OwnNumbers
    <3>2. n \in 1..runs' /\ \A a \in mine : a.run # n
      BY <1>0, <1>3
    <3>3. \A s \in Request \ {q} : ranking'[s].pc = "insert" => \A a \in ranking'[s].rows : a.run # n
      BY <1>2, <3>1, <3>2
    <3> QED
      BY <1>0, <1>2, <2>2, <3>1, <3>2, <3>3
  <2> QED
    BY <2>1, <2>2
<1>8. ASSUME NEW q \in Request, ranking'[q].pc = "again" PROVE Asking(ranking[q])'
  <2>1. Asking(ranking'[q])
    BY <1>2, <1>8 DEF RankInv
  <2> QED
    BY <1>0, <2>1 DEF Asking, IsYoungest, OfEngine
<1>9. ASSUME NEW q \in Request, ranking'[q].pc = "decided" PROVE Decided(q)'
  BY <1>0, <1>2, <1>9 DEF RankInv, Decided, WasOverride, Tied
<1> QED
  BY <1>0, <1>2, <1>6, <1>7, <1>8, <1>9 DEF RankInv, OwnNumbers

\* A recommendation during which a run commits is excused from agreeing.
LEMMA NoLongerQuiet ==
  ASSUME NEW x, NEW on, NEW quiet, NEW floor, NEW selected,
         x = [pc |-> "again", on |-> on, recommended |-> None, quiet |-> quiet, floor |-> floor,
              selected |-> selected]
  PROVE  [x EXCEPT !.quiet = FALSE] =
           [pc |-> "again", on |-> on, recommended |-> None, quiet |-> FALSE, floor |-> floor,
            selected |-> selected]
<1> DEFINE F == FALSE
<1>1. [x EXCEPT !.quiet = F] =
        [pc |-> "again", on |-> on, recommended |-> None, quiet |-> F, floor |-> floor,
         selected |-> selected]
  <2> HIDE DEF F
  <2> QED
    OBVIOUS
<1> QED
  BY <1>1, Zenon

\* A committed run is whole, and what is in hand elsewhere knows of it.
LEMMA RankCommitsKeeps ==
  ASSUME RankInv, NEW r \in Request, RankCommits(r)
  PROVE  RankInv'
<1>0. /\ ranking[r].pc = "insert" /\ UNCHANGED <<engine, runs, rankClock>>
      /\ scores' = scores \cup ranking[r].rows
      /\ engine \in Engine /\ runs \in Nat
  BY RankingAssumption DEF RankInv, RankCommits
<1>1. PICK n \in 1..runs, e \in Engine, at \in 0..MaxRankClock :
        /\ \E t \in [RanksOn[e] -> Score] : ranking[r].rows = RunRows(n, e, at, t)
        /\ \A a \in scores : a.run # n
        /\ \A q \in Request \ {r} : ranking[q].pc = "insert" => \A a \in ranking[q].rows : a.run # n
  BY <1>0 DEF RankInv, OwnNumbers
<1>2. PICK total \in [RanksOn[e] -> Score] : ranking[r].rows = RunRows(n, e, at, total)
  BY <1>1
<1> DEFINE new == RunRows(n, e, at, total)
<1>3. /\ ranking' = [q \in Request |-> ranking'[q]]
      /\ ranking'[r] = Idle
      /\ \A q \in Request \ {r} :
           ranking'[q] = IF ranking[q].pc = "again" THEN [ranking[q] EXCEPT !.quiet = FALSE] ELSE ranking[q]
  BY DEF RankCommits, RankInv
<1>4. /\ \A a \in new : a.run = n /\ a.by = e /\ a.at = at /\ a.platform \in RanksOn[e]
      /\ \A p \in RanksOn[e] : \E b \in new : b.platform = p
      /\ \A a, b \in new : a.platform = b.platform => a = b
  <2>1. \A a \in new : a = [run |-> n, by |-> e, platform |-> a.platform, score |-> total[a.platform], at |-> at]
    BY DEF RunRows
  <2>2. \A a \in new : a.run = n /\ a.by = e /\ a.at = at /\ a.platform \in RanksOn[e]
    BY DEF RunRows
  <2>3. ASSUME NEW p \in RanksOn[e] PROVE \E b \in new : b.platform = p
    <3>1. [run |-> n, by |-> e, platform |-> p, score |-> total[p], at |-> at] \in new
      BY DEF RunRows
    <3> QED
      BY <3>1
  <2>4. \A a, b \in new : a.platform = b.platform => a = b
    BY <2>1
  <2> QED
    BY <2>2, <2>3, <2>4
<1>5. new \subseteq ScoreRow
  <2>1. RanksOn[e] \subseteq Ranked /\ n \in 1..MaxRuns
    BY RankingAssumption, <1>0 DEF RankInv
  <2> QED
    BY <2>1 DEF RunRows, ScoreRow
<1> HIDE DEF new
<1>6. scores' = scores \cup new
  BY <1>0, <1>2 DEF new
<1>7. WholeRuns'
  <2>1. \A a \in scores' : a.run \in 1..runs' /\ a.platform \in RanksOn[a.by]
    BY <1>0, <1>1, <1>4, <1>6 DEF RankInv, WholeRuns
  <2>2. \A a \in scores' : \A p \in RanksOn[a.by] : \E b \in scores' : b.run = a.run /\ b.platform = p
    <3>1. \A a \in scores : \A p \in RanksOn[a.by] : \E b \in scores : b.run = a.run /\ b.platform = p
      BY DEF RankInv, WholeRuns
    <3>2. \A a \in new : \A p \in RanksOn[a.by] : \E b \in new : b.run = a.run /\ b.platform = p
      BY <1>4
    <3> QED
      BY <1>6, <3>1, <3>2
  <2>3. \A a, b \in scores' : a.run = b.run =>
          a.by = b.by /\ a.at = b.at /\ (a.platform = b.platform => a = b)
    BY <1>1, <1>4, <1>6 DEF RankInv, WholeRuns
  <2> QED
    BY <2>1, <2>2, <2>3 DEF WholeRuns
<1>8. ASSUME NEW q \in Request, ranking'[q].pc = "insert"
      PROVE  \E m \in 1..runs', f \in Engine, then \in 0..MaxRankClock :
               /\ \E t \in [RanksOn[f] -> Score] : ranking'[q].rows = RunRows(m, f, then, t)
               /\ \A a \in scores' : a.run # m
               /\ \A s \in Request \ {q} : ranking'[s].pc = "insert" => \A a \in ranking'[s].rows : a.run # m
  <2>0. \A s \in Request : ranking'[s].pc = "insert" => s # r /\ ranking'[s] = ranking[s]
    <3> SUFFICES ASSUME NEW s \in Request, ranking'[s].pc = "insert" PROVE s # r /\ ranking'[s] = ranking[s]
      OBVIOUS
    <3>1. s # r
      BY <1>3 DEF Idle
    <3>2. CASE ranking[s].pc = "again"
      <4>1. ranking'[s].pc = ranking[s].pc
        BY <1>3, <3>1, <3>2 DEF RankInv, Asking
      <4> QED
        BY <3>2, <4>1
    <3> QED
      BY <1>3, <3>1, <3>2
  <2>1. PICK m \in 1..runs, f \in Engine, then \in 0..MaxRankClock :
          /\ \E t \in [RanksOn[f] -> Score] : ranking[q].rows = RunRows(m, f, then, t)
          /\ \A a \in scores : a.run # m
          /\ \A s \in Request \ {q} : ranking[s].pc = "insert" => \A a \in ranking[s].rows : a.run # m
    BY <1>8, <2>0 DEF RankInv, OwnNumbers
  <2>2. \A a \in new : a.run # m
    BY <1>0, <1>2, <1>8, <2>0, <2>1 DEF new
  <2>3. \A a \in scores' : a.run # m
    BY <1>6, <2>1, <2>2
  <2>4. \A s \in Request \ {q} : ranking'[s].pc = "insert" => \A a \in ranking'[s].rows : a.run # m
    BY <2>0, <2>1
  <2> QED
    BY <1>0, <1>8, <2>0, <2>1, <2>3, <2>4
<1>9. ASSUME NEW q \in Request, ranking'[q].pc = "again" PROVE Asking(ranking[q])'
  <2>1. q # r
    BY <1>3, <1>9 DEF Idle
  <2>2. ranking[q].pc = "again" /\ ranking'[q] = [ranking[q] EXCEPT !.quiet = FALSE]
    BY <1>3, <1>9, <2>1
  <2>4. Asking(ranking[q])
    BY <2>2 DEF RankInv
  <2>5. PICK on, quiet, floor, selected :
          ranking[q] = [pc |-> "again", on |-> on, recommended |-> None, quiet |-> quiet,
                        floor |-> floor, selected |-> selected]
    BY <2>4 DEF Asking
  <2>7. ranking'[q] = [pc |-> "again", on |-> on, recommended |-> None, quiet |-> FALSE,
                       floor |-> floor, selected |-> selected]
    BY <2>2, <2>5, NoLongerQuiet
  <2>3. /\ ranking'[q].floor = ranking[q].floor /\ ranking'[q].quiet = FALSE
        /\ ranking'[q] = [pc |-> "again", on |-> ranking'[q].on, recommended |-> None,
                          quiet |-> ranking'[q].quiet, floor |-> ranking'[q].floor,
                          selected |-> ranking'[q].selected]
    BY <2>5, <2>7
  <2> QED
    BY <1>0, <1>6, <2>3, <2>4 DEF Asking, OfEngine
<1>10. ASSUME NEW q \in Request, ranking'[q].pc = "decided" PROVE Decided(q)'
  <2>1. q # r
    BY <1>3, <1>10 DEF Idle
  <2>2. CASE ranking[q].pc = "again"
    <3>1. ranking'[q].pc = ranking[q].pc
      BY <1>3, <2>1, <2>2 DEF RankInv, Asking
    <3> QED
      BY <1>10, <2>2, <3>1
  <2>3. CASE ranking[q].pc # "again"
    <3>1. ranking'[q] = ranking[q]
      BY <1>3, <2>1, <2>3
    <3>2. Tied => Tied'
      BY <1>6 DEF Tied
    <3> QED
      BY <1>0, <1>10, <3>1, <3>2 DEF RankInv, Decided, WasOverride
  <2> QED
    BY <2>2, <2>3
<1>11. scores' \subseteq ScoreRow
  BY <1>5, <1>6 DEF RankInv
<1> QED
  BY <1>0, <1>3, <1>7, <1>8, <1>9, <1>10, <1>11 DEF RankInv, OwnNumbers
\* The first read of a recommendation finds rows of one run.
LEMMA RecommendReadsKeeps ==
  ASSUME RankInv, NEW r \in Request, NEW platform \in Ranked, RecommendReads(r, platform)
  PROVE  RankInv'
<1>1. PICK latest \in LatestScores :
        ranking' = [ranking EXCEPT ![r] =
          [pc |-> "again", on |-> platform, recommended |-> None, quiet |-> TRUE,
           floor |-> {row.at : row \in OfEngine(engine)},
           selected |-> IF \E row \in latest : row.platform = platform
                          THEN CHOOSE row \in latest : row.platform = platform
                          ELSE None]]
  BY DEF RecommendReads
<1>2. PICK chosen : chosen = IF \E row \in latest : row.platform = platform
                               THEN CHOOSE row \in latest : row.platform = platform ELSE None
  OBVIOUS
<1>3. chosen = None \/ chosen \in latest
  BY <1>2
<1>4. PICK x : x = [pc |-> "again", on |-> platform, recommended |-> None, quiet |-> TRUE,
                    floor |-> {row.at : row \in OfEngine(engine)}, selected |-> chosen]
  OBVIOUS
<1>5. ranking' = [ranking EXCEPT ![r] = x] /\ x.pc = "again"
  BY <1>1, <1>2, <1>4
<1>6. Asking(x)
  BY <1>3, <1>4, LatestAreYoungest DEF Asking
<1> QED
  BY <1>5, <1>6, RequestMoves DEF RecommendReads

\* The second read agrees with the first if nothing came between.
LEMMA RecommendDecidesKeeps ==
  ASSUME RankInv, NEW r \in Request, RecommendDecides(r)
  PROVE  RankInv'
<1>1. /\ ranking[r].pc = "again" /\ Asking(ranking[r])
      /\ UNCHANGED <<engine, scores, runs, rankClock>>
  BY DEF RecommendDecides, RankInv
<1>p. PICK latest \in LatestScores :
        \E best \in IF latest = {} THEN {None} ELSE Recommendable(latest) :
          ranking' = [ranking EXCEPT ![r].pc = "decided", ![r].recommended = best]
  BY DEF RecommendDecides
<1>2. PICK best \in IF latest = {} THEN {None} ELSE Recommendable(latest) :
        ranking' = [ranking EXCEPT ![r].pc = "decided", ![r].recommended = best]
  BY <1>p
<1>3. /\ \A row \in latest : IsYoungest(row) /\ row \in scores /\ row \in ScoreRow /\ row.by = engine
      /\ \A a, b \in latest : a.platform = b.platform => a = b
      /\ \A row \in OfEngine(engine) : \E x \in latest : x.platform = row.platform
  BY LatestAreYoungest
<1>4. PICK x : x = [ranking[r] EXCEPT !.pc = "decided", !.recommended = best]
  OBVIOUS
<1>5. /\ ranking' = [ranking EXCEPT ![r] = x] /\ ranking'[r] = x
      /\ x.pc = "decided" /\ x.recommended = best /\ x.floor = ranking[r].floor
      /\ x.quiet = ranking[r].quiet /\ x.selected = ranking[r].selected
  BY <1>1, <1>2, <1>4 DEF Asking, RankInv
<1>6. best = None => latest = {}
  BY <1>3, RankingAssumption DEF Recommendable
<1>7. best # None => best \in latest /\ best \in Recommendable(latest)
  BY DEF Recommendable
<1>8. best = None => x.floor = {}
  BY <1>1, <1>3, <1>5, <1>6 DEF Asking
<1>9. ASSUME best # None PROVE best.by = engine /\ \A at \in x.floor : best.at >= at
  <2>1. IsYoungest(best) /\ best.by = engine /\ best \in ScoreRow
    BY <1>3, <1>7, <1>9
  <2>2. ASSUME NEW at \in x.floor PROVE best.at >= at
    <3>1. PICK row \in OfEngine(engine) : row.at = at
      BY <1>1, <1>5, <2>2 DEF Asking
    <3>2. row.at <= best.at
      BY <2>1, YoungestOfAll
    <3>3. row \in ScoreRow
      BY DEF OfEngine, RankInv
    <3> QED
      BY <2>1, <3>1, <3>2, <3>3, RankingAssumption DEF ScoreRow
  <2> QED
    BY <2>1, <2>2
<1>10. ASSUME x.selected # None, best # None, x.quiet, ~Tied
       PROVE  x.selected.run = best.run /\ best.score >= x.selected.score
  <2> DEFINE chosen == x.selected
  <2>1. IsYoungest(chosen) /\ chosen \in OfEngine(engine) /\ chosen \in scores /\ chosen \in ScoreRow
    BY <1>1, <1>5, <1>10 DEF Asking, IsYoungest, OfEngine, RankInv
  <2>2. best \in scores /\ IsYoungest(best) /\ best \in ScoreRow
    BY <1>3, <1>7, <1>10
  <2>3. chosen.run = best.run
    BY <1>10, <2>1, <2>2, YoungestAreOneRun
  <2>4. PICK y \in latest : y.platform = chosen.platform
    BY <1>3, <2>1
  <2>5. y.run = best.run /\ y \in scores
    BY <1>3, <1>10, <2>2, <2>4, YoungestAreOneRun
  <2>6. y = chosen
    BY <2>1, <2>3, <2>4, <2>5 DEF RankInv, WholeRuns
  <2>7. ~(chosen.score > best.score)
    BY <1>7, <1>10, <2>4, <2>6 DEF Recommendable, Beats
  <2>8. chosen.score \in Nat /\ best.score \in Nat
    BY <2>1, <2>2, RankingAssumption DEF ScoreRow
  <2> QED
    BY <2>3, <2>7, <2>8
<1>11. Decided(r)'
  BY <1>1, <1>5, <1>8, <1>9, <1>10 DEF Decided, WasOverride, Tied
<1> QED
  BY <1>1, <1>5, <1>11, RequestMoves

\* The ranking invariant is inductive.
LEMMA RankNext1 == RankInv /\ [RankingNext]_rankingVars => RankInv'
<1> SUFFICES ASSUME RankInv, [RankingNext]_rankingVars PROVE RankInv'
  OBVIOUS
<1>1. ASSUME NEW r \in Request, RankBegins(r) PROVE RankInv'
  BY <1>1, RankBeginsKeeps
<1>2. ASSUME NEW r \in Request, RankCommits(r) PROVE RankInv'
  BY <1>2, RankCommitsKeeps
<1>3. ASSUME NEW r \in Request, RankAborts(r) \/ RecommendEnds(r) PROVE RankInv'
  <2>1. ranking' = [ranking EXCEPT ![r] = Idle] /\ UNCHANGED <<engine, scores, runs, rankClock>>
    BY <1>3 DEF RankAborts, RecommendEnds
  <2>2. Idle.pc = "idle"
    BY DEF Idle
  <2> QED
    BY <2>1, <2>2, RequestMoves
<1>4. ASSUME NEW r \in Request, NEW p \in Ranked, RecommendReads(r, p) PROVE RankInv'
  BY <1>4, RecommendReadsKeeps
<1>5. ASSUME NEW r \in Request, RecommendDecides(r) PROVE RankInv'
  BY <1>5, RecommendDecidesKeeps
<1>6. ASSUME RankServerRestarts PROVE RankInv'
  <2>1. /\ \A q \in Request : ranking'[q].pc = "idle"
        /\ ranking' = [q \in Request |-> ranking'[q]]
        /\ UNCHANGED <<scores, runs, rankClock>> /\ engine' \in Engine
    BY <1>6 DEF RankServerRestarts, Idle
  <2>2. WholeRuns' /\ OwnNumbers'
    BY <2>1 DEF RankInv, WholeRuns, OwnNumbers
  <2> QED
    BY <2>1, <2>2 DEF RankInv
<1>7. ASSUME RankTick \/ UNCHANGED rankingVars PROVE RankInv'
  <2>1. UNCHANGED <<engine, scores, ranking, runs>> /\ rankClock' \in 0..MaxRankClock
    BY <1>7, RankingAssumption DEF RankTick, rankingVars, RankInv
  <2>a. WholeRuns /\ OwnNumbers
    BY DEF RankInv
  <2>b. WholeRuns'
    BY <2>1, <2>a DEF WholeRuns
  <2>c. OwnNumbers'
    BY <2>1, <2>a DEF OwnNumbers
  <2>2. WholeRuns' /\ OwnNumbers'
    BY <2>b, <2>c
  <2>3. \A q \in Request : ranking'[q].pc = "again" => Asking(ranking[q])'
    BY <2>1 DEF RankInv, Asking, IsYoungest, OfEngine
  <2>4. \A q \in Request : ranking'[q].pc = "decided" => Decided(q)'
    BY <2>1 DEF RankInv, Decided, WasOverride, Tied
  <2> QED
    BY <2>1, <2>2, <2>3, <2>4 DEF RankInv
<1> QED
  BY <1>1, <1>2, <1>3, <1>4, <1>5, <1>6, <1>7 DEF RankingNext

\* For any engines, platforms and scores, however runs overlap, abort and the
\* engine changes: the latest scores are one whole run of the engine in force
\* unless two runs began at one instant, the recommendation is one, whatever
\* order the rows come in, and it agrees with the score recorded beside it
\* unless a run committed between the two reads (computeScores,
\* latestScorePerPlatform, pickRecommendedScore, recomputeRecommendation).
THEOREM RecommendationsAgree == RankingSpec => []RankingIsConsistent
<1>1. RankInv => RankingIsConsistent
  <2> SUFFICES ASSUME RankInv PROVE RankingIsConsistent
    OBVIOUS
  <2>1. LatestScoresAreOneRun
    BY OneRunLatest
  <2>2. \A latest \in LatestScores : \A a, b \in Recommendable(latest) : a = b
    BY OneRecommendation
  <2>3. ASSUME NEW r \in Request, ranking[r].pc = "decided" PROVE Decided(r)
    BY <2>3 DEF RankInv
  <2> QED
    BY <2>1, <2>2, <2>3 DEF RankingIsConsistent, RecommendationIsOfItsTime, Decided, Tied
<1> QED
  BY <1>1, RankInit1, RankNext1, PTL DEF RankingSpec

\* What a run or a recommendation under way has in hand are rows of scores.
InHand(x) ==
  \/ x = Idle
  \/ x.pc = "insert" /\ x.rows \subseteq ScoreRow
  \/ /\ x.pc \in {"again", "decided"}
     /\ x.selected \in ScoreRow \cup {None} /\ x.recommended \in ScoreRow \cup {None}

\* A run writes one row for each platform its engine ranks.
LEMMA RunRowsType ==
  ASSUME NEW n \in 1..MaxRuns, NEW e \in Engine, NEW at \in 0..MaxRankClock,
         NEW total \in [RanksOn[e] -> Score]
  PROVE  RunRows(n, e, at, total) \subseteq ScoreRow
<1>1. RanksOn[e] \subseteq Ranked
  BY RankingAssumption
<1> QED
  BY <1>1 DEF RunRows, ScoreRow

\* Every step of a run or a recommendation hands on rows of scores.
LEMMA HandsKeepTypes ==
  ASSUME RankInv, \A r \in Request : InHand(ranking[r]), [RankingNext]_rankingVars
  PROVE  \A r \in Request : InHand(ranking'[r])
<1>0. ranking = [r \in Request |-> ranking[r]]
  BY DEF RankInv
<1>1. ASSUME NEW r \in Request, NEW x, ranking' = [ranking EXCEPT ![r] = x], InHand(x)
      PROVE  \A q \in Request : InHand(ranking'[q])
  BY <1>0, <1>1
<1>2. ASSUME NEW r \in Request, RankBegins(r)
      PROVE  \A q \in Request : InHand(ranking'[q])
  <2>1. PICK total \in [RanksOn[engine] -> Score] :
          ranking' = [ranking EXCEPT ![r] =
            [pc |-> "insert", rows |-> RunRows(runs + 1, engine, rankClock, total)]]
    BY <1>2 DEF RankBegins, RunRows
  <2>2. engine \in Engine /\ runs + 1 \in 1..MaxRuns /\ rankClock \in 0..MaxRankClock
    BY <1>2, RankingAssumption DEF RankInv, RankBegins
  <2>3. RunRows(runs + 1, engine, rankClock, total) \subseteq ScoreRow
    BY <2>2, RunRowsType
  <2> QED
    BY <1>1, <2>1, <2>3 DEF InHand
<1>3. ASSUME NEW r \in Request, RankCommits(r)
      PROVE  \A q \in Request : InHand(ranking'[q])
  <2> SUFFICES ASSUME NEW q \in Request PROVE InHand(ranking'[q])
    OBVIOUS
  <2>1. CASE q # r /\ ranking[q].pc = "again"
    <3>1. /\ Asking(ranking[q]) /\ ranking[q] # Idle
          /\ ranking'[q] = [ranking[q] EXCEPT !.quiet = FALSE]
      BY <1>3, <2>1 DEF RankCommits, RankInv, Idle
    <3>2. /\ ranking'[q].pc = "again" /\ ranking'[q].recommended = None
          /\ ranking'[q].selected = ranking[q].selected
      BY <3>1 DEF Asking
    <3> QED
      BY <2>1, <3>1, <3>2 DEF InHand
  <2>2. CASE ~(q # r /\ ranking[q].pc = "again")
    <3>1. ranking'[q] \in {Idle, ranking[q]}
      BY <1>3, <2>2 DEF RankCommits
    <3> QED
      BY <3>1 DEF InHand
  <2> QED
    BY <2>1, <2>2
<1>4. ASSUME NEW r \in Request, RankAborts(r) \/ RecommendEnds(r)
      PROVE  \A q \in Request : InHand(ranking'[q])
  BY <1>1, <1>4 DEF RankAborts, RecommendEnds, InHand
<1>5. ASSUME NEW r \in Request, NEW platform \in Ranked, RecommendReads(r, platform)
      PROVE  \A q \in Request : InHand(ranking'[q])
  <2>1. PICK latest \in LatestScores :
          ranking' = [ranking EXCEPT ![r] =
            [pc |-> "again", on |-> platform, recommended |-> None, quiet |-> TRUE,
             floor |-> {row.at : row \in OfEngine(engine)},
             selected |-> IF \E row \in latest : row.platform = platform
                            THEN CHOOSE row \in latest : row.platform = platform
                            ELSE None]]
    BY <1>5 DEF RecommendReads
  <2>2. latest \subseteq ScoreRow
    BY LatestAreYoungest
  <2>3. (IF \E row \in latest : row.platform = platform
          THEN CHOOSE row \in latest : row.platform = platform ELSE None) \in ScoreRow \cup {None}
    BY <2>2
  <2> QED
    BY <1>1, <2>1, <2>3 DEF InHand
<1>6. ASSUME NEW r \in Request, RecommendDecides(r)
      PROVE  \A q \in Request : InHand(ranking'[q])
  <2>0. Asking(ranking[r]) /\ ranking[r] # Idle /\ ranking[r].pc = "again"
    BY <1>6 DEF RecommendDecides, RankInv, Idle
  <2>1. PICK latest \in LatestScores : \E best \in IF latest = {} THEN {None} ELSE Recommendable(latest) :
           ranking' = [ranking EXCEPT ![r].pc = "decided", ![r].recommended = best]
    BY <1>6 DEF RecommendDecides
  <2>2. PICK best \in IF latest = {} THEN {None} ELSE Recommendable(latest) :
           ranking' = [ranking EXCEPT ![r].pc = "decided", ![r].recommended = best]
    BY <2>1
  <2>3. best \in ScoreRow \cup {None}
    BY LatestAreYoungest DEF Recommendable
  <2> DEFINE x == [ranking[r] EXCEPT !.pc = "decided", !.recommended = best]
  <2>4. ranking' = [ranking EXCEPT ![r] = x]
    BY <1>0, <2>2
  <2>5. x.pc = "decided" /\ x.recommended = best /\ x.selected = ranking[r].selected
    BY <2>0 DEF Asking
  <2> HIDE DEF x
  <2> QED
    BY <1>1, <2>0, <2>3, <2>4, <2>5 DEF InHand
<1>7. ASSUME RankServerRestarts PROVE \A q \in Request : InHand(ranking'[q])
  BY <1>7 DEF RankServerRestarts, InHand
<1>8. CASE UNCHANGED ranking
  BY <1>8
<1>9. RankTick => UNCHANGED ranking
  BY DEF RankTick
<1> QED
  BY <1>2, <1>3, <1>4, <1>5, <1>6, <1>7, <1>8, <1>9 DEF RankingNext, rankingVars

\* The score table, its runs and the requests in hand keep their types.
LEMMA RankingTypes == RankingSpec => []RankingTypeOK
<1> DEFINE Hands == \A r \in Request : InHand(ranking[r])
<1>1. RankingInit => Hands
  BY DEF RankingInit, InHand
<1>2. RankInv /\ Hands /\ [RankingNext]_rankingVars => Hands'
  BY HandsKeepTypes
<1>3. RankInv /\ Hands => RankingTypeOK
  BY DEF RankInv, InHand, RankingTypeOK
<1> HIDE DEF Hands
<1>4. RankInv /\ [RankingNext]_rankingVars => RankInv'
  BY RankNext1
<1> QED
  BY <1>1, <1>2, <1>3, <1>4, RankInit1, PTL DEF RankingSpec

-----------------------------------------------------------------------------
(* The factors behind the scores: each is a share of one, 10000.  What TLC *)
(* evaluates for a few numbers is arithmetic with two roundings: the lemmas *)
(* say what rounding and clamping do to any fraction.                      *)


Share == 0..10000

\* What an integer division leaves.
LEMMA Division ==
  ASSUME NEW a \in Nat, NEW b \in Nat \ {0}
  PROVE  /\ a \div b \in Nat
         /\ b * (a \div b) <= a
         /\ a < b * ((a \div b) + 1)
OBVIOUS

\* Products keep the order of their factors.
LEMMA TimesAtLeast ==
  ASSUME NEW a \in Nat, NEW x \in Nat, NEW y \in Nat, x <= y
  PROVE  a * x <= a * y
OBVIOUS

\* Rounding keeps the order of fractions.
LEMMA RoundingIsMonotone ==
  ASSUME NEW n \in Nat, NEW d \in Nat \ {0}, NEW m \in Nat, NEW e \in Nat \ {0},
         n * e <= m * d
  PROVE  Round4(n, d) <= Round4(m, e)
<1> DEFINE q == (20000 * n + d) \div (2 * d)
           p == (20000 * m + e) \div (2 * e)
<1>1. q \in Nat /\ (2 * d) * q <= 20000 * n + d
  <2> DEFINE a == 20000 * n + d
             b == 2 * d
  <2>1. a \in Nat /\ b \in Nat \ {0}
    OBVIOUS
  <2> HIDE DEF a, b
  <2>2. a \div b \in Nat /\ b * (a \div b) <= a
    BY <2>1, Division
  <2> QED
    BY <2>2 DEF a, b
<1>2. p \in Nat /\ 20000 * m + e < (2 * e) * (p + 1)
  BY Division, 20000 * m + e \in Nat, 2 * e \in Nat \ {0}
<1> HIDE DEF q, p
<1> SUFFICES ASSUME p + 1 <= q PROVE FALSE
  BY <1>1, <1>2 DEF Round4, q, p
<1>3. (2 * d * e) * (p + 1) <= (2 * d * e) * q
  BY <1>1, <1>2, TimesAtLeast, 2 * d * e \in Nat, p + 1 \in Nat
<1>4. ((2 * d) * q) * e <= (20000 * n + d) * e
  BY <1>1, TimesAtLeast
<1>5. (20000 * m + e) * d < ((2 * e) * (p + 1)) * d
  BY <1>2
<1>6. (20000 * n + d) * e <= (20000 * m + e) * d
  OBVIOUS
<1>7. ((2 * d) * q) * e = (2 * d * e) * q /\ ((2 * e) * (p + 1)) * d = (2 * d * e) * (p + 1)
  BY SMTT(40), <1>1, <1>2
<1> QED
  BY <1>1, <1>2, <1>3, <1>4, <1>5, <1>6, <1>7

\* A rounded fraction of at most one is a share.
LEMMA RoundingIsShare ==
  ASSUME NEW n \in Nat, NEW d \in Nat \ {0}, n <= d
  PROVE  Round4(n, d) \in Share
<1> DEFINE q == (20000 * n + d) \div (2 * d)
<1>1. q \in Nat /\ (2 * d) * q <= 20000 * n + d
  <2> DEFINE a == 20000 * n + d
             b == 2 * d
  <2>1. a \in Nat /\ b \in Nat \ {0}
    OBVIOUS
  <2> HIDE DEF a, b
  <2>2. a \div b \in Nat /\ b * (a \div b) <= a
    BY <2>1, Division
  <2> QED
    BY <2>2 DEF a, b
<1> HIDE DEF q
<1>2. (2 * d) * q <= 20001 * d
  BY <1>1
<1>3. ASSUME q >= 10001 PROVE FALSE
  <2>1. (2 * d) * 10001 <= (2 * d) * q
    BY <1>1, <1>3, TimesAtLeast, 2 * d \in Nat, 10001 \in Nat
  <2>2. (2 * d) * 10001 <= 20001 * d
    <3> DEFINE w == (2 * d) * q
    <3>1. w \in Nat
      BY <1>1
    <3> HIDE DEF w
    <3> QED
      BY <1>2, <2>1, <3>1 DEF w
  <2> QED
    BY <2>2
<1> QED
  BY <1>1, <1>3 DEF Round4, q, Share

FactorInv ==
  /\ facts \in Facts
  /\ facts.ofPillar <= facts.live /\ facts.onPlatform <= facts.live
  /\ facts.away + facts.toward <= facts.decisions

\* A content nobody has published or measured.
LEMMA FactorInit1 == FactorsInit => FactorInv
BY RankingFactorsAssumption DEF FactorsInit, FactorInv, Facts

\* The numbers of the facts.
LEMMA FactNumbers ==
  ASSUME FactorInv
  PROVE  /\ facts.engagement \in Nat /\ facts.overallEngagement \in Nat
         /\ facts.revenue \in Nat /\ facts.overallRevenue \in Nat
         /\ facts.live \in 0..MaxLive /\ facts.ofPillar \in 0..MaxLive
         /\ facts.onPlatform \in 0..MaxLive
         /\ facts.decisions \in 0..MaxDecisions /\ facts.away \in 0..MaxDecisions
         /\ facts.toward \in 0..MaxDecisions
         /\ facts.ratio # NoPolicy => facts.ratio \in 0..100
         /\ facts.cadence # NoPolicy => facts.cadence \in Nat
<1>1. /\ facts.engagement \in Average \cup {0} /\ facts.overallEngagement \in Average \cup {0}
      /\ facts.revenue \in Average \cup {0} /\ facts.overallRevenue \in Average \cup {0}
      /\ facts.live \in 0..MaxLive /\ facts.ofPillar \in 0..MaxLive
      /\ facts.onPlatform \in 0..MaxLive
      /\ facts.decisions \in 0..MaxDecisions /\ facts.away \in 0..MaxDecisions
      /\ facts.toward \in 0..MaxDecisions
      /\ facts.ratio \in Ratio \cup {NoPolicy} /\ facts.cadence \in Cadence \cup {NoPolicy}
  BY DEF FactorInv, Facts
<1>2. \A v \in Average \cup {0} : v \in Nat
  BY RankingFactorsAssumption
<1>3. facts.ratio # NoPolicy => facts.ratio \in 0..100
  BY <1>1, RankingFactorsAssumption, Zenon
<1>4. facts.cadence # NoPolicy => facts.cadence \in Nat
  BY <1>1, RankingFactorsAssumption, Zenon
<1> QED
  BY <1>1, <1>2, <1>3, <1>4

\* No step takes a number out of its range.
LEMMA FactorNext1 == FactorInv /\ [FactorsNext]_facts => FactorInv'
<1> SUFFICES ASSUME FactorInv, [FactorsNext]_facts PROVE FactorInv'
  OBVIOUS
<1> USE RankingFactorsAssumption DEF FactorInv, Facts
<1>1. ASSUME NEW a \in Average, NEW b \in Average, NEW c \in Average, NEW d \in Average,
             MetricArrives(a, b, c, d)
      PROVE  FactorInv'
  BY ZenonT(60), <1>1 DEF MetricArrives
<1>2. ASSUME NEW samePillar \in BOOLEAN, NEW samePlatform \in BOOLEAN,
             PostGoesLive(samePillar, samePlatform)
      PROVE  FactorInv'
  <2> DEFINE o == IF samePillar THEN facts.ofPillar + 1 ELSE facts.ofPillar
             p == IF samePlatform THEN facts.onPlatform + 1 ELSE facts.onPlatform
  <2>1. /\ facts.live + 1 \in 0..MaxLive /\ o \in 0..MaxLive /\ p \in 0..MaxLive
        /\ o <= facts.live + 1 /\ p <= facts.live + 1
    BY <1>2, FactNumbers DEF PostGoesLive
  <2>2. facts' = [facts EXCEPT !.live = facts.live + 1, !.ofPillar = o, !.onPlatform = p]
    BY <1>2, Zenon DEF PostGoesLive
  <2> HIDE DEF o, p
  <2> QED
    BY ZenonT(60), <2>1, <2>2
<1>3. ASSUME NEW kind \in {"away", "toward", "other"}, DecisionMade(kind)
      PROVE  FactorInv'
  <2> DEFINE a == IF kind = "away" THEN facts.away + 1 ELSE facts.away
             t == IF kind = "toward" THEN facts.toward + 1 ELSE facts.toward
  <2>1. /\ facts.decisions + 1 \in 0..MaxDecisions
        /\ a \in 0..MaxDecisions /\ t \in 0..MaxDecisions /\ a + t <= facts.decisions + 1
    BY <1>3, FactNumbers DEF DecisionMade
  <2>2. facts' = [facts EXCEPT !.decisions = facts.decisions + 1, !.away = a, !.toward = t]
    BY <1>3, Zenon DEF DecisionMade
  <2> HIDE DEF a, t
  <2> QED
    BY ZenonT(60), <2>1, <2>2
<1>4. ASSUME NEW ratio \in Ratio \cup {NoPolicy}, NEW cadence \in Cadence \cup {NoPolicy},
             PolicySet(ratio, cadence)
      PROVE  FactorInv'
  BY ZenonT(60), <1>4 DEF PolicySet
<1>5. CASE UNCHANGED facts
  BY <1>5
<1> QED
  BY <1>1, <1>2, <1>3, <1>4, <1>5 DEF FactorsNext

\* Clamping gives a number between nothing and the bound.
LEMMA Clamped ==
  ASSUME NEW n \in Int, NEW d \in Nat
  PROVE  Clamp(n, d) \in Nat /\ Clamp(n, d) <= d
BY DEF Clamp

\* One half.
LEMMA NeutralIsShare == Neutral \in Share
BY DEF Neutral, Share

\* The first engine's engagement factor is a share.
LEMMA EngagementIsShare == ASSUME FactorInv PROVE EngagementHistory(facts) \in Share
<1>1. CASE ~facts.measured \/ facts.engagement + facts.overallEngagement = 0
  BY <1>1, NeutralIsShare DEF EngagementHistory
<1>2. CASE ~(~facts.measured \/ facts.engagement + facts.overallEngagement = 0)
  <2> DEFINE n == facts.engagement
             d == facts.engagement + facts.overallEngagement
  <2>1. n \in Nat /\ d \in Nat \ {0} /\ n <= d
    BY <1>2, FactNumbers
  <2> HIDE DEF n, d
  <2>2. Round4(n, d) \in Share
    BY <2>1, RoundingIsShare
  <2> QED
    BY <1>2, <2>2 DEF EngagementHistory, n, d
<1> QED
  BY <1>1, <1>2

\* A relative share, as a fraction with a denominator that is not zero.
LEMMA ShareIsFraction ==
  ASSUME NEW own \in Nat, NEW overall \in Nat
  PROVE  LET f == RelativeShare(own, overall)
         IN f[1] \in Nat /\ f[2] \in Nat \ {0} /\ f[1] <= f[2]
BY DEF RelativeShare

\* The mean of two fractions of at most one is one.
LEMMA BlendIsFraction ==
  ASSUME NEW a \in Nat, NEW b \in Nat \ {0}, NEW c \in Nat, NEW d \in Nat \ {0}, a <= b, c <= d
  PROVE  /\ a * d + c * b \in Nat /\ 2 * b * d \in Nat \ {0}
         /\ a * d + c * b <= 2 * b * d
<1>1. a * d <= b * d /\ c * b <= d * b
  BY TimesAtLeast
<1>2. b * d \in Nat \ {0} /\ d * b = b * d /\ a * d \in Nat /\ c * b \in Nat
  OBVIOUS
<1> QED
  BY <1>1, <1>2

\* The second engine's engagement factor is a share.
LEMMA EngagementV2IsShare == ASSUME FactorInv PROVE EngagementHistoryV2(facts) \in Share
<1> DEFINE e == RelativeShare(facts.engagement, facts.overallEngagement)
           r == RelativeShare(facts.revenue, facts.overallRevenue)
           n == e[1] * r[2] + r[1] * e[2]
           d == 2 * e[2] * r[2]
<1>1. /\ e[1] \in Nat /\ e[2] \in Nat \ {0} /\ e[1] <= e[2]
      /\ r[1] \in Nat /\ r[2] \in Nat \ {0} /\ r[1] <= r[2]
  BY FactNumbers, ShareIsFraction
<1> HIDE DEF e, r
<1>2. n \in Nat /\ d \in Nat \ {0} /\ n <= d
  BY <1>1, BlendIsFraction
<1>3. Round4(n, d) \in Share
  <2> HIDE DEF n, d
  <2> QED
    BY <1>2, RoundingIsShare
<1>4. EngagementHistoryV2(facts) = IF ~facts.measured THEN Neutral ELSE Round4(n, d)
  BY DEF EngagementHistoryV2, e, r
<1> QED
  BY <1>3, <1>4, NeutralIsShare

\* The pillar factor is a share, with and without live posts.
LEMMA PillarIsShare == ASSUME FactorInv PROVE PillarAlignment(facts) \in Share
<1>1. CASE facts.ratio = NoPolicy
  BY <1>1, NeutralIsShare DEF PillarAlignment
<1>2. CASE facts.ratio # NoPolicy /\ facts.live = 0
  <2>1. 50 + facts.ratio \in Int
    BY <1>2, FactNumbers
  <2>2. Clamp(50 + facts.ratio, 100) \in Nat /\ Clamp(50 + facts.ratio, 100) <= 100
    <3> DEFINE n == 50 + facts.ratio
    <3> HIDE DEF n
    <3>1. n \in Int
      BY <2>1 DEF n
    <3>2. Clamp(n, 100) \in Nat /\ Clamp(n, 100) <= 100
      BY <3>1, Clamped
    <3> QED
      BY <3>2 DEF n
  <2> QED
    BY <1>2, <2>2, RoundingIsShare DEF PillarAlignment
<1>3. CASE facts.ratio # NoPolicy /\ facts.live # 0
  <2> DEFINE n == facts.live * (50 + facts.ratio) - 100 * facts.ofPillar
             d == 100 * facts.live
  <2>1. n \in Int /\ d \in Nat \ {0}
    BY <1>3, FactNumbers
  <2> HIDE DEF n, d
  <2>2. Clamp(n, d) \in Nat /\ Clamp(n, d) <= d
    BY <2>1, Clamped
  <2>3. Round4(Clamp(n, d), d) \in Share
    BY <2>1, <2>2, RoundingIsShare
  <2> QED
    BY <1>3, <2>3 DEF PillarAlignment, n, d
<1> QED
  BY <1>1, <1>2, <1>3

\* The cadence factor is a share, with and without a target.
LEMMA CadenceIsShare == ASSUME FactorInv PROVE CadencePressure(facts) \in Share
<1>1. CASE facts.cadence = NoPolicy \/ facts.cadence = 0
  BY <1>1, NeutralIsShare DEF CadencePressure
<1>2. CASE ~(facts.cadence = NoPolicy \/ facts.cadence = 0)
  <2> DEFINE n == facts.cadence - facts.onPlatform
             d == facts.cadence
  <2>1. n \in Int /\ d \in Nat \ {0}
    BY <1>2, FactNumbers
  <2> HIDE DEF n, d
  <2>2. Clamp(n, d) \in Nat /\ Clamp(n, d) <= d
    BY <2>1, Clamped
  <2>3. Round4(Clamp(n, d), d) \in Share
    BY <2>1, <2>2, RoundingIsShare
  <2> QED
    BY <1>2, <2>3 DEF CadencePressure, n, d
<1> QED
  BY <1>1, <1>2

\* For arithmetic on shares.
LEMMA ShareIsInt == \A x \in Share : x \in Int
BY DEF Share

\* The override factor is a share, above one half when people chose the
\* platform and below it when they left it.
LEMMA OverrideIsShare ==
  ASSUME FactorInv
  PROVE  /\ OverrideFeedback(facts) \in Share
         /\ facts.toward >= facts.away => OverrideFeedback(facts) >= Neutral
         /\ facts.toward <= facts.away => OverrideFeedback(facts) <= Neutral
<1>1. CASE facts.decisions < MinSample
  BY <1>1 DEF OverrideFeedback, Neutral, Share
<1>2. CASE ~(facts.decisions < MinSample)
  <2> DEFINE c == facts.decisions + facts.toward - facts.away
             d == facts.decisions
             n == Clamp(c, 2 * d)
  <2>1. /\ c \in Int /\ d \in Nat \ {0}
        /\ facts.toward >= facts.away => c >= d
        /\ facts.toward <= facts.away => c <= d
    BY <1>2, FactNumbers, RankingFactorsAssumption DEF MinSample
  <2>2. OverrideFeedback(facts) = Round4(n, 2 * d)
    BY <1>2 DEF OverrideFeedback, OverrideRate
  <2> HIDE DEF c, d
  <2>3. /\ n \in Nat /\ n <= 2 * d
        /\ c >= d => n >= d
        /\ c <= d => n <= d
    BY <2>1 DEF Clamp
  <2> HIDE DEF n
  <2>4. Round4(1, 2) = Neutral
    BY DEF Round4, Neutral
  <2>5. 2 * d \in Nat \ {0}
    BY <2>1
  <2>6. Round4(n, 2 * d) \in Share
    BY <2>3, <2>5, RoundingIsShare
  <2>7. ASSUME n >= d PROVE Round4(1, 2) <= Round4(n, 2 * d)
    <3>1. 1 * (2 * d) <= n * 2
      BY <2>1, <2>3, <2>7
    <3> QED
      BY <2>3, <2>5, <3>1, RoundingIsMonotone
  <2>8. ASSUME n <= d PROVE Round4(n, 2 * d) <= Round4(1, 2)
    <3>1. n * 2 <= 1 * (2 * d)
      BY <2>1, <2>3, <2>8
    <3> QED
      BY <2>3, <2>5, <3>1, RoundingIsMonotone
  <2>9. Round4(n, 2 * d) \in Int
    BY <2>6, ShareIsInt
  <2> QED
    BY <2>1, <2>2, <2>3, <2>4, <2>6, <2>7, <2>8, <2>9 DEF Neutral
<1> QED
  BY <1>1, <1>2

\* A factor contributes at most its weight.
LEMMA ContributionOf ==
  ASSUME NEW v \in Share
  PROVE  /\ Contribution(35, v) \in Nat /\ Contribution(35, v) <= 3500
         /\ Contribution(30, v) \in Nat /\ Contribution(30, v) <= 3000
         /\ Contribution(25, v) \in Nat /\ Contribution(25, v) <= 2500
         /\ Contribution(20, v) \in Nat /\ Contribution(20, v) <= 2000
         /\ Contribution(15, v) \in Nat /\ Contribution(15, v) <= 1500
BY SMTT(40) DEF Contribution, Share

\* The weights of each engine add up: a total is a share too.
LEMMA TotalsAreShares ==
  ASSUME FactorInv
  PROVE  \A total \in {TotalV1(facts), TotalV2(facts)} : total >= 0 /\ total <= 10000
<1>1. ApiAvailability \in Share
  BY DEF ApiAvailability, Share
<1>2. TotalV1(facts) \in Nat /\ TotalV1(facts) <= 10000
  <2> DEFINE a == Contribution(35, EngagementHistory(facts))
             b == Contribution(20, ApiAvailability)
             c == Contribution(20, PillarAlignment(facts))
             d == Contribution(25, CadencePressure(facts))
  <2>1. /\ a \in Nat /\ a <= 3500 /\ b \in Nat /\ b <= 2000
        /\ c \in Nat /\ c <= 2000 /\ d \in Nat /\ d <= 2500
    BY <1>1, EngagementIsShare, PillarIsShare, CadenceIsShare, ContributionOf
  <2>2. TotalV1(facts) = a + b + c + d
    BY DEF TotalV1
  <2> HIDE DEF a, b, c, d
  <2> QED
    BY <2>1, <2>2
<1>3. TotalV2(facts) \in Nat /\ TotalV2(facts) <= 10000
  <2> DEFINE a == Contribution(30, EngagementHistoryV2(facts))
             b == Contribution(20, OverrideFeedback(facts))
             c == Contribution(20, CadencePressure(facts))
             d == Contribution(15, PillarAlignment(facts))
             e == Contribution(15, ApiAvailability)
  <2>1. /\ a \in Nat /\ a <= 3000 /\ b \in Nat /\ b <= 2000 /\ c \in Nat /\ c <= 2000
        /\ d \in Nat /\ d <= 1500 /\ e \in Nat /\ e <= 1500
    BY <1>1, EngagementV2IsShare, OverrideIsShare, PillarIsShare, CadenceIsShare, ContributionOf
  <2>2. TotalV2(facts) = a + b + c + d + e
    BY DEF TotalV2
  <2> HIDE DEF a, b, c, d, e
  <2> QED
    BY <2>1, <2>2
<1> QED
  BY <1>2, <1>3

\* The weight of the override factor: it moves a total by a tenth at most.
LEMMA SwingIsSmall ==
  ASSUME NEW v \in Share
  PROVE  LET swing == Contribution(20, v) - Contribution(20, Neutral) IN
         /\ swing \in -1000..1000
         /\ v = Neutral => swing = 0
         /\ v >= Neutral => swing >= 0
         /\ v <= Neutral => swing <= 0
BY DEF Contribution, Share, Neutral

\* A numerator that rounds to nothing is nothing, unless the denominator is huge.
LEMMA RoundsToZero ==
  ASSUME NEW n \in Nat, NEW d \in Nat \ {0}
  PROVE  /\ n = 0 => Round4(n, d) = 0
         /\ Round4(n, d) = 0 /\ d <= 20000 => n = 0
<1> DEFINE a == 20000 * n + d
           b == 2 * d
<1>1. a \in Nat /\ b \in Nat \ {0}
  OBVIOUS
<1>2. Round4(n, d) = a \div b
  BY DEF Round4
<1> HIDE DEF a, b
<1>3. a < b * ((a \div b) + 1) /\ b * (a \div b) <= a /\ a \div b \in Nat
  BY <1>1, Division
<1>4. ASSUME n = 0 PROVE a \div b = 0
  <2>1. a < b
    BY <1>4 DEF a, b
  <2>2. ASSUME a \div b >= 1 PROVE FALSE
    <3>1. b * 1 <= b * (a \div b)
      BY <1>1, <1>3, <2>2, TimesAtLeast
    <3> QED
      BY <1>1, <1>3, <2>1, <3>1
  <2> QED
    BY <1>3, <2>2
<1>5. ASSUME a \div b = 0, d <= 20000 PROVE n = 0
  <2>1. a < b * (0 + 1)
    BY <1>3, <1>5
  <2>2. 20000 * n + d < 2 * d
    BY <2>1 DEF a, b
  <2> QED
    BY <1>5, <2>2
<1> QED
  BY <1>2, <1>4, <1>5

\* A platform that has its weekly posts presses no more, and up to 20000
\* posts a week no other does.
LEMMA PressureStopsAtTarget ==
  ASSUME FactorInv, facts.cadence \notin {NoPolicy, 0}
  PROVE  /\ TargetMet(facts) => CadencePressure(facts) = 0
         /\ CadencePressure(facts) = 0 /\ facts.cadence <= 20000 => TargetMet(facts)
<1> DEFINE d == facts.cadence
           n == Clamp(d - facts.onPlatform, d)
<1>1. d \in Nat \ {0} /\ facts.onPlatform \in Nat
  BY FactNumbers, RankingFactorsAssumption
<1>2. n \in Nat /\ (n = 0 <=> facts.onPlatform >= d)
  BY <1>1 DEF Clamp
<1>3. CadencePressure(facts) = Round4(n, d) /\ (TargetMet(facts) <=> facts.onPlatform >= d)
  BY DEF CadencePressure, TargetMet
<1> HIDE DEF n, d
<1>4. /\ n = 0 => Round4(n, d) = 0
      /\ Round4(n, d) = 0 /\ d <= 20000 => n = 0
  BY <1>1, <1>2, RoundsToZero
<1> QED
  BY <1>2, <1>3, <1>4 DEF d

\* The invariant of the factors gives every part of the property.
LEMMA FactorsAdvise == FactorInv => ScoresAreAdvisory
<1> SUFFICES ASSUME FactorInv PROVE ScoresAreAdvisory
  OBVIOUS
<1>1. \A total \in {TotalV1(facts), TotalV2(facts)} : total >= 0 /\ total <= 10000
  BY TotalsAreShares
<1> DEFINE v == OverrideFeedback(facts)
           swing == Contribution(20, v) - Contribution(20, Neutral)
<1>2. /\ v \in Share
      /\ facts.toward >= facts.away => v >= Neutral
      /\ facts.toward <= facts.away => v <= Neutral
  BY OverrideIsShare
<1>3. facts.decisions < MinSample => v = Neutral
  BY DEF OverrideFeedback
<1>4. /\ swing \in -1000..1000
      /\ v = Neutral => swing = 0
      /\ v >= Neutral => swing >= 0
      /\ v <= Neutral => swing <= 0
  <2> HIDE DEF v
  <2> QED
    BY <1>2, SwingIsSmall
<1>5. facts.cadence \notin {NoPolicy, 0} =>
        /\ TargetMet(facts) => CadencePressure(facts) = 0
        /\ CadencePressure(facts) = 0 /\ facts.cadence <= 20000 => TargetMet(facts)
  BY PressureStopsAtTarget
<1> HIDE DEF v
<1> QED
  BY <1>1, <1>2, <1>3, <1>4, <1>5 DEF ScoresAreAdvisory, v

\* One more post of the pillar takes more than the larger total gives back.
LEMMA OnePostLowersAlignment ==
  ASSUME NEW r \in 0..100, NEW m \in Nat \ {0}, NEW o \in Nat, o <= m
  PROVE  LET was == Clamp(m * (50 + r) - 100 * o, 100 * m)
             is  == Clamp((m + 1) * (50 + r) - 100 * (o + 1), 100 * (m + 1))
         IN /\ was \in Nat /\ is \in Nat
            /\ is * (100 * m) <= was * (100 * (m + 1))
<1> DEFINE x == m * (50 + r)
           y == (m + 1) * (50 + r)
           u == m * (50 + r) - 100 * o
           w == (m + 1) * (50 + r) - 100 * (o + 1)
           was == Clamp(u, 100 * m)
           is  == Clamp(w, 100 * (m + 1))
<1>1. /\ x \in Nat /\ y \in Nat /\ y = x + 50 + r
      /\ u = x - 100 * o /\ w = y - 100 * (o + 1)
  OBVIOUS
<1>2. u \in Int /\ w \in Int
  BY <1>1
<1>3. /\ was \in Nat /\ was <= 100 * m /\ is \in Nat /\ is <= 100 * (m + 1)
      /\ u <= 0 => was = 0
      /\ u > 0 => was = u \/ was = 100 * m
      /\ w <= 0 => is = 0
      /\ w > 0 => is <= w
  BY <1>2 DEF Clamp
<1>4. w * m <= u * (m + 1)
  <2>1. w * m = (m + 1) * (m * (50 + r)) - 100 * (m * o) - 100 * m
    OBVIOUS
  <2>2. u * (m + 1) = (m + 1) * (m * (50 + r)) - 100 * (m * o) - 100 * o
    OBVIOUS
  <2> QED
    BY <2>1, <2>2
<1> HIDE DEF x, y, u, w, was, is
<1>5. is * m <= was * (m + 1)
  <2>1. CASE w <= 0
    BY <1>3, <2>1
  <2>2. CASE w > 0 /\ was = u
    <3>1. m * is <= m * w
      BY <1>2, <1>3, <2>2, TimesAtLeast
    <3> QED
      BY <1>2, <1>3, <1>4, <2>2, <3>1
  <2>3. CASE w > 0 /\ was = 100 * m
    <3>1. m * is <= m * (100 * (m + 1))
      BY <1>3, TimesAtLeast
    <3>2. m * (100 * (m + 1)) = (100 * m) * (m + 1)
      OBVIOUS
    <3> QED
      BY <1>3, <2>3, <3>1, <3>2
  <2>4. w > 0 => u > 0
    <3>1. SUFFICES ASSUME w > 0, u <= 0 PROVE FALSE
      BY <1>2
    <3>2. w * m > 0
      BY <1>2, <3>1
    <3>3. u * (m + 1) <= 0
      BY <1>2, <3>1
    <3> QED
      BY <1>2, <1>4, <3>2, <3>3
  <2> QED
    BY <1>2, <1>3, <2>1, <2>2, <2>3, <2>4
<1>6. is * (100 * m) = 100 * (is * m) /\ was * (100 * (m + 1)) = 100 * (was * (m + 1))
  BY <1>3
<1>7. is * m \in Nat /\ was * (m + 1) \in Nat
  BY <1>3
<1>8. 100 * (is * m) <= 100 * (was * (m + 1))
  BY <1>5, <1>7
<1> QED
  BY <1>3, <1>6, <1>8 DEF was, is, u, w

\* One post more on the platform never raises its pressure.
LEMMA OnePostLowersPressure ==
  ASSUME NEW c \in Nat \ {0}, NEW m \in Nat
  PROVE  Round4(Clamp(c - (m + 1), c), c) <= Round4(Clamp(c - m, c), c)
<1> DEFINE was == Clamp(c - m, c)
           is  == Clamp(c - (m + 1), c)
<1>1. was \in Nat /\ is \in Nat /\ is <= was
  BY DEF Clamp
<1> HIDE DEF was, is
<1>2. is * c <= was * c
  <2>1. c * is <= c * was
    BY <1>1, TimesAtLeast
  <2> QED
    BY <1>1, <2>1
<1>3. Round4(is, c) <= Round4(was, c)
  BY <1>1, <1>2, RoundingIsMonotone
<1> QED
  BY <1>3 DEF was, is

\* The first post of a pillar never raises its alignment.
LEMMA FirstPostLowersAlignment ==
  ASSUME NEW r \in 0..100
  PROVE  Round4(Clamp(50 + r - 100, 100), 100) <= Round4(Clamp(50 + r, 100), 100)
<1> DEFINE was == Clamp(50 + r, 100)
           is  == Clamp(50 + r - 100, 100)
<1>1. was \in Nat /\ is \in Nat /\ is <= was
  BY DEF Clamp
<1> HIDE DEF was, is
<1>2. is * 100 <= was * 100
  BY <1>1
<1>3. Round4(is, 100) <= Round4(was, 100)
  BY <1>1, <1>2, RoundingIsMonotone
<1> QED
  BY <1>3 DEF was, is

\* What a post that goes live does to either factor.
LEMMA PostLowersPressure ==
  ASSUME FactorInv, NEW samePillar \in BOOLEAN, NEW samePlatform \in BOOLEAN,
         PostGoesLive(samePillar, samePlatform)
  PROVE  /\ facts'.onPlatform > facts.onPlatform => CadencePressure(facts') <= CadencePressure(facts)
         /\ facts'.ofPillar > facts.ofPillar => PillarAlignment(facts') <= PillarAlignment(facts)
<1>1. /\ facts'.live = facts.live + 1
      /\ facts'.cadence = facts.cadence /\ facts'.ratio = facts.ratio
      /\ facts'.ofPillar > facts.ofPillar => facts'.ofPillar = facts.ofPillar + 1
      /\ facts'.onPlatform > facts.onPlatform => facts'.onPlatform = facts.onPlatform + 1
  BY FactNumbers DEF PostGoesLive, FactorInv, Facts
<1>2. ASSUME facts'.onPlatform > facts.onPlatform
      PROVE  CadencePressure(facts') <= CadencePressure(facts)
  <2>1. CASE facts.cadence = NoPolicy \/ facts.cadence = 0
    BY <1>1, <2>1 DEF CadencePressure, Neutral
  <2>2. CASE ~(facts.cadence = NoPolicy \/ facts.cadence = 0)
    <3> DEFINE c == facts.cadence
               m == facts.onPlatform
    <3>1. c \in Nat \ {0} /\ m \in Nat
      BY <2>2, FactNumbers, RankingFactorsAssumption
    <3>2. /\ CadencePressure(facts) = Round4(Clamp(c - m, c), c)
          /\ CadencePressure(facts') = Round4(Clamp(c - (m + 1), c), c)
      BY <1>1, <1>2, <2>2 DEF CadencePressure
    <3> HIDE DEF c, m
    <3> QED
      BY <3>1, <3>2, OnePostLowersPressure
  <2> QED
    BY <2>1, <2>2
<1>3. ASSUME facts'.ofPillar > facts.ofPillar
      PROVE  PillarAlignment(facts') <= PillarAlignment(facts)
  <2>1. CASE facts.ratio = NoPolicy
    BY <1>1, <2>1 DEF PillarAlignment, Neutral
  <2>2. CASE facts.ratio # NoPolicy /\ facts.live = 0
    <3> DEFINE r == facts.ratio
    <3>1. r \in 0..100 /\ facts.ofPillar = 0
      BY <2>2, FactNumbers DEF FactorInv
    <3>2. /\ PillarAlignment(facts) = Round4(Clamp(50 + r, 100), 100)
          /\ PillarAlignment(facts') = Round4(Clamp(50 + r - 100, 100), 100)
      BY <1>1, <1>3, <2>2, <3>1 DEF PillarAlignment
    <3> HIDE DEF r
    <3> QED
      BY <3>1, <3>2, FirstPostLowersAlignment
  <2>3. CASE facts.ratio # NoPolicy /\ facts.live # 0
    <3> DEFINE r == facts.ratio
               m == facts.live
               o == facts.ofPillar
               was == Clamp(m * (50 + r) - 100 * o, 100 * m)
               is  == Clamp((m + 1) * (50 + r) - 100 * (o + 1), 100 * (m + 1))
    <3>1. r \in 0..100 /\ m \in Nat \ {0} /\ o \in Nat /\ o <= m
      BY <2>3, FactNumbers, RankingFactorsAssumption DEF FactorInv
    <3>2. /\ PillarAlignment(facts) = Round4(was, 100 * m)
          /\ PillarAlignment(facts') = Round4(is, 100 * (m + 1))
      <4>1. m + 1 # 0
        BY <3>1
      <4> QED
        BY <1>1, <1>3, <2>3, <4>1 DEF PillarAlignment
    <3> HIDE DEF r, m, o
    <3>3. was \in Nat /\ is \in Nat /\ is * (100 * m) <= was * (100 * (m + 1))
      BY ZenonT(60), <3>1, OnePostLowersAlignment
    <3>4. 100 * m \in Nat \ {0} /\ 100 * (m + 1) \in Nat \ {0}
      BY <3>1
    <3> HIDE DEF was, is
    <3> QED
      BY <3>2, <3>3, <3>4, RoundingIsMonotone
  <2> QED
    BY <2>1, <2>2, <2>3
<1> QED
  BY <1>2, <1>3

\* No step of the facts raises what a live post lowers.
LEMMA StepLowersPressure ==
  FactorInv /\ [FactorsNext]_facts =>
    [/\ facts'.onPlatform > facts.onPlatform => CadencePressure(facts') <= CadencePressure(facts)
     /\ facts'.ofPillar > facts.ofPillar => PillarAlignment(facts') <= PillarAlignment(facts)]_facts
<1> SUFFICES ASSUME FactorInv, FactorsNext
             PROVE  /\ facts'.onPlatform > facts.onPlatform =>
                         CadencePressure(facts') <= CadencePressure(facts)
                    /\ facts'.ofPillar > facts.ofPillar =>
                         PillarAlignment(facts') <= PillarAlignment(facts)
  OBVIOUS
<1>1. ASSUME facts'.onPlatform = facts.onPlatform, facts'.ofPillar = facts.ofPillar
      PROVE  ~(facts'.onPlatform > facts.onPlatform) /\ ~(facts'.ofPillar > facts.ofPillar)
  BY <1>1, FactNumbers
<1>2. ASSUME NEW a \in Average, NEW b \in Average, NEW c \in Average, NEW d \in Average,
             MetricArrives(a, b, c, d)
      PROVE  facts'.onPlatform = facts.onPlatform /\ facts'.ofPillar = facts.ofPillar
  BY <1>2 DEF MetricArrives, FactorInv, Facts
<1>3. ASSUME NEW kind \in {"away", "toward", "other"}, DecisionMade(kind)
      PROVE  facts'.onPlatform = facts.onPlatform /\ facts'.ofPillar = facts.ofPillar
  BY <1>3 DEF DecisionMade, FactorInv, Facts
<1>4. ASSUME NEW ratio \in Ratio \cup {NoPolicy}, NEW cadence \in Cadence \cup {NoPolicy},
             PolicySet(ratio, cadence)
      PROVE  facts'.onPlatform = facts.onPlatform /\ facts'.ofPillar = facts.ofPillar
  BY <1>4 DEF PolicySet, FactorInv, Facts
<1> QED
  BY <1>1, <1>2, <1>3, <1>4, PostLowersPressure DEF FactorsNext

\* For any numbers of posts, decisions and averages: every factor and total is a
\* share, overrides move a total by a tenth at most, a platform whose cadence is
\* met adds no pressure, and no live post ever raises it (factors.ts, factors-v2.ts).
THEOREM FactorsAdviseOnly == FactorsSpec => []ScoresAreAdvisory /\ PublishingLowersPressure
BY FactorInit1, FactorNext1, FactorsAdvise, StepLowersPressure, PTL
   DEF FactorsSpec, PublishingLowersPressure

\* For any engines, platforms, runs and facts: the scores compared are of one
\* run and the recommendation is of its time, and the factors behind them stay
\* shares whose numbers a live post, a decision or a policy moves the way the
\* scheduler reads them (computeScores, recomputeRecommendation, factors.ts).
THEOREM RankingStaysSound == RankingSpec /\ FactorsSpec => RankingIsSound
BY RecommendationsAgree, FactorsAdviseOnly, PTL DEF RankingIsSound

\* The inputs of the factors keep their types.
LEMMA FactorTypes == FactorsSpec => []FactorsTypeOK
<1>1. FactorInv => FactorsTypeOK
  BY DEF FactorInv, FactorsTypeOK
<1> QED
  BY <1>1, FactorInit1, FactorNext1, PTL DEF FactorsSpec

-----------------------------------------------------------------------------
(* Readings.  The read models are passes over the rows, defined by         *)
(* recursion: that such a function exists, and what every step keeps, is   *)
(* shown by the least number that would break it.                          *)

\* A set of numbers that is not empty has a least one.
LEMMA LeastNumber ==
  ASSUME NEW T \in SUBSET Nat, T # {}
  PROVE  \E x \in T : \A y \in T : x <= y
<1> DEFINE R == OpToRel(<, Nat)
<1>1. IsWellFoundedOn(R, Nat)
  BY NatLessThanWellFounded
<1>2. \A x, y \in Nat : <<y, x>> \in R <=> y < x
  BY DEF OpToRel
<1> HIDE DEF R
<1>3. PICK x \in T : \A y \in T : ~(<<y, x>> \in R)
  BY <1>1, WFMin
<1>4. ASSUME NEW y \in T PROVE x <= y
  <2>1. x \in Nat /\ y \in Nat
    OBVIOUS
  <2>2. ~(y < x)
    BY <1>2, <1>3, <2>1
  <2> QED
    BY <2>1, <2>2
<1> QED
  BY <1>4

\* f begins with the value first and goes on by the step.
Unfolds(f, n, first, step) == f[0] = first /\ \A i \in 1..n : f[i] = step[<<i, f[i-1]>>]

\* Such a function over 0..n exists.
LEMMA RecursionExists ==
  ASSUME NEW n \in Nat, NEW V, NEW first \in V, NEW step \in [(1..n) \X V -> V]
  PROVE  \E f \in [0..n -> V] : Unfolds(f, n, first, step)
<1> USE DEF Unfolds
<1> DEFINE UpTo(k, f) == Unfolds(f, k, first, step)
           T == {k \in 0..n : ~\E f \in [0..k -> V] : UpTo(k, f)}
<1>1. SUFFICES ASSUME T # {} PROVE FALSE
  OBVIOUS
<1>2. T \in SUBSET Nat
  OBVIOUS
<1>3. PICK m \in T : \A k \in T : m <= k
  <2> HIDE DEF T
  <2> QED BY <1>1, <1>2, LeastNumber
<1>4. m # 0
  <2> SUFFICES ASSUME m = 0 PROVE FALSE
    OBVIOUS
  <2>1. [i \in 0..0 |-> first] \in [0..0 -> V] /\ UpTo(0, [i \in 0..0 |-> first])
    OBVIOUS
  <2> QED
    BY <2>1
<1>5. m - 1 \in 0..n /\ m - 1 \notin T /\ m \in 0..n
  BY <1>3, <1>4
<1>6. PICK g \in [0..(m-1) -> V] : UpTo(m - 1, g)
  BY <1>5
<1> DEFINE f == [i \in 0..m |-> IF i = m THEN step[<<m, g[m-1]>>] ELSE g[i]]
<1>7. f \in [0..m -> V]
  BY <1>4, <1>5
<1>8. UpTo(m, f)
  <2>1. f[0] = first
    BY <1>4, <1>5, <1>6
  <2>2. ASSUME NEW i \in 1..m PROVE f[i] = step[<<i, f[i-1]>>]
    <3>1. f[i-1] = g[i-1]
      BY <1>4, <1>5
    <3>2. CASE i = m
      BY SMTT(40), <1>4, <1>5, <3>1, <3>2
    <3>3. CASE i # m
      <4>1. i \in 1..(m-1) /\ f[i] = g[i]
        BY <1>5, <3>3
      <4>2. g[i] = step[<<i, g[i-1]>>]
        BY <1>6, <4>1
      <4> QED
        BY <3>1, <4>1, <4>2
    <3> QED
      BY <3>2, <3>3
  <2> QED
    BY <2>1, <2>2
<1> QED
  BY <1>3, <1>7, <1>8

\* A property of numbers that 0 has and that each hands to the next.
LEMMA CountingUp ==
  ASSUME NEW n \in Nat, NEW P \in SUBSET Nat, 0 \in P, \A i \in 1..n : i - 1 \in P => i \in P
  PROVE  n \in P
<1> DEFINE T == (0..n) \ P
<1>1. SUFFICES ASSUME T # {} PROVE FALSE
  OBVIOUS
<1>2. T \in SUBSET Nat
  OBVIOUS
<1>3. PICK m \in T : \A k \in T : m <= k
  <2> HIDE DEF T
  <2> QED BY <1>1, <1>2, LeastNumber
<1> QED
  BY <1>3

-----------------------------------------------------------------------------
Reading == [post : LivePost, reach : Reach, at : 0..MaxNow + 1]

Rows == 1..Len(readings)

\* One row of an order after the other decides which row of mine is taken.
Passes(f, n, order, mine, better) ==
  /\ f[0] = 0
  /\ \A i \in 1..n :
       f[i] = IF order[i] \in mine /\ (f[i-1] = 0 \/ <<order[i], f[i-1]>> \in better)
                THEN order[i] ELSE f[i-1]

\* A pass over the rows is a function: its recursion has a solution.
LEMMA PassIsDefined ==
  ASSUME NEW n \in Nat, NEW order \in [1..n -> 1..n], NEW mine, NEW better
  PROVE  \E f \in [0..n -> 0..n] : Passes(f, n, order, mine, better)
<1> DEFINE V == 0..n
           first == 0
           step == [x \in (1..n) \X V |->
             IF order[x[1]] \in mine /\ (x[2] = 0 \/ <<order[x[1]], x[2]>> \in better)
               THEN order[x[1]] ELSE x[2]]
<1>1. first \in V /\ step \in [(1..n) \X V -> V]
  BY SMTT(40)
<1>2. \A i \in 1..n, v \in V :
        step[<<i, v>>] = IF order[i] \in mine /\ (v = 0 \/ <<order[i], v>> \in better)
                           THEN order[i] ELSE v
  OBVIOUS
<1> HIDE DEF step
<1>3. \A i \in 1..n : i - 1 \in 0..n
  OBVIOUS
<1> HIDE DEF V, first
<1>4. PICK f \in [0..n -> V] : Unfolds(f, n, first, step)
  BY <1>1, RecursionExists
<1>5. Passes(f, n, order, mine, better)
  BY <1>2, <1>3, <1>4 DEF Passes, Unfolds, first
<1> QED
  BY <1>4, <1>5 DEF V

\* What is taken of the first i rows: one of mine, if there is one, that no other beats.
Taken(f, i, order, mine, better) ==
  /\ f[i] = 0 => \A j \in 1..i : order[j] \notin mine
  /\ f[i] # 0 => /\ f[i] \in mine
                 /\ \A j \in 1..i : order[j] \in mine =>
                      order[j] = f[i] \/ <<f[i], order[j]>> \in better

\* Of two rows of mine one beats the other, and beating is transitive.
Decides(better, mine) ==
  /\ \A a, b \in mine : a = b \/ <<a, b>> \in better \/ <<b, a>> \in better
  /\ \A a, b, c \in mine : <<a, b>> \in better /\ <<b, c>> \in better => <<a, c>> \in better

\* The row of mine that no other one beats, or 0 if mine is empty.
IsBest(row, mine, better) ==
  /\ row = 0 => mine = {}
  /\ row # 0 => row \in mine /\ \A j \in mine : j = row \/ <<row, j>> \in better

Onto(order, n) == \A j \in 1..n : \E i \in 1..n : order[i] = j

\* However the database orders the rows, a pass that replaces what it holds
\* by what is better ends with the best.
LEMMA PassTakesTheBest ==
  ASSUME NEW n \in Nat, NEW order \in [1..n -> 1..n], NEW mine \in SUBSET (1..n), NEW better,
         Onto(order, n), Decides(better, mine), NEW f, Passes(f, n, order, mine, better)
  PROVE  IsBest(f[n], mine, better)
<1> USE DEF Decides
<1> DEFINE P == {i \in 0..n : Taken(f, i, order, mine, better)}
<1>2. 0 \in P
  BY DEF Passes, Taken
<1>3. ASSUME NEW i \in 1..n, i - 1 \in P PROVE i \in P
  <2> DEFINE a == f[i-1]
             o == order[i]
             b == f[i]
  <2>1. /\ a = 0 => \A j \in 1..(i-1) : order[j] \notin mine
        /\ a # 0 => /\ a \in mine
                    /\ \A j \in 1..(i-1) : order[j] \in mine =>
                         order[j] = a \/ <<a, order[j]>> \in better
    BY <1>3 DEF Taken
  <2>2. b = IF o \in mine /\ (a = 0 \/ <<o, a>> \in better) THEN o ELSE a
    BY DEF Passes
  <2>3. /\ \A j \in 1..i : j = i \/ j \in 1..(i-1)
        /\ o \in 1..n /\ o # 0
    OBVIOUS
  <2> HIDE DEF a, o, b
  <2>4. b = 0 => \A j \in 1..i : order[j] \notin mine
    BY <2>1, <2>2, <2>3 DEF o
  <2>5. b # 0 => b \in mine
    BY <2>1, <2>2
  <2>6. ASSUME b # 0, NEW j \in 1..i, order[j] \in mine
        PROVE  order[j] = b \/ <<b, order[j]>> \in better
    <3>1. CASE j = i
      BY <2>1, <2>2, <2>6, <3>1 DEF o
    <3>2. CASE j \in 1..(i-1)
      <4>1. a # 0 /\ a \in mine /\ (order[j] = a \/ <<a, order[j]>> \in better)
        BY <2>1, <2>6, <3>2
      <4> QED
        BY <2>2, <2>5, <2>6, <4>1
    <3> QED
      BY <2>3, <3>1, <3>2
  <2>7. /\ b = 0 => \A j \in 1..i : order[j] \notin mine
        /\ b # 0 => /\ b \in mine
                    /\ \A j \in 1..i : order[j] \in mine => order[j] = b \/ <<b, order[j]>> \in better
    BY <2>4, <2>5, <2>6
  <2>8. Taken(f, i, order, mine, better)
    BY <2>7 DEF Taken, b
  <2> QED
    BY <2>8
<1>4. n \in P
  <2> HIDE DEF P
  <2>1. P \in SUBSET Nat
    BY DEF P
  <2> QED
    BY <1>2, <1>3, <2>1, CountingUp
<1>5. Taken(f, n, order, mine, better)
  BY <1>4
<1> QED
  BY <1>5 DEF Taken, Onto, IsBest

\* An order lists every row.
LEMMA OrderIsOnto ==
  ASSUME NEW n \in Nat, NEW order \in [1..n -> 1..n],
         \A i, j \in 1..n : i # j => order[i] # order[j]
  PROVE  Onto(order, n)
<1>1. order \in Injection(1..n, 1..n)
  BY DEF Injection, IsInjective
<1>2. IsFiniteSet(1..n)
  BY FS_Interval
<1>3. order \in Surjection(1..n, 1..n)
  BY <1>1, <1>2, FS_Injection
<1> QED
  BY <1>3 DEF Surjection, Onto

RowsOf(p) == {i \in Rows : readings[i].post = p}

\* The rows of a post, and what an order of the table is.
LEMMA OrderOfRows ==
  ASSUME readings \in Seq(Reading), NEW order \in Orders
  PROVE  /\ Len(readings) \in Nat /\ order \in [Rows -> Rows] /\ Sorted(order)
         /\ Onto(order, Len(readings)) /\ DOMAIN readings = Rows
         /\ \A i \in Rows : readings[i] \in Reading
<1>1. Len(readings) \in Nat /\ DOMAIN readings = Rows
  BY DEF Rows
<1>2. order \in [Rows -> Rows] /\ Sorted(order) /\ \A i, j \in Rows : i # j => order[i] # order[j]
  BY <1>1 DEF Orders
<1>3. \A i \in Rows : readings[i] \in Reading
  BY <1>1
<1> QED
  BY <1>1, <1>2, <1>3, OrderIsOnto DEF Rows

\* A reader's latest row is the best of its post's rows by its own order.
LEMMA LatestIsTheBest ==
  ASSUME readings \in Seq(Reading), NEW order \in Orders, NEW p, NEW replaces,
         Decides(replaces, RowsOf(p))
  PROVE  IsBest(Latest(order, p, replaces), RowsOf(p), replaces)
<1> DEFINE n == Len(readings)
           mine == RowsOf(p)
           code(f) == [i \in 0..n |->
             IF i = 0 THEN 0
             ELSE IF readings[order[i]].post = p /\ (f[i-1] = 0 \/ <<order[i], f[i-1]>> \in replaces)
                    THEN order[i] ELSE f[i-1]]
           after == CHOOSE f : f = code(f)
<1>1. n \in Nat /\ order \in [1..n -> 1..n] /\ Onto(order, n)
  BY OrderOfRows DEF Rows
<1>2. Latest(order, p, replaces) = after[n]
  BY DEF Latest
<1>3. mine \in SUBSET (1..n) /\ \A i \in 1..n : order[i] \in mine <=> readings[order[i]].post = p
  BY <1>1 DEF RowsOf, Rows
<1> HIDE DEF n, mine
<1>4. PICK f \in [0..n -> 0..n] : Passes(f, n, order, mine, replaces)
  BY <1>1, PassIsDefined
<1>5. f = code(f)
  <2>1. ASSUME NEW i \in 0..n PROVE f[i] = code(f)[i]
    <3>1. CASE i = 0
      BY <1>4, <3>1 DEF Passes
    <3>2. CASE i # 0
      <4>1. i \in 1..n
        BY SMTT(40), <1>1, <3>2
      <4> QED
        BY <1>3, <1>4, <3>2, <4>1 DEF Passes
    <3> QED
      BY <3>1, <3>2
  <2> QED
    BY <2>1
<1>6. after = code(after)
  BY ZenonT(60), <1>5
<1> HIDE DEF after
<1>7. Passes(after, n, order, mine, replaces)
  <2>1. after[0] = 0
    BY <1>1, <1>6
  <2>2. ASSUME NEW i \in 1..n
        PROVE  after[i] = IF order[i] \in mine /\ (after[i-1] = 0 \/ <<order[i], after[i-1]>> \in replaces)
                            THEN order[i] ELSE after[i-1]
    <3>1. i \in 0..n /\ i # 0
      BY <1>1
    <3> QED
      BY <1>3, <1>6, <3>1
  <2> QED
    BY <2>1, <2>2 DEF Passes
<1>8. IsBest(after[n], mine, replaces)
  BY <1>1, <1>3, <1>7, PassTakesTheBest DEF mine
<1> QED
  BY <1>2, <1>8 DEF mine

\* What the dashboard shows of a post.
LEMMA DashboardTakesTheNewest ==
  ASSUME readings \in Seq(Reading), NEW order \in Orders, NEW p
  PROVE  LET row == DashboardLatest(order, p)
         IN /\ row = 0 => RowsOf(p) = {}
            /\ row # 0 => row \in RowsOf(p) /\ \A j \in RowsOf(p) : j = row \/ IsNewer(row, j)
<1> DEFINE newer == {ab \in Pairs : IsNewer(ab[1], ab[2])}
<1>1. \A i \in RowsOf(p) : i \in Int /\ readings[i].at \in Int
  BY OrderOfRows DEF RowsOf, Rows, Reading
<1>2. \A a, b \in RowsOf(p) : <<a, b>> \in newer <=> IsNewer(a, b)
  <2>0. DOMAIN readings = Rows
    BY OrderOfRows
  <2>1. \A a, b \in RowsOf(p) : <<a, b>> \in Pairs
    BY <2>0 DEF RowsOf, Pairs
  <2>2. ASSUME NEW a \in RowsOf(p), NEW b \in RowsOf(p)
        PROVE  <<a, b>> \in newer <=> IsNewer(a, b)
    <3> HIDE DEF IsNewer
    <3> QED
      BY <2>1
  <2> QED
    BY <2>2
<1>3. DashboardLatest(order, p) = Latest(order, p, newer)
  BY DEF DashboardLatest
<1> HIDE DEF newer
<1>4. Decides(newer, RowsOf(p))
  <2>1. ASSUME NEW a \in RowsOf(p), NEW b \in RowsOf(p)
        PROVE  a = b \/ <<a, b>> \in newer \/ <<b, a>> \in newer
    BY <1>1, <1>2 DEF IsNewer
  <2>2. ASSUME NEW a \in RowsOf(p), NEW b \in RowsOf(p), NEW c \in RowsOf(p),
               <<a, b>> \in newer, <<b, c>> \in newer
        PROVE  <<a, c>> \in newer
    BY SMTT(40), <1>1, <1>2, <2>2 DEF IsNewer
  <2> QED
    BY <2>1, <2>2 DEF Decides
<1> DEFINE row == Latest(order, p, newer)
<1>5. IsBest(row, RowsOf(p), newer)
  BY <1>4, LatestIsTheBest
<1> HIDE DEF row
<1> QED
  BY <1>2, <1>3, <1>5 DEF row, IsBest

\* What the report shows of a post.
LEMMA ReportTakesALatest ==
  ASSUME readings \in Seq(Reading), NEW order \in Orders, NEW p
  PROVE  LET row == ReportLatest(order, p)
         IN /\ row = 0 => RowsOf(p) = {}
            /\ row # 0 => /\ row \in RowsOf(p)
                          /\ \A j \in RowsOf(p) : j = row \/ readings[row].at >= readings[j].at
<1> DEFINE later == {ab \in Pairs : ReplacesInReport(ab[1], ab[2])}
<1>1. \A i \in RowsOf(p) : i \in Int /\ readings[i].at \in Int
  BY OrderOfRows DEF RowsOf, Rows, Reading
<1>2. \A a, b \in RowsOf(p) : <<a, b>> \in later <=> readings[a].at >= readings[b].at
  <2>0. DOMAIN readings = Rows
    BY OrderOfRows
  <2>1. \A a, b \in RowsOf(p) : <<a, b>> \in Pairs
    BY <2>0 DEF RowsOf, Pairs
  <2>2. ASSUME NEW a \in RowsOf(p), NEW b \in RowsOf(p)
        PROVE  <<a, b>> \in later <=> ReplacesInReport(a, b)
    BY <2>1
  <2> QED
    BY <2>2 DEF ReplacesInReport
<1>3. ReportLatest(order, p) = Latest(order, p, later)
  BY DEF ReportLatest
<1> HIDE DEF later
<1>4. Decides(later, RowsOf(p))
  <2>1. ASSUME NEW a \in RowsOf(p), NEW b \in RowsOf(p)
        PROVE  a = b \/ <<a, b>> \in later \/ <<b, a>> \in later
    BY <1>1, <1>2
  <2>2. ASSUME NEW a \in RowsOf(p), NEW b \in RowsOf(p), NEW c \in RowsOf(p),
               <<a, b>> \in later, <<b, c>> \in later
        PROVE  <<a, c>> \in later
    BY <1>1, <1>2, <2>2
  <2> QED
    BY <2>1, <2>2 DEF Decides
<1> DEFINE row == Latest(order, p, later)
<1>5. IsBest(row, RowsOf(p), later)
  BY <1>4, LatestIsTheBest
<1> HIDE DEF row
<1> QED
  BY <1>2, <1>3, <1>5 DEF row, IsBest

\* A set of numbers up to a bound that is not empty has a greatest one.
LEMMA GreatestNumber ==
  ASSUME NEW n \in Nat, NEW T \in SUBSET (1..n), T # {}
  PROVE  \E x \in T : \A y \in T : y <= x
<1> DEFINE U == {n - i : i \in T}
<1>1. U \in SUBSET Nat /\ U # {}
  <2>1. \A i \in T : n - i \in Nat
    OBVIOUS
  <2> QED
    BY <2>1
<1>2. PICK u \in U : \A v \in U : u <= v
  <2> HIDE DEF U
  <2> QED
    BY <1>1, LeastNumber
<1>3. PICK x \in T : u = n - x
  BY <1>2
<1>4. ASSUME NEW y \in T PROVE y <= x
  <2>1. u <= n - y
    BY <1>2
  <2> QED
    BY <1>3, <2>1
<1> QED
  BY <1>4

\* The day that ends the trend is past every reading's.
LEMMA TrendTakesALatest ==
  ASSUME readings \in Seq(Reading), NEW order \in Orders, NEW p
  PROVE  LET row == TrendAt(order, p, MaxNow + 1)
         IN /\ row = 0 => RowsOf(p) = {}
            /\ row # 0 => /\ row \in RowsOf(p)
                          /\ \A j \in RowsOf(p) : j = row \/ readings[row].at >= readings[j].at
<1> DEFINE upTo == {i \in DOMAIN order : readings[order[i]].post = p /\ readings[order[i]].at <= MaxNow + 1}
           last == CHOOSE i \in upTo : \A j \in upTo : j <= i
           n == Len(readings)
<1>1. /\ n \in Nat /\ order \in [1..n -> 1..n] /\ Onto(order, n) /\ Rows = 1..n
      /\ \A i \in Rows : readings[i] \in Reading
      /\ Sorted(order)
  BY OrderOfRows DEF Rows
<1>2. upTo = {i \in 1..n : order[i] \in RowsOf(p)}
  <2>1. ASSUME NEW i \in 1..n PROVE readings[order[i]].at <= MaxNow + 1 /\ order[i] \in Rows
    <3>1. order[i] \in Rows /\ readings[order[i]] \in Reading
      BY <1>1
    <3>2. readings[order[i]].at \in 0..MaxNow + 1
      BY <3>1 DEF Reading
    <3> QED
      BY <3>1, <3>2, MetricsAssumption
  <2> QED
    BY <1>1, <2>1 DEF RowsOf
<1>3. TrendAt(order, p, MaxNow + 1) = IF upTo = {} THEN 0 ELSE order[last]
  BY DEF TrendAt
<1>4. CASE upTo = {}
  <2>1. ASSUME NEW j \in RowsOf(p) PROVE FALSE
    <3>1. j \in 1..n
      BY <1>1 DEF RowsOf
    <3>2. PICK i \in 1..n : order[i] = j
      BY <1>1, <3>1 DEF Onto
    <3> QED
      BY <1>2, <1>4, <3>2
  <2> QED
    BY <1>3, <1>4, <2>1 DEF RowsOf, Rows
<1>5. CASE upTo # {}
  <2>1. upTo \in SUBSET (1..n)
    BY <1>2
  <2>2. last \in upTo /\ \A j \in upTo : j <= last
    <3> HIDE DEF upTo, n
    <3>1. \E i \in upTo : \A j \in upTo : j <= i
      BY <1>1, <1>5, <2>1, GreatestNumber
    <3> QED
      BY <3>1
  <2> HIDE DEF last
  <2>3. last \in 1..n /\ order[last] \in RowsOf(p) /\ order[last] \in 1..n /\ order[last] # 0
    BY <1>1, <1>2, <2>2
  <2>4. ASSUME NEW j \in RowsOf(p)
        PROVE  j = order[last] \/ readings[order[last]].at >= readings[j].at
    <3>1. j \in 1..n
      BY <1>1 DEF RowsOf
    <3>2. PICK i \in 1..n : order[i] = j
      BY <1>1, <3>1 DEF Onto
    <3>3. i <= last
      BY <1>2, <2>2, <3>2
    <3>4. i = last \/ i < last
      BY <2>3, <3>3
    <3>5. i < last => readings[order[i]].at <= readings[order[last]].at
      BY <1>1, <2>3 DEF Sorted
    <3>6. readings[order[i]].at \in Int /\ readings[order[last]].at \in Int
      BY <1>1, <2>3, <3>1, <3>2 DEF Reading
    <3> QED
      BY <3>2, <3>4, <3>5, <3>6
  <2> QED
    BY <1>3, <1>5, <2>3, <2>4
<1> QED
  BY <1>4, <1>5

TiedReadings == \E i, j \in DOMAIN readings :
          i # j /\ readings[i].post = readings[j].post /\ readings[i].at = readings[j].at

\* Without a tie a post has one latest row.
LEMMA OneLatestRow ==
  ASSUME readings \in Seq(Reading), ~TiedReadings, NEW p, NEW a, NEW b,
         a = 0 => RowsOf(p) = {}, b = 0 => RowsOf(p) = {},
         a # 0 => a \in RowsOf(p) /\ \A j \in RowsOf(p) : j = a \/ readings[a].at >= readings[j].at,
         b # 0 => b \in RowsOf(p) /\ \A j \in RowsOf(p) : j = b \/ readings[b].at >= readings[j].at
  PROVE  a = b
<1>1. DOMAIN readings = Rows
  BY DEF Rows
<1>2. CASE a = 0 \/ b = 0
  BY <1>2
<1>3. CASE a # 0 /\ b # 0 /\ a # b
  <2>1. a \in RowsOf(p) /\ b \in RowsOf(p)
    BY <1>3
  <2>2. readings[a] \in Reading /\ readings[b] \in Reading
    BY <1>1, <2>1 DEF RowsOf
  <2>3. readings[a].at >= readings[b].at /\ readings[b].at >= readings[a].at
    BY <1>3, <2>1
  <2>4. readings[a].at = readings[b].at
    BY <2>2, <2>3 DEF Reading
  <2> QED
    BY <1>1, <1>3, <2>1, <2>4 DEF RowsOf, TiedReadings
<1> QED
  BY <1>2, <1>3

\* With no two readings of a post at one instant, the report, the trend and the
\* dashboard pick the same row.
LEMMA ReportIsDashboard ==
  ASSUME readings \in Seq(Reading), ~TiedReadings, NEW order \in Orders, NEW p
  PROVE  /\ ReportLatest(order, p) = DashboardLatest(order, p)
         /\ TrendAt(order, p, MaxNow + 1) = DashboardLatest(order, p)
<1> DEFINE d == DashboardLatest(order, p)
           r == ReportLatest(order, p)
           t == TrendAt(order, p, MaxNow + 1)
<1>1. /\ d = 0 => RowsOf(p) = {}
      /\ d # 0 => d \in RowsOf(p) /\ \A j \in RowsOf(p) : j = d \/ IsNewer(d, j)
  BY DashboardTakesTheNewest
<1>2. /\ r = 0 => RowsOf(p) = {}
      /\ r # 0 => r \in RowsOf(p) /\ \A j \in RowsOf(p) : j = r \/ readings[r].at >= readings[j].at
  BY ReportTakesALatest
<1>3. /\ t = 0 => RowsOf(p) = {}
      /\ t # 0 => t \in RowsOf(p) /\ \A j \in RowsOf(p) : j = t \/ readings[t].at >= readings[j].at
  BY TrendTakesALatest
<1> HIDE DEF d, r, t
<1>4. ASSUME d # 0, NEW j \in RowsOf(p), j # d PROVE readings[d].at >= readings[j].at
  <2>1. d \in RowsOf(p) /\ IsNewer(d, j)
    BY <1>1, <1>4
  <2>2. readings[d].at \in Int /\ readings[j].at \in Int
    BY <2>1, OrderOfRows DEF RowsOf, Reading
  <2> QED
    BY <2>1, <2>2 DEF IsNewer
<1>5. d # 0 => d \in RowsOf(p) /\ \A j \in RowsOf(p) : j = d \/ readings[d].at >= readings[j].at
  BY <1>1, <1>4
<1>6. r = d
  BY <1>1, <1>2, <1>5, OneLatestRow
<1>7. t = d
  BY <1>1, <1>3, <1>5, OneLatestRow
<1> QED
  BY <1>6, <1>7 DEF d, r, t

-----------------------------------------------------------------------------
(* The totals. *)

\* The reach of the first posts of ps, one after the other.
Adds(f, rowOf, ps) ==
  /\ f[0] = 0
  /\ \A i \in 1..Len(LivePosts) :
       f[i] = f[i-1] + (IF LivePosts[i] \in ps /\ rowOf[LivePosts[i]] # 0
                          THEN readings[rowOf[LivePosts[i]]].reach ELSE 0)

\* A sum over the live posts is a function: its recursion has a solution.
LEMMA TallyIsDefined ==
  ASSUME readings \in Seq(Reading), NEW rowOf \in [LivePost -> Rows \cup {0}], NEW ps
  PROVE  \E f \in [0..Len(LivePosts) -> Nat] :
           Adds(f, rowOf, ps) /\ TallyOf(rowOf, ps) = f[Len(LivePosts)]
<1> DEFINE n == Len(LivePosts)
           gain == [i \in 1..n |-> IF LivePosts[i] \in ps /\ rowOf[LivePosts[i]] # 0
                                     THEN readings[rowOf[LivePosts[i]]].reach ELSE 0]
           V == Nat
           first == 0
           step == [x \in (1..n) \X V |-> x[2] + gain[x[1]]]
           code(f) == [i \in 0..n |->
             IF i = 0 THEN 0
             ELSE f[i-1] + (IF LivePosts[i] \in ps /\ rowOf[LivePosts[i]] # 0
                              THEN readings[rowOf[LivePosts[i]]].reach ELSE 0)]
           upTo == CHOOSE f : f = code(f)
<1>1. n \in Nat /\ \A i \in 1..n : LivePosts[i] \in LivePost
  BY MetricsAssumption
<1>2. ASSUME NEW i \in 1..n PROVE gain[i] \in Nat
  <2>1. rowOf[LivePosts[i]] \in Rows \cup {0}
    BY <1>1
  <2>2. rowOf[LivePosts[i]] # 0 => readings[rowOf[LivePosts[i]]] \in Reading
    BY <2>1 DEF Rows
  <2>3. rowOf[LivePosts[i]] # 0 => readings[rowOf[LivePosts[i]]].reach \in Nat
    BY <2>2, MetricsAssumption DEF Reading
  <2> QED
    BY <2>3
<1>3. \A i \in 1..n : gain[i] = IF LivePosts[i] \in ps /\ rowOf[LivePosts[i]] # 0
                                   THEN readings[rowOf[LivePosts[i]]].reach ELSE 0
  OBVIOUS
<1> HIDE DEF gain
<1>4. first \in V /\ step \in [(1..n) \X V -> V]
  BY <1>2
<1>5. \A i \in 1..n, v \in V : step[<<i, v>>] = v + gain[i]
  OBVIOUS
<1> HIDE DEF step, V, first, n
<1>6. PICK f \in [0..n -> V] : Unfolds(f, n, first, step)
  BY <1>1, <1>4, RecursionExists
<1>7. f[0] = 0 /\ \A i \in 1..n : f[i] = f[i-1] + gain[i]
  <2>1. \A i \in 1..n : i - 1 \in 0..n
    BY <1>1
  <2> QED
    BY <1>5, <1>6, <2>1 DEF Unfolds, first
<1>8. f = code(f)
  <2>1. ASSUME NEW i \in 0..n PROVE f[i] = code(f)[i]
    <3>1. i # 0 => i \in 1..n
      BY <1>1
    <3> QED
      BY <1>3, <1>7, <3>1
  <2> QED
    BY <1>6, <2>1
<1>9. upTo = code(upTo)
  BY <1>8
<1>10. TallyOf(rowOf, ps) = upTo[n]
  BY DEF TallyOf, n
<1> HIDE DEF upTo
<1>11. Adds(upTo, rowOf, ps)
  <2>1. upTo[0] = 0
    BY <1>1, <1>9
  <2>2. ASSUME NEW i \in 1..n PROVE upTo[i] = code(upTo)[i] /\ i \in 0..n /\ i # 0
    BY <1>1, <1>9
  <2>3. ASSUME NEW i \in 1..n
        PROVE upTo[i] = upTo[i-1] + (IF LivePosts[i] \in ps /\ rowOf[LivePosts[i]] # 0
                                       THEN readings[rowOf[LivePosts[i]]].reach ELSE 0)
    BY <2>2
  <2> HIDE DEF code
  <2> QED
    BY <2>1, <2>3 DEF Adds, n
<1>12. upTo \in [0..n -> Nat]
  <2> DEFINE P == {i \in 0..n : upTo[i] \in Nat}
  <2>1. upTo[0] = 0 /\ \A i \in 1..n : upTo[i] = upTo[i-1] + gain[i]
    BY <1>3, <1>11 DEF Adds, n
  <2>2. 0 \in P
    BY <1>1, <2>1
  <2>3. ASSUME NEW i \in 1..n, i - 1 \in P PROVE i \in P
    <3>1. upTo[i-1] \in Nat /\ gain[i] \in Nat /\ i \in 0..n
      BY <1>1, <1>2, <2>3
    <3> QED
      BY <2>1, <3>1
  <2>4. ASSUME NEW k \in 0..n PROVE k \in P
    <3>1. k \in Nat /\ P \in SUBSET Nat
      BY <1>1
    <3>2. \A i \in 1..k : i - 1 \in P => i \in P
      <4> HIDE DEF P
      <4>1. \A i \in 1..k : i \in 1..n
        BY <1>1
      <4> QED
        BY <2>3, <4>1
    <3> HIDE DEF P
    <3> QED
      BY <2>2, <3>1, <3>2, CountingUp
  <2>5. upTo = [i \in 0..n |-> upTo[i]]
    BY <1>9
  <2>6. \A i \in 0..n : upTo[i] \in Nat
    BY <2>4
  <2> QED
    BY <2>5, <2>6
<1> QED
  BY <1>10, <1>11, <1>12 DEF n

\* The tallies of some posts and of the others add up to the tally of all.
LEMMA TalliesAddUp ==
  ASSUME readings \in Seq(Reading), NEW rowOf \in [LivePost -> Rows \cup {0}], NEW ps
  PROVE  TallyOf(rowOf, ps) + TallyOf(rowOf, LivePost \ ps) = TallyOf(rowOf, LivePost)
<1> DEFINE n == Len(LivePosts)
           gain(i) == IF rowOf[LivePosts[i]] # 0 THEN readings[rowOf[LivePosts[i]]].reach ELSE 0
<1>1. n \in Nat
  BY MetricsAssumption
<1>2. PICK f \in [0..n -> Nat] : Adds(f, rowOf, ps) /\ TallyOf(rowOf, ps) = f[n]
  BY TallyIsDefined
<1>3. PICK g \in [0..n -> Nat] : Adds(g, rowOf, LivePost \ ps) /\ TallyOf(rowOf, LivePost \ ps) = g[n]
  BY TallyIsDefined
<1>4. PICK h \in [0..n -> Nat] : Adds(h, rowOf, LivePost) /\ TallyOf(rowOf, LivePost) = h[n]
  BY TallyIsDefined
<1> DEFINE P == {i \in 0..n : f[i] + g[i] = h[i]}
<1>5. 0 \in P
  BY <1>1, <1>2, <1>3, <1>4 DEF Adds
<1>6. ASSUME NEW i \in 1..n, i - 1 \in P PROVE i \in P
  <2>1. /\ f[i] = f[i-1] + (IF LivePosts[i] \in ps THEN gain(i) ELSE 0)
        /\ g[i] = g[i-1] + (IF LivePosts[i] \in LivePost \ ps THEN gain(i) ELSE 0)
        /\ h[i] = h[i-1] + (IF LivePosts[i] \in LivePost THEN gain(i) ELSE 0)
        /\ LivePosts[i] \in LivePost
    <3>1. LivePosts[i] \in LivePost
      BY MetricsAssumption
    <3>2. f[i] = f[i-1] + (IF LivePosts[i] \in ps THEN gain(i) ELSE 0)
      BY <1>2 DEF Adds
    <3>3. g[i] = g[i-1] + (IF LivePosts[i] \in LivePost \ ps THEN gain(i) ELSE 0)
      BY <1>3 DEF Adds
    <3>4. h[i] = h[i-1] + (IF LivePosts[i] \in LivePost THEN gain(i) ELSE 0)
      BY <1>4 DEF Adds
    <3> QED
      BY <3>1, <3>2, <3>3, <3>4
  <2>2. /\ i \in 0..n /\ i - 1 \in 0..n /\ f[i-1] + g[i-1] = h[i-1]
    BY <1>1, <1>6
  <2>3. f[i-1] \in Nat /\ g[i-1] \in Nat /\ h[i-1] \in Nat
    BY <2>2
  <2>4. gain(i) \in Nat
    <3>1. LivePosts[i] \in LivePost
      BY MetricsAssumption
    <3>2. rowOf[LivePosts[i]] # 0 => readings[rowOf[LivePosts[i]]] \in Reading
      BY <3>1 DEF Rows
    <3> QED
      BY <3>2, MetricsAssumption DEF Reading
  <2> HIDE DEF gain
  <2>5. f[i] + g[i] = h[i]
    BY SMTT(40), <2>1, <2>2, <2>3, <2>4
  <2> QED
    BY <2>2, <2>5
<1>7. n \in P
  <2>1. P \in SUBSET Nat
    OBVIOUS
  <2> HIDE DEF P, n
  <2> QED
    BY <1>1, <1>5, <1>6, <2>1, CountingUp
<1> QED
  BY <1>2, <1>3, <1>4, <1>7

\* The dashboard picks rows of the table, or none.
LEMMA DashboardRows ==
  ASSUME readings \in Seq(Reading), NEW order \in Orders
  PROVE  [p \in LivePost |-> DashboardLatest(order, p)] \in [LivePost -> Rows \cup {0}]
<1> SUFFICES ASSUME NEW p \in LivePost PROVE DashboardLatest(order, p) \in Rows \cup {0}
  OBVIOUS
<1>1. DashboardLatest(order, p) # 0 => DashboardLatest(order, p) \in RowsOf(p)
  BY DashboardTakesTheNewest
<1> QED
  BY <1>1 DEF RowsOf

\* What the readers show follows from the rows they pick.
LEMMA ReadersAgree == readings \in Seq(Reading) => ReadModelsAgree
<1> SUFFICES ASSUME readings \in Seq(Reading), NEW order \in Orders
             PROVE  /\ ~TiedReadings =>
                         /\ \A p \in LivePost :
                              /\ ReportLatest(order, p) = DashboardLatest(order, p)
                              /\ TrendAt(order, p, MaxNow + 1) = DashboardLatest(order, p)
                         /\ TrendEnd(order) = Overview(order)
                    /\ \A c \in {PostContent[p] : p \in LivePost} :
                         Drilldown(order, c) + OtherContents(order, c) = Overview(order)
  BY Zenon DEF ReadModelsAgree, TiedReadings
<1> DEFINE shown == [p \in LivePost |-> DashboardLatest(order, p)]
<1>1. ASSUME ~TiedReadings
      PROVE  /\ \A p \in LivePost :
                  /\ ReportLatest(order, p) = DashboardLatest(order, p)
                  /\ TrendAt(order, p, MaxNow + 1) = DashboardLatest(order, p)
             /\ TrendEnd(order) = Overview(order)
  <2>1. \A p \in LivePost : ReportLatest(order, p) = DashboardLatest(order, p)
    BY <1>1, ReportIsDashboard
  <2>2. \A p \in LivePost : TrendAt(order, p, MaxNow + 1) = DashboardLatest(order, p)
    BY <1>1, ReportIsDashboard
  <2>3. [p \in LivePost |-> TrendAt(order, p, MaxNow + 1)] = shown
    BY <2>2
  <2> QED
    BY <2>1, <2>2, <2>3 DEF TrendEnd, Overview
<1>2. shown \in [LivePost -> Rows \cup {0}]
  BY DashboardRows
<1> HIDE DEF shown
<1>3. ASSUME NEW c PROVE Drilldown(order, c) + OtherContents(order, c) = Overview(order)
  <2> DEFINE ps == {p \in LivePost : PostContent[p] = c}
             qs == {p \in LivePost : PostContent[p] # c}
  <2>1. qs = LivePost \ ps
    OBVIOUS
  <2>2. Drilldown(order, c) = TallyOf(shown, ps) /\ OtherContents(order, c) = TallyOf(shown, qs)
    BY DEF Drilldown, OtherContents, shown
  <2> HIDE DEF ps, qs
  <2>3. TallyOf(shown, ps) + TallyOf(shown, LivePost \ ps) = TallyOf(shown, LivePost)
    BY <1>2, TalliesAddUp
  <2> QED
    BY <2>1, <2>2, <2>3 DEF Overview, shown
<1> QED
  BY <1>1, <1>3

-----------------------------------------------------------------------------
(* Syncs. *)

Sync == [pc : {"next", "insert", "done"}, left : 0..Len(LivePosts), fetched : Reach \cup {None},
         since : 0..MaxNow, row : [LivePost -> Nat],
         outcome : [LivePost -> Outcome \cup {None}], alone : BOOLEAN]

\* The reading a sync made of p is in the table, dated in the sync, and while
\* the sync is alone no later row of p has its date.
Stands(s, rows, p) ==
  s.outcome[p] = "synced" =>
    /\ s.row[p] \in 1..Len(rows)
    /\ rows[s.row[p]].post = p
    /\ rows[s.row[p]].at >= s.since
    /\ s.alone => \A j \in 1..Len(rows) :
         j > s.row[p] /\ rows[j].post = p => rows[j].at # rows[s.row[p]].at

SyncOK(s, rows, now) ==
  /\ s.since <= now
  /\ s.pc = "done" <=> s.left = 0
  /\ s.pc = "insert" => s.fetched \in Reach
  /\ \A i \in 1..Len(LivePosts) : i <= Len(LivePosts) - s.left => s.outcome[LivePosts[i]] # None
  /\ \A p \in LivePost : Stands(s, rows, p)

Over(s) == s = Idle \/ s.pc = "done"

MetricInv ==
  /\ readings \in Seq(Reading)
  /\ syncs \in [Request -> Sync \cup {Idle}]
  /\ today \in 0..MaxNow
  /\ \A r \in Request : syncs[r] # Idle => SyncOK(syncs[r], readings, today)
  /\ \A r, q \in Request : r # q /\ syncs[r] # Idle /\ syncs[r].alone => Over(syncs[q])

\* A sync under way is not an idle request.
LEMMA SyncIsNotIdle == \A s \in Sync : s # Idle
BY DEF Sync, Idle

\* Before the first reading there is nothing to disagree on.
LEMMA MetricInit1 == MetricInit => MetricInv
BY MetricsAssumption DEF MetricInit, MetricInv

\* A row of another post, or of a date before the sync, or beside a sync that
\* is not alone, leaves what the sync made of p.
LEMMA ReadingStands ==
  ASSUME NEW rows \in Seq(Reading), NEW x \in Reading, NEW s \in Sync, NEW p \in LivePost,
         Stands(s, rows, p), ~s.alone \/ x.post # p \/ x.at < s.since
  PROVE  Stands(s, Append(rows, x), p)
<1> DEFINE n == Len(rows)
           more == Append(rows, x)
           i == s.row[p]
<1>1. n \in Nat /\ Len(more) = n + 1 /\ more[n + 1] = x /\ \A j \in 1..n : more[j] = rows[j]
  OBVIOUS
<1> HIDE DEF more, n
<1>2. SUFFICES ASSUME s.outcome[p] = "synced"
               PROVE  /\ i \in 1..Len(more) /\ more[i].post = p /\ more[i].at >= s.since
                      /\ s.alone => \A j \in 1..Len(more) :
                           j > i /\ more[j].post = p => more[j].at # more[i].at
  BY DEF Stands, more
<1>3. /\ i \in 1..n /\ rows[i].post = p /\ rows[i].at >= s.since
      /\ s.alone => \A j \in 1..n : j > i /\ rows[j].post = p => rows[j].at # rows[i].at
  BY <1>2 DEF Stands, n
<1>4. i \in 1..Len(more) /\ more[i] = rows[i]
  BY <1>1, <1>3
<1>5. ASSUME s.alone, NEW j \in 1..Len(more), j > i, more[j].post = p
      PROVE  more[j].at # more[i].at
  <2>1. j = n + 1 \/ j \in 1..n
    BY <1>1
  <2>2. CASE j = n + 1
    <3>1. x.at < s.since /\ more[j] = x
      BY <1>1, <1>5, <2>2
    <3>2. x.at \in Nat /\ s.since \in Nat /\ rows[i].at \in Nat
      <4>1. rows[i] \in Reading
        BY <1>3 DEF n
      <4> QED
        BY <4>1, MetricsAssumption DEF Reading, Sync
    <3> QED
      BY <1>3, <1>4, <3>1, <3>2
  <2>3. CASE j \in 1..n
    BY <1>1, <1>3, <1>4, <1>5, <2>3
  <2> QED
    BY <2>1, <2>2, <2>3
<1> QED
  BY <1>3, <1>4, <1>5

\* What holds of the other requests' syncs is kept when s is of one of them.
LEMMA OneSyncMoves ==
  ASSUME MetricInv, NEW r \in Request, NEW s \in Sync, syncs[r] # Idle,
         syncs' = [syncs EXCEPT ![r] = s], s.alone = syncs[r].alone,
         syncs[r].pc # "done",
         readings' \in Seq(Reading), today' \in 0..MaxNow,
         SyncOK(s, readings', today'),
         \A q \in Request \ {r} : syncs[q] # Idle => SyncOK(syncs[q], readings', today')
  PROVE  MetricInv'
<1>1. /\ \A q \in Request : syncs[q] \in Sync \cup {Idle}
      /\ s # Idle
  BY SyncIsNotIdle DEF MetricInv
<1>2. syncs' \in [Request -> Sync \cup {Idle}]
  BY DEF MetricInv
<1>3. \A q \in Request : syncs'[q] = IF q = r THEN s ELSE syncs[q]
  BY DEF MetricInv
<1>4. ASSUME NEW q \in Request, syncs'[q] # Idle PROVE SyncOK(syncs'[q], readings', today')
  BY <1>3, <1>4
<1>5. ASSUME NEW a \in Request, NEW b \in Request, a # b, syncs'[a] # Idle, syncs'[a].alone
      PROVE  Over(syncs'[b])
  <2>1. syncs[a] # Idle /\ syncs[a].alone
    BY <1>3, <1>5
  <2>2. Over(syncs[b])
    BY <1>5, <2>1 DEF MetricInv
  <2>3. b # r
    BY <2>2 DEF Over
  <2> QED
    BY <1>3, <2>2, <2>3
<1> QED
  BY <1>2, <1>4, <1>5 DEF MetricInv

\* The post a sync is at, and what remains of it.
LEMMA PostAtHand ==
  ASSUME MetricInv, NEW r \in Request, syncs[r] # Idle, syncs[r].pc # "done"
  PROVE  /\ syncs[r] \in Sync /\ SyncOK(syncs[r], readings, today)
         /\ Len(LivePosts) \in Nat /\ syncs[r].left \in 1..Len(LivePosts)
         /\ Len(LivePosts) - syncs[r].left + 1 \in 1..Len(LivePosts)
         /\ SyncedPost(r) = LivePosts[Len(LivePosts) - syncs[r].left + 1]
         /\ SyncedPost(r) \in LivePost
<1>1. Len(LivePosts) \in Nat /\ \A i \in 1..Len(LivePosts) : LivePosts[i] \in LivePost
  BY MetricsAssumption
<1>2. syncs[r] \in Sync /\ SyncOK(syncs[r], readings, today)
  BY DEF MetricInv
<1>3. syncs[r].left \in 0..Len(LivePosts) /\ syncs[r].left # 0
  BY <1>2 DEF SyncOK, Sync
<1>4. Len(LivePosts) - syncs[r].left + 1 \in 1..Len(LivePosts)
  BY <1>1, <1>3
<1> QED
  BY <1>1, <1>2, <1>3, <1>4 DEF SyncedPost

\* A sync is done with its post.
LEMMA SyncNotesPost ==
  ASSUME MetricInv, NEW r \in Request, syncs[r] # Idle, syncs[r].pc # "done",
         NEW outcome \in Outcome, SyncNotes(r, outcome),
         readings' \in Seq(Reading), today' = today,
         \A p \in LivePost : p # SyncedPost(r) => Stands(syncs[r], readings', p),
         outcome = "synced" => /\ Len(readings') \in Nat \ {0}
                               /\ readings'[Len(readings')].post = SyncedPost(r)
                               /\ readings'[Len(readings')].at >= syncs[r].since,
         \A q \in Request \ {r} : syncs[q] # Idle => SyncOK(syncs[q], readings', today)
  PROVE  MetricInv'
<1> DEFINE s == syncs[r]
           p == SyncedPost(r)
           row == IF outcome = "synced" THEN Len(readings') ELSE 0
           rows == [s.row EXCEPT ![p] = row]
           outcomes == [s.outcome EXCEPT ![p] = outcome]
           pc == IF s.left = 1 THEN "done" ELSE "next"
           left == s.left - 1
           t == [pc |-> pc, left |-> left, fetched |-> None, since |-> s.since, row |-> rows,
                 outcome |-> outcomes, alone |-> s.alone]
<1>1. /\ s \in Sync /\ SyncOK(s, readings, today)
      /\ Len(LivePosts) \in Nat /\ s.left \in 1..Len(LivePosts)
      /\ Len(LivePosts) - s.left + 1 \in 1..Len(LivePosts)
      /\ p = LivePosts[Len(LivePosts) - s.left + 1]
      /\ p \in LivePost
  BY PostAtHand
<1>2. syncs' = [syncs EXCEPT ![r] = t]
  BY DEF SyncNotes
<1>3. row \in Nat
  OBVIOUS
<1> HIDE DEF row
<1>4. t \in Sync
  BY SMTT(40), <1>1, <1>3 DEF Sync
<1>5. ASSUME NEW x \in LivePost PROVE Stands(t, readings', x)
  <2>1. CASE x = p
    <3>1. ASSUME outcome = "synced"
          PROVE  row \in 1..Len(readings') /\ row = Len(readings')
      BY <3>1 DEF row
    <3>2. t.row[x] = row /\ t.outcome[x] = outcome /\ t.since = s.since
      BY <1>1, <2>1 DEF Sync
    <3> HIDE DEF t
    <3>3. ASSUME outcome = "synced"
          PROVE  /\ readings'[row].post = x /\ readings'[row].at >= s.since
                 /\ \A j \in 1..Len(readings') : ~(j > row)
      BY <2>1, <3>1, <3>3
    <3> QED
      BY <3>1, <3>2, <3>3 DEF Stands
  <2>2. CASE x # p
    <3>1. t.row[x] = s.row[x] /\ t.outcome[x] = s.outcome[x] /\ t.since = s.since /\ t.alone = s.alone
      BY <1>1, <2>2 DEF Sync
    <3>2. Stands(s, readings', x)
      BY <2>2
    <3> HIDE DEF t, s
    <3> QED
      BY <3>1, <3>2 DEF Stands
  <2> QED
    BY <2>1, <2>2
<1>6. ASSUME NEW i \in 1..Len(LivePosts), i <= Len(LivePosts) - t.left
      PROVE  t.outcome[LivePosts[i]] # None
  <2>1. LivePosts[i] \in LivePost /\ outcome # None
    BY MetricsAssumption
  <2>2. i = Len(LivePosts) - s.left + 1 \/ i <= Len(LivePosts) - s.left
    BY <1>1, <1>6
  <2>3. CASE i = Len(LivePosts) - s.left + 1
    <3>1. LivePosts[i] = p
      BY <1>1, <2>3
    <3> QED
      BY <1>1, <2>1, <3>1 DEF Sync
  <2>4. CASE i <= Len(LivePosts) - s.left
    <3>1. s.outcome[LivePosts[i]] # None
      BY <1>1, <2>4 DEF SyncOK
    <3>2. t.outcome[LivePosts[i]] \in {s.outcome[LivePosts[i]], outcome}
      BY <1>1, <2>1 DEF Sync
    <3> QED
      BY <2>1, <3>1, <3>2
  <2> QED
    BY <2>2, <2>3, <2>4
<1>7. SyncOK(t, readings', today')
  <2>1. t.since <= today'
    BY <1>1 DEF SyncOK
  <2>2. t.pc = "done" <=> t.left = 0
    BY <1>1
  <2>3. t.pc # "insert"
    OBVIOUS
  <2> HIDE DEF t
  <2> QED
    BY <1>5, <1>6, <2>1, <2>2, <2>3 DEF SyncOK
<1>8. t.alone = s.alone /\ today' \in 0..MaxNow
  BY DEF MetricInv
<1> HIDE DEF t
<1> QED
  BY <1>2, <1>4, <1>7, <1>8, OneSyncMoves

\* Rows that are added leave the syncs that are not at hand.
LEMMA SyncStands ==
  ASSUME NEW rows \in Seq(Reading), NEW x \in Reading, NEW s \in Sync, NEW now,
         SyncOK(s, rows, now), ~s.alone \/ x.at < s.since
  PROVE  SyncOK(s, Append(rows, x), now)
<1>1. \A p \in LivePost : Stands(s, Append(rows, x), p)
  BY ReadingStands DEF SyncOK
<1> QED
  BY <1>1 DEF SyncOK

\* An insert leaves the rows before it as they are.
LEMMA ReadingIsAdded ==
  ASSUME readings \in Seq(Reading), NEW x \in Reading, AppendReading(x)
  PROVE  /\ readings' = Append(readings, x) /\ readings' \in Seq(Reading)
         /\ Len(readings') \in Nat \ {0} /\ readings'[Len(readings')] = x
BY DEF AppendReading

\* A sync starts with every live post before it.
LEMMA SyncStartKeeps == ASSUME MetricInv, NEW r \in Request, SyncStart(r) PROVE MetricInv'
<1> DEFINE s == [pc |-> IF LivePosts = <<>> THEN "done" ELSE "next", left |-> Len(LivePosts),
                 fetched |-> None, since |-> today,
                 row |-> [p \in LivePost |-> 0],
                 outcome |-> [p \in LivePost |-> None],
                 alone |-> \A q \in Request \ {r} : syncs[q] = Idle \/ syncs[q].pc = "done"]
<1>1. syncs' = [q \in Request |-> IF q = r THEN s
                                 ELSE IF syncs[q] = Idle THEN Idle
                                 ELSE [syncs[q] EXCEPT !.alone = FALSE]]
      /\ UNCHANGED <<readings, today>>
  BY DEF SyncStart
<1>2. s \in Sync /\ s # Idle
  <2>1. Len(LivePosts) \in 0..Len(LivePosts) /\ today \in 0..MaxNow
    BY MetricsAssumption DEF MetricInv
  <2>2. [p \in LivePost |-> 0] \in [LivePost -> Nat]
        /\ [p \in LivePost |-> None] \in [LivePost -> Outcome \cup {None}]
    OBVIOUS
  <2>3. s.alone \in BOOLEAN
    OBVIOUS
  <2>4. s \in Sync
    BY <2>1, <2>2, <2>3 DEF Sync
  <2> HIDE DEF s
  <2> QED
    BY <2>4, SyncIsNotIdle
<1>3. SyncOK(s, readings, today)
  <2>1. s.pc = "done" <=> s.left = 0
    BY MetricsAssumption
  <2>2. \A p \in LivePost : Stands(s, readings, p)
    BY MetricsAssumption DEF Stands, Outcome
  <2>3. today <= today
    BY DEF MetricInv
  <2>4. ASSUME NEW i \in 1..Len(LivePosts) PROVE ~(i <= Len(LivePosts) - s.left)
    BY MetricsAssumption
  <2> QED
    BY <2>1, <2>2, <2>3, <2>4 DEF SyncOK
<1>4. ASSUME NEW q \in Request, q # r, syncs[q] # Idle
      PROVE  /\ [syncs[q] EXCEPT !.alone = FALSE] \in Sync
             /\ ~[syncs[q] EXCEPT !.alone = FALSE].alone
             /\ SyncOK([syncs[q] EXCEPT !.alone = FALSE], readings, today)
  <2>1. syncs[q] \in Sync /\ SyncOK(syncs[q], readings, today)
    BY <1>4 DEF MetricInv
  <2> DEFINE o == syncs[q]
             t == [o EXCEPT !.alone = FALSE]
  <2>2. t \in Sync
    BY <2>1 DEF Sync
  <2>3. /\ t.pc = o.pc /\ t.left = o.left /\ t.fetched = o.fetched /\ t.since = o.since
        /\ t.row = o.row /\ t.outcome = o.outcome /\ ~t.alone
    BY <2>1 DEF Sync
  <2> HIDE DEF t
  <2>4. \A p \in LivePost : Stands(t, readings, p)
    BY <2>1, <2>3 DEF SyncOK, Stands
  <2>5. SyncOK(t, readings, today)
    BY <2>1, <2>3, <2>4 DEF SyncOK
  <2> QED
    BY <2>2, <2>3, <2>5 DEF t
<1> HIDE DEF s
<1>5. syncs' \in [Request -> Sync \cup {Idle}]
  BY <1>1, <1>2, <1>4
<1>6. ASSUME NEW q \in Request, syncs'[q] # Idle PROVE SyncOK(syncs'[q], readings', today')
  BY <1>1, <1>3, <1>4, <1>6
<1>7. ASSUME NEW a \in Request, NEW b \in Request, a # b, syncs'[a] # Idle, syncs'[a].alone
      PROVE  Over(syncs'[b])
  <2>1. a = r /\ s.alone
    BY <1>1, <1>4, <1>7
  <2>2. syncs[b] = Idle \/ syncs[b].pc = "done"
    BY <1>7, <2>1 DEF s
  <2>3. CASE syncs[b] = Idle
    BY <1>1, <1>7, <2>1, <2>3 DEF Over
  <2>4. CASE syncs[b] # Idle
    <3>1. syncs[b] \in Sync
      BY <2>4 DEF MetricInv
    <3>2. syncs'[b] = [syncs[b] EXCEPT !.alone = FALSE]
      BY <1>1, <1>7, <2>1, <2>4
    <3>3. syncs'[b].pc = syncs[b].pc
      BY <3>1, <3>2 DEF Sync
    <3> QED
      BY <2>2, <2>4, <3>3 DEF Over
  <2> QED
    BY <2>3, <2>4
<1> QED
  BY <1>1, <1>5, <1>6, <1>7 DEF MetricInv

\* A post skipped or failed is noted, and the sync goes on.
LEMMA SyncGivesUpKeeps ==
  ASSUME MetricInv, NEW r \in Request, SyncSkips(r) \/ SyncFails(r)
  PROVE  MetricInv'
<1>1. /\ UNCHANGED <<readings, today>> /\ syncs[r] # Idle /\ syncs[r].pc # "done"
      /\ SyncNotes(r, "skipped") \/ SyncNotes(r, "failed")
  BY DEF SyncSkips, SyncFails, SyncCatches, Idle
<1>2. /\ \A q \in Request : syncs[q] # Idle => SyncOK(syncs[q], readings', today)
      /\ readings' \in Seq(Reading)
  BY <1>1 DEF MetricInv
<1>3. \A p \in LivePost : Stands(syncs[r], readings', p)
  BY <1>1, <1>2 DEF SyncOK
<1>4. PICK outcome \in {"skipped", "failed"} : SyncNotes(r, outcome)
  BY <1>1
<1>5. outcome \in Outcome /\ outcome # "synced"
  BY DEF Outcome
<1> QED
  BY <1>1, <1>2, <1>3, <1>4, <1>5, SyncNotesPost

\* What was fetched waits for its insert.
LEMMA SyncFetchesKeeps == ASSUME MetricInv, NEW r \in Request, SyncFetches(r) PROVE MetricInv'
<1>1. PICK v \in Reach : syncs' = [syncs EXCEPT ![r] = [@ EXCEPT !.pc = "insert", !.fetched = v]]
  BY DEF SyncFetches
<1> DEFINE o == syncs[r]
           s == [o EXCEPT !.pc = "insert", !.fetched = v]
<1>2. /\ o \in Sync /\ SyncOK(o, readings, today) /\ o.pc = "next" /\ o # Idle
      /\ UNCHANGED <<readings, today>>
  BY DEF SyncFetches, MetricInv, Idle
<1>3. /\ s.pc = "insert" /\ s.left = o.left /\ s.fetched = v /\ s.since = o.since
      /\ s.row = o.row /\ s.outcome = o.outcome /\ s.alone = o.alone
  BY <1>2 DEF Sync
<1>4. s \in Sync
  BY <1>2 DEF Sync
<1> HIDE DEF s
<1>5. \A p \in LivePost : Stands(s, readings, p)
  BY <1>2, <1>3 DEF SyncOK, Stands
<1>6. SyncOK(s, readings, today)
  BY <1>2, <1>3, <1>5 DEF SyncOK
<1>7. syncs' = [syncs EXCEPT ![r] = s]
  BY <1>1 DEF s
<1>8. /\ readings' \in Seq(Reading) /\ today' \in 0..MaxNow /\ SyncOK(s, readings', today')
      /\ \A q \in Request \ {r} : syncs[q] # Idle => SyncOK(syncs[q], readings', today')
  BY <1>2, <1>6 DEF MetricInv
<1> QED
  BY <1>2, <1>3, <1>4, <1>7, <1>8, OneSyncMoves

\* An inserted reading is the row the sync notes for its post.
LEMMA SyncInsertsKeeps == ASSUME MetricInv, NEW r \in Request, SyncInserts(r) PROVE MetricInv'
<1> DEFINE s == syncs[r]
           x == [post |-> SyncedPost(r), reach |-> s.fetched, at |-> today]
<1>1. /\ s.pc = "insert" /\ s # Idle /\ s.pc # "done" /\ AppendReading(x)
      /\ SyncNotes(r, "synced") /\ today' = today
  BY DEF SyncInserts, Idle
<1>2. /\ s \in Sync /\ SyncOK(s, readings, today) /\ SyncedPost(r) \in LivePost
      /\ readings \in Seq(Reading) /\ today \in 0..MaxNow
  BY <1>1, PostAtHand DEF MetricInv
<1>3. x \in Reading
  BY <1>1, <1>2, MetricsAssumption DEF SyncOK, Reading
<1>4. x.post = SyncedPost(r) /\ x.at = today
  OBVIOUS
<1> HIDE DEF x, s
<1>5. /\ readings' = Append(readings, x) /\ readings' \in Seq(Reading)
      /\ Len(readings') \in Nat \ {0} /\ readings'[Len(readings')] = x
  BY <1>1, <1>2, <1>3, ReadingIsAdded
<1>6. \A p \in LivePost : p # SyncedPost(r) => Stands(s, readings', p)
  BY <1>2, <1>3, <1>4, <1>5, ReadingStands DEF SyncOK
<1>7. ASSUME NEW q \in Request \ {r}, syncs[q] # Idle PROVE SyncOK(syncs[q], readings', today)
  <2>1. syncs[q] \in Sync /\ SyncOK(syncs[q], readings, today)
    BY <1>7 DEF MetricInv
  <2>2. ~syncs[q].alone
    BY <1>1, <1>7 DEF MetricInv, Over, s
  <2> QED
    BY <1>2, <1>3, <1>5, <2>1, <2>2, SyncStands
<1>8. today >= s.since
  BY <1>2 DEF SyncOK, Sync
<1> QED
  BY <1>1, <1>4, <1>5, <1>6, <1>7, <1>8, SyncNotesPost DEF s, Outcome

\* A manual reading leaves the syncs under way their rows.
LEMMA AppendManualKeeps ==
  ASSUME MetricInv, NEW p \in LivePost, NEW v \in Reach, NEW at \in 0..MaxNow + 1,
         AppendManual(p, v, at)
  PROVE  MetricInv'
<1> DEFINE x == [post |-> p, reach |-> v, at |-> at]
           less(q) == [syncs[q] EXCEPT !.alone = FALSE]
<1>1. /\ AppendReading(x) /\ today' = today /\ today \in 0..MaxNow /\ readings \in Seq(Reading)
      /\ syncs' = [q \in Request |-> IF syncs[q] = Idle THEN Idle
                                     ELSE IF at < syncs[q].since THEN syncs[q] ELSE less(q)]
  BY DEF AppendManual, MetricInv
<1>2. x \in Reading /\ x.at = at
  BY DEF Reading
<1> HIDE DEF x
<1>3. readings' = Append(readings, x) /\ readings' \in Seq(Reading)
  BY <1>1, <1>2, ReadingIsAdded
<1>4. ASSUME NEW q \in Request, syncs[q] # Idle
      PROVE  /\ syncs'[q] \in Sync /\ SyncOK(syncs'[q], readings', today)
             /\ syncs'[q].pc = syncs[q].pc
             /\ syncs'[q].alone => syncs[q].alone
  <2>1. syncs[q] \in Sync /\ SyncOK(syncs[q], readings, today)
    BY <1>4 DEF MetricInv
  <2>2. CASE at < syncs[q].since
    <3>1. syncs'[q] = syncs[q]
      BY <1>1, <1>4, <2>2
    <3>2. SyncOK(syncs[q], readings', today)
      BY <1>1, <1>2, <1>3, <2>1, <2>2, SyncStands
    <3> QED
      BY <2>1, <3>1, <3>2
  <2>3. CASE ~(at < syncs[q].since)
    <3> DEFINE o == syncs[q]
               t == [o EXCEPT !.alone = FALSE]
    <3>1. syncs'[q] = t
      BY <1>1, <1>4, <2>3
    <3>2. t \in Sync
      BY <2>1 DEF Sync
    <3>3. /\ t.pc = o.pc /\ t.left = o.left /\ t.fetched = o.fetched /\ t.since = o.since
          /\ t.row = o.row /\ t.outcome = o.outcome /\ ~t.alone
      BY <2>1 DEF Sync
    <3> HIDE DEF t
    <3>4. \A y \in LivePost : Stands(t, readings, y)
      BY <2>1, <3>3 DEF SyncOK, Stands
    <3>5. SyncOK(t, readings, today)
      BY <2>1, <3>3, <3>4 DEF SyncOK
    <3>6. SyncOK(t, readings', today)
      BY <1>1, <1>2, <1>3, <3>2, <3>3, <3>5, SyncStands
    <3> QED
      BY <3>1, <3>2, <3>3, <3>6
  <2> QED
    BY <2>2, <2>3
<1>5. \A q \in Request : syncs[q] = Idle => syncs'[q] = Idle
  BY <1>1
<1>6. syncs' \in [Request -> Sync \cup {Idle}]
  BY <1>1, <1>4, <1>5
<1>7. \A q \in Request : syncs'[q] # Idle => SyncOK(syncs'[q], readings', today')
  BY <1>1, <1>4, <1>5
<1>8. ASSUME NEW a \in Request, NEW b \in Request, a # b, syncs'[a] # Idle, syncs'[a].alone
      PROVE  Over(syncs'[b])
  <2>1. syncs[a] # Idle /\ syncs[a].alone
    BY <1>4, <1>5, <1>8
  <2>2. Over(syncs[b])
    BY <1>8, <2>1 DEF MetricInv
  <2> QED
    BY <1>4, <1>5, <2>2 DEF Over
<1> QED
  BY <1>1, <1>3, <1>6, <1>7, <1>8 DEF MetricInv

\* Time passing leaves every reading where it is.
LEMMA MetricTickKeeps == ASSUME MetricInv, MetricTick PROVE MetricInv'
<1>1. today' = today + 1 /\ today' \in 0..MaxNow /\ UNCHANGED <<readings, syncs>>
  BY MetricsAssumption DEF MetricTick, MetricInv
<1>2. ASSUME NEW r \in Request, syncs[r] # Idle PROVE SyncOK(syncs[r], readings, today')
  <2>1. SyncOK(syncs[r], readings, today) /\ syncs[r] \in Sync /\ today \in Nat
    BY <1>2 DEF MetricInv
  <2>2. syncs[r].since <= today'
    BY <1>1, <2>1 DEF SyncOK, Sync
  <2> QED
    BY <2>1, <2>2 DEF SyncOK
<1> QED
  BY <1>1, <1>2 DEF MetricInv

\* The metrics invariant is inductive.
LEMMA MetricNext1 == MetricInv /\ [MetricNext]_metricVars => MetricInv'
<1> SUFFICES ASSUME MetricInv, [MetricNext]_metricVars PROVE MetricInv'
  OBVIOUS
<1>1. CASE UNCHANGED metricVars
  BY <1>1 DEF metricVars, MetricInv
<1>2. CASE MetricNext
  BY <1>2, SyncStartKeeps, SyncGivesUpKeeps, SyncFetchesKeeps, SyncInsertsKeeps,
     AppendManualKeeps, MetricTickKeeps DEF MetricNext
<1> QED
  BY <1>1, <1>2

\* A sync that is over has dealt with every post, and what it read is shown.
LEMMA SyncsAreShown == MetricInv => SyncIsFaithful
<1> SUFFICES ASSUME MetricInv, NEW r \in Request, syncs[r] # Idle, syncs[r].pc = "done"
             PROVE  /\ \A p \in LivePost : syncs[r].outcome[p] # None
                    /\ syncs[r].alone =>
                         \A p \in LivePost, order \in Orders :
                           syncs[r].outcome[p] = "synced" =>
                             LET row == DashboardLatest(order, p)
                             IN row = syncs[r].row[p] \/ readings[row].at > readings[syncs[r].row[p]].at
  BY DEF SyncIsFaithful
<1> DEFINE s == syncs[r]
<1>1. s \in Sync /\ SyncOK(s, readings, today) /\ readings \in Seq(Reading)
  BY DEF MetricInv
<1>2. ASSUME NEW p \in LivePost PROVE s.outcome[p] # None
  <2>1. PICK i \in 1..Len(LivePosts) : LivePosts[i] = p
    BY MetricsAssumption DEF LivePost
  <2>2. s.left = 0
    BY <1>1 DEF SyncOK
  <2>3. i <= Len(LivePosts) - s.left
    BY <2>2, MetricsAssumption
  <2> QED
    BY <1>1, <2>1, <2>3 DEF SyncOK
<1>3. ASSUME s.alone, NEW p \in LivePost, NEW order \in Orders, s.outcome[p] = "synced"
      PROVE  LET row == DashboardLatest(order, p)
             IN row = s.row[p] \/ readings[row].at > readings[s.row[p]].at
  <2> DEFINE row == DashboardLatest(order, p)
             i == s.row[p]
  <2>1. /\ i \in Rows /\ readings[i].post = p
        /\ \A j \in Rows : j > i /\ readings[j].post = p => readings[j].at # readings[i].at
    BY <1>1, <1>3 DEF SyncOK, Stands, Rows
  <2>2. /\ row = 0 => RowsOf(p) = {}
        /\ row # 0 => row \in RowsOf(p) /\ \A j \in RowsOf(p) : j = row \/ IsNewer(row, j)
    BY <1>1, DashboardTakesTheNewest
  <2> HIDE DEF row, i
  <2>3. i \in RowsOf(p)
    BY <2>1 DEF RowsOf
  <2>4. row \in RowsOf(p) /\ (i = row \/ IsNewer(row, i))
    BY <2>2, <2>3
  <2>5. row \in Rows /\ readings[row].post = p
    BY <2>4 DEF RowsOf
  <2>6. row = i \/ readings[row].at > readings[i].at
    BY <2>1, <2>4, <2>5 DEF IsNewer
  <2> QED
    BY <2>6 DEF row, i
<1> QED
  BY <1>2, <1>3

\* For any posts, readings and syncs: a sync that ran alone answers what it stored,
\* and dashboard, trend and report show the same numbers as long as no post has two
\* readings of one instant (metrics.service.ts, dashboard.service.ts, reports.service.ts).
THEOREM MetricsStayFaithful == MetricSpec => []MetricsAreFaithful
<1>1. MetricInv => MetricsAreFaithful
  BY SyncsAreShown, ReadersAgree DEF MetricInv, MetricsAreFaithful
<1> QED
  BY <1>1, MetricInit1, MetricNext1, PTL DEF MetricSpec

\* Readings, and the syncs over them, keep their types (metrics.service.ts).
THEOREM MetricTypes == MetricSpec => []MetricTypeOK
<1>1. MetricInv => MetricTypeOK
  BY DEF MetricInv, MetricTypeOK, Sync, Reading
<1> QED
  BY <1>1, MetricInit1, MetricNext1, PTL DEF MetricSpec
=============================================================================
