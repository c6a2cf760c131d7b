------------------------------ MODULE Ranking ------------------------------
(***************************************************************************)
(* Ranking runs of one content and the reads of their scores.  A run       *)
(* scores every platform of the active engine and inserts the rows in one  *)
(* transaction, dated when it begins; a restart of the server may change   *)
(* the engine.  The scheduler reads the scores once, the publish flow in   *)
(* two queries: the scores, then the recommendation.                       *)
(***************************************************************************)
EXTENDS BackOffice, RankingFactors

CONSTANTS
  Engine,       \* versions of the engine
  TieBreak,     \* the platforms, the one a tie goes to first
  RanksOn,      \* engine -> the platforms it scores
  Score,        \* totals a run may give
  MaxRuns,      \* bound: runs
  MaxRankClock  \* bound: the clock

Ranked == {TieBreak[i] : i \in DOMAIN TieBreak}

ScoreRow == [run : 1..MaxRuns, by : Engine, platform : Ranked, score : Score, at : 0..MaxRankClock]

ASSUME RankingAssumption ==
  /\ TieBreak \in Seq(Ranked) /\ Score \subseteq Nat
  /\ RanksOn \in [Engine -> SUBSET Ranked]
  /\ {MaxRuns, MaxRankClock} \subseteq Nat
  /\ None \notin ScoreRow

VARIABLES
  engine,      \* RANKING_ENGINE, resolved at start
  scores,      \* the rows of ranking_scores
  ranking,     \* per request: a run or a recommendation under way
  runs,        \* number of runs begun, which numbers them
  rankClock

rankingVars == <<engine, scores, ranking, runs, rankClock>>

RankingTypeOK ==
  /\ engine \in Engine
  /\ scores \subseteq ScoreRow
  /\ \A r \in Request : ranking[r] # Idle =>
       CASE ranking[r].pc = "insert" -> ranking[r].rows \subseteq ScoreRow
         [] ranking[r].pc \in {"again", "decided"} ->
              /\ ranking[r].selected \in ScoreRow \cup {None}
              /\ ranking[r].recommended \in ScoreRow \cup {None}
  /\ runs \in 0..MaxRuns
  /\ rankClock \in 0..MaxRankClock

RankingInit ==
  /\ engine \in Engine
  /\ scores = {}
  /\ ranking = [r \in Request |-> Idle]
  /\ runs = 0
  /\ rankClock = 0

-----------------------------------------------------------------------------
\* Mutant: BUG-P5-02, rows of every engine.
OfAnyEngine(e) == scores

\* where: { engineVersion: this.activeEngine.version }
OfEngine(e) == {row \in scores : row.by = e}

\* latestScorePerPlatform over LATEST_SCORE_ORDER_BY: one of the youngest rows
\* of each platform.  Which, when two runs began at one instant, is up to the
\* database.
LatestScores ==
  LET rows == OfEngine(engine)
      youngest == {row \in rows : \A other \in rows :
                     other.platform = row.platform => other.at <= row.at}
      of == {row.platform : row \in rows}
  IN {latest \in SUBSET youngest :
        /\ {row.platform : row \in latest} = of
        /\ \A a, b \in latest : a.platform = b.platform => a = b}

RankIn(platform) == CHOOSE i \in DOMAIN TieBreak : TieBreak[i] = platform

\* One step of the reduce of pickRecommendedScore.
Beats(a, b) ==
  \/ a.score > b.score
  \/ a.score = b.score /\ RankIn(a.platform) < RankIn(b.platform)

\* The rows the reduce may end with, by the order the rows are listed in.
Recommendable(rows) == {row \in rows : \A other \in rows : ~Beats(other, row)}

-----------------------------------------------------------------------------
\* The run scores each platform, then opens its transaction.
RankBegins(r) ==
  /\ ranking[r] = Idle
  /\ runs < MaxRuns
  /\ \E total \in [RanksOn[engine] -> Score] :
       ranking' = [ranking EXCEPT ![r] =
         [pc |-> "insert",
          rows |-> {[run |-> runs + 1, by |-> engine, platform |-> p, score |-> total[p],
                     at |-> rankClock] : p \in RanksOn[engine]}]]
  /\ runs' = runs + 1
  /\ UNCHANGED <<engine, scores, rankClock>>

\* The rows become visible together.
RankCommits(r) ==
  /\ ranking[r].pc = "insert"
  /\ scores' = scores \cup ranking[r].rows
  /\ ranking' = [q \in Request |->
       IF q = r THEN Idle
       ELSE IF ranking[q].pc = "again" THEN [ranking[q] EXCEPT !.quiet = FALSE]
       ELSE ranking[q]]
  /\ UNCHANGED <<engine, runs, rankClock>>

RankAborts(r) ==
  /\ ranking[r].pc = "insert"
  /\ ranking' = [ranking EXCEPT ![r] = Idle]
  /\ UNCHANGED <<engine, scores, runs, rankClock>>

\* recomputeRecommendation: getLatestScores ...
RecommendReads(r, platform) ==
  /\ ranking[r] = Idle
  /\ \E latest \in LatestScores :
       ranking' = [ranking EXCEPT ![r] =
         [pc |-> "again", on |-> platform, recommended |-> None, quiet |-> TRUE,
          floor |-> {row.at : row \in OfEngine(engine)},
          selected |-> IF \E row \in latest : row.platform = platform
                         THEN CHOOSE row \in latest : row.platform = platform
                         ELSE None]]
  /\ UNCHANGED <<engine, scores, runs, rankClock>>

\* ... then getRecommendation, which reads the scores again.
RecommendDecides(r) ==
  /\ ranking[r].pc = "again"
  /\ \E latest \in LatestScores :
       \E best \in IF latest = {} THEN {None} ELSE Recommendable(latest) :
         ranking' = [ranking EXCEPT ![r].pc = "decided", ![r].recommended = best]
  /\ UNCHANGED <<engine, scores, runs, rankClock>>

WasOverride(r) ==
  ranking[r].recommended # None /\ ranking[r].recommended.platform # ranking[r].on

RecommendEnds(r) ==
  /\ ranking[r].pc = "decided"
  /\ ranking' = [ranking EXCEPT ![r] = Idle]
  /\ UNCHANGED <<engine, scores, runs, rankClock>>

\* The server goes down and comes up with one engine or the other.
RankServerRestarts ==
  /\ engine' \in Engine
  /\ ranking' = [r \in Request |-> Idle]
  /\ UNCHANGED <<scores, runs, rankClock>>

RankTick ==
  /\ rankClock < MaxRankClock
  /\ rankClock' = rankClock + 1
  /\ UNCHANGED <<engine, scores, ranking, runs>>

RankingNext ==
  \/ \E r \in Request : \/ RankBegins(r) \/ RankCommits(r) \/ RankAborts(r)
                        \/ RecommendDecides(r) \/ RecommendEnds(r)
                        \/ \E p \in Ranked : RecommendReads(r, p)
  \/ RankServerRestarts
  \/ RankTick

RankingSpec == RankingInit /\ [][RankingNext]_rankingVars

-----------------------------------------------------------------------------
\* After any runs, aborts and changes of engine, the latest scores are one
\* whole run of the engine in force, or none, unless two runs began at one
\* instant: scores of two engines, or of two runs, are never compared.
LatestScoresAreOneRun ==
  \A latest \in LatestScores : latest # {} =>
    /\ {row.platform : row \in latest} = RanksOn[engine]
    /\ \/ \E row \in latest : latest = {other \in scores : other.run = row.run}
       \/ \E a, b \in scores : a.run # b.run /\ a.at = b.at

\* The publish flow's decision and the scheduler's are the same function of
\* the scores, in whatever order those are listed; the decision is of the
\* engine in force and no older than the scores that stood when it was asked
\* for, and the score of the platform the admin chose is from the same run
\* unless a run committed in between or two began at one instant.
RecommendationIsOfItsTime ==
  /\ \A latest \in LatestScores : \A a, b \in Recommendable(latest) : a = b
  /\ \A r \in Request : ranking[r].pc = "decided" =>
       LET chosen == ranking[r].selected
           best   == ranking[r].recommended
       IN /\ best = None => ranking[r].floor = {} /\ ~WasOverride(r)
          /\ best # None => best.by = engine /\ \A at \in ranking[r].floor : best.at >= at
          /\ chosen # None /\ best # None /\ ranking[r].quiet =>
               \/ chosen.run = best.run /\ best.score >= chosen.score
               \/ \E a, b \in scores : a.run # b.run /\ a.at = b.at

\* The scores compared, and the recommendation made of them, are of one run.
RankingIsConsistent == LatestScoresAreOneRun /\ RecommendationIsOfItsTime

\* Scores are of one run and the recommendation of its time; the factors
\* behind them advise only, and publishing never makes the engine more eager.
RankingIsSound == [](RankingIsConsistent /\ ScoresAreAdvisory) /\ PublishingLowersPressure
=============================================================================
