--------------------------- MODULE RankingFactors ---------------------------
(***************************************************************************)
(* The two ranking engines' arithmetic for one content and one platform.   *)
(* Values are in units of 1/10000 as round4 leaves them, weights in        *)
(* hundredths.  The facts the factors are computed from change as metrics  *)
(* arrive, posts go live, admins decide and policies are set.              *)
(***************************************************************************)
EXTENDS Integers

CONSTANTS
  NoPolicy,     \* no row in the policy table
  Ratio,        \* target ratios, in percent
  Cadence,      \* targets of posts per period
  Average,      \* averages of engagement and of revenue
  Automated,    \* whether the platform has automated sync
  MaxLive, MaxDecisions

ASSUME RankingFactorsAssumption ==
  /\ Ratio \subseteq 0..100 /\ Cadence \subseteq Nat /\ Average \subseteq Nat
  /\ {MaxLive, MaxDecisions} \subseteq Nat
  /\ NoPolicy \notin Nat

VARIABLE facts

Facts ==
  [engagement : Average \cup {0}, overallEngagement : Average \cup {0},   \* this platform, all
   revenue : Average \cup {0}, overallRevenue : Average \cup {0},
   measured : BOOLEAN,                                  \* any reading of the platform
   ratio : Ratio \cup {NoPolicy}, cadence : Cadence \cup {NoPolicy},
   live : 0..MaxLive,                                   \* posts that went live
   ofPillar : 0..MaxLive, onPlatform : 0..MaxLive,
   decisions : 0..MaxDecisions, away : 0..MaxDecisions, toward : 0..MaxDecisions]

\* The launch state: nothing measured, published, decided or set.
FactorsInit ==
  facts = [engagement |-> 0, overallEngagement |-> 0, revenue |-> 0, overallRevenue |-> 0,
           measured |-> FALSE, ratio |-> NoPolicy, cadence |-> NoPolicy,
           live |-> 0, ofPillar |-> 0, onPlatform |-> 0,
           decisions |-> 0, away |-> 0, toward |-> 0]

-----------------------------------------------------------------------------
(* Numbers.                                                                *)

\* Math.round of 10000 n/d
Round4(n, d) == (20000 * n + d) \div (2 * d)

Clamp(n, d) == IF n < 0 THEN 0 ELSE IF n > d THEN d ELSE n

Neutral == 5000

Contribution(weight, value) == (2 * weight * value + 100) \div 200

-----------------------------------------------------------------------------
(* The factors.                                                            *)

\* relativeShare, as a fraction
RelativeShare(own, overall) == IF own + overall = 0 THEN <<1, 2>> ELSE <<own, own + overall>>

EngagementHistory(f) ==
  IF ~f.measured \/ f.engagement + f.overallEngagement = 0
    THEN Neutral
    ELSE Round4(f.engagement, f.engagement + f.overallEngagement)

\* v2 blends engagement and revenue half and half.
EngagementHistoryV2(f) ==
  LET e == RelativeShare(f.engagement, f.overallEngagement)
      r == RelativeShare(f.revenue, f.overallRevenue)
  IN IF ~f.measured THEN Neutral
     ELSE Round4(e[1] * r[2] + r[1] * e[2], 2 * e[2] * r[2])

ApiAvailability == IF Automated THEN 10000 ELSE 4000

PillarAlignment(f) ==
  IF f.ratio = NoPolicy THEN Neutral
  ELSE IF f.live = 0 THEN Round4(Clamp(50 + f.ratio, 100), 100)
  ELSE Round4(Clamp(f.live * (50 + f.ratio) - 100 * f.ofPillar, 100 * f.live), 100 * f.live)

CadencePressure(f) ==
  IF f.cadence = NoPolicy \/ f.cadence = 0 THEN Neutral
  ELSE Round4(Clamp(f.cadence - f.onPlatform, f.cadence), f.cadence)

MinSample == 5

OverrideRate(f) ==
  Round4(Clamp(f.decisions + f.toward - f.away, 2 * f.decisions), 2 * f.decisions)

OverrideFeedback(f) == IF f.decisions < MinSample THEN Neutral ELSE OverrideRate(f)

\* RankingEngineService.scoreOnePlatform, FACTOR_WEIGHTS
TotalV1(f) ==
  Contribution(35, EngagementHistory(f)) + Contribution(20, ApiAvailability)
  + Contribution(20, PillarAlignment(f)) + Contribution(25, CadencePressure(f))

\* RankingEngineV2Service.scoreOnePlatform, FACTOR_WEIGHTS_V2
TotalV2(f) ==
  Contribution(30, EngagementHistoryV2(f)) + Contribution(20, OverrideFeedback(f))
  + Contribution(20, CadencePressure(f)) + Contribution(15, PillarAlignment(f))
  + Contribution(15, ApiAvailability)

\* The scheduler's own idea of the same target.
TargetMet(f) == f.cadence # NoPolicy /\ f.onPlatform >= f.cadence

-----------------------------------------------------------------------------
(* What changes the facts.                                                 *)

\* New readings move the averages anywhere.
MetricArrives(own, overall, earned, overallEarned) ==
  facts' = [facts EXCEPT !.measured = TRUE,
                         !.engagement = own, !.overallEngagement = overall,
                         !.revenue = earned, !.overallRevenue = overallEarned]

PostGoesLive(samePillar, samePlatform) ==
  /\ facts.live < MaxLive
  /\ facts' = [facts EXCEPT !.live = @ + 1,
                            !.ofPillar = IF samePillar THEN @ + 1 ELSE @,
                            !.onPlatform = IF samePlatform THEN @ + 1 ELSE @]

\* A publish: this platform was passed over, chosen against the engine, or neither.
DecisionMade(kind) ==
  /\ facts.decisions < MaxDecisions
  /\ facts' = [facts EXCEPT !.decisions = @ + 1,
                            !.away = IF kind = "away" THEN @ + 1 ELSE @,
                            !.toward = IF kind = "toward" THEN @ + 1 ELSE @]

PolicySet(ratio, cadence) ==
  facts' = [facts EXCEPT !.ratio = ratio, !.cadence = cadence]

FactorsNext ==
  \/ \E a, b, c, d \in Average : MetricArrives(a, b, c, d)
  \/ \E samePillar, samePlatform \in BOOLEAN : PostGoesLive(samePillar, samePlatform)
  \/ \E kind \in {"away", "toward", "other"} : DecisionMade(kind)
  \/ \E ratio \in Ratio \cup {NoPolicy}, cadence \in Cadence \cup {NoPolicy} :
       PolicySet(ratio, cadence)

FactorsSpec == FactorsInit /\ [][FactorsNext]_facts

-----------------------------------------------------------------------------
FactorsTypeOK == facts \in Facts

\* Whatever the facts, both totals are shares of one; the admin's own past
\* decisions move a v2 total by at most a tenth, never against the way most of
\* them went, and not at all below five decisions; the ranking feels no pressure
\* once the scheduler calls the target met, and only then unless the target is so
\* high that round4 loses a missing post.
ScoresAreAdvisory ==
  /\ \A total \in {TotalV1(facts), TotalV2(facts)} : total >= 0 /\ total <= 10000
  /\ LET swing == Contribution(20, OverrideFeedback(facts)) - Contribution(20, Neutral) IN
     /\ swing \in -1000..1000
     /\ facts.decisions < MinSample => swing = 0
     /\ facts.toward >= facts.away => swing >= 0
     /\ facts.toward <= facts.away => swing <= 0
  /\ facts.cadence \notin {NoPolicy, 0} =>
       /\ TargetMet(facts) => CadencePressure(facts) = 0
       /\ CadencePressure(facts) = 0 /\ facts.cadence <= 20000 => TargetMet(facts)

\* One more live post never makes the engine more eager to publish again on
\* the same platform, or for the same pillar.
PublishingLowersPressure ==
  [][/\ facts'.onPlatform > facts.onPlatform => CadencePressure(facts') <= CadencePressure(facts)
     /\ facts'.ofPillar > facts.ofPillar => PillarAlignment(facts') <= PillarAlignment(facts)]_facts
=============================================================================
