------------------------------ MODULE Metrics ------------------------------
(***************************************************************************)
(* Readings of published posts.  A sync asks the platform for every live   *)
(* post in turn and appends a reading dated when it is inserted; an admin  *)
(* appends one dated as the form says, in the past or in the future.       *)
(* Nothing stops two syncs from overlapping.  The dashboard, its drill     *)
(* down, its trend and the CSV report each compute "the latest reading".   *)
(***************************************************************************)
EXTENDS BackOffice

CONSTANTS
  LivePosts,    \* the posts with an API platform, in the order of postedAt
  PostContent,  \* post -> content
  Reach,        \* what a platform may report
  MaxNow,       \* bound: the clock
  MaxReadings   \* bound: rows of the table

LivePost == {LivePosts[i] : i \in DOMAIN LivePosts}

Outcome == {"synced", "skipped", "failed"}

ASSUME MetricsAssumption ==
  /\ LivePosts \in Seq(LivePost)
  /\ \A i, j \in DOMAIN LivePosts : i # j => LivePosts[i] # LivePosts[j]
  /\ Reach \subseteq Nat
  /\ {MaxNow, MaxReadings} \subseteq Nat
  /\ None \notin Outcome

VARIABLES
  readings,     \* the table of metrics, in the order of createdAt
  syncs,        \* per request: a sync in progress, or its result
  today         \* the clock

metricVars == <<readings, syncs, today>>

MetricTypeOK ==
  /\ readings \in Seq([post : LivePost, reach : Reach, at : 0..MaxNow + 1])
  /\ \A r \in Request : syncs[r] # Idle =>
       /\ syncs[r].pc \in {"next", "insert", "done"}
       /\ syncs[r].left \in 0..Len(LivePosts)
       /\ syncs[r].outcome \in [LivePost -> Outcome \cup {None}]
  /\ today \in 0..MaxNow

MetricInit ==
  /\ readings = <<>>
  /\ syncs = [r \in Request |-> Idle]
  /\ today = 0

-----------------------------------------------------------------------------
(* The read models, over the rows that the database returns sorted by      *)
(* collectedAt, `at`: ties come in any order.                              *)

Sorted(order) == \A i, j \in DOMAIN order : i < j => readings[order[i]].at <= readings[order[j]].at

Orders == {order \in [DOMAIN readings -> DOMAIN readings] :
             Sorted(order) /\ \A i, j \in DOMAIN order : i # j => order[i] # order[j]}

\* isNewer of the dashboard, between two row numbers
IsNewer(a, b) ==
  \/ readings[a].at > readings[b].at
  \/ readings[a].at = readings[b].at /\ a > b

\* The comparison of the report, in the order read: an equal date replaces.
ReplacesInReport(a, b) == readings[a].at >= readings[b].at

\* The row a pass over the rows of post p ends with, or 0; replaces is a
\* relation between rows.
Latest(order, p, replaces) ==
  LET after[i \in 0..Len(readings)] ==
        IF i = 0 THEN 0
        ELSE IF readings[order[i]].post = p /\ (after[i-1] = 0 \/ <<order[i], after[i-1]>> \in replaces)
               THEN order[i]
               ELSE after[i-1]
  IN after[Len(readings)]

Pairs == (DOMAIN readings) \X (DOMAIN readings)

ReportLatest(order, p) == Latest(order, p, {ab \in Pairs : ReplacesInReport(ab[1], ab[2])})

DashboardLatest(order, p) == Latest(order, p, {ab \in Pairs : IsNewer(ab[1], ab[2])})

\* buildTrend: the last row replayed for p by the end of a day.  A day is an instant here.
TrendAt(order, p, day) ==
  LET upTo == {i \in DOMAIN order : readings[order[i]].post = p /\ readings[order[i]].at <= day}
  IN IF upTo = {} THEN 0 ELSE order[CHOOSE i \in upTo : \A j \in upTo : j <= i]

\* The reach a set of rows adds up to; row 0 is no row.
TallyOf(rowOf, ps) ==
  LET upTo[i \in 0..Len(LivePosts)] ==
        IF i = 0 THEN 0
        ELSE upTo[i-1] + (IF LivePosts[i] \in ps /\ rowOf[LivePosts[i]] # 0
                            THEN readings[rowOf[LivePosts[i]]].reach ELSE 0)
  IN upTo[Len(LivePosts)]

\* Totals of the overview, of a content's drill-down, of the trend's last day.
Overview(order) == TallyOf([p \in LivePost |-> DashboardLatest(order, p)], LivePost)

Drilldown(order, c) ==
  TallyOf([p \in LivePost |-> DashboardLatest(order, p)], {p \in LivePost : PostContent[p] = c})

TrendEnd(order) == TallyOf([p \in LivePost |-> TrendAt(order, p, MaxNow + 1)], LivePost)

-----------------------------------------------------------------------------
SyncStart(r) ==
  /\ syncs[r] = Idle \/ syncs[r].pc = "done"
  /\ syncs' = [q \in Request |->
       IF q = r
         THEN [pc |-> IF LivePosts = <<>> THEN "done" ELSE "next",
               left |-> Len(LivePosts), fetched |-> None, since |-> today,
               row |-> [p \in LivePost |-> 0],
               outcome |-> [p \in LivePost |-> None],
               alone |-> \A s \in Request \ {r} : syncs[s] = Idle \/ syncs[s].pc = "done"]
         ELSE IF syncs[q] = Idle THEN Idle ELSE [syncs[q] EXCEPT !.alone = FALSE]]
  /\ UNCHANGED <<readings, today>>

SyncedPost(r) == LivePosts[Len(LivePosts) - syncs[r].left + 1]

\* One post is finished with: the loop goes on with the next one.
SyncNotes(r, outcome) ==
  LET p == SyncedPost(r)
      s == syncs[r]
  IN syncs' = [syncs EXCEPT ![r] =
       [pc |-> IF s.left = 1 THEN "done" ELSE "next", left |-> s.left - 1,
        fetched |-> None, since |-> s.since,
        row |-> [s.row EXCEPT ![p] = IF outcome = "synced" THEN Len(readings') ELSE 0],
        outcome |-> [s.outcome EXCEPT ![p] = outcome], alone |-> s.alone]]

\* Mutant: the failure of a post leaves the loop.
SyncAborts(r) ==
  syncs' = [syncs EXCEPT ![r].outcome[SyncedPost(r)] = "failed", ![r].pc = "done", ![r].left = 0]

\* catch: the failure of a post is kept to the post.
SyncCatches(r) == SyncNotes(r, "failed")

\* No account of the platform is connected at this moment.
SyncSkips(r) ==
  /\ syncs[r].pc = "next"
  /\ UNCHANGED <<readings, today>>
  /\ SyncNotes(r, "skipped")

\* The token cannot be had, the platform does not answer, or the insert fails.
SyncFails(r) ==
  /\ syncs[r].pc \in {"next", "insert"}
  /\ UNCHANGED <<readings, today>>
  /\ SyncCatches(r)

\* What the platform answers, and whether an account is connected, may have
\* changed since the last post.
SyncFetches(r) ==
  /\ syncs[r].pc = "next"
  /\ \E v \in Reach : syncs' = [syncs EXCEPT ![r].pc = "insert", ![r].fetched = v]
  /\ UNCHANGED <<readings, today>>

AppendReading(row) == Len(readings) < MaxReadings /\ readings' = Append(readings, row)

SyncInserts(r) ==
  /\ syncs[r].pc = "insert"
  /\ AppendReading([post |-> SyncedPost(r), reach |-> syncs[r].fetched, at |-> today])
  /\ SyncNotes(r, "synced")
  /\ UNCHANGED today

\* appendManual: the date is the form's.  What a sync found is superseded.
AppendManual(p, reach, at) ==
  /\ AppendReading([post |-> p, reach |-> reach, at |-> at])
  /\ syncs' = [r \in Request |-> IF syncs[r] = Idle THEN Idle
                                 ELSE IF at < syncs[r].since THEN syncs[r]
                                 ELSE [syncs[r] EXCEPT !.alone = FALSE]]
  /\ UNCHANGED today

MetricTick ==
  /\ today < MaxNow
  /\ today' = today + 1
  /\ UNCHANGED <<readings, syncs>>

MetricNext ==
  \/ \E r \in Request : \/ SyncStart(r) \/ SyncSkips(r) \/ SyncFails(r)
                        \/ SyncFetches(r) \/ SyncInserts(r)
  \/ \E p \in LivePost, v \in Reach, at \in 0..MaxNow + 1 : AppendManual(p, v, at)
  \/ MetricTick

MetricSpec == MetricInit /\ [][MetricNext]_metricVars

-----------------------------------------------------------------------------
\* Whatever posts failed on the way, a sync that is over has an outcome for
\* every post; and if no other sync ran beside it and no manual reading of
\* its start or later came in, the dashboard shows for each synced post the
\* reading of this sync, unless a reading dated in the future hides it.
SyncIsFaithful ==
  \A r \in Request : syncs[r] # Idle /\ syncs[r].pc = "done" =>
    /\ \A p \in LivePost : syncs[r].outcome[p] # None
    /\ syncs[r].alone =>
         \A p \in LivePost, order \in Orders :
           syncs[r].outcome[p] = "synced" =>
             LET row == DashboardLatest(order, p)
             IN row = syncs[r].row[p] \/ readings[row].at > readings[syncs[r].row[p]].at

\* What the posts of the other contents add up to.
OtherContents(order, c) ==
  TallyOf([p \in LivePost |-> DashboardLatest(order, p)], {p \in LivePost : PostContent[p] # c})

\* Without two readings of one post at one date, the report and the last day of
\* the trend take the row the dashboard takes, so that the trend ends at the
\* totals of the overview, in whatever order the database returns rows of equal date; with or without,
\* a content's drill-down is its share of the overview: with what the posts of
\* the other contents add up to it makes the overview.
ReadModelsAgree ==
  LET tied == \E i, j \in DOMAIN readings :
                i # j /\ readings[i].post = readings[j].post /\ readings[i].at = readings[j].at
      contents == {PostContent[p] : p \in LivePost}
  IN \A order \in Orders :
       /\ ~tied =>
            /\ \A p \in LivePost : /\ ReportLatest(order, p) = DashboardLatest(order, p)
                                  /\ TrendAt(order, p, MaxNow + 1) = DashboardLatest(order, p)
            /\ TrendEnd(order) = Overview(order)
       /\ \A c \in contents :
            Drilldown(order, c) + OtherContents(order, c) = Overview(order)

\* What is synced is what is shown, by every read model.
MetricsAreFaithful == SyncIsFaithful /\ ReadModelsAgree
=============================================================================
