----------------------------- MODULE Comments -----------------------------
(***************************************************************************)
(* Comment aggregation: the syncs that pull comments from the platforms    *)
(* into the comments table, the negative-spike alerts they raise, and the  *)
(* retention controls that delete rows.  One tick of the clock is half an  *)
(* hour, so that the rolling window and the hourly bucket differ.          *)
(***************************************************************************)
EXTENDS Naturals, FiniteSets

CONSTANTS
  Posts,       \* live posts on Facebook or YouTube
  Ids,         \* a comment is a post and an id
  NegativeIds, \* the ids of comments the classifier finds negative
  Rows,        \* primary keys a comments row may get; none is used twice
  Processes,   \* API processes, each with its own syncInFlight flag
  None,
  Window,      \* ESCALATION_WINDOW_MINUTES, in ticks
  Threshold,   \* ESCALATION_THRESHOLD
  Retention,   \* RETENTION_MONTHS, in ticks
  MaxNow,      \* bound: the clock stops there
  MaxFaults    \* bound: failed database calls, lost answers and dead processes

ASSUME CommentsAssumption ==
  /\ NegativeIds \subseteq Ids
  /\ None \notin Posts \X Ids
  /\ IsFiniteSet(Posts) /\ IsFiniteSet(Ids) /\ IsFiniteSet(Rows)
  /\ {Window, Threshold, Retention, MaxNow, MaxFaults} \subseteq Nat
  /\ Window <= Retention /\ Threshold > 0

Comment == Posts \X Ids
Time == 0..MaxNow
TicksPerHour == 2

VARIABLES
  now,
  written,   \* the comments on the platforms
  createdAt, \* when each was written: collected_at of its rows
  ext,       \* comments.(platform, external_comment_id), kept for deleted rows
  deleted,   \* rows that were erased or purged
  alerts,    \* escalation_alerts: window_start, window_end, acknowledged
  raised,    \* how many alerts were ever inserted for a bucket
  pc, todo, snapshot, failed, evalAt,  \* per process: its sync
  read, received,  \* per process: posts an adapter answered for, and what it answered
  faults

table == <<ext, deleted>>
ledger == <<alerts, raised>>
clock == <<now, written, createdAt>>
syncs == <<pc, todo, snapshot, failed, evalAt, read, received>>
commentVars == <<clock, table, ledger, syncs, faults>>

\* Mutant: rounds up.
BucketCeiling(t) == t + (t % TicksPerHour)

\* floorToHour.
Bucket(t) == t - (t % TicksPerHour)
Alert == [bucket : Time, at : Time, acknowledged : BOOLEAN]
SyncPc == {"idle", "posts", "evaluate", "raise"}

TypeOK ==
  /\ now \in Time
  /\ written \subseteq Comment
  /\ createdAt \in [Comment -> Time]
  /\ ext \in [Rows -> Comment \cup {None}]
  /\ deleted \subseteq Rows
  /\ alerts \subseteq Alert
  /\ raised \in [Time -> Nat]
  /\ pc \in [Processes -> SyncPc]
  /\ todo \in [Processes -> SUBSET Posts]
  /\ snapshot \in [Processes -> SUBSET Comment]
  /\ failed \in [Processes -> SUBSET Posts]
  /\ evalAt \in [Processes -> Time]
  /\ read \in [Processes -> SUBSET Posts]
  /\ received \in [Processes -> SUBSET Comment]
  /\ faults \in 0..MaxFaults

Init ==
  /\ now = 0
  /\ written = {}
  /\ createdAt = [c \in Comment |-> 0]
  /\ ext = [x \in Rows |-> None]
  /\ deleted = {}
  /\ alerts = {}
  /\ raised = [t \in Time |-> 0]
  /\ pc = [s \in Processes |-> "idle"]
  /\ todo = [s \in Processes |-> {}]
  /\ snapshot = [s \in Processes |-> {}]
  /\ failed = [s \in Processes |-> {}]
  /\ evalAt = [s \in Processes |-> 0]
  /\ read = [s \in Processes |-> {}]
  /\ received = [s \in Processes |-> {}]
  /\ faults = 0

Fault == faults < MaxFaults /\ faults' = faults + 1

-----------------------------------------------------------------------------
(* The platforms and the clock.                                            *)

Tick ==
  /\ now < MaxNow
  /\ now' = now + 1
  /\ UNCHANGED <<written, createdAt, table, ledger, syncs, faults>>

WriteComment(c) ==
  /\ c \notin written
  /\ written' = written \cup {c}
  /\ createdAt' = [createdAt EXCEPT ![c] = now]
  /\ UNCHANGED <<now, table, ledger, syncs, faults>>

-----------------------------------------------------------------------------
(* The comments table.                                                     *)

Stored == {x \in Rows : ext[x] # None} \ deleted

\* Mutant: without the index createMany inserts whatever it is given.
NeverStored(c) == FALSE

\* The partial unique index on (platform, external_comment_id).
AlreadyStored(c) == \E x \in Stored : ext[x] = c

\* eraseOne, on a data subject's request.
Erase(x) ==
  /\ x \in Stored
  /\ deleted' = deleted \cup {x}
  /\ UNCHANGED <<clock, ext, ledger, syncs, faults>>

Purge ==
  LET old == {x \in Stored : createdAt[ext[x]] + Retention < now} IN
  /\ old # {}
  /\ deleted' = deleted \cup old
  /\ UNCHANGED <<clock, ext, ledger, syncs, faults>>

-----------------------------------------------------------------------------
(* CommentIngestionService.syncComments.                                   *)

Goto(s, step) == pc' = [pc EXCEPT ![s] = step]

\* The flag is checked and set without an await in between; the eligible posts
\* are read once.
StartSync(s) ==
  /\ pc[s] = "idle"
  /\ Goto(s, "posts")
  /\ todo' = [todo EXCEPT ![s] = Posts]
  /\ UNCHANGED <<clock, table, ledger, snapshot, failed, evalAt, read, received, faults>>

\* One post at a time: the next is fetched when the snapshots of the last one
\* have been dealt with.  The adapter reads one page, and drops rows it cannot
\* use; an answer whose body cannot be read counts as an empty page.
FetchComments(s, p) ==
  /\ pc[s] = "posts" /\ snapshot[s] = {}
  /\ p \in todo[s]
  /\ todo' = [todo EXCEPT ![s] = @ \ {p}]
  /\ read' = [read EXCEPT ![s] = @ \cup {p}]
  /\ \E page \in SUBSET {c \in written : c[1] = p} :
       /\ snapshot' = [snapshot EXCEPT ![s] = page]
       /\ received' = [received EXCEPT ![s] = @ \cup page]
  /\ UNCHANGED <<clock, table, ledger, pc, failed, evalAt, faults>>

\* Mutant: one failure ends the batch.
FetchFailsBatch(s, p) ==
  /\ pc[s] = "posts" /\ snapshot[s] = {}
  /\ p \in todo[s]
  /\ todo' = [todo EXCEPT ![s] = {}]
  /\ failed' = [failed EXCEPT ![s] = @ \cup {p}]
  /\ UNCHANGED <<clock, table, ledger, pc, snapshot, evalAt, read, received, faults>>

\* No account, no valid token, or the platform refuses: this post is skipped.
FetchFails(s, p) ==
  /\ pc[s] = "posts" /\ snapshot[s] = {}
  /\ p \in todo[s]
  /\ todo' = [todo EXCEPT ![s] = @ \ {p}]
  /\ failed' = [failed EXCEPT ![s] = @ \cup {p}]
  /\ UNCHANGED <<clock, table, ledger, pc, snapshot, evalAt, read, received, faults>>

\* persistSnapshot: createMany with skipDuplicates never touches a stored row.
PersistSnapshot(s, c) ==
  /\ c \in snapshot[s]
  /\ IF AlreadyStored(c)
     THEN UNCHANGED ext
     ELSE \E x \in Rows : ext[x] = None /\ ext' = [ext EXCEPT ![x] = c]
  /\ snapshot' = [snapshot EXCEPT ![s] = @ \ {c}]
  /\ UNCHANGED <<clock, deleted, ledger, pc, todo, failed, evalAt, read, received, faults>>

\* An insert fails: the rest of this post's snapshots are given up.
PersistFails(s, c) ==
  /\ c \in snapshot[s]
  /\ Fault
  /\ snapshot' = [snapshot EXCEPT ![s] = {}]
  /\ failed' = [failed EXCEPT ![s] = @ \cup {c[1]}]
  /\ UNCHANGED <<clock, table, ledger, pc, todo, evalAt, read, received>>

EndBatch(s) ==
  /\ pc[s] = "posts" /\ snapshot[s] = {} /\ todo[s] = {}
  /\ Goto(s, "evaluate")
  /\ UNCHANGED <<clock, table, ledger, todo, snapshot, failed, evalAt, read, received, faults>>

\* The sync returns, throws, or dies with its process: the flag is cleared.
EndSync(s) ==
  /\ Goto(s, "idle")
  /\ todo' = [todo EXCEPT ![s] = {}]
  /\ snapshot' = [snapshot EXCEPT ![s] = {}]
  /\ failed' = [failed EXCEPT ![s] = {}]
  /\ evalAt' = [evalAt EXCEPT ![s] = 0]
  /\ read' = [read EXCEPT ![s] = {}]
  /\ received' = [received EXCEPT ![s] = {}]

SyncDies(s) ==
  /\ pc[s] # "idle"
  /\ Fault
  /\ EndSync(s)
  /\ UNCHANGED <<clock, table, ledger>>

-----------------------------------------------------------------------------
(* EscalationService.                                                      *)

InWindow(t, at) == t <= at /\ at <= t + Window

\* Mutant: the lower bound of the window is forgotten.
NegativeRowsEver ==
  {x \in Stored : ext[x][2] \in NegativeIds /\ createdAt[ext[x]] <= now}

\* What the COUNT query counts: rows.
NegativeRows ==
  {x \in Stored : ext[x][2] \in NegativeIds /\ InWindow(createdAt[ext[x]], now)}

\* evaluate: count first, insert afterwards.
Evaluate(s) ==
  /\ pc[s] = "evaluate"
  /\ IF Cardinality(NegativeRows) >= Threshold
     THEN /\ Goto(s, "raise")
          /\ evalAt' = [evalAt EXCEPT ![s] = now]
          /\ UNCHANGED <<todo, snapshot, failed, read, received>>
     ELSE EndSync(s)
  /\ UNCHANGED <<clock, table, ledger, faults>>

\* The unique index on (rule_key, window_start).
BucketAlerted(b) == \E a \in alerts : a.bucket = b

RaiseAlert(s) ==
  LET b == Bucket(evalAt[s]) IN
  /\ pc[s] = "raise"
  /\ IF BucketAlerted(b)
     THEN UNCHANGED ledger
     ELSE /\ alerts' = alerts \cup {[bucket |-> b, at |-> evalAt[s], acknowledged |-> FALSE]}
          /\ raised' = [raised EXCEPT ![b] = @ + 1]
  /\ EndSync(s)
  /\ UNCHANGED <<clock, table, faults>>

\* Mutant: an acknowledged alert is removed.
AcknowledgeDeletes(a) ==
  /\ ~a.acknowledged
  /\ alerts' = alerts \ {a}
  /\ UNCHANGED <<clock, table, raised, syncs, faults>>

Acknowledge(a) ==
  /\ ~a.acknowledged
  /\ alerts' = (alerts \ {a}) \cup {[a EXCEPT !.acknowledged = TRUE]}
  /\ UNCHANGED <<clock, table, raised, syncs, faults>>

-----------------------------------------------------------------------------

SyncStep(s) ==
  \/ StartSync(s) \/ EndBatch(s) \/ Evaluate(s) \/ RaiseAlert(s) \/ SyncDies(s)
  \/ \E p \in todo[s] : FetchComments(s, p) \/ FetchFails(s, p)
  \/ \E c \in snapshot[s] : PersistSnapshot(s, c) \/ PersistFails(s, c)

CommentStep ==
  \/ Tick \/ Purge
  \/ \E c \in Comment : WriteComment(c)
  \/ \E x \in Rows : Erase(x)
  \/ \E s \in Processes : SyncStep(s)
  \/ \E a \in alerts : Acknowledge(a)

Spec == Init /\ [][CommentStep]_commentVars

-----------------------------------------------------------------------------

\* Re-syncs and concurrent syncs insert no duplicate: what is stored of a
\* comment is one row.
OneRowPerComment ==
  \A x, y \in Stored : ext[x] = ext[y] => x = y

\* One alert per hourly bucket, whatever syncs run at once and although alerts
\* are acknowledged and comments deleted meanwhile.
AlertOncePerBucket == \A t \in Time : raised[t] <= 1

\* An alert is about a real spike: Threshold different negative comments were
\* written within the window that ends when it was evaluated.
AlertMeansSpike ==
  \A a \in alerts :
    Cardinality({c \in written : /\ c[2] \in NegativeIds
                                 /\ InWindow(createdAt[c], a.at)}) >= Threshold

\* Per-post failure isolation: a sync that gets to its escalation has read every
\* post that did not fail, whatever happened to the others, and of those posts
\* each comment an adapter answered has got its row (which may have been deleted
\* again since), although other syncs stored some of them and erasures deleted
\* others meanwhile.  A comment that no answer held, for it is not on the first
\* page, is not promised.
SyncIsComplete ==
  \A s \in Processes : pc[s] = "evaluate" =>
    /\ read[s] \cup failed[s] = Posts
    /\ \A c \in received[s] : c[1] \notin failed[s] => \E x \in Rows : ext[x] = c
=============================================================================
