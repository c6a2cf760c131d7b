----------------------------- MODULE Retention -----------------------------
(***************************************************************************)
(* The audit trail and what is removed of personal data: audited           *)
(* operations whose rows land late or never, the two retention rules, the  *)
(* daily job that runs both in turn, and the comment syncs that bring      *)
(* purged comments back.  Time is counted in days.                         *)
(***************************************************************************)
EXTENDS BackOffice

CONSTANTS
  AuditedEvent,     \* things that happen and are audited
  OldComment,       \* comments the platform serves to every sync
  NameWindow,       \* AUDIT_ACTOR_ANONYMIZE_AFTER_DAYS
  CommentWindow,    \* RETENTION_MONTHS
  Overflows,        \* days that do not exist a year before: setMonth spills over
  MaxRetentionClock \* bound: the clock

ASSUME RetentionAssumption == NameWindow \in Nat /\ MaxRetentionClock \in Nat

VARIABLES
  trail,          \* per event: nothing yet, a row on its way, lost, or the row
  inbox,          \* per comment: its collectedAt, or None
  sweep,          \* the job: idle, in one of its halves, or in its last write
  forgotten,      \* history: when names were last anonymized
  retentionClock

retentionVars == <<trail, inbox, sweep, forgotten, retentionClock>>

Day == 0..MaxRetentionClock
Failure == "auth.login.failure"
AuditRow == [at : {"trail"}, action : {Failure, "other"}, actor : {"named", "[anonymized]"},
             timestamp : Day, createdAt : Day]
Pending == [at : {"pending"}, action : {Failure, "other"}, timestamp : Day]

RetentionTypeOK ==
  /\ trail \in [AuditedEvent -> {Idle, [at |-> "lost"]} \cup Pending \cup AuditRow]
  /\ inbox \in [OldComment -> Day \cup {None}]
  /\ sweep \in {Idle} \cup [pc : {"purge", "anonymize"}]
               \cup [pc : {"write"}, now : Day, job : BOOLEAN]
  /\ forgotten \in Day
  /\ retentionClock \in Day

RetentionInit ==
  /\ trail = [e \in AuditedEvent |-> Idle]
  /\ inbox = [c \in OldComment |-> None]
  /\ sweep = Idle
  /\ forgotten = 0
  /\ retentionClock = 0

IsRow(e) == trail[e] \in AuditRow

-----------------------------------------------------------------------------
\* record: the operation is over; its row is left to be written.
Record(e, action) ==
  /\ trail[e] = Idle
  /\ trail' = [trail EXCEPT ![e] = [at |-> "pending", action |-> action,
                                    timestamp |-> retentionClock]]
  /\ UNCHANGED <<inbox, sweep, forgotten, retentionClock>>

\* persist: createdAt is the database's.  The refused identifier is the actor.
PersistRow(e) ==
  /\ trail[e] \in Pending
  /\ trail' = [trail EXCEPT ![e] = [at |-> "trail", action |-> @.action, actor |-> "named",
                                    timestamp |-> @.timestamp, createdAt |-> retentionClock]]
  /\ UNCHANGED <<inbox, sweep, forgotten, retentionClock>>

\* The insert fails and is only logged, or the process dies first.
LoseRow(e) ==
  /\ trail[e] \in Pending
  /\ trail' = [trail EXCEPT ![e] = [at |-> "lost"]]
  /\ UNCHANGED <<inbox, sweep, forgotten, retentionClock>>

\* A sync stores every comment it does not have, under the platform's time.
SyncBrings(c, written) ==
  /\ inbox[c] = None
  /\ written <= retentionClock
  /\ inbox' = [inbox EXCEPT ![c] = written]
  /\ UNCHANGED <<trail, sweep, forgotten, retentionClock>>

-----------------------------------------------------------------------------
\* subtractMonths: a day that does not exist becomes the one after it.
PastComment(at, now) ==
  at + CommentWindow < now + IF now \in Overflows THEN 1 ELSE 0

PurgeExpired ==
  inbox' = [c \in OldComment |->
              IF inbox[c] # None /\ PastComment(inbox[c], retentionClock) THEN None
              ELSE inbox[c]]

\* Mutant: the time of the event is taken for the time its row was written.
ExpiredByEvent(row, now) == row.action = Failure /\ row.timestamp + NameWindow < now

\* The rows that anonymizeExpiredActors takes, with its cutoff from now.
ExpiredName(row, now) == row.action = Failure /\ row.createdAt + NameWindow < now

\* PdpaRetentionProcessor.process, and the endpoints that run one half each
SweepStarts ==
  /\ sweep = Idle
  /\ sweep' = [pc |-> "purge"]
  /\ UNCHANGED <<trail, inbox, forgotten, retentionClock>>

SweepPurges ==
  /\ sweep = [pc |-> "purge"]
  /\ PurgeExpired
  /\ sweep' = [pc |-> "anonymize"]
  /\ UNCHANGED <<trail, forgotten, retentionClock>>

AdminPurges ==
  /\ sweep = Idle
  /\ PurgeExpired
  /\ UNCHANGED <<trail, sweep, forgotten, retentionClock>>

\* The cutoff is fixed before the update is sent.
AnonymizeStarts ==
  /\ sweep \in {Idle, [pc |-> "anonymize"]}
  /\ sweep' = [pc |-> "write", now |-> retentionClock, job |-> sweep # Idle]
  /\ UNCHANGED <<trail, inbox, forgotten, retentionClock>>

AnonymizeWrites ==
  /\ sweep # Idle /\ sweep.pc = "write"
  /\ trail' = [e \in AuditedEvent |->
                 IF IsRow(e) /\ ExpiredName(trail[e], sweep.now)
                   THEN [trail[e] EXCEPT !.actor = "[anonymized]"]
                   ELSE trail[e]]
  /\ forgotten' = sweep.now
  /\ sweep' = Idle
  /\ UNCHANGED <<inbox, retentionClock>>

\* Either half throws, or the worker dies: the job starts over at its next run.
SweepFails ==
  /\ sweep # Idle
  /\ sweep' = Idle
  /\ UNCHANGED <<trail, inbox, forgotten, retentionClock>>

RetentionTick ==
  /\ retentionClock < MaxRetentionClock
  /\ retentionClock' = retentionClock + 1
  /\ UNCHANGED <<trail, inbox, sweep, forgotten>>

RetentionNext ==
  \/ \E e \in AuditedEvent : \/ \E action \in {Failure, "other"} : Record(e, action)
                             \/ PersistRow(e) \/ LoseRow(e)
  \/ \E c \in OldComment, written \in Day : SyncBrings(c, written)
  \/ SweepStarts \/ SweepPurges \/ AdminPurges
  \/ AnonymizeStarts \/ AnonymizeWrites \/ SweepFails
  \/ RetentionTick

RetentionSpec == RetentionInit /\ [][RetentionNext]_retentionVars

-----------------------------------------------------------------------------
\* Of the failed logins whose rows had been in the trail for longer than the
\* window when names were last removed, none is still named; and whatever
\* lands late, fails or is swept twice, no row leaves the trail, no other
\* action ever loses its actor, and no failed login loses it while its row is
\* within the window.
NamesLastTheWindow ==
  /\ [](\A e \in AuditedEvent : IsRow(e) /\ ExpiredName(trail[e], forgotten)
          => trail[e].actor = "[anonymized]")
  /\ [][\A e \in AuditedEvent : IsRow(e) =>
          \/ trail'[e] = trail[e]
          \/ /\ trail'[e] = [trail[e] EXCEPT !.actor = "[anonymized]"]
             /\ trail[e].action = Failure
             /\ retentionClock - trail[e].createdAt > NameWindow]_retentionVars
=============================================================================
