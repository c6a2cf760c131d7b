-------------------------- MODULE CommentsProofs --------------------------
(***************************************************************************)
(* Proofs about Comments for any number of posts, ids, rows, processes and *)
(* faults, and any window, threshold and retention; and about CommentReply *)
(* for any number of requests beside.  What the syncs and deletions of     *)
(* Comments do to a reply is used only through the facts that they leave   *)
(* the reply columns alone, and that the row of a stored comment keeps its *)
(* key.                                                                    *)
(***************************************************************************)
EXTENDS CommentReply, AdapterAnswers, FiniteSetTheorems, TLAPS

\* The hour a tick falls in starts at a tick of the model, not after it.
LEMMA BucketIsATime ==
  ASSUME NEW t \in Time
  PROVE  Bucket(t) \in Time
BY CommentsAssumption DEF Bucket, TicksPerHour, Time

\* A counted fault stays within the bound.
LEMMA FaultTyped ==
  ASSUME faults \in 0..MaxFaults, Fault
  PROVE  faults' \in 0..MaxFaults
BY CommentsAssumption DEF Fault

-----------------------------------------------------------------------------
(* Types.                                                                  *)

LEMMA TypesInit == Init => TypeOK
BY CommentsAssumption DEF Init, TypeOK, Time, SyncPc, Comment

\* Every step keeps the types: one case per action.
LEMMA TypesStep ==
  ASSUME TypeOK, [CommentStep]_commentVars
  PROVE  TypeOK'
<1> USE CommentsAssumption DEF TypeOK
<1>1. CASE Tick
  BY SMTT(40), <1>1 DEF Tick, table, ledger, syncs, Time
<1>2. CASE Purge
  BY <1>2 DEF Purge, clock, ledger, syncs, Stored
<1>3. ASSUME NEW c \in Comment, WriteComment(c)  PROVE TypeOK'
  BY <1>3 DEF WriteComment, table, ledger, syncs
<1>4. ASSUME NEW x \in Rows, Erase(x)  PROVE TypeOK'
  BY <1>4 DEF Erase, clock, ledger, syncs
<1>5. ASSUME NEW a \in alerts, Acknowledge(a)  PROVE TypeOK'
  <2>1. [a EXCEPT !.acknowledged = TRUE] \in Alert
    BY DEF Alert
  <2> QED  BY <1>5, <2>1 DEF Acknowledge, clock, table, syncs
<1>6. ASSUME NEW s \in Processes, SyncStep(s)  PROVE TypeOK'
  <2>0. 0 \in Time
    BY DEF Time
  <2>1. CASE StartSync(s)
    BY <2>1 DEF StartSync, Goto, clock, table, ledger, SyncPc
  <2>2. CASE EndBatch(s)
    BY <2>2 DEF EndBatch, Goto, clock, table, ledger, SyncPc
  <2>3. CASE Evaluate(s)
    BY <2>0, <2>3 DEF Evaluate, EndSync, Goto, clock, table, ledger, SyncPc
  <2>4. CASE RaiseAlert(s)
    <3>1. Bucket(evalAt[s]) \in Time
      BY BucketIsATime
    <3>2. [bucket |-> Bucket(evalAt[s]), at |-> evalAt[s], acknowledged |-> FALSE] \in Alert
      BY <3>1 DEF Alert
    <3>3. alerts' \subseteq Alert /\ raised' \in [Time -> Nat]
      <4> DEFINE b == Bucket(evalAt[s])
      <4>1. CASE UNCHANGED ledger
        BY <4>1 DEF ledger
      <4>2. CASE raised' = [raised EXCEPT ![b] = @ + 1]
                 /\ alerts' = alerts \cup
                      {[bucket |-> b, at |-> evalAt[s], acknowledged |-> FALSE]}
        <5> DEFINE new == [bucket |-> b, at |-> evalAt[s], acknowledged |-> FALSE]
        <5>1. b \in Time /\ new \in Alert
          BY <3>1, <3>2
        <5>2. alerts' = alerts \cup {new}
          BY <4>2
        <5> HIDE DEF b, new
        <5>3. raised' \in [Time -> Nat]
          BY <4>2, <5>1
        <5> QED  BY <5>1, <5>2, <5>3
      <4> QED  BY <2>4, <4>1, <4>2 DEF RaiseAlert
    <3> QED
      BY <2>0, <2>4, <3>3 DEF RaiseAlert, EndSync, Goto, clock, table, SyncPc
  <2>5. CASE SyncDies(s)
    BY <2>0, <2>5, FaultTyped DEF SyncDies, EndSync, Goto, clock, table, ledger, SyncPc
  <2>6. ASSUME NEW p \in todo[s], FetchComments(s, p)  PROVE TypeOK'
    BY <2>6 DEF FetchComments, clock, table, ledger
  <2>7. ASSUME NEW p \in todo[s], FetchFails(s, p)  PROVE TypeOK'
    BY <2>7 DEF FetchFails, clock, table, ledger
  <2>8. ASSUME NEW c \in snapshot[s], PersistSnapshot(s, c)  PROVE TypeOK'
    BY <2>8 DEF PersistSnapshot, clock, ledger
  <2>9. ASSUME NEW c \in snapshot[s], PersistFails(s, c)  PROVE TypeOK'
    <3>1. c[1] \in Posts
      BY DEF Comment
    <3> QED  BY <2>9, <3>1, FaultTyped DEF PersistFails, clock, table, ledger
  <2> QED
    BY <1>6, <2>1, <2>2, <2>3, <2>4, <2>5, <2>6, <2>7, <2>8, <2>9 DEF SyncStep
<1>7. CASE UNCHANGED commentVars
  BY <1>7 DEF commentVars, clock, table, ledger, syncs
<1> QED
  BY <1>1, <1>2, <1>3, <1>4, <1>5, <1>6, <1>7 DEF CommentStep

\* The state of the aggregation keeps its types, the hours of its alerts and
\* its bounds included.
THEOREM CommentTypes == Spec => []TypeOK
BY TypesInit, TypesStep, PTL DEF Spec

-----------------------------------------------------------------------------
(* The comments table.                                                     *)

\* What is in the table, or on its way there, was written on a platform.
RowsAreReal ==
  /\ \A x \in Rows : ext[x] # None => ext[x] \in written
  /\ \A s \in Processes : snapshot[s] \subseteq written

TableInv == TypeOK /\ RowsAreReal /\ OneRowPerComment

LEMMA TableInit == Init => TableInv
BY TypesInit DEF Init, TableInv, RowsAreReal, OneRowPerComment, Stored

\* A step that inserts nothing: rows may be deleted, comments written, and
\* snapshots fetched or given up.
LEMMA TableFrame ==
  ASSUME TableInv, [CommentStep]_commentVars,
         UNCHANGED ext, deleted \subseteq deleted', written \subseteq written',
         \A s \in Processes : snapshot'[s] \subseteq snapshot[s] \cup written
  PROVE  TableInv'
<1>1. TypeOK'
  BY TypesStep DEF TableInv
<1>2. RowsAreReal'
  BY DEF TableInv, RowsAreReal
<1>3. OneRowPerComment'
  BY DEF TableInv, OneRowPerComment, Stored
<1> QED  BY <1>1, <1>2, <1>3 DEF TableInv

\* What is inserted is a comment of the snapshot, of which nothing is stored.
LEMMA TablePersist ==
  ASSUME TableInv, NEW s \in Processes, NEW c \in snapshot[s], PersistSnapshot(s, c)
  PROVE  TableInv'
<1>1. TypeOK'
  <2>1. CommentStep
    BY DEF CommentStep, SyncStep
  <2> QED  BY <2>1, TypesStep DEF TableInv
<1>2. c \in written /\ c \in Comment /\ c # None
  BY CommentsAssumption DEF TableInv, RowsAreReal, TypeOK, Comment
<1>3. RowsAreReal'
  BY <1>2 DEF PersistSnapshot, TableInv, RowsAreReal, TypeOK, clock
<1>4. OneRowPerComment'
  <2>1. CASE AlreadyStored(c)
    BY <2>1 DEF PersistSnapshot, TableInv, OneRowPerComment, Stored
  <2>2. CASE ~AlreadyStored(c)
    <3>1. PICK x \in Rows : ext[x] = None /\ ext' = [ext EXCEPT ![x] = c]
      BY <2>2 DEF PersistSnapshot
    <3>2. Stored' \subseteq Stored \cup {x} /\ \A y \in Stored : ext[y] # c
      BY <2>2, <3>1 DEF PersistSnapshot, AlreadyStored, Stored, TableInv, TypeOK
    <3>3. ext'[x] = c /\ \A y \in Stored : ext'[y] = ext[y]
      BY <3>1 DEF TableInv, TypeOK, Stored
    <3> QED  BY <3>2, <3>3 DEF TableInv, OneRowPerComment
  <2> QED  BY <2>1, <2>2
<1> QED  BY <1>1, <1>3, <1>4 DEF TableInv

LEMMA TableStep ==
  ASSUME TableInv, [CommentStep]_commentVars
  PROVE  TableInv'
<1> DEFINE Quiet == /\ UNCHANGED ext /\ deleted \subseteq deleted'
                    /\ written \subseteq written'
                    /\ \A s \in Processes : snapshot'[s] \subseteq snapshot[s] \cup written
<1> USE DEF TableInv, TypeOK
<1>1. CASE Tick \/ Purge \/ UNCHANGED commentVars
  <2>1. Quiet
    BY <1>1 DEF Tick, Purge, commentVars, clock, table, syncs
  <2> QED  BY <2>1, TableFrame
<1>2. ASSUME NEW c \in Comment, WriteComment(c)  PROVE TableInv'
  <2>1. Quiet
    BY <1>2 DEF WriteComment, table, syncs
  <2> QED  BY <2>1, TableFrame
<1>3. ASSUME NEW x \in Rows, Erase(x)  PROVE TableInv'
  <2>1. Quiet
    BY <1>3 DEF Erase, clock, syncs
  <2> QED  BY <2>1, TableFrame
<1>4. ASSUME NEW a \in alerts, Acknowledge(a)  PROVE TableInv'
  <2>1. Quiet
    BY <1>4 DEF Acknowledge, clock, table, syncs
  <2> QED  BY <2>1, TableFrame
<1>5. ASSUME NEW s \in Processes, SyncStep(s)  PROVE TableInv'
  <2>1. CASE StartSync(s) \/ EndBatch(s) \/ Evaluate(s) \/ RaiseAlert(s) \/ SyncDies(s)
    <3>1. Quiet
      BY <2>1 DEF StartSync, EndBatch, Evaluate, RaiseAlert, SyncDies, EndSync, clock, table
    <3> QED  BY <3>1, TableFrame
  <2>2. ASSUME NEW p \in todo[s], FetchComments(s, p) \/ FetchFails(s, p)  PROVE TableInv'
    <3>1. Quiet
      BY <2>2 DEF FetchComments, FetchFails, clock, table
    <3> QED  BY <3>1, TableFrame
  <2>3. ASSUME NEW c \in snapshot[s], PersistFails(s, c)  PROVE TableInv'
    <3>1. Quiet
      BY <2>3 DEF PersistFails, clock, table
    <3> QED  BY <3>1, TableFrame
  <2> QED  BY <1>5, <2>1, <2>2, <2>3, TablePersist DEF SyncStep
<1> QED  BY <1>1, <1>2, <1>3, <1>4, <1>5 DEF CommentStep

\* Re-syncs and concurrent syncs of any number of processes store no comment
\* twice, while rows are erased and purged between them.
THEOREM NoDuplicateRows == Spec => []OneRowPerComment
<1>1. TableInv => OneRowPerComment
  BY DEF TableInv
<1> QED  BY <1>1, TableInit, TableStep, PTL DEF Spec

-----------------------------------------------------------------------------
(* Alerts.                                                                 *)

\* The rows of escalation_alerts are all that was ever inserted.
AlertsAreCounted ==
  \A t \in Time : raised[t] = IF BucketAlerted(t) THEN 1 ELSE 0

LEMMA AlertsInit == Init => AlertsAreCounted
BY DEF Init, AlertsAreCounted, BucketAlerted

LEMMA AlertsStep ==
  ASSUME TypeOK, AlertsAreCounted, [CommentStep]_commentVars
  PROVE  AlertsAreCounted'
<1> USE DEF AlertsAreCounted, BucketAlerted
<1>1. CASE UNCHANGED ledger
  BY <1>1 DEF ledger
<1>2. ASSUME NEW a \in alerts, Acknowledge(a)  PROVE AlertsAreCounted'
  <2>1. alerts' = (alerts \ {a}) \cup {[a EXCEPT !.acknowledged = TRUE]} /\ raised' = raised
    BY <1>2 DEF Acknowledge
  <2>2. [a EXCEPT !.acknowledged = TRUE].bucket = a.bucket
    BY DEF TypeOK, Alert
  <2>3. \A t \in Time : BucketAlerted(t)' <=> BucketAlerted(t)
    BY <2>1, <2>2
  <2> QED  BY <2>1, <2>3
<1>3. ASSUME NEW s \in Processes, RaiseAlert(s), ~BucketAlerted(Bucket(evalAt[s]))
      PROVE  AlertsAreCounted'
  <2> DEFINE b == Bucket(evalAt[s])
             new == [bucket |-> b, at |-> evalAt[s], acknowledged |-> FALSE]
  <2>1. alerts' = alerts \cup {new} /\ raised' = [raised EXCEPT ![b] = @ + 1]
    BY <1>3 DEF RaiseAlert
  <2>2. b \in Time
    BY BucketIsATime DEF TypeOK
  <2>3. new.bucket = b
    OBVIOUS
  <2>4. \A t \in Time : BucketAlerted(t)' <=> BucketAlerted(t) \/ t = b
    <3> HIDE DEF new, b
    <3> QED  BY <2>1, <2>3
  <2>5. raised[b] = 0
    BY <1>3, <2>2
  <2> HIDE DEF b
  <2> QED  BY <2>1, <2>2, <2>4, <2>5 DEF TypeOK
<1>4. CASE ~UNCHANGED ledger
  BY <1>2, <1>3, <1>4 DEF CommentStep, commentVars, SyncStep, Tick, WriteComment, Purge, Erase,
     StartSync, EndBatch, Evaluate, RaiseAlert, SyncDies, FetchComments, FetchFails,
     PersistSnapshot, PersistFails
<1> QED  BY <1>1, <1>4

\* At most one alert of an hour is ever inserted, however many processes count
\* the same spike at once.
THEOREM OneAlertPerHour == Spec => []AlertOncePerBucket
<1>1. TypeOK /\ AlertsAreCounted => AlertOncePerBucket
  BY DEF AlertsAreCounted, AlertOncePerBucket
<1>2. Init => TypeOK /\ AlertsAreCounted
  BY TypesInit, AlertsInit
<1>3. TypeOK /\ AlertsAreCounted /\ [CommentStep]_commentVars => (TypeOK /\ AlertsAreCounted)'
  BY TypesStep, AlertsStep
<1> QED  BY <1>1, <1>2, <1>3, PTL DEF Spec

-----------------------------------------------------------------------------
(* Complete syncs.                                                         *)

Known(c) == \E x \in Rows : ext[x] = c

\* What a sync has still to do covers every comment it was answered and has not
\* stored: it is of a post that failed, or in the snapshot of the post at hand.
SyncCovers(s) ==
  /\ \A c, d \in snapshot[s] : c[1] = d[1]
  /\ pc[s] = "posts" =>
       /\ read[s] \cup failed[s] \cup todo[s] = Posts
       /\ \A c \in received[s] : c[1] \notin failed[s] => c \in snapshot[s] \/ Known(c)
  /\ pc[s] = "idle" => read[s] = {} /\ received[s] = {}
  /\ pc[s] = "evaluate" =>
       /\ read[s] \cup failed[s] = Posts
       /\ \A c \in received[s] : c[1] \notin failed[s] => Known(c)

CompleteInv == TableInv /\ \A s \in Processes : SyncCovers(s)

LEMMA CompleteInit == Init => CompleteInv
BY TableInit DEF Init, CompleteInv, SyncCovers

\* The key of a row never changes.
LEMMA KeysStay ==
  ASSUME TypeOK, [CommentStep]_commentVars
  PROVE  \A x \in Rows : ext[x] # None => ext'[x] = ext[x]
<1>1. CASE UNCHANGED ext
  BY <1>1
<1>2. ASSUME NEW s \in Processes, NEW c \in snapshot[s], PersistSnapshot(s, c)
      PROVE  \A x \in Rows : ext[x] # None => ext'[x] = ext[x]
  BY <1>2 DEF PersistSnapshot, TypeOK
<1>3. CASE ~UNCHANGED ext
  BY <1>2, <1>3 DEF CommentStep, commentVars, table, SyncStep, Tick, WriteComment, Purge, Erase,
     Acknowledge, StartSync, EndBatch, Evaluate, RaiseAlert, SyncDies, FetchComments, FetchFails,
     PersistFails
<1> QED  BY <1>1, <1>3

\* A step in which the sync of s does nothing.
LEMMA CoversFrame ==
  ASSUME TypeOK, [CommentStep]_commentVars, NEW s \in Processes, SyncCovers(s),
         pc'[s] = pc[s], todo'[s] = todo[s], snapshot'[s] = snapshot[s],
         failed'[s] = failed[s], read'[s] = read[s], received'[s] = received[s]
  PROVE  SyncCovers(s)'
<1>1. \A c \in Comment : Known(c) => Known(c)'
  BY KeysStay, CommentsAssumption DEF Known, TypeOK, Comment
<1>2. received[s] \subseteq Comment
  BY DEF TypeOK
<1> QED  BY <1>1, <1>2 DEF SyncCovers

\* The steps of the sync itself.
LEMMA CoversOwnStep ==
  ASSUME TableInv, NEW s \in Processes, SyncCovers(s), SyncStep(s)
  PROVE  SyncCovers(s)'
<1>0. TypeOK /\ CommentStep /\ received[s] \subseteq Comment
  BY DEF TableInv, TypeOK, CommentStep
<1>1. CASE StartSync(s)
  BY <1>0, <1>1 DEF StartSync, Goto, clock, table, SyncCovers, TypeOK, Time, Comment
<1>2. CASE EndBatch(s)
  BY <1>0, <1>2 DEF EndBatch, Goto, clock, table, SyncCovers, Known, TypeOK
<1>3. CASE Evaluate(s) \/ RaiseAlert(s) \/ SyncDies(s)
  <2>1. CASE EndSync(s) /\ UNCHANGED <<clock, table>>
    BY <1>0, <2>1 DEF EndSync, Goto, clock, table, SyncCovers, TypeOK, Time
  <2>2. CASE Goto(s, "raise") /\ UNCHANGED <<clock, table, todo, snapshot, failed, read, received>>
    BY <1>0, <2>2 DEF Goto, clock, table, SyncCovers, TypeOK
  <2> QED  BY <1>3, <2>1, <2>2 DEF Evaluate, RaiseAlert, SyncDies
<1>4. ASSUME NEW p \in todo[s], FetchComments(s, p)  PROVE SyncCovers(s)'
  BY <1>0, <1>4 DEF FetchComments, clock, table, SyncCovers, Known, TypeOK
<1>5. ASSUME NEW p \in todo[s], FetchFails(s, p)  PROVE SyncCovers(s)'
  BY <1>0, <1>5 DEF FetchFails, clock, table, SyncCovers, Known, TypeOK
<1>6. ASSUME NEW c \in snapshot[s], PersistSnapshot(s, c)  PROVE SyncCovers(s)'
  <2>1. \A d \in Comment : Known(d) => Known(d)'
    BY <1>0, KeysStay, CommentsAssumption DEF Known, Comment
  <2>2. Known(c)'
    <3>1. CASE AlreadyStored(c)
      BY <1>6, <3>1 DEF PersistSnapshot, AlreadyStored, Stored, Known
    <3>2. CASE ~AlreadyStored(c)
      BY <1>0, <1>6, <3>2 DEF PersistSnapshot, Known, TypeOK
    <3> QED  BY <3>1, <3>2
  <2>3. /\ snapshot'[s] = snapshot[s] \ {c} /\ pc' = pc /\ todo' = todo
        /\ failed' = failed /\ read' = read /\ received' = received
    BY <1>0, <1>6 DEF PersistSnapshot, TypeOK
  <2>4. \A d \in received[s] : d \in snapshot[s] \/ Known(d) => d \in snapshot'[s] \/ Known(d)'
    BY <1>0, <2>1, <2>2, <2>3
  <2>5. \A d \in received[s] : Known(d) => Known(d)'
    BY <1>0, <2>1
  <2>6. \A d, e \in snapshot'[s] : d[1] = e[1]
    BY <2>3 DEF SyncCovers
  <2>7. pc[s] = "posts" => \A d \in received[s] : d[1] \notin failed[s] => d \in snapshot'[s] \/ Known(d)'
    BY <2>4 DEF SyncCovers
  <2>8. pc[s] = "evaluate" => \A d \in received[s] : d[1] \notin failed[s] => Known(d)'
    BY <2>5 DEF SyncCovers
  <2> QED  BY <2>3, <2>6, <2>7, <2>8 DEF SyncCovers
<1>7. ASSUME NEW c \in snapshot[s], PersistFails(s, c)  PROVE SyncCovers(s)'
  <2>1. c[1] \in Posts /\ ext' = ext
    BY <1>0, <1>7 DEF PersistFails, table, TypeOK, Comment
  <2>2. /\ snapshot'[s] = {} /\ pc' = pc /\ todo' = todo
        /\ failed'[s] = failed[s] \cup {c[1]} /\ read' = read /\ received' = received
    BY <1>0, <1>7 DEF PersistFails, TypeOK
  <2>3. \A d \in snapshot[s] : d[1] = c[1]
    BY DEF SyncCovers
  <2> QED  BY <2>1, <2>2, <2>3 DEF SyncCovers, Known
<1> QED  BY <1>1, <1>2, <1>3, <1>4, <1>5, <1>6, <1>7 DEF SyncStep

\* A sync leaves the syncs of other processes alone.
LEMMA SyncsAreApart ==
  ASSUME TypeOK, NEW s \in Processes, NEW o \in Processes \ {s}, SyncStep(o)
  PROVE  /\ pc'[s] = pc[s] /\ todo'[s] = todo[s] /\ snapshot'[s] = snapshot[s]
         /\ failed'[s] = failed[s] /\ evalAt'[s] = evalAt[s]
         /\ read'[s] = read[s] /\ received'[s] = received[s]
BY DEF TypeOK, SyncStep, StartSync, EndBatch, Evaluate, RaiseAlert, SyncDies, EndSync, Goto,
   FetchComments, FetchFails, PersistSnapshot, PersistFails

LEMMA CompleteStep ==
  ASSUME CompleteInv, [CommentStep]_commentVars
  PROVE  CompleteInv'
<1>0. TableInv' /\ TypeOK
  BY TableStep DEF CompleteInv, TableInv
<1> SUFFICES ASSUME NEW s \in Processes  PROVE SyncCovers(s)'
  BY <1>0 DEF CompleteInv
<1>1. CASE SyncStep(s)
  BY <1>1, CoversOwnStep DEF CompleteInv
<1>2. ASSUME NEW o \in Processes \ {s}, SyncStep(o)  PROVE SyncCovers(s)'
  BY <1>0, <1>2, SyncsAreApart, CoversFrame DEF CompleteInv
<1>3. CASE UNCHANGED syncs
  BY <1>0, <1>3, CoversFrame DEF CompleteInv, syncs
<1> QED
  BY <1>1, <1>2, <1>3 DEF CommentStep, commentVars, Tick, WriteComment, Purge, Erase, Acknowledge

\* A sync that gets to its escalation has read every post that did not fail, and
\* what the adapters answered of those has a row, whatever other syncs and
\* deletions do at once.
THEOREM SyncsAreComplete == Spec => []SyncIsComplete
<1>1. CompleteInv => SyncIsComplete
  BY DEF CompleteInv, SyncCovers, SyncIsComplete, Known
<1> QED  BY <1>1, CompleteInit, CompleteStep, PTL DEF Spec

-----------------------------------------------------------------------------
(* Real spikes.                                                            *)

NegativesAt(t) == {c \in written : c[2] \in NegativeIds /\ InWindow(createdAt[c], t)}

SpikeAt(t) == Cardinality(NegativesAt(t)) >= Threshold

\* Every alert, and every process about to raise one, is right about its spike.
SpikeInv ==
  /\ TableInv
  /\ \A a \in alerts : SpikeAt(a.at)
  /\ \A s \in Processes : pc[s] = "raise" => SpikeAt(evalAt[s])

LEMMA SpikeInit == Init => SpikeInv
BY TableInit DEF Init, SpikeInv

LEMMA NegativesAreFinite ==
  ASSUME TypeOK, NEW t
  PROVE  IsFiniteSet(NegativesAt(t)) /\ Cardinality(NegativesAt(t)) \in Nat
<1>1. IsFiniteSet(Comment)
  BY CommentsAssumption, FS_Product DEF Comment
<1>2. NegativesAt(t) \subseteq Comment
  BY DEF NegativesAt, TypeOK
<1>3. IsFiniteSet(NegativesAt(t))
  BY <1>1, <1>2, FS_Subset
<1> QED  BY <1>3, FS_CardinalityType

\* A spike stays one: comments keep their times, rows deleted or not.
LEMMA SpikesStay ==
  ASSUME TypeOK, [CommentStep]_commentVars, NEW t, SpikeAt(t)
  PROVE  SpikeAt(t)'
<1>1. TypeOK'
  BY TypesStep
<1>2. NegativesAt(t) \subseteq NegativesAt(t)'
  <2>1. \A c \in written : c \in written' /\ createdAt'[c] = createdAt[c]
    <3>1. CASE UNCHANGED <<written, createdAt>>
      BY <3>1
    <3>2. ASSUME NEW c \in Comment, WriteComment(c)
          PROVE  \A d \in written : d \in written' /\ createdAt'[d] = createdAt[d]
      BY <3>2 DEF WriteComment, TypeOK
    <3>3. CASE ~UNCHANGED <<written, createdAt>>
      BY <3>2, <3>3 DEF CommentStep, commentVars, clock, Tick, SyncStep, Purge, Erase,
         Acknowledge, StartSync, EndBatch, Evaluate, RaiseAlert, SyncDies, FetchComments,
         FetchFails, PersistSnapshot, PersistFails
    <3> QED  BY <3>1, <3>3
  <2> QED  BY <2>1 DEF NegativesAt
<1>3. IsFiniteSet(NegativesAt(t)') /\ Cardinality(NegativesAt(t)') \in Nat
  <2>1. NegativesAt(t)' \subseteq Comment
    BY <1>1 DEF NegativesAt, TypeOK
  <2>2. IsFiniteSet(Comment)
    BY CommentsAssumption, FS_Product DEF Comment
  <2>3. IsFiniteSet(NegativesAt(t)')
    BY <2>1, <2>2, FS_Subset
  <2> QED  BY <2>3, FS_CardinalityType
<1>4. Cardinality(NegativesAt(t)) <= Cardinality(NegativesAt(t)')
  BY <1>2, <1>3, FS_Subset
<1> QED
  BY <1>3, <1>4, NegativesAreFinite, CommentsAssumption DEF SpikeAt

\* What the COUNT query counts are different comments, for a comment has one
\* row at most.
LEMMA RowsCountComments ==
  ASSUME TableInv
  PROVE  Cardinality(NegativeRows) <= Cardinality(NegativesAt(now))
<1> DEFINE f == [x \in NegativeRows |-> ext[x]]
<1>1. \A x \in NegativeRows : x \in Stored /\ f[x] = ext[x] /\ f[x] \in NegativesAt(now)
  BY DEF TableInv, TypeOK, RowsAreReal, NegativeRows, NegativesAt, Stored
<1>2. f \in Injection(NegativeRows, NegativesAt(now))
  BY <1>1 DEF TableInv, OneRowPerComment, Injection, IsInjective
<1> QED
  BY <1>2, NegativesAreFinite, FS_Injection DEF TableInv

LEMMA SpikeStep ==
  ASSUME SpikeInv, [CommentStep]_commentVars
  PROVE  SpikeInv'
<1>0. TableInv' /\ TypeOK /\ TypeOK'
  BY TableStep DEF SpikeInv, TableInv
<1>1. \A a \in alerts : SpikeAt(a.at)'
  BY <1>0, SpikesStay DEF SpikeInv
<1>2. ASSUME NEW s \in Processes, NEW t \in Time, pc[s] = "raise", t = evalAt[s]
      PROVE  SpikeAt(t)'
  <2>1. SpikeAt(t)
    BY <1>2 DEF SpikeInv
  <2> QED  BY <1>0, <2>1, SpikesStay
<1>3. (\A a \in alerts : SpikeAt(a.at))'
  <2>1. ASSUME NEW s \in Processes, RaiseAlert(s)  PROVE \A a \in alerts' : SpikeAt(a.at)'
    <3>1. PICK t \in Time : t = evalAt[s]
      BY <1>0 DEF TypeOK
    <3>2. SpikeAt(t)'
      BY <1>2, <2>1, <3>1 DEF RaiseAlert
    <3>3. \A a \in alerts' : a \in alerts \/ a.at = t
      BY <2>1, <3>1 DEF RaiseAlert, ledger
    <3> QED  BY <1>1, <3>2, <3>3
  <2>2. ASSUME NEW a \in alerts, Acknowledge(a)  PROVE \A b \in alerts' : SpikeAt(b.at)'
    <3>1. [a EXCEPT !.acknowledged = TRUE].at = a.at
      BY <1>0 DEF TypeOK, Alert
    <3>2. \A b \in alerts' : b \in alerts \/ b.at = a.at
      BY <2>2, <3>1 DEF Acknowledge
    <3> QED  BY <1>1, <3>2
  <2>3. CASE UNCHANGED alerts
    BY <1>1, <2>3
  <2>4. CASE ~UNCHANGED alerts
    BY <2>1, <2>2, <2>4 DEF CommentStep, commentVars, ledger, SyncStep, Tick, WriteComment,
       Purge, Erase, StartSync, EndBatch, Evaluate, SyncDies, FetchComments, FetchFails,
       PersistSnapshot, PersistFails
  <2> QED  BY <2>3, <2>4
<1>4. ASSUME NEW s \in Processes, NEW t \in Time, pc'[s] = "raise", t = evalAt'[s]
      PROVE  SpikeAt(t)'
  <2>1. CASE pc[s] = "raise" /\ evalAt'[s] = evalAt[s]
    BY <1>2, <1>4, <2>1
  <2>2. CASE Evaluate(s)
    <3>1. Cardinality(NegativeRows) >= Threshold /\ t = now
      BY <1>0, <1>4, <2>2 DEF Evaluate, EndSync, Goto, TypeOK
    <3>2. SpikeAt(t)
      <4>1. IsFiniteSet(NegativeRows)
        BY CommentsAssumption, FS_Subset DEF NegativeRows, Stored
      <4> QED
        BY <1>0, <3>1, <4>1, RowsCountComments, NegativesAreFinite, FS_CardinalityType,
           CommentsAssumption DEF SpikeInv, SpikeAt
    <3> QED  BY <1>0, <3>2, SpikesStay
  <2>3. CASE ~Evaluate(s) /\ SyncStep(s)
    <3>1. pc[s] = "raise" /\ evalAt'[s] = evalAt[s]
      BY <1>0, <1>4, <2>3 DEF TypeOK, SyncPc, SyncStep, StartSync, EndBatch, RaiseAlert,
         SyncDies, EndSync, Goto, FetchComments, FetchFails, PersistSnapshot, PersistFails
    <3> QED  BY <2>1, <3>1
  <2>4. ASSUME NEW o \in Processes \ {s}, SyncStep(o)  PROVE SpikeAt(t)'
    BY <1>0, <1>4, <2>1, <2>4, SyncsAreApart
  <2>5. CASE UNCHANGED syncs
    BY <1>4, <2>1, <2>5 DEF syncs
  <2> QED
    BY <2>2, <2>3, <2>4, <2>5 DEF CommentStep, commentVars, Tick, WriteComment, Purge, Erase,
       Acknowledge
<1>5. (\A s \in Processes : pc[s] = "raise" => SpikeAt(evalAt[s]))'
  BY <1>0, <1>4 DEF TypeOK, SpikeAt, NegativesAt
<1> QED  BY <1>0, <1>3, <1>5 DEF SpikeInv

\* An alert is about as many different comments as the threshold says, written
\* within the window, although rows come and go between count and insert.
THEOREM AlertsAreReal == Spec => []AlertMeansSpike
<1>1. SpikeInv => AlertMeansSpike
  BY DEF SpikeInv, AlertMeansSpike, SpikeAt, NegativesAt
<1> QED  BY <1>1, SpikeInit, SpikeStep, PTL DEF Spec

-----------------------------------------------------------------------------
(* Replies. *)

\* The types of the reply part of the state.
ReplyTypes ==
  /\ claimed \subseteq Rows
  /\ answered \subseteq Rows
  /\ sent \in [Rows -> Nat]
  /\ misreported \in [Rows -> Nat]
  /\ step \in [Requests -> ReplyStep]
  /\ target \in [Requests -> Rows \cup {None}]
  /\ isLive \in [Requests -> BOOLEAN]

\* What a request past its guards knows: its row, and, once it owns the claim,
\* exactly which replies were sent for that row.
RequestInv(q) ==
  /\ step[q] # "idle" => target[q] \in Rows
  /\ step[q] \in {"idle", "claim", "dispatch"} => ~isLive[q]
  /\ step[q] = "save" => isLive[q]
  /\ step[q] = "dispatch" => sent[target[q]] = misreported[target[q]]
  /\ step[q] \in {"save", "rollback"} =>
       sent[target[q]] = misreported[target[q]] + (IF isLive[q] THEN 1 ELSE 0)

\* Every reply sent for an unclaimed row was reported as a failure; a claim
\* covers at most one more.
RowInv ==
  \A x \in Rows :
    /\ x \notin claimed => sent[x] = misreported[x]
    /\ sent[x] <= misreported[x] + 1

ReplyInv ==
  /\ ReplyTypes
  /\ \A q \in Requests : RequestInv(q)
  /\ ClaimIsOwned
  /\ RowInv
  /\ AnsweredWasSent

\* There is no request and no reply in the beginning.
LEMMA ReplyInvInit == ReplyInit => ReplyInv
BY DEF ReplyInit, ReplyInv, ReplyTypes, RequestInv, ClaimIsOwned, PastClaim, RowInv,
   AnsweredWasSent, ReplyStep

\* A step that leaves the reply columns and the requests alone.
LEMMA ReplyFrame ==
  ASSUME ReplyInv, UNCHANGED replyVars
  PROVE  ReplyInv'
BY DEF ReplyInv, ReplyTypes, RequestInv, ClaimIsOwned, PastClaim, RowInv, AnsweredWasSent,
   replyVars

\* LoadComment: the request has a row and nothing of its own is live.
LEMMA LoadCommentInv ==
  ASSUME ReplyInv, NEW q \in Requests, NEW x \in Rows, LoadComment(q, x)
  PROVE  ReplyInv'
BY DEF ReplyInv, ReplyTypes, RequestInv, ClaimIsOwned, PastClaim, RowInv, AnsweredWasSent,
   LoadComment, To, ReplyStep

\* Claim: the row was unclaimed, so that nothing unreported is live for it.
LEMMA ClaimInv ==
  ASSUME ReplyInv, NEW q \in Requests, Claim(q)
  PROVE  ReplyInv'
<1>1. target[q] \in Rows /\ target[q] \notin claimed /\ step[q] = "claim" /\ ~isLive[q]
  BY DEF ReplyInv, RequestInv, Claim, ClaimMatches
<1>2. sent[target[q]] = misreported[target[q]]
  BY <1>1 DEF ReplyInv, RowInv
<1>3. \A o \in Requests : PastClaim(o) => target[o] # target[q]
  BY <1>1 DEF ReplyInv, ClaimIsOwned
<1>4. QED
  BY <1>1, <1>2, <1>3 DEF ReplyInv, ReplyTypes, RequestInv, ClaimIsOwned, PastClaim, RowInv,
     AnsweredWasSent, Claim, To, ReplyStep

\* LoseClaim: the request ends.
LEMMA LoseClaimInv ==
  ASSUME ReplyInv, NEW q \in Requests, LoseClaim(q)
  PROVE  ReplyInv'
BY DEF ReplyInv, ReplyTypes, RequestInv, ClaimIsOwned, PastClaim, RowInv, AnsweredWasSent,
   LoseClaim, EndReply, To, ReplyStep

\* CannotDispatch: the owner turns to its rollback, nothing was sent.
LEMMA CannotDispatchInv ==
  ASSUME ReplyInv, NEW q \in Requests, CannotDispatch(q)
  PROVE  ReplyInv'
BY DEF ReplyInv, ReplyTypes, RequestInv, ClaimIsOwned, PastClaim, RowInv, AnsweredWasSent,
   CannotDispatch, To, ReplyStep

\* Dispatch: the only owner sends the only unreported reply.
LEMMA DispatchInv ==
  ASSUME ReplyInv, NEW q \in Requests, Dispatch(q)
  PROVE  ReplyInv'
<1>1. /\ target[q] \in Rows /\ step[q] = "dispatch" /\ target[q] \in claimed
      /\ sent[target[q]] = misreported[target[q]]
      /\ \A o \in Requests \ {q} : PastClaim(o) => target[o] # target[q]
  BY DEF ReplyInv, RequestInv, ClaimIsOwned, PastClaim, Dispatch
<1>2. /\ sent' = [sent EXCEPT ![target[q]] = sent[target[q]] + 1]
      /\ isLive' = [isLive EXCEPT ![q] = TRUE]
      /\ step' = [step EXCEPT ![q] = "save"] \/ step' = [step EXCEPT ![q] = "rollback"]
      /\ UNCHANGED <<claimed, answered, misreported, target>>
  BY DEF Dispatch, To
<1>3. ReplyTypes'
  BY <1>1, <1>2 DEF ReplyInv, ReplyTypes, ReplyStep
<1>4. RequestInv(q)'
  BY <1>1, <1>2 DEF ReplyInv, ReplyTypes, RequestInv
<1>5. ASSUME NEW o \in Requests \ {q} PROVE RequestInv(o)'
  BY <1>1, <1>2 DEF ReplyInv, ReplyTypes, RequestInv, PastClaim
<1>6. ClaimIsOwned' /\ RowInv' /\ AnsweredWasSent'
  BY <1>1, <1>2 DEF ReplyInv, ReplyTypes, ClaimIsOwned, PastClaim, RowInv, AnsweredWasSent
<1>7. QED
  BY <1>3, <1>4, <1>5, <1>6 DEF ReplyInv

\* Save: the reply is live and remembered.
LEMMA SaveInv ==
  ASSUME ReplyInv, NEW q \in Requests, Save(q)
  PROVE  ReplyInv'
BY DEF ReplyInv, ReplyTypes, RequestInv, ClaimIsOwned, PastClaim, RowInv, AnsweredWasSent,
   Save, EndReply, To, ReplyStep

\* SaveFails: the owner turns to its rollback with its reply live.
LEMMA SaveFailsInv ==
  ASSUME ReplyInv, NEW q \in Requests, SaveFails(q)
  PROVE  ReplyInv'
BY DEF ReplyInv, ReplyTypes, RequestInv, ClaimIsOwned, PastClaim, RowInv, AnsweredWasSent,
   SaveFails, To, ReplyStep

\* The three ways to end with a failure: what is live of the request becomes
\* misreported, and only the owner may have given up the claim.
LEMMA FailureInv ==
  ASSUME ReplyInv, NEW q \in Requests, step[q] # "idle", ReportFailure(q),
         UNCHANGED <<answered, sent>>,
         claimed' = claimed \/ (step[q] = "rollback" /\ claimed' = claimed \ {target[q]})
  PROVE  ReplyInv'
<1>1. /\ target[q] \in Rows
      /\ isLive[q] => step[q] \in {"save", "rollback"}
      /\ isLive[q] => sent[target[q]] = misreported[target[q]] + 1
      /\ step[q] = "rollback" /\ ~isLive[q] => sent[target[q]] = misreported[target[q]]
      /\ PastClaim(q) => \A o \in Requests \ {q} : PastClaim(o) => target[o] # target[q]
  BY DEF ReplyInv, ReplyTypes, RequestInv, ClaimIsOwned, PastClaim, ReplyStep
<1>2. /\ misreported' = [misreported EXCEPT
                           ![target[q]] = IF isLive[q] THEN misreported[target[q]] + 1
                                                       ELSE misreported[target[q]]]
      /\ step' = [step EXCEPT ![q] = "idle"]
      /\ target' = [target EXCEPT ![q] = None]
      /\ isLive' = [isLive EXCEPT ![q] = FALSE]
  BY DEF ReportFailure, EndReply, To
<1>3. ReplyTypes'
  BY <1>1, <1>2 DEF ReplyInv, ReplyTypes, ReplyStep
<1>4. ASSUME NEW o \in Requests PROVE RequestInv(o)'
  BY <1>1, <1>2 DEF ReplyInv, ReplyTypes, RequestInv, PastClaim
<1>5. ClaimIsOwned'
  BY <1>1, <1>2 DEF ReplyInv, ReplyTypes, ClaimIsOwned, PastClaim
<1>6. RowInv' /\ AnsweredWasSent'
  BY <1>1, <1>2 DEF ReplyInv, ReplyTypes, RowInv, AnsweredWasSent, ClaimIsOwned, PastClaim
<1>7. QED
  BY <1>3, <1>4, <1>5, <1>6 DEF ReplyInv

\* Every step preserves the inductive invariant.
LEMMA ReplyNextInv == ReplyInv /\ [ReplyNext]_vars => ReplyInv'
<1> SUFFICES ASSUME ReplyInv, [ReplyNext]_vars PROVE ReplyInv'
  OBVIOUS
<1>1. CASE UNCHANGED replyVars
  BY <1>1, ReplyFrame
<1>2. CASE \E q \in Requests : Reply(q)
  <2>1. PICK q \in Requests : Reply(q)
    BY <1>2
  <2>2. CASE \E x \in Rows : LoadComment(q, x)
    BY <2>2, LoadCommentInv
  <2>3. CASE Claim(q) \/ LoseClaim(q) \/ CannotDispatch(q) \/ Dispatch(q) \/ Save(q) \/ SaveFails(q)
    BY <2>3, ClaimInv, LoseClaimInv, CannotDispatchInv, DispatchInv, SaveInv, SaveFailsInv
  <2>4. CASE Rollback(q) \/ RollbackFails(q) \/ ReplyDies(q)
    BY <2>4, FailureInv DEF Rollback, RollbackFails, ReplyDies
  <2>5. QED
    BY <2>1, <2>2, <2>3, <2>4 DEF Reply
<1>3. QED
  BY <1>1, <1>2 DEF ReplyNext, vars

\* Every reachable state satisfies the inductive invariant.
THEOREM ReplyInductive == ReplySpec => []ReplyInv
BY ReplyInvInit, ReplyNextInv, PTL DEF ReplySpec

\* A row is sent another reply only after each earlier one was reported as a
\* failure, for any number of racing requests.
THEOREM RepliesAreGuarded == ReplySpec => []ResentOnlyAfterFailure
<1>1. ReplyInv => ResentOnlyAfterFailure
  BY DEF ReplyInv, RowInv, ResentOnlyAfterFailure
<1>2. QED
  BY <1>1, ReplyInductive, PTL

\* Two requests never own the claim of one row, and no rollback takes it away.
THEOREM ClaimsAreOwned == ReplySpec => []ClaimIsOwned
BY ReplyInductive, PTL DEF ReplyInv

\* An answer that is shown was sent.
THEOREM AnswersWereSent == ReplySpec => []AnsweredWasSent
BY ReplyInductive, PTL DEF ReplyInv

-----------------------------------------------------------------------------
(* Types, and claims that are held.                                        *)

LEMMA ReplyTypesInit == ReplyInit => ReplyTypeOK
BY TypesInit DEF ReplyInit, ReplyTypeOK, ReplyStep

\* A request leaves the table and the syncs alone, and counts its faults.
LEMMA RepliesKeepTypes ==
  ASSUME TypeOK, NEW q \in Requests, Reply(q)
  PROVE  /\ TypeOK' /\ UNCHANGED <<ext, deleted>>
         /\ faults' = faults \/ (Fault /\ faults' > 0)
<1>1. UNCHANGED <<clock, table, ledger, syncs>>
  BY DEF Reply, LoadComment, Claim, LoseClaim, CannotDispatch, Dispatch, Save, SaveFails,
     Rollback, RollbackFails, ReplyDies, commentVars
<1>2. faults' = faults \/ Fault
  BY DEF Reply, LoadComment, Claim, LoseClaim, CannotDispatch, Dispatch, Save, SaveFails,
     Rollback, RollbackFails, ReplyDies, commentVars
<1>3. faults \in 0..MaxFaults
  BY DEF TypeOK
<1>4. faults' \in 0..MaxFaults /\ (faults' = faults \/ (Fault /\ faults' > 0))
  BY <1>2, <1>3, FaultTyped DEF Fault
<1>5. TypeOK'
  BY <1>1, <1>4 DEF TypeOK, clock, table, ledger, syncs
<1> QED  BY <1>1, <1>4, <1>5 DEF table

\* The types of the rest are those of the inductive invariant.
LEMMA ReplyTypesStep ==
  ASSUME ReplyTypeOK, ReplyInv', [ReplyNext]_vars
  PROVE  ReplyTypeOK'
<1>1. CASE CommentStep /\ UNCHANGED replyVars
  BY <1>1, TypesStep DEF ReplyTypeOK, replyVars
<1>2. ASSUME NEW q \in Requests, Reply(q)  PROVE ReplyTypeOK'
  <2>1. tries' \in Nat
    BY <1>2 DEF ReplyTypeOK, Reply, LoadComment, Claim, LoseClaim, CannotDispatch, Dispatch,
       Save, SaveFails, Rollback, RollbackFails, ReplyDies
  <2> QED
    BY <1>2, <2>1, RepliesKeepTypes DEF ReplyTypeOK, ReplyInv, ReplyTypes
<1>3. CASE UNCHANGED vars
  BY <1>3, TypesStep DEF ReplyTypeOK, vars, replyVars
<1> QED  BY <1>1, <1>2, <1>3 DEF ReplyNext

\* The requests keep their types, whatever the syncs do meanwhile.
THEOREM ReplyTypesHold == ReplySpec => []ReplyTypeOK
BY ReplyTypesInit, ReplyTypesStep, ReplyInductive, PTL DEF ReplySpec

\* A claim is held, on a row that has a comment; a stored row never loses it.
HeldInv ==
  /\ ReplyTypeOK
  /\ ReplyInv
  /\ ClaimIsHeld
  /\ \A x \in claimed : ext[x] # None

LEMMA HeldInit == ReplyInit => HeldInv
BY ReplyTypesInit, ReplyInvInit DEF ReplyInit, HeldInv, ClaimIsHeld

\* What the syncs and the deletions do to a claimed row is to delete it.
LEMMA HeldComments ==
  ASSUME HeldInv, [CommentStep]_commentVars, UNCHANGED replyVars
  PROVE  ClaimIsHeld' /\ (\A x \in claimed : ext[x] # None)'
<1>1. TypeOK /\ TypeOK'
  BY TypesStep DEF HeldInv, ReplyTypeOK
<1>2. \A x \in claimed : x \in Rows /\ ext'[x] = ext[x]
  BY <1>1, KeysStay DEF HeldInv, ReplyTypeOK
<1>3. deleted \subseteq deleted'
  BY DEF CommentStep, commentVars, table, SyncStep, Tick, WriteComment, Purge, Erase,
     Acknowledge, StartSync, EndBatch, Evaluate, RaiseAlert, SyncDies, FetchComments, FetchFails,
     PersistSnapshot, PersistFails
<1>4. faults > 0 => faults' > 0
  BY <1>1 DEF TypeOK, CommentStep, commentVars, Fault, SyncStep, Tick, WriteComment, Purge,
     Erase, Acknowledge, StartSync, EndBatch, Evaluate, RaiseAlert, SyncDies, FetchComments,
     FetchFails, PersistSnapshot, PersistFails
<1> QED
  BY <1>2, <1>3, <1>4 DEF HeldInv, ClaimIsHeld, PastClaim, Stored, replyVars

\* A request that gives up its claim, or ends otherwise, leaves no claim behind
\* unless something failed.
LEMMA HeldReplies ==
  ASSUME HeldInv, NEW q \in Requests, Reply(q)
  PROVE  ClaimIsHeld' /\ (\A x \in claimed : ext[x] # None)'
<1>0. /\ UNCHANGED <<ext, deleted>> /\ faults \in Nat /\ faults' \in Nat
      /\ faults > 0 => faults' > 0
      /\ Fault => faults' > 0
  BY RepliesKeepTypes DEF HeldInv, ReplyTypeOK, TypeOK, Fault
<1> USE DEF HeldInv, ReplyInv, ReplyTypes, ClaimIsHeld, PastClaim, Stored
<1>1. ASSUME NEW x \in Rows, LoadComment(q, x)
      PROVE  ClaimIsHeld' /\ (\A y \in claimed : ext[y] # None)'
  BY <1>0, <1>1 DEF LoadComment, To
<1>2. CASE Claim(q)
  BY <1>0, <1>2 DEF Claim, ClaimMatches, To
<1>3. CASE LoseClaim(q)
  BY <1>0, <1>3 DEF LoseClaim, EndReply, To
<1>4. CASE CannotDispatch(q)
  BY <1>0, <1>4 DEF CannotDispatch, To
<1>5. CASE Dispatch(q)
  BY <1>0, <1>5 DEF Dispatch, To
<1>6. CASE Save(q)
  BY <1>0, <1>6 DEF Save, EndReply, To
<1>7. CASE SaveFails(q)
  BY <1>0, <1>7 DEF SaveFails, To
<1>8. CASE Rollback(q)
  BY <1>0, <1>8 DEF Rollback, ReportFailure, EndReply, To
<1>9. CASE RollbackFails(q) \/ ReplyDies(q)
  BY <1>0, <1>9 DEF RollbackFails, ReplyDies
<1> QED
  BY <1>1, <1>2, <1>3, <1>4, <1>5, <1>6, <1>7, <1>8, <1>9 DEF Reply

LEMMA HeldStep ==
  ASSUME HeldInv, [ReplyNext]_vars
  PROVE  HeldInv'
<1>1. ReplyInv'
  BY ReplyNextInv DEF HeldInv
<1>2. ReplyTypeOK'
  BY <1>1, ReplyTypesStep DEF HeldInv
<1>3. CASE [CommentStep]_commentVars /\ UNCHANGED replyVars
  BY <1>1, <1>2, <1>3, HeldComments DEF HeldInv
<1>4. ASSUME NEW q \in Requests, Reply(q)  PROVE HeldInv'
  BY <1>1, <1>2, <1>4, HeldReplies DEF HeldInv
<1> QED  BY <1>3, <1>4 DEF ReplyNext, vars

\* No claim is left behind while nothing fails: a stored row that is claimed
\* has its answer or a request at work on it.
THEOREM ClaimsAreHeld == ReplySpec => []ClaimIsHeld
<1>1. HeldInv => ClaimIsHeld
  BY DEF HeldInv
<1> QED  BY <1>1, HeldInit, HeldStep, PTL DEF ReplySpec

-----------------------------------------------------------------------------
(* How far "no double-reply" does hold.                                    *)

\* The claim-first guard is enough as long as nothing fails: a row is sent a
\* second reply only when an answer of the platform, a write of the database or
\* a process was lost.  NoDoubleReply asks for it in spite of the faults.
RepliedOnceUnlessFaulty == faults = 0 => \A x \in Rows : sent[x] <= 1

\* Without faults a reply is given up only with the row it belongs to, and no
\* claim is made on such a row again.
UnlessFaulty ==
  /\ \A x \in Rows : sent[x] <= 1 /\ (misreported[x] > 0 => x \in deleted)
  /\ \A q \in Requests :
       /\ step[q] = "dispatch" => misreported[target[q]] = 0
       /\ step[q] = "rollback" /\ isLive[q] => target[q] \in deleted

\* A step of a request that counts no fault keeps UnlessFaulty.
LEMMA FaultlessReply ==
  ASSUME ReplyInv, UnlessFaulty, NEW q \in Requests, Reply(q), ~Fault, UNCHANGED deleted
  PROVE  UnlessFaulty'
<1> USE DEF ReplyInv, ReplyTypes, RequestInv, UnlessFaulty
<1>1. ASSUME NEW x \in Rows, LoadComment(q, x)  PROVE UnlessFaulty'
  BY <1>1 DEF LoadComment, To
<1>2. CASE Claim(q)
  BY <1>2 DEF Claim, ClaimMatches, Stored, To
<1>3. CASE LoseClaim(q)
  BY <1>3 DEF LoseClaim, EndReply, To
<1>4. CASE CannotDispatch(q)
  BY <1>4 DEF CannotDispatch, To
<1>5. CASE Dispatch(q)
  BY <1>5 DEF Dispatch, To
<1>6. CASE Save(q)
  BY <1>6 DEF Save, EndReply, To
<1>7. CASE SaveFails(q)
  BY <1>7 DEF SaveFails, To
<1>8. CASE Rollback(q)
  <2>1. \A o \in Requests \ {q} : step[o] = "dispatch" => target[o] # target[q]
    BY <1>8 DEF Rollback, ClaimIsOwned, PastClaim
  <2> QED
    BY <1>8, <2>1 DEF Rollback, ReportFailure, EndReply, To
<1>9. CASE RollbackFails(q) \/ ReplyDies(q)
  BY <1>9 DEF RollbackFails, ReplyDies
<1> QED
  BY <1>1, <1>2, <1>3, <1>4, <1>5, <1>6, <1>7, <1>8, <1>9 DEF Reply

\* The invariant: what holds without faults, and the types and claims under it.
OnceInv == HeldInv /\ (faults = 0 => UnlessFaulty)

LEMMA OnceStep ==
  ASSUME OnceInv, [ReplyNext]_vars
  PROVE  OnceInv'
<1>1. HeldInv' /\ HeldInv
  BY HeldStep DEF OnceInv
<1>2. SUFFICES ASSUME faults' = 0  PROVE UnlessFaulty'
  BY <1>1 DEF OnceInv
<1>3. faults \in Nat
  BY <1>1 DEF HeldInv, ReplyTypeOK, TypeOK
<1>4. CASE [CommentStep]_commentVars /\ UNCHANGED replyVars
  <2>1. deleted \subseteq deleted' /\ (faults' = faults \/ Fault)
    BY <1>4 DEF CommentStep, commentVars, table, SyncStep, Tick, WriteComment, Purge, Erase,
       Acknowledge, StartSync, EndBatch, Evaluate, RaiseAlert, SyncDies, FetchComments, FetchFails,
       PersistSnapshot, PersistFails
  <2>2. faults = 0
    BY <1>2, <1>3, <2>1 DEF Fault
  <2> QED
    BY <1>4, <2>1, <2>2 DEF OnceInv, UnlessFaulty, replyVars
<1>5. ASSUME NEW q \in Requests, Reply(q)  PROVE UnlessFaulty'
  <2>1. UNCHANGED deleted /\ ~Fault /\ faults' = faults
    BY <1>1, <1>2, <1>3, <1>5, RepliesKeepTypes DEF HeldInv, ReplyTypeOK, Fault
  <2> QED
    BY <1>1, <1>2, <1>5, <2>1, FaultlessReply DEF OnceInv, HeldInv
<1> QED
  BY <1>4, <1>5 DEF ReplyNext, vars

\* For any number of racing requests, syncs and deletions.
THEOREM RepliesAreSentOnce == ReplySpec => []RepliedOnceUnlessFaulty
<1>1. OnceInv => RepliedOnceUnlessFaulty
  BY DEF OnceInv, UnlessFaulty, RepliedOnceUnlessFaulty
<1>2. ReplyInit => OnceInv
  BY HeldInit DEF ReplyInit, OnceInv, UnlessFaulty
<1> QED  BY <1>1, <1>2, OnceStep, PTL DEF ReplySpec

-----------------------------------------------------------------------------
(* The reply and the adapter.                                              *)

\* A request takes an answer to its reply call: the platform has what the answer
\* says it holds, and the verdict on it is to save the reply or to give it up.
\* An answer that got lost is one of the counted faults.
TakesReplyAnswer(q, answer) ==
  /\ step[q] = "dispatch"
  /\ sent' = [sent EXCEPT ![target[q]] = @ + answer.held]
  /\ isLive' = [isLive EXCEPT ![q] = answer.held = 1]
  /\ To(q, IF answer.verdict = "done" THEN "save" ELSE "rollback")
  /\ IF answer.held = 1 /\ answer.verdict = "undone" THEN Fault ELSE UNCHANGED faults
  /\ UNCHANGED <<clock, table, ledger, syncs, claimed, answered, misreported, target, tries>>

\* The reply service's platform call and the promise of the adapters agree: the
\* calls that reach the platform and those that do not take exactly the answers
\* that an adapter may give.
THEOREM RepliesRelyOnPromise ==
  ASSUME ReplyInv, NEW q \in Requests
  PROVE  Dispatch(q) \/ CannotDispatch(q) <=>
           \E answer \in Answers("reply") : TakesReplyAnswer(q, answer)
<1>1. CASE step[q] # "dispatch"
  BY <1>1 DEF Dispatch, CannotDispatch, TakesReplyAnswer
<1>2. CASE step[q] = "dispatch"
  <2> DEFINE kept == UNCHANGED <<clock, table, ledger, syncs, claimed, answered, misreported,
                                 target, tries>>
  <2>1. [sent EXCEPT ![target[q]] = @ + 0] = sent /\ [isLive EXCEPT ![q] = FALSE] = isLive
    BY <1>2 DEF ReplyInv, ReplyTypes, RequestInv
  <2>2. TakesReplyAnswer(q, [held |-> 1, verdict |-> "done"]) <=>
          /\ sent' = [sent EXCEPT ![target[q]] = @ + 1] /\ isLive' = [isLive EXCEPT ![q] = TRUE]
          /\ To(q, "save") /\ UNCHANGED faults /\ kept
    BY <1>2 DEF TakesReplyAnswer
  <2>3. TakesReplyAnswer(q, [held |-> 0, verdict |-> "undone"]) <=>
          /\ sent' = sent /\ isLive' = isLive
          /\ To(q, "rollback") /\ UNCHANGED faults /\ kept
    <3> DEFINE none == [held |-> 0, verdict |-> "undone"]
    <3>1. none.held = 0 /\ none.verdict = "undone" /\ (none.held = 1) = FALSE
      OBVIOUS
    <3>2. TakesReplyAnswer(q, none) <=>
            /\ sent' = [sent EXCEPT ![target[q]] = @ + 0] /\ isLive' = [isLive EXCEPT ![q] = FALSE]
            /\ To(q, "rollback") /\ UNCHANGED faults /\ kept
      BY <1>2, <3>1 DEF TakesReplyAnswer
    <3> QED  BY <2>1, <3>2
  <2>4. TakesReplyAnswer(q, [held |-> 1, verdict |-> "undone"]) <=>
          /\ sent' = [sent EXCEPT ![target[q]] = @ + 1] /\ isLive' = [isLive EXCEPT ![q] = TRUE]
          /\ To(q, "rollback") /\ Fault /\ kept
    BY <1>2 DEF TakesReplyAnswer
  <2>5. Answers("reply") =
          {[held |-> 1, verdict |-> "done"], [held |-> 0, verdict |-> "undone"],
           [held |-> 1, verdict |-> "undone"]}
    BY DEF Answers
  <2>6. CannotDispatch(q) <=> To(q, "rollback") /\ sent' = sent /\ isLive' = isLive
                              /\ UNCHANGED faults /\ kept
    BY ONLY <1>2 DEF CannotDispatch, commentVars
  <2>7. Dispatch(q) <=>
          /\ sent' = [sent EXCEPT ![target[q]] = @ + 1] /\ isLive' = [isLive EXCEPT ![q] = TRUE]
          /\ \/ To(q, "save") /\ UNCHANGED faults
             \/ To(q, "rollback") /\ Fault
          /\ kept
    BY ONLY <1>2 DEF Dispatch
  <2> HIDE DEF kept
  <2> QED
    BY ONLY <2>2, <2>3, <2>4, <2>5, <2>6, <2>7
<1> QED
  BY <1>1, <1>2
=============================================================================
