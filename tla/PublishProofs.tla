--------------------------- MODULE PublishProofs ---------------------------
(***************************************************************************)
(* Proofs about Publish, for every number of posts, requests, workers,     *)
(* jobs and disturbances: the inductive invariant, the safety properties   *)
(* it implies, the admin-only exit from posted_unconfirmed, the refinement *)
(* of PublishPromise, and what the dispatch relies on of an adapter.       *)
(***************************************************************************)
EXTENDS Publish, AdapterAnswers, TLAPS

-----------------------------------------------------------------------------
(* Frames: a conjunct of the invariant survives a step that leaves alone   *)
(* what it speaks of.                                                      *)

\* The rows and what is live are all that RowInv and IndexInv speak of.
LEMMA RowFrame ==
  ASSUME RowInv, IndexInv, UNCHANGED <<row, live>>
  PROVE  RowInv' /\ IndexInv'
BY DEF RowInv, IndexInv, PublishedUnder, row

\* RequestInv survives a step that leaves rows and requests alone.
LEMMA RequestFrame ==
  ASSUME RequestInv, UNCHANGED <<row, live, requests>>
  PROVE  RequestInv'
BY DEF RequestInv, ResolutionMatches, row, requests

\* WorkerInv survives a step that leaves rows and executions alone, even
\* when the queue learns of more jobs.
LEMMA WorkerFrame ==
  ASSUME WorkerInv, UNCHANGED <<row, live, workers>>, jobIds \subseteq jobIds'
  PROVE  WorkerInv'
BY DEF WorkerInv, ExecutionInv, Running, InFlight, PastClaim, Post, row, workers

\* A running execution has a row.
LEMMA RunningHasPost ==
  ASSUME TypeOK, WorkerInv, NEW w \in Workers, Running(w)
  PROVE  wjob[w] \in jobIds /\ Post(w) \in Posts
BY DEF TypeOK, WorkerInv, ExecutionInv, Post, JobId

\* Losing a job, whichever way the run ends, disturbs no other execution.
LEMMA EndRunKeepsWorkerInv ==
  ASSUME TypeOK, WorkerInv, NEW w \in Workers, EndRun(w),
         UNCHANGED <<row, live>>, jobIds \subseteq jobIds'
  PROVE  WorkerInv'
BY DEF TypeOK, WorkerInv, ExecutionInv, EndRun, Running, InFlight, PastClaim, Post, row

-----------------------------------------------------------------------------
(* One lemma per action: it preserves the inductive invariant.             *)

\* EditContent: the gate alone changes.
LEMMA EditContentInd ==
  ASSUME Inductive, NEW c \in Contents, EditContent(c)
  PROVE  Inductive'
<1> USE DEF Inductive
<1>1. TypeOK'
  BY PublishAssumption DEF TypeOK, row, queue, requests, workers,
     EditContent, Event
<1>2. RowInv' /\ IndexInv'
  BY RowFrame DEF EditContent
<1>3. RequestInv'
  BY RequestFrame DEF EditContent
<1>4. WorkerInv'
  BY WorkerFrame DEF EditContent, queue
<1>5. QED
  BY <1>1, <1>2, <1>3, <1>4

\* CheckNewIntent: the request remembers its target.
LEMMA CheckNewIntentInd ==
  ASSUME Inductive, NEW r \in Requests, NEW t \in Target,
         NEW next \in {"create", "record"}, CheckNewIntent(r, t, next)
  PROVE  Inductive'
<1> USE DEF Inductive
<1>1. TypeOK'
  BY PublishAssumption DEF TypeOK, row, queue, requests, workers,
     CheckNewIntent, Step, RequestPc
<1>2. RowInv' /\ IndexInv'
  BY RowFrame DEF CheckNewIntent
<1>3. RequestInv'
  BY DEF TypeOK, RequestInv, ResolutionMatches, RowInv, row, requests,
     CheckNewIntent, Step
<1>4. WorkerInv'
  BY WorkerFrame DEF CheckNewIntent, queue
<1>5. QED
  BY <1>1, <1>2, <1>3, <1>4

\* CreateDraft: a new draft, whose target nobody owned.
LEMMA CreateDraftInd ==
  ASSUME Inductive, NEW r \in Requests, NEW p \in Posts, CreateDraft(r, p)
  PROVE  Inductive'
<1> USE DEF Inductive
<1>1. TypeOK'
  BY PublishAssumption DEF TypeOK, row, queue, requests, workers,
     CreateDraft, InsertRow, OwnedByOther, Step, Status, RequestPc, RequestInv
<1>2. RowInv' /\ IndexInv'
  <2>1. RowInv'
    BY DEF TypeOK, RowInv, RequestInv, ResolutionMatches, PublishedUnder, Dispatchable, Active,
       CreateDraft, InsertRow, OwnedByOther, Step
  <2>2. IndexInv'
    BY DEF TypeOK, RowInv, IndexInv, RequestInv, ResolutionMatches, Dispatchable, Active,
       CreateDraft, InsertRow, OwnedByOther, Step
  <2>3. QED
    BY <2>1, <2>2
<1>3. RequestInv'
  BY DEF TypeOK, RequestInv, ResolutionMatches, RowInv, row, requests,
     CreateDraft, InsertRow, OwnedByOther, Step
<1>4. WorkerInv'
  BY DEF TypeOK, WorkerInv, ExecutionInv, Running, InFlight, PastClaim, Post, RequestInv, ResolutionMatches, 
     row, queue, workers, CreateDraft, InsertRow, OwnedByOther, Step
<1>5. QED
  BY <1>1, <1>2, <1>3, <1>4

\* RecordManualExternal: a new posted row, whose target nobody owned.
LEMMA RecordManualExternalInd ==
  ASSUME Inductive, NEW r \in Requests, NEW p \in Posts, RecordManualExternal(r, p)
  PROVE  Inductive'
<1> USE DEF Inductive
<1>1. TypeOK'
  BY PublishAssumption DEF TypeOK, row, queue, requests, workers,
     RecordManualExternal, InsertRow, OwnedByOther, EndRequest, Step, Status, RequestPc, RequestInv
<1>2. RowInv' /\ IndexInv'
  <2>1. RowInv'
    BY DEF TypeOK, RowInv, RequestInv, ResolutionMatches, PublishedUnder, Dispatchable, Active,
       RecordManualExternal, InsertRow, OwnedByOther, EndRequest, Step
  <2>2. IndexInv'
    BY DEF TypeOK, RowInv, IndexInv, RequestInv, ResolutionMatches, Dispatchable, Active,
       RecordManualExternal, InsertRow, OwnedByOther, EndRequest, Step
  <2>3. QED
    BY <2>1, <2>2
<1>3. RequestInv'
  BY DEF TypeOK, RequestInv, ResolutionMatches, RowInv, row, requests,
     RecordManualExternal, InsertRow, OwnedByOther, EndRequest, Step
<1>4. WorkerInv'
  BY DEF TypeOK, WorkerInv, ExecutionInv, Running, InFlight, PastClaim, Post, RequestInv, ResolutionMatches, 
     row, queue, workers, RecordManualExternal, InsertRow, OwnedByOther, EndRequest, Step
<1>5. QED
  BY <1>1, <1>2, <1>3, <1>4

\* InsertConflict: the request ends.
LEMMA InsertConflictInd ==
  ASSUME Inductive, NEW r \in Requests, InsertConflict(r)
  PROVE  Inductive'
<1> USE DEF Inductive
<1>1. TypeOK'
  BY PublishAssumption DEF TypeOK, row, queue, requests, workers,
     InsertConflict, EndRequest, Step, RequestPc
<1>2. RowInv' /\ IndexInv'
  BY RowFrame DEF InsertConflict
<1>3. RequestInv'
  BY DEF TypeOK, RequestInv, ResolutionMatches, RowInv, row, requests,
     InsertConflict, EndRequest, Step
<1>4. WorkerInv'
  BY WorkerFrame DEF InsertConflict, queue
<1>5. QED
  BY <1>1, <1>2, <1>3, <1>4

\* RedispatchCheck: the request remembers its row.
LEMMA RedispatchCheckInd ==
  ASSUME Inductive, NEW r \in Requests, NEW p \in Posts, RedispatchCheck(r, p)
  PROVE  Inductive'
<1> USE DEF Inductive
<1>1. TypeOK'
  BY PublishAssumption DEF TypeOK, row, queue, requests, workers,
     RedispatchCheck, Step, RequestPc
<1>2. RowInv' /\ IndexInv'
  BY RowFrame DEF RedispatchCheck
<1>3. RequestInv'
  BY DEF TypeOK, RequestInv, ResolutionMatches, RowInv, row, requests,
     RedispatchCheck, Step
<1>4. WorkerInv'
  BY WorkerFrame DEF RedispatchCheck, queue
<1>5. QED
  BY <1>1, <1>2, <1>3, <1>4

\* RedispatchUpdate: the request remembers a version.
LEMMA RedispatchUpdateInd ==
  ASSUME Inductive, NEW r \in Requests, RedispatchUpdate(r)
  PROVE  Inductive'
<1> USE DEF Inductive
<1>1. TypeOK'
  BY PublishAssumption DEF TypeOK, row, queue, requests, workers,
     RedispatchUpdate, Step, RequestPc, RequestInv
<1>2. RowInv' /\ IndexInv'
  BY RowFrame DEF RedispatchUpdate
<1>3. RequestInv'
  BY DEF TypeOK, RequestInv, ResolutionMatches, RowInv, row, requests,
     RedispatchUpdate, Step
<1>4. WorkerInv'
  BY WorkerFrame DEF RedispatchUpdate, queue
<1>5. QED
  BY <1>1, <1>2, <1>3, <1>4

\* Enqueue: the queue knows one more job.
LEMMA EnqueueInd ==
  ASSUME Inductive, NEW r \in Requests, Enqueue(r)
  PROVE  Inductive'
<1> USE DEF Inductive
<1>1. TypeOK'
  BY PublishAssumption DEF TypeOK, row, queue, requests, workers,
     Enqueue, EndRequest, Step, RequestPc, RequestInv, JobId
<1>2. RowInv' /\ IndexInv'
  BY RowFrame DEF Enqueue
<1>3. RequestInv'
  BY DEF TypeOK, RequestInv, ResolutionMatches, RowInv, row, requests,
     Enqueue, EndRequest, Step
<1>4. WorkerInv'
  BY WorkerFrame DEF Enqueue, queue
<1>5. QED
  BY <1>1, <1>2, <1>3, <1>4

\* AbandonRequest: the request ends.
LEMMA AbandonRequestInd ==
  ASSUME Inductive, NEW r \in Requests, AbandonRequest(r)
  PROVE  Inductive'
<1> USE DEF Inductive
<1>1. TypeOK'
  BY PublishAssumption DEF TypeOK, row, queue, requests, workers,
     AbandonRequest, EndRequest, Step, Event, RequestPc
<1>2. RowInv' /\ IndexInv'
  BY RowFrame DEF AbandonRequest
<1>3. RequestInv'
  BY DEF TypeOK, RequestInv, ResolutionMatches, RowInv, row, requests,
     AbandonRequest, EndRequest, Step, Event
<1>4. WorkerInv'
  BY WorkerFrame DEF AbandonRequest, queue
<1>5. QED
  BY <1>1, <1>2, <1>3, <1>4

\* LoadUnconfirmed: the verdict agrees with what is live.
LEMMA LoadUnconfirmedInd ==
  ASSUME Inductive, NEW r \in Requests, NEW p \in Posts, LoadUnconfirmed(r, p)
  PROVE  Inductive'
<1> USE DEF Inductive
<1>1. TypeOK'
  BY PublishAssumption DEF TypeOK, row, queue, requests, workers,
     LoadUnconfirmed, Step, RequestPc
<1>2. RowInv' /\ IndexInv'
  BY RowFrame DEF LoadUnconfirmed
<1>3. RequestInv'
  BY DEF TypeOK, RequestInv, ResolutionMatches, RowInv, row, requests,
     LoadUnconfirmed, Step
<1>4. WorkerInv'
  BY WorkerFrame DEF LoadUnconfirmed, queue
<1>5. QED
  BY <1>1, <1>2, <1>3, <1>4

\* ConditionalResolve: the verdict is written if its row has not moved.
LEMMA ConditionalResolveInd ==
  ASSUME Inductive, NEW r \in Requests, ConditionalResolve(r)
  PROVE  Inductive'
<1> USE DEF Inductive
<1>1. TypeOK'
  BY PublishAssumption DEF TypeOK, row, queue, requests, workers,
     ConditionalResolve, EndRequest, Step, WriteStatus, Resolution, Status, RequestPc, RequestInv
<1>2. RowInv' /\ IndexInv'
  <2>1. RowInv'
    BY DEF TypeOK, RowInv, RequestInv, ResolutionMatches, PublishedUnder, Dispatchable, Active,
       ConditionalResolve, EndRequest, Step, WriteStatus, Resolution
  <2>2. IndexInv'
    BY DEF TypeOK, RowInv, IndexInv, RequestInv, ResolutionMatches, Dispatchable, Active,
       ConditionalResolve, EndRequest, Step, WriteStatus, Resolution
  <2>3. QED
    BY <2>1, <2>2
<1>3. RequestInv'
  BY DEF TypeOK, RequestInv, ResolutionMatches, RowInv, row, requests,
     ConditionalResolve, EndRequest, Step, WriteStatus, Resolution
<1>4. WorkerInv'
  <2>1. \A x \in Workers : PastClaim(x) =>
         status'[Post(x)] = status[Post(x)] /\ version'[Post(x)] = version[Post(x)]
    BY RunningHasPost DEF TypeOK, WorkerInv, ExecutionInv, PastClaim, InFlight, Running,
       RequestInv, ResolutionMatches, ConditionalResolve, WriteStatus
  <2>2. UNCHANGED <<manual, live, jobIds, wpc, wjob, wver>>
    BY DEF ConditionalResolve, queue, workers
  <2>3. QED
    BY <2>1, <2>2 DEF WorkerInv, ExecutionInv, Running, InFlight, PastClaim, Post
<1>5. QED
  BY <1>1, <1>2, <1>3, <1>4

\* Deliver: an idle worker takes a job.
LEMMA DeliverInd ==
  ASSUME Inductive, NEW w \in Workers, NEW j \in waiting, Deliver(w, j)
  PROVE  Inductive'
<1> USE DEF Inductive
<1>1. TypeOK'
  BY PublishAssumption DEF TypeOK, row, queue, requests, workers,
     Deliver, WorkerPc
<1>2. RowInv' /\ IndexInv'
  BY RowFrame DEF Deliver
<1>3. RequestInv'
  BY RequestFrame DEF Deliver
<1>4. WorkerInv'
  BY DEF TypeOK, WorkerInv, ExecutionInv, Running, InFlight, PastClaim, Post, JobId, 
     row, queue, workers, Deliver
<1>5. QED
  BY <1>1, <1>2, <1>3, <1>4

\* StalledCheck: a lock is lost, no execution changes its step.
LEMMA StalledCheckInd ==
  ASSUME Inductive, NEW j \in jobIds, StalledCheck(j)
  PROVE  Inductive'
<1> USE DEF Inductive
<1>1. TypeOK'
  BY PublishAssumption DEF TypeOK, row, queue, requests, workers,
     StalledCheck, Event, ActiveJobs
<1>2. RowInv' /\ IndexInv'
  BY RowFrame DEF StalledCheck
<1>3. RequestInv'
  BY RequestFrame DEF StalledCheck
<1>4. WorkerInv'
  BY DEF TypeOK, WorkerInv, ExecutionInv, Running, InFlight, PastClaim, Post, JobId, 
     row, queue, workers, StalledCheck, Event, ActiveJobs
<1>5. QED
  BY <1>1, <1>2, <1>3, <1>4

\* Finish: the run ends.
LEMMA FinishInd ==
  ASSUME Inductive, NEW w \in Workers, Finish(w)
  PROVE  Inductive'
<1> USE DEF Inductive
<1>1. Running(w) /\ wjob[w] \in jobIds /\ Post(w) \in Posts
  BY RunningHasPost DEF Finish, Running
<1>2. TypeOK'
  BY <1>1, PublishAssumption DEF TypeOK, row, queue, requests, workers,
     Finish, EndJob, EndRun, WorkerPc
<1>3. RowInv' /\ IndexInv'
  BY RowFrame DEF Finish
<1>4. RequestInv'
  BY RequestFrame DEF Finish
<1>5. WorkerInv'
  BY EndRunKeepsWorkerInv DEF Finish, EndJob, queue
<1>6. QED
  BY <1>2, <1>3, <1>4, <1>5

\* Throw: the run ends.
LEMMA ThrowInd ==
  ASSUME Inductive, NEW w \in Workers, Throw(w)
  PROVE  Inductive'
<1> USE DEF Inductive
<1>1. Running(w) /\ wjob[w] \in jobIds /\ Post(w) \in Posts
  BY RunningHasPost DEF Throw, Running
<1>2. TypeOK'
  BY <1>1, PublishAssumption DEF TypeOK, row, queue, requests, workers,
     Throw, EndJob, Event, EndRun, WorkerPc
<1>3. RowInv' /\ IndexInv'
  BY RowFrame DEF Throw
<1>4. RequestInv'
  BY RequestFrame DEF Throw
<1>5. WorkerInv'
  BY EndRunKeepsWorkerInv DEF Throw, EndJob, queue
<1>6. QED
  BY <1>2, <1>3, <1>4, <1>5

\* Crash: the run ends.
LEMMA CrashInd ==
  ASSUME Inductive, NEW w \in Workers, Crash(w)
  PROVE  Inductive'
<1> USE DEF Inductive
<1>1. Running(w) /\ wjob[w] \in jobIds /\ Post(w) \in Posts
  BY RunningHasPost DEF Crash, Running
<1>2. TypeOK'
  BY <1>1, PublishAssumption DEF TypeOK, row, queue, requests, workers,
     Crash, Event, EndRun, WorkerPc
<1>3. RowInv' /\ IndexInv'
  BY RowFrame DEF Crash
<1>4. RequestInv'
  BY RequestFrame DEF Crash
<1>5. WorkerInv'
  BY EndRunKeepsWorkerInv DEF Crash, queue
<1>6. QED
  BY <1>2, <1>3, <1>4, <1>5

\* ReadPost: the execution owns nothing yet.
LEMMA ReadPostInd ==
  ASSUME Inductive, NEW w \in Workers, ReadPost(w)
  PROVE  Inductive'
<1> USE DEF Inductive
<1>1. Running(w) /\ wjob[w] \in jobIds /\ Post(w) \in Posts
  BY RunningHasPost DEF ReadPost, Running
<1>2. TypeOK'
  BY <1>1, PublishAssumption DEF TypeOK, row, queue, requests, workers,
     ReadPost, Goto, WorkerPc
<1>3. RowInv' /\ IndexInv'
  BY RowFrame DEF ReadPost
<1>4. RequestInv'
  BY RequestFrame DEF ReadPost
<1>5. WorkerInv'
  BY <1>1 DEF TypeOK, WorkerInv, ExecutionInv, Running, InFlight, PastClaim, Post, RowInv, Dispatchable, 
     row, queue, workers, ReadPost, Goto
<1>6. QED
  BY <1>2, <1>3, <1>4, <1>5

\* Claim: a dispatchable row, nothing live, becomes owned.
LEMMA ClaimInd ==
  ASSUME Inductive, NEW w \in Workers, Claim(w)
  PROVE  Inductive'
<1> USE DEF Inductive
<1>1. Running(w) /\ wjob[w] \in jobIds /\ Post(w) \in Posts
  BY RunningHasPost DEF Claim, Running
<1>2. TypeOK'
  BY <1>1, PublishAssumption DEF TypeOK, row, queue, requests, workers,
     Claim, ClaimMatches, OwnedByOther, WriteStatus, Goto, Status, WorkerPc
<1>3. RowInv' /\ IndexInv'
  <2>1. RowInv'
    BY <1>1 DEF TypeOK, RowInv, WorkerInv, ExecutionInv, InFlight, PublishedUnder, Dispatchable, Active,
       Claim, ClaimMatches, OwnedByOther, WriteStatus, Goto
  <2>2. IndexInv'
    BY <1>1 DEF TypeOK, RowInv, IndexInv, WorkerInv, ExecutionInv, InFlight, Dispatchable, Active,
       Claim, ClaimMatches, OwnedByOther, WriteStatus, Goto
  <2>3. QED
    BY <2>1, <2>2
<1>4. RequestInv'
  BY <1>1 DEF TypeOK, RequestInv, ResolutionMatches, WorkerInv, ExecutionInv, InFlight, Dispatchable, row, requests,
     Claim, ClaimMatches, OwnedByOther, WriteStatus, Goto
<1>5. WorkerInv'
  BY <1>1 DEF TypeOK, WorkerInv, ExecutionInv, Running, InFlight, PastClaim, Post, RowInv, Dispatchable, 
     row, queue, workers, Claim, ClaimMatches, OwnedByOther, WriteStatus, Goto
<1>6. QED
  BY <1>2, <1>3, <1>4, <1>5

\* LoseClaim: the execution owns nothing.
LEMMA LoseClaimInd ==
  ASSUME Inductive, NEW w \in Workers, LoseClaim(w)
  PROVE  Inductive'
<1> USE DEF Inductive
<1>1. Running(w) /\ wjob[w] \in jobIds /\ Post(w) \in Posts
  BY RunningHasPost DEF LoseClaim, Running
<1>2. TypeOK'
  BY <1>1, PublishAssumption DEF TypeOK, row, queue, requests, workers,
     LoseClaim, Goto, WorkerPc
<1>3. RowInv' /\ IndexInv'
  BY RowFrame DEF LoseClaim
<1>4. RequestInv'
  BY RequestFrame DEF LoseClaim
<1>5. WorkerInv'
  BY <1>1 DEF TypeOK, WorkerInv, ExecutionInv, Running, InFlight, PastClaim, Post, RowInv, Dispatchable, 
     row, queue, workers, LoseClaim, Goto
<1>6. QED
  BY <1>2, <1>3, <1>4, <1>5

\* ClaimConflict: the run ends.
LEMMA ClaimConflictInd ==
  ASSUME Inductive, NEW w \in Workers, ClaimConflict(w)
  PROVE  Inductive'
<1> USE DEF Inductive
<1>1. Running(w) /\ wjob[w] \in jobIds /\ Post(w) \in Posts
  BY RunningHasPost DEF ClaimConflict, Running
<1>2. TypeOK'
  BY <1>1, PublishAssumption DEF TypeOK, row, queue, requests, workers,
     ClaimConflict, EndJob, EndRun, WorkerPc
<1>3. RowInv' /\ IndexInv'
  BY RowFrame DEF ClaimConflict
<1>4. RequestInv'
  BY RequestFrame DEF ClaimConflict
<1>5. WorkerInv'
  BY EndRunKeepsWorkerInv DEF ClaimConflict, EndJob, queue
<1>6. QED
  BY <1>2, <1>3, <1>4, <1>5

\* GetToken: the owner moves on, nothing is live.
LEMMA GetTokenInd ==
  ASSUME Inductive, NEW w \in Workers, GetToken(w)
  PROVE  Inductive'
<1> USE DEF Inductive
<1>1. Running(w) /\ wjob[w] \in jobIds /\ Post(w) \in Posts
  BY RunningHasPost DEF GetToken, Running
<1>2. TypeOK'
  BY <1>1, PublishAssumption DEF TypeOK, row, queue, requests, workers,
     GetToken, Goto, WorkerPc
<1>3. RowInv' /\ IndexInv'
  BY RowFrame DEF GetToken
<1>4. RequestInv'
  BY RequestFrame DEF GetToken
<1>5. WorkerInv'
  BY <1>1 DEF TypeOK, WorkerInv, ExecutionInv, Running, InFlight, PastClaim, Post, RowInv, Dispatchable, 
     row, queue, workers, GetToken, Goto
<1>6. QED
  BY <1>2, <1>3, <1>4, <1>5

\* Dispatch: the one dispatch of the one owner.
LEMMA DispatchInd ==
  ASSUME Inductive, NEW w \in Workers, Dispatch(w)
  PROVE  Inductive'
<1> USE DEF Inductive
<1>1. Running(w) /\ wjob[w] \in jobIds /\ Post(w) \in Posts
  BY RunningHasPost DEF Dispatch, Running
<1>2. TypeOK'
  BY <1>1, PublishAssumption DEF TypeOK, row, queue, requests, workers,
     Dispatch, Goto, Status, WorkerPc
<1>3. RowInv' /\ IndexInv'
  <2>1. RowInv'
    BY <1>1 DEF TypeOK, RowInv, WorkerInv, ExecutionInv, InFlight, row, PublishedUnder, Dispatchable, Active,
       Dispatch, Goto
  <2>2. IndexInv'
    BY <1>1 DEF TypeOK, RowInv, IndexInv, WorkerInv, ExecutionInv, InFlight, row, Dispatchable, Active,
       Dispatch, Goto
  <2>3. QED
    BY <2>1, <2>2
<1>4. RequestInv'
  BY <1>1 DEF TypeOK, RequestInv, ResolutionMatches, WorkerInv, ExecutionInv, InFlight, Dispatchable, row, requests,
     Dispatch, Goto
<1>5. WorkerInv'
  <2>1. SUFFICES ASSUME NEW x \in Workers
                 PROVE  ExecutionInv(x)'
    BY DEF WorkerInv
  <2>2. CASE x = w
    BY <1>1, <2>2 DEF TypeOK, RowInv, WorkerInv, ExecutionInv, Running, InFlight, PastClaim,
       Post, row, queue, workers, Dispatch, Goto
  <2>3. CASE x # w
    <3>1. Running(x) => Post(x) \in Posts
      BY RunningHasPost
    <3>2. PastClaim(x) => Post(x) # Post(w)
      BY <1>1, <2>3 DEF WorkerInv, ExecutionInv, PastClaim, InFlight, Dispatch
    <3>3. wpc'[x] = wpc[x] /\ wjob'[x] = wjob[x] /\ wver'[x] = wver[x] /\ jobIds' = jobIds
      BY <2>3 DEF TypeOK, queue, Dispatch, Goto
    <3>4. PastClaim(x) =>
           /\ status'[Post(x)] = status[Post(x)] /\ version'[Post(x)] = version[Post(x)]
           /\ manual' = manual /\ live'[Post(x)] = live[Post(x)]
      BY <3>1, <3>2, <1>1 DEF TypeOK, PastClaim, InFlight, Running, row, Dispatch, Goto
    <3>5. \A y \in Workers : wjob'[y] = wjob[y] /\ (PastClaim(y)' => PastClaim(y))
      BY <2>3 DEF TypeOK, PastClaim, InFlight, Dispatch, Goto
    <3>6. QED
      BY <3>2, <3>3, <3>4, <3>5 DEF WorkerInv, ExecutionInv, Running, PastClaim, InFlight, Post
  <2>4. QED
    BY <2>2, <2>3
<1>6. QED
  BY <1>2, <1>3, <1>4, <1>5

\* MarkFailed: nothing is live: the row is given up.
LEMMA MarkFailedInd ==
  ASSUME Inductive, NEW w \in Workers, MarkFailed(w)
  PROVE  Inductive'
<1> USE DEF Inductive
<1>1. Running(w) /\ wjob[w] \in jobIds /\ Post(w) \in Posts
  BY RunningHasPost DEF MarkFailed, Running
<1>2. TypeOK'
  BY <1>1, PublishAssumption DEF TypeOK, row, queue, requests, workers,
     MarkFailed, OwnsRow, WriteStatus, Goto, Status, WorkerPc
<1>3. RowInv' /\ IndexInv'
  <2>1. RowInv'
    BY <1>1 DEF TypeOK, RowInv, WorkerInv, ExecutionInv, InFlight, PublishedUnder, Dispatchable, Active,
       MarkFailed, OwnsRow, WriteStatus, Goto
  <2>2. IndexInv'
    BY <1>1 DEF TypeOK, RowInv, IndexInv, WorkerInv, ExecutionInv, InFlight, Dispatchable, Active,
       MarkFailed, OwnsRow, WriteStatus, Goto
  <2>3. QED
    BY <2>1, <2>2
<1>4. RequestInv'
  BY <1>1 DEF TypeOK, RequestInv, ResolutionMatches, WorkerInv, ExecutionInv, InFlight, Dispatchable, row, requests,
     MarkFailed, OwnsRow, WriteStatus, Goto
<1>5. WorkerInv'
  <2>1. SUFFICES ASSUME NEW x \in Workers
                 PROVE  ExecutionInv(x)'
    BY DEF WorkerInv
  <2>2. CASE x = w
    BY <1>1, <2>2 DEF TypeOK, RowInv, WorkerInv, ExecutionInv, Running, InFlight, PastClaim,
       Post, row, queue, workers, MarkFailed, OwnsRow, WriteStatus, Goto
  <2>3. CASE x # w
    <3>1. Running(x) => Post(x) \in Posts
      BY RunningHasPost
    <3>2. PastClaim(x) => Post(x) # Post(w)
      BY <1>1, <2>3 DEF WorkerInv, ExecutionInv, PastClaim, InFlight, MarkFailed
    <3>3. wpc'[x] = wpc[x] /\ wjob'[x] = wjob[x] /\ wver'[x] = wver[x] /\ jobIds' = jobIds
      BY <2>3 DEF TypeOK, queue, MarkFailed, OwnsRow, WriteStatus, Goto
    <3>4. PastClaim(x) =>
           /\ status'[Post(x)] = status[Post(x)] /\ version'[Post(x)] = version[Post(x)]
           /\ manual' = manual /\ live'[Post(x)] = live[Post(x)]
      BY <3>1, <3>2, <1>1 DEF TypeOK, PastClaim, InFlight, Running, row, MarkFailed, OwnsRow, WriteStatus, Goto
    <3>5. \A y \in Workers : wjob'[y] = wjob[y] /\ (PastClaim(y)' => PastClaim(y))
      BY <2>3 DEF TypeOK, PastClaim, InFlight, MarkFailed, OwnsRow, WriteStatus, Goto
    <3>6. QED
      BY <3>2, <3>3, <3>4, <3>5 DEF WorkerInv, ExecutionInv, Running, PastClaim, InFlight, Post
  <2>4. QED
    BY <2>2, <2>3
<1>6. QED
  BY <1>2, <1>3, <1>4, <1>5

\* RecordSuccess: something is live: the row is posted.
LEMMA RecordSuccessInd ==
  ASSUME Inductive, NEW w \in Workers, RecordSuccess(w)
  PROVE  Inductive'
<1> USE DEF Inductive
<1>1. Running(w) /\ wjob[w] \in jobIds /\ Post(w) \in Posts
  BY RunningHasPost DEF RecordSuccess, Running
<1>2. TypeOK'
  BY <1>1, PublishAssumption DEF TypeOK, row, queue, requests, workers,
     RecordSuccess, OwnsRow, WriteStatus, Goto, Event, Status, WorkerPc
<1>3. RowInv' /\ IndexInv'
  <2>1. RowInv'
    BY <1>1 DEF TypeOK, RowInv, WorkerInv, ExecutionInv, InFlight, PublishedUnder, Dispatchable, Active,
       RecordSuccess, OwnsRow, WriteStatus, Goto, Event
  <2>2. IndexInv'
    BY <1>1 DEF TypeOK, RowInv, IndexInv, WorkerInv, ExecutionInv, InFlight, Dispatchable, Active,
       RecordSuccess, OwnsRow, WriteStatus, Goto, Event
  <2>3. QED
    BY <2>1, <2>2
<1>4. RequestInv'
  BY <1>1 DEF TypeOK, RequestInv, ResolutionMatches, WorkerInv, ExecutionInv, InFlight, Dispatchable, row, requests,
     RecordSuccess, OwnsRow, WriteStatus, Goto, Event
<1>5. WorkerInv'
  BY <1>1 DEF TypeOK, WorkerInv, ExecutionInv, Running, InFlight, PastClaim, Post, RowInv, Dispatchable, 
     row, queue, workers, RecordSuccess, OwnsRow, WriteStatus, Goto, Event
<1>6. QED
  BY <1>2, <1>3, <1>4, <1>5

\* SuccessNotRecorded: the owner turns to the ambiguous write.
LEMMA SuccessNotRecordedInd ==
  ASSUME Inductive, NEW w \in Workers, SuccessNotRecorded(w)
  PROVE  Inductive'
<1> USE DEF Inductive
<1>1. Running(w) /\ wjob[w] \in jobIds /\ Post(w) \in Posts
  BY RunningHasPost DEF SuccessNotRecorded, Running
<1>2. TypeOK'
  BY <1>1, PublishAssumption DEF TypeOK, row, queue, requests, workers,
     SuccessNotRecorded, OwnsRow, Goto, Event, WorkerPc
<1>3. RowInv' /\ IndexInv'
  BY RowFrame DEF SuccessNotRecorded
<1>4. RequestInv'
  BY RequestFrame DEF SuccessNotRecorded
<1>5. WorkerInv'
  BY <1>1 DEF TypeOK, WorkerInv, ExecutionInv, Running, InFlight, PastClaim, Post, RowInv, Dispatchable, 
     row, queue, workers, SuccessNotRecorded, OwnsRow, Goto, Event
<1>6. QED
  BY <1>2, <1>3, <1>4, <1>5

\* MarkUnconfirmed: the row keeps its target.
LEMMA MarkUnconfirmedInd ==
  ASSUME Inductive, NEW w \in Workers, MarkUnconfirmed(w)
  PROVE  Inductive'
<1> USE DEF Inductive
<1>1. Running(w) /\ wjob[w] \in jobIds /\ Post(w) \in Posts
  BY RunningHasPost DEF MarkUnconfirmed, Running
<1>2. TypeOK'
  BY <1>1, PublishAssumption DEF TypeOK, row, queue, requests, workers,
     MarkUnconfirmed, WriteStatus, Goto, Event, Status, WorkerPc
<1>3. RowInv' /\ IndexInv'
  <2>1. RowInv'
    BY <1>1 DEF TypeOK, RowInv, WorkerInv, ExecutionInv, InFlight, PublishedUnder, Dispatchable, Active,
       MarkUnconfirmed, WriteStatus, Goto, Event
  <2>2. IndexInv'
    BY <1>1 DEF TypeOK, RowInv, IndexInv, WorkerInv, ExecutionInv, InFlight, Dispatchable, Active,
       MarkUnconfirmed, WriteStatus, Goto, Event
  <2>3. QED
    BY <2>1, <2>2
<1>4. RequestInv'
  BY <1>1 DEF TypeOK, RequestInv, ResolutionMatches, WorkerInv, ExecutionInv, InFlight, Dispatchable, row, requests,
     MarkUnconfirmed, WriteStatus, Goto, Event
<1>5. WorkerInv'
  <2>1. SUFFICES ASSUME NEW x \in Workers
                 PROVE  ExecutionInv(x)'
    BY DEF WorkerInv
  <2>2. CASE x = w
    BY <1>1, <2>2 DEF TypeOK, RowInv, WorkerInv, ExecutionInv, Running, InFlight, PastClaim,
       Post, row, queue, workers, MarkUnconfirmed, WriteStatus, Goto, Event
  <2>3. CASE x # w
    <3>1. Running(x) => Post(x) \in Posts
      BY RunningHasPost
    <3>2. PastClaim(x) => Post(x) # Post(w)
      BY <1>1, <2>3 DEF WorkerInv, ExecutionInv, PastClaim, InFlight, MarkUnconfirmed
    <3>3. wpc'[x] = wpc[x] /\ wjob'[x] = wjob[x] /\ wver'[x] = wver[x] /\ jobIds' = jobIds
      BY <2>3 DEF TypeOK, queue, MarkUnconfirmed, WriteStatus, Goto, Event
    <3>4. PastClaim(x) =>
           /\ status'[Post(x)] = status[Post(x)] /\ version'[Post(x)] = version[Post(x)]
           /\ manual' = manual /\ live'[Post(x)] = live[Post(x)]
      BY <3>1, <3>2, <1>1 DEF TypeOK, PastClaim, InFlight, Running, row, MarkUnconfirmed, WriteStatus, Goto, Event
    <3>5. \A y \in Workers : wjob'[y] = wjob[y] /\ (PastClaim(y)' => PastClaim(y))
      BY <2>3 DEF TypeOK, PastClaim, InFlight, MarkUnconfirmed, WriteStatus, Goto, Event
    <3>6. QED
      BY <3>2, <3>3, <3>4, <3>5 DEF WorkerInv, ExecutionInv, Running, PastClaim, InFlight, Post
  <2>4. QED
    BY <2>2, <2>3
<1>6. QED
  BY <1>2, <1>3, <1>4, <1>5

-----------------------------------------------------------------------------
(* The inductive invariant and the safety properties.                      *)

\* The empty posts table satisfies the inductive invariant.
LEMMA InitInductive == Init => Inductive
BY PublishAssumption DEF Init, Inductive, TypeOK, RowInv, IndexInv, RequestInv, WorkerInv,
   ExecutionInv, Status, Active, RequestPc, WorkerPc, Running, InFlight, PastClaim

\* Every step of the flow, or a stutter, preserves the inductive invariant.
LEMMA NextInductive == Inductive /\ [Next]_vars => Inductive'
<1> SUFFICES ASSUME Inductive, [Next]_vars PROVE Inductive'
  OBVIOUS
<1>1. CASE \E c \in Contents : EditContent(c)
  BY <1>1, EditContentInd
<1>2. CASE \E r \in Requests : AdminStep(r)
  BY <1>2, CheckNewIntentInd, CreateDraftInd, RecordManualExternalInd, InsertConflictInd,
     RedispatchCheckInd, RedispatchUpdateInd, EnqueueInd, AbandonRequestInd,
     LoadUnconfirmedInd, ConditionalResolveInd DEF AdminStep
<1>3. CASE \E w \in Workers : Execute(w) \/ Throw(w) \/ Crash(w)
  BY <1>3, ReadPostInd, ClaimInd, LoseClaimInd, ClaimConflictInd, GetTokenInd, DispatchInd,
     MarkFailedInd, RecordSuccessInd, SuccessNotRecordedInd, MarkUnconfirmedInd, FinishInd,
     ThrowInd, CrashInd DEF Execute
<1>4. CASE \E w \in Workers, j \in waiting : Deliver(w, j)
  BY <1>4, DeliverInd
<1>5. CASE \E j \in jobIds : StalledCheck(j)
  BY <1>5, StalledCheckInd
<1>6. CASE UNCHANGED vars
  <2>1. TypeOK'
    BY <1>6 DEF Inductive, TypeOK, vars, row, queue, requests, workers
  <2>2. QED
    BY <1>6, <2>1, RowFrame, RequestFrame, WorkerFrame DEF Inductive, vars, queue
<1>7. QED
  BY <1>1, <1>2, <1>3, <1>4, <1>5, <1>6 DEF Next

\* Every reachable state satisfies the inductive invariant.
THEOREM SpecInductive == Spec => []Inductive
BY InitInductive, NextInductive, PTL DEF Spec

\* Type correctness.
THEOREM TypeCorrect == Spec => []TypeOK
BY SpecInductive, PTL DEF Inductive

\* A (content, platform) pair is published at most once, whatever the queue
\* redelivers, whoever crashes, however many admins and workers there are.
THEOREM PublishedAtMostOnce == Spec => []PublishedOnce
<1>1. Inductive => PublishedOnce
  BY DEF Inductive, TypeOK, RowInv, IndexInv, PublishedOnce, PublishedUnder, Status, Active
<1>2. QED
  BY <1>1, SpecInductive, PTL

\* A row that may be dispatched, again or for the first time, has nothing live.
THEOREM RetriesAreSafe == Spec => []RetryIsSafe
<1>1. Inductive => RetryIsSafe
  BY DEF Inductive, RowInv, RetryIsSafe, PublishedUnder, Dispatchable
<1>2. QED
  BY <1>1, SpecInductive, PTL

\* A posted row has been published.
THEOREM PostedMeansPublished == Spec => []PostedIsPublished
<1>1. Inductive => PostedIsPublished
  BY DEF Inductive, RowInv, PostedIsPublished
<1>2. QED
  BY <1>1, SpecInductive, PTL

\* Two executions never own the same row.
THEOREM ClaimsAreExclusive == Spec => []ClaimIsExclusive
<1>1. Inductive => ClaimIsExclusive
  BY DEF Inductive, WorkerInv, ExecutionInv, ClaimIsExclusive, PastClaim
<1>2. QED
  BY <1>1, SpecInductive, PTL

-----------------------------------------------------------------------------
(* The refinement of PublishPromise.                                       *)

\* An active row is the owner of its target.
OwnerOfActive == \A p \in Posts : status[p] \in Active => Owners[target[p]] = p

\* A target without an active row has no owner.
OwnerOfFree ==
  \A t \in Target :
    (\A p \in Posts : ~(status[p] \in Active /\ target[p] = t)) => Owners[t] = None

\* The partial unique index makes the owner of a target unique.
LEMMA OwnerWhenActive == Inductive => OwnerOfActive
<1> SUFFICES ASSUME Inductive, NEW p \in Posts, status[p] \in Active
             PROVE  Owners[target[p]] = p
  BY DEF OwnerOfActive
<1> DEFINE IsOwner(q) == status[q] \in Active /\ target[q] = target[p]
<1>1. target[p] \in Target
  BY DEF Inductive, RowInv, Active
<1>2. IsOwner(p)
  OBVIOUS
<1>3. \A q \in Posts : IsOwner(q) => q = p
  BY DEF Inductive, IndexInv
<1>4. (CHOOSE q \in Posts : IsOwner(q)) = p
  BY <1>2, <1>3
<1>5. QED
  BY <1>1, <1>2, <1>4 DEF Owners, Owner

\* The owner of a target nobody holds is None.
LEMMA OwnerWhenFree == OwnerOfFree
BY DEF OwnerOfFree, Owners, Owner

\* Both facts about owners, in the state after a step.
LEMMA OwnersNext == Inductive' => OwnerOfActive' /\ OwnerOfFree'
<1>1. Inductive' => OwnerOfActive'
  BY OwnerWhenActive, PTL
<1>2. OwnerOfFree'
  BY OwnerWhenFree, PTL
<1>3. QED
  BY <1>1, <1>2

\* Two states with the same owner rows have the same owners.
LEMMA OwnersUnchanged ==
  ASSUME Inductive, Inductive', target' = target,
         \A p \in Posts : status'[p] \in Active <=> status[p] \in Active
  PROVE  Owners' = Owners
<1>1. SUFFICES ASSUME NEW t \in Target PROVE Owners'[t] = Owners[t]
  BY DEF Owners
<1>2. CASE \E p \in Posts : status[p] \in Active /\ target[p] = t
  BY <1>2, OwnerWhenActive, OwnersNext DEF OwnerOfActive
<1>3. CASE \A p \in Posts : ~(status[p] \in Active /\ target[p] = t)
  BY <1>3, OwnerWhenFree, OwnersNext DEF OwnerOfFree
<1>4. QED
  BY <1>2, <1>3

\* A row that becomes active takes its target, and nothing else changes hands.
LEMMA OwnersAcquire ==
  ASSUME Inductive, Inductive', NEW p \in Posts,
         status[p] \notin Active, status'[p] \in Active,
         \A q \in Posts \ {p} : status'[q] = status[q] /\ target'[q] = target[q]
  PROVE  /\ target'[p] \in Target
         /\ Owners[target'[p]] = None
         /\ Owners' = [Owners EXCEPT ![target'[p]] = p]
<1>1. target'[p] \in Target
  BY DEF Inductive, RowInv, Active
<1>2. \A q \in Posts \ {p} : ~(status[q] \in Active /\ target[q] = target'[p])
  BY DEF Inductive, IndexInv
<1>3. Owners[target'[p]] = None
  BY <1>1, <1>2, OwnerWhenFree DEF OwnerOfFree
<1>4. Owners'[target'[p]] = p
  BY OwnersNext DEF OwnerOfActive
<1>5. ASSUME NEW t \in Target, t # target'[p] PROVE Owners'[t] = Owners[t]
  <2>1. CASE \E q \in Posts : status[q] \in Active /\ target[q] = t
    BY <2>1, OwnerWhenActive, OwnersNext DEF OwnerOfActive
  <2>2. CASE \A q \in Posts : ~(status[q] \in Active /\ target[q] = t)
    BY <1>5, <2>2, OwnerWhenFree, OwnersNext DEF OwnerOfFree
  <2>3. QED
    BY <2>1, <2>2
<1>6. Owners' = [Owners EXCEPT ![target'[p]] = p]
  BY <1>1, <1>4, <1>5 DEF Owners
<1>7. QED
  BY <1>1, <1>3, <1>6

\* A row that stops being active gives its target up, and nothing else
\* changes hands.
LEMMA OwnersRelease ==
  ASSUME Inductive, Inductive', NEW p \in Posts, target' = target,
         status[p] \in Active, status'[p] \notin Active,
         \A q \in Posts \ {p} : status'[q] = status[q]
  PROVE  /\ target[p] \in Target
         /\ Owners' = [Owners EXCEPT ![target[p]] = None]
<1>1. target[p] \in Target
  BY DEF Inductive, RowInv, Active
<1>2. \A q \in Posts : ~(status'[q] \in Active /\ target'[q] = target[p])
  BY DEF Inductive, IndexInv
<1>3. Owners'[target[p]] = None
  BY <1>1, <1>2, OwnersNext DEF OwnerOfFree
<1>4. ASSUME NEW t \in Target, t # target[p] PROVE Owners'[t] = Owners[t]
  <2>1. CASE \E q \in Posts : status[q] \in Active /\ target[q] = t
    BY <1>4, <2>1, OwnerWhenActive, OwnersNext DEF OwnerOfActive
  <2>2. CASE \A q \in Posts : ~(status[q] \in Active /\ target[q] = t)
    BY <1>4, <2>2, OwnerWhenFree, OwnersNext DEF OwnerOfFree
  <2>3. QED
    BY <2>1, <2>2
<1>5. Owners' = [Owners EXCEPT ![target[p]] = None]
  BY <1>1, <1>3, <1>4 DEF Owners
<1>6. QED
  BY <1>1, <1>5

\* What has been published changes only with the rows' dispatches and targets.
LEMMA PublicationsUnchanged ==
  ASSUME target' = target, manual' = manual, live' = live
  PROVE  Publications' = Publications
BY DEF Publications, PublishedUnder

\* Only the owner of a target has published it.
LEMMA NothingPublished ==
  ASSUME Inductive, NEW p \in Posts, status[p] \in Active, live[p] = 0, p \notin manual
  PROVE  ~Promise!Published(target[p])
<1>1. SUFFICES ASSUME NEW q \in Posts, <<target[p], q>> \in Publications PROVE FALSE
  BY DEF Promise!Published
<1>2. target[q] = target[p] /\ PublishedUnder(q)
  BY <1>1 DEF Publications
<1>3. status[q] \in Active
  BY <1>2 DEF Inductive, TypeOK, RowInv, PublishedUnder, Active, Status
<1>4. q = p
  BY <1>2, <1>3 DEF Inductive, IndexInv
<1>5. QED
  BY <1>2, <1>4 DEF PublishedUnder

\* A step that leaves rows and platforms alone stutters in the promise.
LEMMA RowsUnchangedStutters ==
  ASSUME Inductive, Inductive', UNCHANGED <<row, live>>
  PROVE  UNCHANGED Promise!vars
BY OwnersUnchanged, PublicationsUnchanged DEF row, Promise!vars

\* Opening a draft takes its target.
LEMMA CreateDraftAcquires ==
  ASSUME Inductive, Inductive', NEW r \in Requests, NEW p \in Posts, CreateDraft(r, p)
  PROVE  Promise!Next
<1>1. /\ status[p] \notin Active /\ status'[p] \in Active
      /\ \A q \in Posts \ {p} : status'[q] = status[q] /\ target'[q] = target[q]
  BY DEF Inductive, TypeOK, CreateDraft, InsertRow, Active
<1>2. Publications' = Publications
  BY DEF Inductive, TypeOK, RowInv, CreateDraft, InsertRow, Publications, PublishedUnder
<1>3. Promise!Acquire(target'[p], p)
  BY <1>1, <1>2, OwnersAcquire DEF Promise!Acquire
<1>4. QED
  BY <1>1, <1>3, OwnersAcquire DEF Promise!Next

\* Recording a native post takes the target and publishes it.
LEMMA RecordManualAcquires ==
  ASSUME Inductive, Inductive', NEW r \in Requests, NEW p \in Posts,
         RecordManualExternal(r, p)
  PROVE  Promise!Next
<1>1. /\ status[p] \notin Active /\ status'[p] \in Active
      /\ \A q \in Posts \ {p} : status'[q] = status[q] /\ target'[q] = target[q]
  BY DEF Inductive, TypeOK, RecordManualExternal, InsertRow, Active
<1>2. target'[p] \in Target
  BY <1>1, OwnersAcquire
<1>3. Publications' = Publications \cup {<<target'[p], p>>}
  BY <1>2 DEF Inductive, TypeOK, RowInv, RecordManualExternal, InsertRow, Publications,
     PublishedUnder
<1>4. Promise!AcquirePublished(target'[p], p)
  BY <1>1, <1>3, OwnersAcquire DEF Promise!AcquirePublished
<1>5. QED
  BY <1>2, <1>4 DEF Promise!Next

\* A claim takes the target back for a failed row; a draft has it already.
LEMMA ClaimAcquires ==
  ASSUME Inductive, Inductive', NEW w \in Workers, Claim(w)
  PROVE  [Promise!Next]_Promise!vars
<1>1. Post(w) \in Posts
  BY RunningHasPost DEF Inductive, Claim, Running
<1>2. /\ status[Post(w)] \in Dispatchable /\ status'[Post(w)] = "scheduled"
      /\ \A q \in Posts \ {Post(w)} : status'[q] = status[q]
      /\ target' = target /\ manual' = manual /\ live' = live
  BY <1>1 DEF Inductive, TypeOK, Claim, ClaimMatches, WriteStatus
<1>3. Publications' = Publications
  BY <1>2, PublicationsUnchanged
<1>4. CASE status[Post(w)] = "draft"
  BY <1>1, <1>2, <1>3, <1>4, OwnersUnchanged DEF Active, Promise!vars
<1>5. CASE status[Post(w)] = "failed"
  <2>1. Promise!Acquire(target'[Post(w)], Post(w))
    BY <1>1, <1>2, <1>3, <1>5, OwnersAcquire DEF Active, Promise!Acquire
  <2>2. target'[Post(w)] \in Target
    BY <1>1, <1>2, <1>5, OwnersAcquire DEF Active
  <2>3. QED
    BY <1>1, <2>1, <2>2 DEF Promise!Next
<1>6. QED
  BY <1>2, <1>4, <1>5 DEF Dispatchable

\* A dispatch publishes a target nobody has published, or changes nothing.
LEMMA DispatchPublishes ==
  ASSUME Inductive, Inductive', NEW w \in Workers, Dispatch(w)
  PROVE  [Promise!Next]_Promise!vars
<1> DEFINE p == Post(w)
<1>1. p \in Posts
  BY RunningHasPost DEF Inductive, Dispatch, Running
<1>2. status[p] = "scheduled" /\ live[p] = 0 /\ p \notin manual
  BY <1>1 DEF Inductive, RowInv, WorkerInv, ExecutionInv, InFlight, Dispatch
<1>3. UNCHANGED <<status, target, manual>>
  BY DEF Dispatch, row
<1>4. Owners' = Owners
  BY <1>3, OwnersUnchanged
<1>5. CASE live' = live
  BY <1>3, <1>4, <1>5, PublicationsUnchanged DEF Promise!vars
<1>6. CASE live' = [live EXCEPT ![p] = live[p] + 1]
  <2>1. target[p] \in Target
    BY <1>1, <1>2 DEF Inductive, RowInv
  <2>2. Publications' = Publications \cup {<<target[p], p>>}
    BY <1>1, <1>2, <1>3, <1>6, <2>1 DEF Inductive, TypeOK, Publications, PublishedUnder
  <2>3. Owners[target[p]] = p
    BY <1>1, <1>2, OwnerWhenActive DEF OwnerOfActive, Active
  <2>4. ~Promise!Published(target[p])
    BY <1>1, <1>2, NothingPublished DEF Active
  <2>5. Promise!Publish(target[p], p)
    BY <1>4, <2>2, <2>3, <2>4 DEF Promise!Publish
  <2>6. QED
    BY <1>1, <2>1, <2>5 DEF Promise!Next
<1>7. QED
  BY <1>5, <1>6 DEF Dispatch

\* A status write that leaves the row active is a stutter of the promise.
LEMMA ActiveWriteStutters ==
  ASSUME Inductive, Inductive', NEW p \in Posts, NEW s \in Active,
         status[p] \in Active, WriteStatus(p, s),
         UNCHANGED <<target, manual, live>>
  PROVE  UNCHANGED Promise!vars
<1>1. \A q \in Posts : status'[q] \in Active <=> status[q] \in Active
  BY DEF Inductive, TypeOK, WriteStatus
<1>2. QED
  BY <1>1, OwnersUnchanged, PublicationsUnchanged DEF Promise!vars

\* Writing failed over an active row with nothing live releases its target.
LEMMA FailedWriteReleases ==
  ASSUME Inductive, Inductive', NEW p \in Posts, status[p] \in Active,
         live[p] = 0, p \notin manual, WriteStatus(p, "failed"),
         UNCHANGED <<target, manual, live>>
  PROVE  Promise!Next
<1>1. /\ status'[p] \notin Active
      /\ \A q \in Posts \ {p} : status'[q] = status[q]
  BY DEF Inductive, TypeOK, WriteStatus, Active
<1>2. Promise!Release(target[p])
  BY <1>1, OwnersRelease, NothingPublished, PublicationsUnchanged DEF Promise!Release
<1>3. QED
  BY <1>1, <1>2, OwnersRelease DEF Promise!Next

\* A verdict keeps the target of a live row and frees one with nothing live.
LEMMA ConditionalResolveReleases ==
  ASSUME Inductive, Inductive', NEW r \in Requests, ConditionalResolve(r)
  PROVE  [Promise!Next]_Promise!vars
<1>1. rpost[r] \in Posts /\ UNCHANGED <<target, manual, live>>
  BY DEF Inductive, RequestInv, ConditionalResolve
<1>2. CASE ~ResolutionMatches(r)
  BY <1>1, <1>2, RowsUnchangedStutters DEF ConditionalResolve, row
<1>3. CASE ResolutionMatches(r) /\ rpc[r] = "resolve_posted"
  <2>1. WriteStatus(rpost[r], "posted")
    BY <1>3 DEF ConditionalResolve, Resolution
  <2>2. QED
    BY <1>1, <1>3, <2>1, ActiveWriteStutters DEF ResolutionMatches, Active
<1>4. CASE ResolutionMatches(r) /\ rpc[r] = "resolve_not_posted"
  <2>1. WriteStatus(rpost[r], "failed")
    BY <1>4 DEF ConditionalResolve, Resolution
  <2>2. live[rpost[r]] = 0 /\ rpost[r] \notin manual
    BY <1>1, <1>4 DEF Inductive, TypeOK, RowInv, RequestInv, ResolutionMatches
  <2>3. QED
    BY <1>1, <1>4, <2>1, <2>2, FailedWriteReleases DEF ResolutionMatches, Active
<1>5. QED
  BY <1>2, <1>3, <1>4 DEF ConditionalResolve

\* The three writes at the end of an execution.
LEMMA TerminalWriteKeepsPromise ==
  ASSUME Inductive, Inductive', NEW w \in Workers,
         MarkFailed(w) \/ RecordSuccess(w) \/ MarkUnconfirmed(w)
  PROVE  [Promise!Next]_Promise!vars
<1>1. Post(w) \in Posts /\ UNCHANGED <<target, manual, live>>
  BY RunningHasPost DEF Inductive, Running, MarkFailed, RecordSuccess, MarkUnconfirmed
<1>2. status[Post(w)] \in {"scheduled", "posted"} /\ Post(w) \notin manual
  BY <1>1 DEF Inductive, RowInv, WorkerInv, ExecutionInv, InFlight, MarkFailed, RecordSuccess,
     MarkUnconfirmed
<1>3. CASE UNCHANGED <<status, version>>
  BY <1>1, <1>3, RowsUnchangedStutters DEF row
<1>4. CASE MarkFailed(w) /\ WriteStatus(Post(w), "failed")
  <2>1. live[Post(w)] = 0
    BY <1>4 DEF Inductive, WorkerInv, ExecutionInv, MarkFailed
  <2>2. QED
    BY <1>1, <1>2, <1>4, <2>1, FailedWriteReleases DEF Active
<1>5. CASE WriteStatus(Post(w), "posted") \/ WriteStatus(Post(w), "posted_unconfirmed")
  BY <1>1, <1>2, <1>5, ActiveWriteStutters DEF Active
<1>6. QED
  BY <1>3, <1>4, <1>5 DEF MarkFailed, RecordSuccess, MarkUnconfirmed

\* Every step of the flow is a step of the promise or a stutter.
LEMMA StepKeepsPromise ==
  Inductive /\ Inductive' /\ [Next]_vars => [Promise!Next]_Promise!vars
<1> SUFFICES ASSUME Inductive, Inductive', [Next]_vars
             PROVE  [Promise!Next]_Promise!vars
  OBVIOUS
<1>1. CASE UNCHANGED <<row, live>>
  BY <1>1, RowsUnchangedStutters
<1>2. ASSUME NEW r \in Requests, AdminStep(r)
      PROVE  [Promise!Next]_Promise!vars \/ UNCHANGED <<row, live>>
  BY <1>2, CreateDraftAcquires, RecordManualAcquires, ConditionalResolveReleases
     DEF AdminStep, CheckNewIntent, InsertConflict, RedispatchCheck, RedispatchUpdate, Enqueue,
         AbandonRequest, LoadUnconfirmed
<1>3. ASSUME NEW w \in Workers, Execute(w)
      PROVE  [Promise!Next]_Promise!vars \/ UNCHANGED <<row, live>>
  BY <1>3, ClaimAcquires, DispatchPublishes, TerminalWriteKeepsPromise
     DEF Execute, ReadPost, LoseClaim, ClaimConflict, GetToken, SuccessNotRecorded, Finish
<1>4. ASSUME NEW w \in Workers, Throw(w) \/ Crash(w) PROVE UNCHANGED <<row, live>>
  BY <1>4 DEF Throw, Crash
<1>5. ASSUME NEW c \in Contents, EditContent(c) PROVE UNCHANGED <<row, live>>
  BY <1>5 DEF EditContent
<1>6. ASSUME NEW w \in Workers, NEW j \in waiting, Deliver(w, j) PROVE UNCHANGED <<row, live>>
  BY <1>6 DEF Deliver
<1>7. ASSUME NEW j \in jobIds, StalledCheck(j) PROVE UNCHANGED <<row, live>>
  BY <1>7 DEF StalledCheck
<1>8. QED
  BY <1>1, <1>2, <1>3, <1>4, <1>5, <1>6, <1>7 DEF Next, vars

\* The flow, with its queue, crashes and races, implements PublishPromise.
THEOREM Refinement == Spec => KeepsPromise
<1>1. Init => Promise!Init
  BY DEF Init, Promise!Init, Owners, Owner, Publications, PublishedUnder, Active
<1>2. QED
  BY <1>1, SpecInductive, StepKeepsPromise, PTL DEF Spec, KeepsPromise, Promise!Spec

-----------------------------------------------------------------------------
(* The exits from posted_unconfirmed.                                      *)

\* Rows an execution writes to are not in posted_unconfirmed.
LEMMA OnlyAdminLeavesUnconfirmed ==
  ASSUME Inductive, [Next]_vars, NEW p \in Posts,
         status[p] = "posted_unconfirmed", status'[p] # "posted_unconfirmed"
  PROVE  /\ UNCHANGED workers
         /\ status'[p] = IF live[p] > 0 THEN "posted" ELSE "failed"
<1>1. ASSUME NEW w \in Workers, Execute(w) PROVE FALSE
  <2>1. Post(w) \in Posts \/ status' = status
    BY <1>1, RunningHasPost DEF Inductive, Running, Execute, ReadPost, Claim, LoseClaim,
       ClaimConflict, GetToken, Dispatch, MarkFailed, RecordSuccess, SuccessNotRecorded,
       MarkUnconfirmed, Finish, row
  <2>2. status' = status \/ (Post(w) # p /\ status'[p] = status[p])
    BY <1>1, <2>1 DEF Inductive, TypeOK, WorkerInv, ExecutionInv, InFlight, Execute, ReadPost,
       Claim, ClaimMatches, Dispatchable, LoseClaim, ClaimConflict, GetToken, Dispatch,
       MarkFailed, RecordSuccess, SuccessNotRecorded, MarkUnconfirmed, Finish, row, WriteStatus
  <2>3. QED
    BY <2>2
<1>2. ASSUME NEW r \in Requests, AdminStep(r)
      PROVE  /\ UNCHANGED workers
             /\ status'[p] = IF live[p] > 0 THEN "posted" ELSE "failed"
  <2>1. ConditionalResolve(r)
    BY <1>2 DEF Inductive, TypeOK, AdminStep, CheckNewIntent, CreateDraft, RecordManualExternal,
       InsertRow, InsertConflict, RedispatchCheck, RedispatchUpdate, Enqueue, AbandonRequest,
       LoadUnconfirmed, row
  <2>2. ResolutionMatches(r) /\ rpost[r] = p
    BY <2>1 DEF Inductive, TypeOK, RequestInv, ConditionalResolve, WriteStatus
  <2>3. status'[p] = Resolution(r)
    BY <2>1, <2>2 DEF Inductive, TypeOK, ConditionalResolve, WriteStatus
  <2>4. QED
    BY <2>1, <2>2, <2>3 DEF Inductive, RequestInv, Resolution, ConditionalResolve
<1>3. status' = status \/ (\E r \in Requests : AdminStep(r)) \/ (\E w \in Workers : Execute(w))
  BY DEF Next, vars, row, EditContent, Throw, Crash, Deliver, StalledCheck
<1>4. QED
  BY <1>1, <1>2, <1>3

\* No execution leaves posted_unconfirmed, and a verdict that does agrees with
\* what is live, even when verdicts race with each other and with retries.
THEOREM UnconfirmedIsResolvedByAdmins == Spec => UnconfirmedNeedsAdmin
<1>1. Inductive /\ [Next]_vars =>
        [\A p \in Posts :
           status[p] = "posted_unconfirmed" /\ status'[p] # "posted_unconfirmed" =>
             /\ UNCHANGED workers
             /\ status'[p] = IF live[p] > 0 THEN "posted" ELSE "failed"]_vars
  BY OnlyAdminLeavesUnconfirmed
<1>2. QED
  BY <1>1, SpecInductive, PTL DEF Spec, UnconfirmedNeedsAdmin

-----------------------------------------------------------------------------
(* How far the comments on redelivery and on fresh ids do hold: both are   *)
(* about how old the version in a job's id is.                             *)

\* What a step may do to a row: it never disappears, its version never goes
\* back, its status changes with its version, and nothing becomes a draft again.
RowMoves(p) ==
  /\ version[p] <= version'[p]
  /\ status[p] # "absent" => status'[p] # "absent"
  /\ status[p] # "absent" /\ version'[p] = version[p] => status'[p] = status[p]
  /\ status'[p] \in {"absent", "draft"} =>
       version'[p] = version[p] /\ status[p] \in {"absent", "draft"}

LEMMA RowsMove ==
  ASSUME Inductive, [Next]_vars, NEW p \in Posts
  PROVE  RowMoves(p)
<1>1. status[p] \in Status /\ version[p] \in Nat /\ status \in [Posts -> Status]
      /\ version \in [Posts -> Nat]
  BY DEF Inductive, TypeOK
<1>2. \/ UNCHANGED <<status, version>>
      \/ \E x \in Posts, t \in Target \cup {None}, s \in {"draft", "posted"} : InsertRow(x, t, s)
      \/ \E x \in Posts, s \in {"scheduled", "posted", "failed", "posted_unconfirmed"} : WriteStatus(x, s)
  <2>1. ASSUME NEW r \in Requests, AdminStep(r)  PROVE <1>2!:
    <3>1. rtarget[r] \in Target \cup {None} /\ Resolution(r) \in {"posted", "failed"}
      BY DEF Inductive, TypeOK, Resolution
    <3>2. ConditionalResolve(r) => rpost[r] \in Posts
      BY DEF Inductive, RequestInv, ConditionalResolve
    <3> QED
      BY <2>1, <3>1, <3>2 DEF AdminStep, CheckNewIntent, CreateDraft, RecordManualExternal,
         InsertConflict, RedispatchCheck, RedispatchUpdate, Enqueue, AbandonRequest,
         LoadUnconfirmed, ConditionalResolve, row
  <2>2. ASSUME NEW w \in Workers, Execute(w)  PROVE <1>2!:
    <3>1. wpc[w] # "idle"
      BY <2>2 DEF Execute, ReadPost, Claim, LoseClaim, ClaimConflict, GetToken, Dispatch,
         MarkFailed, RecordSuccess, SuccessNotRecorded, MarkUnconfirmed, Finish
    <3>2. Post(w) \in Posts
      BY <3>1, RunningHasPost DEF Inductive, Running
    <3> QED
      BY <2>2, <3>2 DEF Execute, ReadPost, Claim, LoseClaim, ClaimConflict, GetToken, Dispatch,
         MarkFailed, RecordSuccess, SuccessNotRecorded, MarkUnconfirmed, Finish, row
  <2> QED
    BY <2>1, <2>2 DEF Next, EditContent, Throw, Crash, Deliver, StalledCheck, vars, row
<1>3. ASSUME NEW x \in Posts, NEW t, NEW s \in {"draft", "posted"}, InsertRow(x, t, s)
      PROVE  RowMoves(p)
  BY <1>1, <1>3 DEF InsertRow, RowMoves
<1>4. ASSUME NEW x \in Posts, NEW s \in {"scheduled", "posted", "failed", "posted_unconfirmed"},
             WriteStatus(x, s)
      PROVE  RowMoves(p)
  BY <1>1, <1>4 DEF WriteStatus, RowMoves
<1>5. CASE UNCHANGED <<status, version>>
  BY <1>1, <1>5 DEF RowMoves
<1> QED
  BY <1>2, <1>3, <1>4, <1>5

\* No attempt of the job's version of the row can be made any more.
Spent(j) == ~(status[j[1]] \in Dispatchable /\ version[j[1]] = j[2])

\* What an execution has read is at least as new as its job; once it has claimed
\* the row, and when it is done, the row has left the job's version behind.
AttemptAges(w) ==
  /\ Running(w) /\ wpc[w] # "read" =>
       wjob[w][2] <= wver[w] /\ wver[w] <= version[Post(w)]
  /\ PastClaim(w) => wjob[w][2] < version[Post(w)]
  /\ wpc[w] = "done" => Spent(wjob[w])

RowAges == \A p \in Posts : status[p] \in {"absent", "draft"} => version[p] = 0

JobAges == \A j \in jobIds : status[j[1]] # "absent" /\ j[2] <= version[j[1]]

RequestAges ==
  \A r \in Requests :
    /\ rpc[r] \in {"redispatch", "enqueue"} => status[rpost[r]] # "absent"
    /\ rpc[r] = "enqueue" => rver[r] <= version[rpost[r]]

AgesInv == RowAges /\ JobAges /\ RequestAges /\ \A w \in Workers : AttemptAges(w)

\* Jobs are added by requests that have read the row's version.
LEMMA JobsAge ==
  ASSUME Inductive, AgesInv, [Next]_vars, \A p \in Posts : RowMoves(p)
  PROVE  JobAges'
<1>1. \A j \in jobIds : j[1] \in Posts /\ j[2] \in Nat
  BY DEF Inductive, TypeOK, JobId
<1>2. \A j \in jobIds : status'[j[1]] # "absent" /\ j[2] <= version'[j[1]]
  <2>1. version' \in [Posts -> Nat] /\ version \in [Posts -> Nat]
    BY NextInductive DEF Inductive, TypeOK
  <2> QED
    BY <1>1, <2>1 DEF AgesInv, JobAges, RowMoves
<1>3. CASE jobIds' = jobIds
  BY <1>2, <1>3 DEF JobAges
<1>4. ASSUME NEW r \in Requests, Enqueue(r)  PROVE JobAges'
  <2>1. status[rpost[r]] # "absent" /\ rver[r] <= version[rpost[r]]
    BY <1>4 DEF Enqueue, AgesInv, RequestAges
  <2> QED
    BY <1>2, <1>4, <2>1 DEF Enqueue, JobAges, row
<1> QED
  BY <1>3, <1>4 DEF Next, AdminStep, EditContent, CheckNewIntent, CreateDraft,
     RecordManualExternal, InsertConflict, RedispatchCheck, RedispatchUpdate, AbandonRequest,
     LoadUnconfirmed, ConditionalResolve, Execute, ReadPost, Claim, LoseClaim, ClaimConflict,
     GetToken, Dispatch, MarkFailed, RecordSuccess, SuccessNotRecorded, MarkUnconfirmed, Finish,
     Throw, Crash, Deliver, StalledCheck, EndJob, vars, queue

\* A request knows a row that is there, and no version the row does not have yet.
LEMMA RequestsAge ==
  ASSUME Inductive, AgesInv, [Next]_vars, \A p \in Posts : RowMoves(p)
  PROVE  RequestAges'
<1>t. /\ rpc \in [Requests -> RequestPc] /\ rpost \in [Requests -> Posts \cup {None}]
      /\ rver \in [Requests -> Nat] /\ version \in [Posts -> Nat] /\ version' \in [Posts -> Nat]
      /\ status \in [Posts -> Status]
  BY NextInductive DEF Inductive, TypeOK
<1>1. ASSUME NEW q \in Requests, rpc'[q] = rpc[q], rpost'[q] = rpost[q], rver'[q] = rver[q]
      PROVE  /\ rpc'[q] \in {"redispatch", "enqueue"} => status'[rpost'[q]] # "absent"
             /\ rpc'[q] = "enqueue" => rver'[q] <= version'[rpost'[q]]
  <2>1. rpc[q] \in {"redispatch", "enqueue"} => rpost[q] \in Posts
    BY DEF Inductive, RequestInv
  <2> QED
    BY <1>1, <1>t, <2>1 DEF AgesInv, RequestAges, RowMoves
<1>2. ASSUME NEW r \in Requests, AdminStep(r)  PROVE RequestAges'
  <2>1. \A q \in Requests \ {r} : rpc'[q] = rpc[q] /\ rpost'[q] = rpost[q] /\ rver'[q] = rver[q]
    BY <1>2, <1>t DEF AdminStep, CheckNewIntent, CreateDraft, RecordManualExternal, InsertConflict,
       RedispatchCheck, RedispatchUpdate, Enqueue, AbandonRequest, LoadUnconfirmed,
       ConditionalResolve, EndRequest, Step
  <2>2. /\ rpc'[r] \in {"redispatch", "enqueue"} => status'[rpost'[r]] # "absent"
        /\ rpc'[r] = "enqueue" => rver'[r] <= version'[rpost'[r]]
    <3>1. ASSUME NEW p \in Posts, CreateDraft(r, p)  PROVE <2>2!:
      BY <1>t, <3>1 DEF CreateDraft, InsertRow, Step
    <3>2. ASSUME NEW p \in Posts, RedispatchCheck(r, p)  PROVE <2>2!:
      BY <1>t, <3>2 DEF RedispatchCheck, Step, Dispatchable, row
    <3>3. CASE RedispatchUpdate(r)
      <4>1. rpost[r] \in Posts /\ status[rpost[r]] # "absent"
        BY <3>3 DEF Inductive, RequestInv, AgesInv, RequestAges, RedispatchUpdate
      <4> QED
        BY <1>t, <3>3, <4>1 DEF RedispatchUpdate, Step, row
    <3>4. CASE rpc'[r] \notin {"redispatch", "enqueue"}
      BY <3>4
    <3> QED
      BY <1>2, <1>t, <3>1, <3>2, <3>3, <3>4 DEF AdminStep, CheckNewIntent, RecordManualExternal,
         InsertConflict, Enqueue, AbandonRequest, LoadUnconfirmed, ConditionalResolve, EndRequest, Step
  <2> QED
    BY <1>1, <2>1, <2>2 DEF RequestAges
<1>3. CASE UNCHANGED requests
  BY <1>1, <1>3 DEF RequestAges, requests
<1> QED
  BY <1>2, <1>3 DEF Next, EditContent, Execute, ReadPost, Claim, LoseClaim, ClaimConflict,
     GetToken, Dispatch, MarkFailed, RecordSuccess, SuccessNotRecorded, MarkUnconfirmed, Finish,
     Throw, Crash, Deliver, StalledCheck, vars

\* A row that moves on leaves an execution that stands still no younger.
LEMMA AttemptStays ==
  ASSUME Inductive, AgesInv, [Next]_vars, \A p \in Posts : RowMoves(p), NEW x \in Workers,
         wpc'[x] = wpc[x], wjob'[x] = wjob[x], wver'[x] = wver[x]
  PROVE  AttemptAges(x)'
<1>t. version \in [Posts -> Nat] /\ version' \in [Posts -> Nat] /\ wver[x] \in Nat
  BY NextInductive DEF Inductive, TypeOK
<1>1. CASE wpc[x] = "idle"
  BY <1>1 DEF AttemptAges, Running, PastClaim, InFlight
<1>2. CASE wpc[x] # "idle"
  <2>1. wjob[x] \in jobIds /\ Post(x) \in Posts /\ wjob[x][2] \in Nat
    BY <1>2, RunningHasPost DEF Inductive, TypeOK, Running, JobId
  <2>2. status[Post(x)] # "absent" /\ wjob[x][2] <= version[Post(x)]
    BY <2>1 DEF AgesInv, JobAges, Post
  <2>3. RowMoves(Post(x))
    BY <2>1
  <2>4. Spent(wjob[x]) => Spent(wjob[x])'
    BY <1>t, <2>1, <2>2, <2>3 DEF Spent, RowMoves, Post
  <2> QED
    BY <1>t, <2>1, <2>3, <2>4 DEF AgesInv, AttemptAges, Running, PastClaim, InFlight, RowMoves, Post
<1> QED
  BY <1>1, <1>2

\* A run reads the row, claims it at the version it read or gives up, and every
\* claim leaves the version of the job behind.
LEMMA AttemptMoves ==
  ASSUME Inductive, AgesInv, [Next]_vars, \A p \in Posts : RowMoves(p),
         NEW w \in Workers, Execute(w)
  PROVE  AttemptAges(w)'
<1>1. wjob[w] \in jobIds /\ Post(w) \in Posts /\ wpc[w] # "idle"
  <2>1. wpc[w] # "idle"
    BY DEF Execute, ReadPost, Claim, LoseClaim, ClaimConflict, GetToken, Dispatch,
       MarkFailed, RecordSuccess, SuccessNotRecorded, MarkUnconfirmed, Finish
  <2> QED
    BY <2>1, RunningHasPost DEF Inductive, Running
<1>2. /\ wpc \in [Workers -> WorkerPc] /\ wver \in [Workers -> Nat] /\ wjob[w][2] \in Nat
      /\ wjob \in [Workers -> JobId \cup {None}]
      /\ version \in [Posts -> Nat] /\ version' \in [Posts -> Nat] /\ status \in [Posts -> Status]
  BY <1>1, NextInductive DEF Inductive, TypeOK, JobId
<1>3. wjob[w][2] <= version[Post(w)] /\ version[Post(w)] <= version'[Post(w)]
  BY <1>1 DEF AgesInv, JobAges, Post, RowMoves
<1>4. AttemptAges(w)
  BY DEF AgesInv
<1> USE DEF AttemptAges, Running, PastClaim, InFlight, Post, Goto
<1>5. CASE ReadPost(w)
  BY <1>1, <1>2, <1>3, <1>5 DEF ReadPost, row
<1>6. CASE Claim(w)
  BY <1>1, <1>2, <1>3, <1>4, <1>6 DEF Claim, ClaimMatches, WriteStatus
<1>7. CASE LoseClaim(w)
  BY <1>1, <1>2, <1>3, <1>4, <1>7 DEF LoseClaim, ClaimMatches, Spent, row
<1>8. CASE GetToken(w) \/ Dispatch(w) \/ SuccessNotRecorded(w)
  BY <1>1, <1>2, <1>3, <1>4, <1>8 DEF GetToken, Dispatch, SuccessNotRecorded, row
<1>9. CASE MarkFailed(w) \/ RecordSuccess(w) \/ MarkUnconfirmed(w)
  <2>1. wjob[w][2] < version'[Post(w)] /\ UNCHANGED <<wjob, wver>>
        /\ wpc' = [wpc EXCEPT ![w] = wpc'[w]] /\ wpc'[w] \in {"done", "unconfirm"}
        /\ wver[w] <= version'[Post(w)] /\ wjob[w][2] <= wver[w]
    BY <1>1, <1>2, <1>3, <1>4, <1>9 DEF MarkFailed, RecordSuccess, MarkUnconfirmed
  <2> QED
    BY <1>2, <2>1 DEF Spent
<1>10. CASE ClaimConflict(w) \/ Finish(w)
  BY <1>2, <1>10 DEF ClaimConflict, Finish, EndJob, EndRun
<1> QED
  BY <1>5, <1>6, <1>7, <1>8, <1>9, <1>10 DEF Execute

LEMMA AgesNext == Inductive /\ AgesInv /\ [Next]_vars => AgesInv'
<1> SUFFICES ASSUME Inductive, AgesInv, [Next]_vars PROVE AgesInv'
  OBVIOUS
<1>1. \A p \in Posts : RowMoves(p)
  BY RowsMove
<1>2. RowAges'
  BY <1>1 DEF AgesInv, RowAges, RowMoves
<1>3. JobAges' /\ RequestAges'
  BY <1>1, JobsAge, RequestsAge
<1>t. wpc \in [Workers -> WorkerPc] /\ wver \in [Workers -> Nat] /\ wjob \in [Workers -> JobId \cup {None}]
  BY DEF Inductive, TypeOK
<1>4. ASSUME NEW x \in Workers  PROVE AttemptAges(x)'
  <2>1. CASE UNCHANGED <<wpc, wjob, wver>>
    BY <1>1, <2>1, AttemptStays
  <2>2. ASSUME NEW w \in Workers, Execute(w)  PROVE AttemptAges(x)'
    <3>1. x # w => wpc'[x] = wpc[x] /\ wjob'[x] = wjob[x] /\ wver'[x] = wver[x]
      BY <1>t, <2>2 DEF Execute, ReadPost, Claim, LoseClaim, ClaimConflict, GetToken, Dispatch,
         MarkFailed, RecordSuccess, SuccessNotRecorded, MarkUnconfirmed, Finish, EndJob, EndRun, Goto
    <3> QED
      BY <1>1, <2>2, <3>1, AttemptStays, AttemptMoves
  <2>3. ASSUME NEW w \in Workers, EndRun(w)  PROVE AttemptAges(x)'
    <3>1. CASE x = w
      BY <1>t, <2>3, <3>1 DEF EndRun, AttemptAges, Running, PastClaim, InFlight
    <3>2. CASE x # w
      BY <1>1, <1>t, <2>3, <3>2, AttemptStays DEF EndRun
    <3> QED  BY <3>1, <3>2
  <2>4. ASSUME NEW w \in Workers, NEW j \in waiting, Deliver(w, j)  PROVE AttemptAges(x)'
    <3>1. CASE x = w
      BY <1>t, <2>4, <3>1 DEF Deliver, AttemptAges, Running, PastClaim, InFlight
    <3>2. CASE x # w
      BY <1>1, <1>t, <2>4, <3>2, AttemptStays DEF Deliver
    <3> QED  BY <3>1, <3>2
  <2> QED
    BY ZenonT(60), <2>1, <2>2, <2>3, <2>4 DEF Next, EditContent, AdminStep, CheckNewIntent, CreateDraft,
       RecordManualExternal, InsertConflict, RedispatchCheck, RedispatchUpdate, Enqueue,
       AbandonRequest, LoadUnconfirmed, ConditionalResolve, Throw, EndJob, Crash, StalledCheck,
       vars, workers
<1> QED
  BY <1>2, <1>3, <1>4 DEF AgesInv

LEMMA AgesInit == Init => AgesInv
BY DEF Init, AgesInv, RowAges, JobAges, RequestAges, AttemptAges, Running, PastClaim, InFlight

\* A job whose version an execution has already left behind may be claimed for
\* again, and then only after a failure that is known to have left nothing live:
\* so much of RedeliveredJobLosesClaim holds.
SecondClaimIsARetry ==
  [][\A w \in Workers :
       wpc[w] = "claim" /\ wpc'[w] = "token" /\ wver[w] # wjob[w][2]
         => status[Post(w)] = "failed" /\ ~PublishedUnder(Post(w))]_vars

\* However often the queue redelivers.
THEOREM SecondClaimsAreRetries == Spec => SecondClaimIsARetry
<1>1. ASSUME Inductive, AgesInv, [Next]_vars, NEW w \in Workers,
             wpc[w] = "claim", wpc'[w] = "token", wver[w] # wjob[w][2]
      PROVE  status[Post(w)] = "failed" /\ ~PublishedUnder(Post(w))
  <2>1. Claim(w)
    <3>1. wpc \in [Workers -> WorkerPc] /\ wpc'[w] # wpc[w]
      BY <1>1 DEF Inductive, TypeOK
    <3>2. \E x \in Workers : Execute(x) \/ Throw(x) \/ Crash(x) \/ \E j \in waiting : Deliver(x, j)
      BY ZenonT(60), <1>1, <3>1 DEF Next, EditContent, AdminStep, CheckNewIntent, CreateDraft,
         RecordManualExternal, InsertConflict, RedispatchCheck, RedispatchUpdate, Enqueue,
         AbandonRequest, LoadUnconfirmed, ConditionalResolve, StalledCheck, vars, workers
    <3> QED
      BY <1>1, <3>1, <3>2 DEF Execute, ReadPost, Claim, LoseClaim, ClaimConflict, GetToken, Dispatch,
         MarkFailed, RecordSuccess, SuccessNotRecorded, MarkUnconfirmed, Finish, EndJob, EndRun,
         Goto, Throw, Crash, Deliver
  <2>2. Post(w) \in Posts /\ wjob[w][2] \in Nat /\ wver[w] \in Nat /\ version \in [Posts -> Nat]
    BY <1>1, RunningHasPost DEF Inductive, TypeOK, Running, JobId
  <2>3. status[Post(w)] \in Dispatchable /\ version[Post(w)] = wver[w] /\ wver[w] > wjob[w][2]
    BY <1>1, <2>1, <2>2 DEF Claim, ClaimMatches, AgesInv, AttemptAges, Running
  <2>4. status[Post(w)] # "draft"
    BY <1>1, <2>2, <2>3 DEF AgesInv, RowAges
  <2> QED
    BY <1>1, <2>2, <2>3, <2>4 DEF Dispatchable, Inductive, RowInv, PublishedUnder
<1>2. Inductive /\ AgesInv /\ [Next]_vars =>
        [\A w \in Workers :
           wpc[w] = "claim" /\ wpc'[w] = "token" /\ wver[w] # wjob[w][2]
             => status[Post(w)] = "failed" /\ ~PublishedUnder(Post(w))]_vars
  BY <1>1
<1> QED
  BY <1>2, InitInductive, NextInductive, AgesInit, AgesNext, PTL DEF Spec, SecondClaimIsARetry

\* No attempt ends before its claim has committed, other than by losing it: no
\* database error, no conflict with another row, no second expiry of the lock.
Lossless ==
  /\ \A w \in Workers : ~ClaimConflict(w) /\ (wpc[w] \in {"read", "claim"} => ~Throw(w))
  /\ \A j \in stalledOnce : ~StalledCheck(j)

\* Under that condition a retry does get a fresh id, however requests, workers
\* and crashes interleave: so much of auditAndEnqueue's comment holds.
THEOREM RetriesGetFreshIds == Spec /\ [][Lossless]_vars => AcceptedDispatchIsQueued
<1> DEFINE OverIsSpent == \A j \in finished : Spent(j)
           Queued == \A r \in Requests :
                       ( /\ rpc[r] = "enqueue" /\ rpc'[r] = "idle" /\ UNCHANGED events
                         /\ status[rpost[r]] \in Dispatchable /\ version[rpost[r]] = rver[r] )
                         => <<rpost[r], rver[r]>> \notin finished'
<1>1. ASSUME Inductive, AgesInv, OverIsSpent, [Next]_vars, [Lossless]_vars
      PROVE  OverIsSpent'
  <2>1. \A j \in finished : Spent(j)'
    <3>1. \A j \in finished : j \in jobIds /\ j[1] \in Posts /\ j[2] \in Nat
      BY <1>1 DEF Inductive, TypeOK, JobId
    <3>2. version \in [Posts -> Nat] /\ version' \in [Posts -> Nat]
      BY <1>1, NextInductive DEF Inductive, TypeOK
    <3>3. \A p \in Posts : RowMoves(p)
      BY <1>1, RowsMove
    <3> QED
      BY <1>1, <3>1, <3>2, <3>3 DEF AgesInv, JobAges, Spent, RowMoves
  <2>2. ASSUME NEW w \in Workers, EndJob(w), Finish(w) \/ Throw(w), vars' # vars
        PROVE  OverIsSpent'
    <3>1. Post(w) \in Posts /\ wjob[w] \in JobId /\ version[Post(w)] \in Nat /\ wpc[w] # "idle"
      BY <1>1, <2>2, RunningHasPost DEF Inductive, TypeOK, Running, Finish, Throw
    <3>2. Spent(wjob[w])
      BY <1>1, <2>2, <3>1 DEF AgesInv, AttemptAges, PastClaim, InFlight, Spent, Finish, Throw, Post,
         JobId, Lossless
    <3>3. \A j \in JobId : j = wjob[w] => Spent(j)'
      BY <2>2, <3>2 DEF Finish, Throw, Spent, row
    <3>4. finished' \subseteq finished \cup {wjob[w]}
      BY <2>2 DEF EndJob
    <3> QED
      BY <2>1, <3>1, <3>3, <3>4
  <2>3. CASE finished' \subseteq finished
    BY <2>1, <2>3
  <2>4. CASE vars' # vars
    <3>1. CASE finished' # finished
      <4>1. (\E w \in Workers : Finish(w) \/ Throw(w) \/ ClaimConflict(w))
            \/ (\E j \in jobIds : StalledCheck(j))
        BY ZenonT(60), <1>1, <2>4, <3>1 DEF Next, EditContent, AdminStep, CheckNewIntent, CreateDraft,
           RecordManualExternal, InsertConflict, RedispatchCheck, RedispatchUpdate, Enqueue,
           AbandonRequest, LoadUnconfirmed, ConditionalResolve, Execute, ReadPost, Claim, LoseClaim,
           GetToken, Dispatch, MarkFailed, RecordSuccess, SuccessNotRecorded, MarkUnconfirmed, Crash,
           Deliver, queue
      <4>2. ~\E j \in jobIds : StalledCheck(j)
        BY <1>1, <2>4, <3>1 DEF StalledCheck, Lossless
      <4> QED
        BY <1>1, <2>2, <2>4, <4>1, <4>2 DEF Finish, Throw, Lossless
    <3> QED
      BY <2>3, <3>1
  <2> QED
    BY <2>3, <2>4 DEF vars, queue
<1>2. ASSUME Inductive, OverIsSpent, [Next]_vars, vars' # vars  PROVE Queued
  <2> SUFFICES ASSUME NEW r \in Requests, rpc[r] = "enqueue", rpc'[r] = "idle", UNCHANGED events,
                      status[rpost[r]] \in Dispatchable, version[rpost[r]] = rver[r]
               PROVE  <<rpost[r], rver[r]>> \notin finished'
    OBVIOUS
  <2>1. <<rpost[r], rver[r]>> \notin finished
    BY <1>2 DEF Spent
  <2>2. UNCHANGED finished
    <3>1. rpc' # rpc
      OBVIOUS
    <3>2. \E q \in Requests : AdminStep(q)
      BY <1>2, <3>1 DEF Next, EditContent, Execute, ReadPost, Claim, LoseClaim, ClaimConflict,
         GetToken, Dispatch, MarkFailed, RecordSuccess, SuccessNotRecorded, MarkUnconfirmed, Finish,
         Throw, Crash, Deliver, StalledCheck, requests
    <3> QED
      BY <3>2 DEF AdminStep, CheckNewIntent, CreateDraft, RecordManualExternal, InsertConflict,
         RedispatchCheck, RedispatchUpdate, Enqueue, AbandonRequest, LoadUnconfirmed,
         ConditionalResolve, queue
  <2> QED
    BY <2>1, <2>2
<1>3. Init => OverIsSpent
  BY DEF Init
<1>4. Inductive /\ OverIsSpent /\ [Next]_vars => [Queued]_vars
  BY <1>2
<1>5. Inductive /\ AgesInv /\ OverIsSpent /\ [Next]_vars /\ [Lossless]_vars => OverIsSpent'
  BY <1>1
<1>6. Spec /\ [][Lossless]_vars => [][Queued]_vars
  <2> HIDE DEF OverIsSpent, Queued
  <2> QED
    BY <1>3, <1>4, <1>5, InitInductive, NextInductive, AgesInit, AgesNext, PTL DEF Spec
<1> QED
  BY <1>6 DEF AcceptedDispatchIsQueued

-----------------------------------------------------------------------------
(* The dispatch and the adapter.                                           *)

\* The execution takes an answer to its publish call: the platform has what the
\* answer says it holds, and the verdict on it picks the terminal write.
TakesAnswer(w, answer) ==
  /\ wpc[w] = "dispatch"
  /\ live' = [live EXCEPT ![Post(w)] = @ + answer.held]
  /\ Goto(w, CASE answer.verdict = "done"    -> "succeed"
               [] answer.verdict = "undone"  -> "fail"
               [] answer.verdict = "unclear" -> "unconfirm")
  /\ UNCHANGED <<publishable, row, queue, requests, wver, events>>

\* What execute makes of adapter.publish is the promise of the adapters, no more
\* and no less: every answer they may give is taken by a Dispatch step, and a
\* Dispatch step takes no other.
THEOREM DispatchReliesOnPromise ==
  ASSUME Inductive, NEW w \in Workers
  PROVE  Dispatch(w) <=> \E answer \in Answers("publish") : TakesAnswer(w, answer)
<1>1. CASE wpc[w] # "dispatch"
  BY <1>1 DEF Dispatch, TakesAnswer
<1>2. CASE wpc[w] = "dispatch"
  <2>1. Post(w) \in Posts /\ live \in [Posts -> Nat]
    BY <1>2, RunningHasPost DEF Inductive, TypeOK, Running
  <2>2. [live EXCEPT ![Post(w)] = @ + 0] = live
    BY <2>1
  <2>3. TakesAnswer(w, [held |-> 1, verdict |-> "done"]) <=>
          /\ live' = [live EXCEPT ![Post(w)] = @ + 1] /\ Goto(w, "succeed")
          /\ UNCHANGED <<publishable, row, queue, requests, wver, events>>
    BY <1>2 DEF TakesAnswer
  <2>4. TakesAnswer(w, [held |-> 0, verdict |-> "undone"]) <=>
          /\ UNCHANGED live /\ Goto(w, "fail")
          /\ UNCHANGED <<publishable, row, queue, requests, wver, events>>
    BY <1>2, <2>2 DEF TakesAnswer
  <2>5. ASSUME NEW n \in {0, 1}
        PROVE  TakesAnswer(w, [held |-> n, verdict |-> "unclear"]) <=>
                 /\ live' = [live EXCEPT ![Post(w)] = @ + n] /\ Goto(w, "unconfirm")
                 /\ UNCHANGED <<publishable, row, queue, requests, wver, events>>
    BY <1>2 DEF TakesAnswer
  <2>6. Answers("publish") =
          {[held |-> 1, verdict |-> "done"], [held |-> 0, verdict |-> "undone"],
           [held |-> 0, verdict |-> "unclear"], [held |-> 1, verdict |-> "unclear"]}
    BY DEF Answers
  <2> QED
    BY ONLY <1>2, <2>2, <2>3, <2>4, <2>5, <2>6 DEF Dispatch
<1> QED
  BY <1>1, <1>2
=============================================================================
