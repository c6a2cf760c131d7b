------------------------------ MODULE Publish ------------------------------
(***************************************************************************)
(* The manual publish flow: admin requests handled by the orchestrator,    *)
(* the BullMQ publish queue, the workers that execute its jobs, the posts  *)
(* table, and what has really gone live on the platforms.  Every await of  *)
(* the code that another actor can slip into is a step boundary here.      *)
(***************************************************************************)
EXTENDS Naturals, FiniteSets

CONSTANTS
  Contents,         \* content rows
  Platforms,        \* platforms that have a publish adapter
  Posts,            \* ids a new posts row may take
  Requests,         \* HTTP requests the API handles concurrently
  Workers,          \* concurrent executions of the publish processor
  None,             \* no post, no target, no job
  MaxJobs,          \* bound: no confirmation is started once there are as many
  EventKinds,       \* the kinds of disturbance that may happen
  MaxEvents         \* bound: disturbances of those kinds in a behaviour

ASSUME PublishAssumption ==
  /\ None \notin Posts
  /\ MaxJobs \in Nat
  /\ MaxEvents \in Nat
  /\ EventKinds \subseteq {"edit", "abandon", "stall", "throw", "crash", "refused", "lost_ack"}

Target == Contents \X Platforms
JobId == Posts \X Nat        \* the jobId "publish-<post>-v<version>"

Status == {"absent", "draft", "scheduled", "posted", "failed", "posted_unconfirmed"}
\* Mutant: an ambiguous row may be retried.
DispatchableWithUnconfirmed == {"draft", "failed", "posted_unconfirmed"}
Dispatchable == {"draft", "failed"}
Active == {"draft", "scheduled", "posted", "posted_unconfirmed"}

VARIABLES
  publishable, \* contents that are ready, cleared and have their evidence
  status,      \* posts.status
  version,     \* posts.version
  target,      \* posts.(content_id, platform)
  manual,      \* rows with publish_method = manual_external
  live,        \* how many live platform posts each row's dispatches created
  jobIds,      \* every jobId the queue knows: finished jobs are retained
  waiting,     \* jobs waiting for a worker
  finished,    \* completed and failed jobs
  stalledOnce, \* unfinished jobs the stalled check has put back once
  rpc, rpost, rtarget, rver,  \* a request's next step and what it read so far
  wpc, wjob, wver, wlock,     \* a worker's next step, its job, the version it
                              \* read or owns, whether it holds the job's lock
  events       \* disturbances so far: content edits, crashes, lost calls

row == <<status, version, target, manual>>
queue == <<jobIds, waiting, finished, stalledOnce>>
requests == <<rpc, rpost, rtarget, rver>>
workers == <<wpc, wjob, wver, wlock>>
vars == <<publishable, row, live, queue, requests, workers, events>>

RequestPc == {"idle", "create", "record", "enqueue", "redispatch",
              "resolve_posted", "resolve_not_posted"}
WorkerPc == {"idle", "read", "claim", "token", "dispatch", "fail",
             "succeed", "unconfirm", "done"}

TypeOK ==
  /\ publishable \subseteq Contents
  /\ status \in [Posts -> Status]
  /\ version \in [Posts -> Nat]
  /\ target \in [Posts -> Target \cup {None}]
  /\ manual \subseteq Posts
  /\ live \in [Posts -> Nat]
  /\ jobIds \subseteq JobId
  /\ waiting \subseteq jobIds
  /\ finished \subseteq jobIds
  /\ stalledOnce \subseteq jobIds
  /\ rpc \in [Requests -> RequestPc]
  /\ rpost \in [Requests -> Posts \cup {None}]
  /\ rtarget \in [Requests -> Target \cup {None}]
  /\ rver \in [Requests -> Nat]
  /\ wpc \in [Workers -> WorkerPc]
  /\ wjob \in [Workers -> JobId \cup {None}]
  /\ wver \in [Workers -> Nat]
  /\ wlock \in [Workers -> BOOLEAN]
  /\ events \in Nat

Init ==
  /\ publishable \in SUBSET Contents
  /\ status = [p \in Posts |-> "absent"]
  /\ version = [p \in Posts |-> 0]
  /\ target = [p \in Posts |-> None]
  /\ manual = {}
  /\ live = [p \in Posts |-> 0]
  /\ jobIds = {} /\ waiting = {} /\ finished = {} /\ stalledOnce = {}
  /\ rpc = [r \in Requests |-> "idle"]
  /\ rpost = [r \in Requests |-> None]
  /\ rtarget = [r \in Requests |-> None]
  /\ rver = [r \in Requests |-> 0]
  /\ wpc = [w \in Workers |-> "idle"]
  /\ wjob = [w \in Workers |-> None]
  /\ wver = [w \in Workers |-> 0]
  /\ wlock = [w \in Workers |-> FALSE]
  /\ events = 0

\* One more disturbance of kind k.
Event(k) ==
  /\ k \in EventKinds
  /\ events < MaxEvents
  /\ events' = events + 1

-----------------------------------------------------------------------------
(* The posts table.                                                        *)

\* Mutant: the index forgets the attempts that are still open.
OwnedByPostedOnly(t, p) ==
  \E q \in Posts \ {p} : status[q] = "posted" /\ target[q] = t

\* A row other than p that is active for target t: what the app-level check
\* looks for, and what the partial unique index refuses.
OwnedByOther(t, p) ==
  \E q \in Posts \ {p} : status[q] \in Active /\ target[q] = t

\* Every status write of the code also bumps the row's version.
WriteStatus(p, s) ==
  /\ status' = [status EXCEPT ![p] = s]
  /\ version' = [version EXCEPT ![p] = version[p] + 1]

\* INSERT: refused by the partial unique index when the target is owned.
InsertRow(p, t, s) ==
  /\ status[p] = "absent"
  /\ ~OwnedByOther(t, p)
  /\ status' = [status EXCEPT ![p] = s]
  /\ target' = [target EXCEPT ![p] = t]
  /\ UNCHANGED version

-----------------------------------------------------------------------------
(* Admin requests.                                                         *)

Step(r, pc) == rpc' = [rpc EXCEPT ![r] = pc]

EndRequest(r) ==
  /\ Step(r, "idle")
  /\ rpost' = [rpost EXCEPT ![r] = None]
  /\ rtarget' = [rtarget EXCEPT ![r] = None]
  /\ rver' = [rver EXCEPT ![r] = 0]

\* Editing content, or its clearance, opens and closes the publish gate.
EditContent(c) ==
  /\ publishable' = IF c \in publishable THEN publishable \ {c}
                                         ELSE publishable \cup {c}
  /\ Event("edit")
  /\ UNCHANGED <<row, live, queue, requests, workers>>

\* The checks of createAndDispatch and of recordManualExternal, up to the
\* duplicate check: `next` is the insert that will follow.
CheckNewIntent(r, t, next) ==
  /\ rpc[r] = "idle"
  /\ t[1] \in publishable
  /\ Cardinality(jobIds) < MaxJobs
  /\ \A p \in Posts : ~(status[p] \in Active /\ target[p] = t)
  /\ Step(r, next)
  /\ rtarget' = [rtarget EXCEPT ![r] = t]
  /\ UNCHANGED <<publishable, row, live, queue, rpost, rver, workers, events>>

CreateDraft(r, p) ==
  /\ rpc[r] = "create"
  /\ InsertRow(p, rtarget[r], "draft")
  /\ Step(r, "enqueue")
  /\ rpost' = [rpost EXCEPT ![r] = p]
  /\ rver' = [rver EXCEPT ![r] = version[p]]
  /\ UNCHANGED <<publishable, manual, live, queue, rtarget, workers, events>>

RecordManualExternal(r, p) ==
  /\ rpc[r] = "record"
  /\ InsertRow(p, rtarget[r], "posted")
  /\ manual' = manual \cup {p}
  /\ EndRequest(r)
  /\ UNCHANGED <<publishable, live, queue, workers, events>>

\* P2002 from the index, answered 409.
InsertConflict(r) ==
  /\ rpc[r] \in {"create", "record"}
  /\ OwnedByOther(rtarget[r], None)
  /\ EndRequest(r)
  /\ UNCHANGED <<publishable, row, live, queue, workers, events>>

RedispatchCheck(r, p) ==
  /\ rpc[r] = "idle"
  /\ status[p] \in Dispatchable
  /\ target[p][1] \in publishable
  /\ Cardinality(jobIds) < MaxJobs
  /\ Step(r, "redispatch")
  /\ rpost' = [rpost EXCEPT ![r] = p]
  /\ UNCHANGED <<publishable, row, live, queue, rtarget, rver, workers, events>>

\* The unconditional recommendation update; the row it returns gives the
\* version of the job to enqueue.
RedispatchUpdate(r) ==
  /\ rpc[r] = "redispatch"
  /\ Step(r, "enqueue")
  /\ rver' = [rver EXCEPT ![r] = version[rpost[r]]]
  /\ UNCHANGED <<publishable, row, live, queue, rpost, rtarget, workers, events>>

\* Queue.add ignores a jobId the queue still knows, finished or not.
Enqueue(r) ==
  LET id == <<rpost[r], rver[r]>> IN
  /\ rpc[r] = "enqueue"
  /\ jobIds' = jobIds \cup {id}
  /\ waiting' = IF id \in jobIds THEN waiting ELSE waiting \cup {id}
  /\ EndRequest(r)
  /\ UNCHANGED <<publishable, row, live, finished, stalledOnce, workers, events>>

\* The API process dies, or a database or Redis call of the request fails.
AbandonRequest(r) ==
  /\ rpc[r] # "idle"
  /\ Event("abandon")
  /\ EndRequest(r)
  /\ UNCHANGED <<publishable, row, live, queue, workers>>

\* An admin who has looked at the platform files the verdict; the service
\* loads the row.
LoadUnconfirmed(r, p) ==
  /\ rpc[r] = "idle"
  /\ status[p] = "posted_unconfirmed"
  /\ Step(r, IF live[p] > 0 THEN "resolve_posted" ELSE "resolve_not_posted")
  /\ rpost' = [rpost EXCEPT ![r] = p]
  /\ rver' = [rver EXCEPT ![r] = version[p]]
  /\ UNCHANGED <<publishable, row, live, queue, rtarget, workers, events>>

\* Mutants: either verdict writes posted; "not posted" closes the row.
ResolutionAlwaysPosted(r) == "posted"
ResolutionCancels(r) == IF rpc[r] = "resolve_posted" THEN "posted" ELSE "cancelled"
Resolution(r) == IF rpc[r] = "resolve_posted" THEN "posted" ELSE "failed"

\* Mutant: the version is not compared.
ResolutionMatchesStatus(r) == status[rpost[r]] = "posted_unconfirmed"

ResolutionMatches(r) ==
  /\ status[rpost[r]] = "posted_unconfirmed"
  /\ version[rpost[r]] = rver[r]

ConditionalResolve(r) ==
  /\ rpc[r] \in {"resolve_posted", "resolve_not_posted"}
  /\ IF ResolutionMatches(r)
     THEN WriteStatus(rpost[r], Resolution(r))
     ELSE UNCHANGED <<status, version>>
  /\ EndRequest(r)
  /\ UNCHANGED <<publishable, target, manual, live, queue, workers, events>>

-----------------------------------------------------------------------------
(* The publish queue.                                                      *)

ActiveJobs == jobIds \ (waiting \cup finished)

Running(w) == wpc[w] # "idle"

Deliver(w, j) ==
  /\ wpc[w] = "idle"
  /\ j \in waiting
  /\ waiting' = waiting \ {j}
  /\ wpc' = [wpc EXCEPT ![w] = "read"]
  /\ wjob' = [wjob EXCEPT ![w] = j]
  /\ wlock' = [wlock EXCEPT ![w] = TRUE]
  /\ UNCHANGED <<publishable, row, live, jobIds, finished, stalledOnce,
                 requests, wver, events>>

\* The lock of an active job expired, because its worker died or (a fault of
\* its own) could not renew it: the job goes back to waiting once, and fails
\* the second time (maxStalledCount is BullMQ's default, 1).
StalledCheck(j) ==
  /\ j \in ActiveJobs
  /\ IF \E w \in Workers : wlock[w] /\ wjob[w] = j
     THEN Event("stall")
     ELSE UNCHANGED events
  /\ wlock' = [w \in Workers |-> wlock[w] /\ wjob[w] # j]
  /\ IF j \in stalledOnce
     THEN /\ finished' = finished \cup {j}
          /\ stalledOnce' = stalledOnce \ {j}
          /\ UNCHANGED waiting
     ELSE /\ waiting' = waiting \cup {j}
          /\ stalledOnce' = stalledOnce \cup {j}
          /\ UNCHANGED finished
  /\ UNCHANGED <<publishable, row, live, jobIds, requests, wpc, wjob, wver>>

\* The processor returns or throws: attempts is 1, so either way the job is
\* over, unless this worker has lost the job's lock.
EndRun(w) ==
  /\ wpc' = [wpc EXCEPT ![w] = "idle"]
  /\ wjob' = [wjob EXCEPT ![w] = None]
  /\ wver' = [wver EXCEPT ![w] = 0]
  /\ wlock' = [wlock EXCEPT ![w] = FALSE]

EndJob(w) ==
  /\ IF wlock[w]
     THEN /\ finished' = finished \cup {wjob[w]}
          /\ stalledOnce' = stalledOnce \ {wjob[w]}
     ELSE UNCHANGED <<finished, stalledOnce>>
  /\ EndRun(w)
  /\ UNCHANGED <<jobIds, waiting>>

Finish(w) ==
  /\ wpc[w] = "done"
  /\ EndJob(w)
  /\ UNCHANGED <<publishable, row, live, requests, events>>

\* A database call that nothing catches fails.
Throw(w) ==
  /\ wpc[w] \in {"read", "claim", "token", "fail"}
  /\ Event("throw")
  /\ EndJob(w)
  /\ UNCHANGED <<publishable, row, live, requests>>

\* The worker process dies; its job stays active until the stalled check.
Crash(w) ==
  /\ Running(w)
  /\ Event("crash")
  /\ EndRun(w)
  /\ UNCHANGED <<publishable, row, live, queue, requests>>

-----------------------------------------------------------------------------
(* PublishExecutionService.execute.                                        *)

Post(w) == wjob[w][1]

Goto(w, pc) ==
  /\ wpc' = [wpc EXCEPT ![w] = pc]
  /\ UNCHANGED <<wjob, wlock>>

ReadPost(w) ==
  /\ wpc[w] = "read"
  /\ wver' = [wver EXCEPT ![w] = version[Post(w)]]
  /\ Goto(w, "claim")
  /\ UNCHANGED <<publishable, row, live, queue, requests, events>>

\* Mutants: only one half of the claim's WHERE clause is left, or drafts are
\* forgotten.
ClaimMatchesVersion(w) == version[Post(w)] = wver[w]
ClaimMatchesFailed(w) == status[Post(w)] = "failed" /\ version[Post(w)] = wver[w]

ClaimMatches(w) ==
  /\ status[Post(w)] \in Dispatchable
  /\ version[Post(w)] = wver[w]

\* The conditional UPDATE wins: one row, and the index accepts it.
Claim(w) ==
  /\ wpc[w] = "claim"
  /\ ClaimMatches(w)
  /\ ~OwnedByOther(target[Post(w)], Post(w))
  /\ WriteStatus(Post(w), "scheduled")
  /\ wver' = [wver EXCEPT ![w] = wver[w] + 1]
  /\ Goto(w, "token")
  /\ UNCHANGED <<publishable, target, manual, live, queue, requests, events>>

LoseClaim(w) ==
  /\ wpc[w] = "claim"
  /\ ~ClaimMatches(w)
  /\ Goto(w, "done")
  /\ UNCHANGED <<publishable, row, live, queue, requests, wver, events>>

\* A newer row owns the target: the index refuses the UPDATE and the P2002
\* leaves execute as an exception.
ClaimConflict(w) ==
  /\ wpc[w] = "claim"
  /\ ClaimMatches(w)
  /\ OwnedByOther(target[Post(w)], Post(w))
  /\ EndJob(w)
  /\ UNCHANGED <<publishable, row, live, requests, events>>

\* getValidToken and the account lookup: either may say no.
GetToken(w) ==
  /\ wpc[w] = "token"
  /\ \E pc \in {"dispatch", "fail"} : Goto(w, pc)
  /\ UNCHANGED <<publishable, row, live, queue, requests, wver, events>>

\* Mutant: a timeout counts as a rejection.
DispatchTimeoutFails(w) ==
  /\ wpc[w] = "dispatch"
  /\ \/ /\ live' = [live EXCEPT ![Post(w)] = live[Post(w)] + 1]
        /\ \E pc \in {"succeed", "fail"} : Goto(w, pc)
     \/ UNCHANGED live /\ Goto(w, "fail")
  /\ UNCHANGED <<publishable, row, queue, requests, wver, events>>

\* adapter.publish: the platform's effect and what the adapter makes of its
\* answer.  An error answer is taken to mean that nothing was created.
Dispatch(w) ==
  LET p == Post(w) IN
  /\ wpc[w] = "dispatch"
  /\ \/ live' = [live EXCEPT ![p] = live[p] + 1] /\ Goto(w, "succeed")
     \/ UNCHANGED live /\ Goto(w, "fail")
     \/ /\ live' \in {live, [live EXCEPT ![p] = live[p] + 1]}
        /\ Goto(w, "unconfirm")
  /\ UNCHANGED <<publishable, row, queue, requests, wver, events>>

\* Mutant: the write compares the version read before the claim.
OwnsRowAsRead(w) == version[Post(w)] + 1 = wver[w]

\* The WHERE clause of the terminal writes: the row is at the claimed version.
OwnsRow(w) == version[Post(w)] = wver[w]

\* markFailed: conditional on the claimed version, its row count ignored.
MarkFailed(w) ==
  /\ wpc[w] = "fail"
  /\ IF OwnsRow(w)
     THEN WriteStatus(Post(w), "failed")
     ELSE UNCHANGED <<status, version>>
  /\ Goto(w, "done")
  /\ UNCHANGED <<publishable, target, manual, live, queue, requests, wver, events>>

\* The terminal write of recordSuccess; its acknowledgement may be lost.
RecordSuccess(w) ==
  /\ wpc[w] = "succeed"
  /\ OwnsRow(w)
  /\ WriteStatus(Post(w), "posted")
  /\ \/ Goto(w, "done") /\ UNCHANGED events
     \/ Goto(w, "unconfirm") /\ Event("lost_ack")
  /\ UNCHANGED <<publishable, target, manual, live, queue, requests, wver>>

\* The terminal write matched no row, or the database refused it.
SuccessNotRecorded(w) ==
  /\ wpc[w] = "succeed"
  /\ \/ ~OwnsRow(w) /\ UNCHANGED events
     \/ Event("refused")
  /\ Goto(w, "unconfirm")
  /\ UNCHANGED <<publishable, row, live, queue, requests, wver>>

\* markUnconfirmed: no condition on status or version; an error is swallowed.
MarkUnconfirmed(w) ==
  /\ wpc[w] = "unconfirm"
  /\ \/ WriteStatus(Post(w), "posted_unconfirmed") /\ UNCHANGED events
     \/ Event("refused") /\ UNCHANGED <<status, version>>
  /\ Goto(w, "done")
  /\ UNCHANGED <<publishable, target, manual, live, queue, requests, wver>>

-----------------------------------------------------------------------------

AdminStep(r) ==
  \/ \E t \in Target, next \in {"create", "record"} : CheckNewIntent(r, t, next)
  \/ \E p \in Posts : \/ CreateDraft(r, p)
                      \/ RecordManualExternal(r, p)
                      \/ RedispatchCheck(r, p)
                      \/ LoadUnconfirmed(r, p)
  \/ InsertConflict(r)
  \/ RedispatchUpdate(r)
  \/ Enqueue(r)
  \/ ConditionalResolve(r)
  \/ AbandonRequest(r)

\* What a worker does by itself, faults left aside.
Execute(w) ==
  \/ ReadPost(w) \/ Claim(w) \/ LoseClaim(w) \/ ClaimConflict(w)
  \/ GetToken(w) \/ Dispatch(w)
  \/ MarkFailed(w) \/ RecordSuccess(w) \/ SuccessNotRecorded(w)
  \/ MarkUnconfirmed(w) \/ Finish(w)

Next ==
  \/ \E c \in Contents : EditContent(c)
  \/ \E r \in Requests : AdminStep(r)
  \/ \E w \in Workers : Execute(w) \/ Throw(w) \/ Crash(w)
  \/ \E w \in Workers, j \in waiting : Deliver(w, j)
  \/ \E j \in jobIds : StalledCheck(j)

Spec == Init /\ [][Next]_vars

\* Workers keep running what they started and keep taking jobs; nothing
\* obliges an admin to act.
Fairness ==
  /\ \A w \in Workers : WF_vars(Execute(w))
  /\ WF_vars(\E w \in Workers, j \in waiting : Deliver(w, j))

FairSpec == Spec /\ Fairness
-----------------------------------------------------------------------------
(* What the flow promises.                                                 *)

\* The target has been published under row p: a dispatch of p created a live
\* post, or an admin recorded a native one.
PublishedUnder(p) == live[p] > 0 \/ p \in manual

\* No double post (execution service, steps 1 to 3, and BUG-QA-001): whatever
\* is redelivered, lost or crashes, and however many admins act at once, a
\* (content, platform) pair is published at most once.
PublishedOnce ==
  \A p, q \in Posts :
    /\ live[p] <= 1
    /\ PublishedUnder(p) /\ PublishedUnder(q) /\ target[p] = target[q] => p = q

\* `failed` invites a retry and `draft` a dispatch: neither is ever written
\* over, or left on, a row that something live came from.
RetryIsSafe == \A p \in Posts : status[p] \in Dispatchable => ~PublishedUnder(p)

\* `posted` is never a guess: the row's own dispatch is live, or an admin said
\* that the native post is.
PostedIsPublished == \A p \in Posts : status[p] = "posted" => PublishedUnder(p)

InFlight(w) == wpc[w] \in {"token", "dispatch", "fail", "succeed"}

\* Between its claim and its terminal write an execution owns the row: the row
\* is `scheduled` at the claimed version and no other execution is past its
\* claim, so the terminal write always finds its row.
ClaimIsExclusive ==
  \A w \in Workers : InFlight(w) =>
    /\ status[Post(w)] = "scheduled"
    /\ version[Post(w)] = wver[w]
    /\ \A x \in Workers \ {w} : InFlight(x) => Post(x) # Post(w)

\* Addendum section 4: no automated transition leaves `posted_unconfirmed`, and
\* the admin's exits agree with what is live, two racing verdicts included.
UnconfirmedNeedsAdmin ==
  [][\A p \in Posts :
       status[p] = "posted_unconfirmed" /\ status'[p] # "posted_unconfirmed" =>
         /\ UNCHANGED workers
         /\ status'[p] = IF live[p] > 0 THEN "posted" ELSE "failed"]_vars

\* Without faults a claimed row never stays `scheduled`: every path through
\* execute reaches a terminal write, redelivered jobs included.
ClaimSettles ==
  \A p \in Posts : status[p] = "scheduled" ~> status[p] # "scheduled"

\* Without faults a queued job of a draft is executed to an outcome.
IntentSettles ==
  \A p \in Posts :
    (status[p] = "draft" /\ <<p, version[p]>> \in waiting)
      ~> status[p] \in {"posted", "failed", "posted_unconfirmed"}

\* The processor's comment: a redelivered job "simply loses the claim and
\* exits".  A job whose attempt has already been claimed claims no other.
RedeliveredJobLosesClaim ==
  [][\A w \in Workers :
       wpc[w] = "claim" /\ wpc'[w] = "token" /\ wjob[w] \in stalledOnce
         => wver[w] = wjob[w][2]]_vars

\* auditAndEnqueue's comment: a retry "gets a fresh id".  An accepted dispatch
\* of a row nobody has claimed leaves a job that is not over yet.
AcceptedDispatchIsQueued ==
  [][\A r \in Requests :
       ( /\ rpc[r] = "enqueue" /\ rpc'[r] = "idle" /\ UNCHANGED events
         /\ status[rpost[r]] \in Dispatchable /\ version[rpost[r]] = rver[r] )
         => <<rpost[r], rver[r]>> \notin finished']_vars

-----------------------------------------------------------------------------
(* The inductive invariant behind PublishedOnce and KeepsPromise.          *)

\* What a row says about the world: only rows that block their target have
\* anything live, and a native post's row stays `posted`.
RowInv ==
  \A p \in Posts :
    /\ status[p] # "absent" => target[p] \in Target
    /\ status[p] \in {"absent", "draft", "failed"} => live[p] = 0 /\ p \notin manual
    /\ status[p] = "posted" => PublishedUnder(p)
    /\ p \in manual => status[p] = "posted" /\ live[p] = 0
    /\ live[p] <= 1

\* The partial unique index.
IndexInv ==
  \A p, q \in Posts :
    status[p] \in Active /\ status[q] \in Active /\ target[p] = target[q] => p = q

\* A request that is past its checks knows its target or its row, and a
\* verdict that still matches its row agrees with what is live.
RequestInv ==
  \A r \in Requests :
    /\ rpc[r] \in {"create", "record"} => rtarget[r] \in Target
    /\ rpc[r] \notin {"idle", "create", "record"} => rpost[r] \in Posts
    /\ rpc[r] \in {"resolve_posted", "resolve_not_posted"} =>
         /\ rver[r] <= version[rpost[r]]
         /\ ResolutionMatches(r) => (rpc[r] = "resolve_posted" <=> live[rpost[r]] > 0)

PastClaim(w) == InFlight(w) \/ wpc[w] = "unconfirm"

\* An execution past its claim owns its row, alone, and knows what is live
\* except when the platform's answer, or the database's, got lost.
ExecutionInv(w) ==
  /\ Running(w) => wjob[w] \in jobIds
  /\ InFlight(w) => status[Post(w)] = "scheduled" /\ version[Post(w)] = wver[w]
  /\ wpc[w] \in {"token", "dispatch", "fail"} => live[Post(w)] = 0
  /\ wpc[w] = "succeed" => live[Post(w)] = 1
  /\ wpc[w] = "unconfirm" =>
       status[Post(w)] \in {"scheduled", "posted"} /\ Post(w) \notin manual
  /\ \A x \in Workers \ {w} : PastClaim(w) /\ PastClaim(x) => Post(w) # Post(x)

WorkerInv == \A w \in Workers : ExecutionInv(w)

Inductive == TypeOK /\ RowInv /\ IndexInv /\ RequestInv /\ WorkerInv

-----------------------------------------------------------------------------
(* The flow implements PublishPromise: the owner of a target is the row    *)
(* that the partial unique index counts for it.                            *)

Owner(t) ==
  IF \E p \in Posts : status[p] \in Active /\ target[p] = t
  THEN CHOOSE p \in Posts : status[p] \in Active /\ target[p] = t
  ELSE None

Owners == [t \in Target |-> Owner(t)]

Publications ==
  {x \in Target \X Posts : target[x[2]] = x[1] /\ PublishedUnder(x[2])}

Promise == INSTANCE PublishPromise WITH
  Targets <- Target, Rows <- Posts, owner <- Owners, published <- Publications

\* Every step of the flow is a step of the promise or changes neither owner nor
\* publication: a target that something live came from is never freed again.
KeepsPromise == Promise!Spec
=============================================================================
