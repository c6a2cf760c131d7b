--------------------------- MODULE CommentReply ---------------------------
(***************************************************************************)
(* Replies to comments: admins' requests that claim a comments row, write  *)
(* to the platform and save the outcome, while syncs and deletions go on   *)
(* as Comments describes them.                                             *)
(***************************************************************************)
EXTENDS Comments

CONSTANTS
  Requests,      \* reply requests handled concurrently
  ReplyableIds,  \* ids of comments that accept replies
  MaxTries       \* bound: requests that get past the guards

ASSUME ReplyAssumption ==
  /\ ReplyableIds \subseteq Ids
  /\ None \notin Rows
  /\ MaxTries \in Nat

VARIABLES
  claimed,     \* rows with replied_at and replied_by
  answered,    \* rows with reply_text and reply_external_id
  sent,        \* replies on the platform that were sent for each row
  misreported, \* those of them that the admin was told had failed
  step, target,  \* per request: its next step and its row
  isLive,      \* per request: its own reply is on the platform
  tries

replyVars == <<claimed, answered, sent, misreported, step, target, isLive, tries>>
vars == <<commentVars, replyVars>>

ReplyStep == {"idle", "claim", "dispatch", "save", "rollback"}

ReplyTypeOK ==
  /\ TypeOK
  /\ claimed \subseteq Rows
  /\ answered \subseteq Rows
  /\ sent \in [Rows -> Nat]
  /\ misreported \in [Rows -> Nat]
  /\ step \in [Requests -> ReplyStep]
  /\ target \in [Requests -> Rows \cup {None}]
  /\ isLive \in [Requests -> BOOLEAN]
  /\ tries \in Nat

ReplyInit ==
  /\ Init
  /\ claimed = {} /\ answered = {}
  /\ sent = [x \in Rows |-> 0]
  /\ misreported = [x \in Rows |-> 0]
  /\ step = [q \in Requests |-> "idle"]
  /\ target = [q \in Requests |-> None]
  /\ isLive = [q \in Requests |-> FALSE]
  /\ tries = 0

-----------------------------------------------------------------------------

To(q, s) == step' = [step EXCEPT ![q] = s]

EndReply(q) ==
  /\ To(q, "idle")
  /\ target' = [target EXCEPT ![q] = None]
  /\ isLive' = [isLive EXCEPT ![q] = FALSE]

\* Step-up passed; the row is loaded and may be replied to.
LoadComment(q, x) ==
  /\ step[q] = "idle" /\ tries < MaxTries
  /\ x \in Stored \ claimed
  /\ ext[x][2] \in ReplyableIds
  /\ To(q, "claim")
  /\ target' = [target EXCEPT ![q] = x]
  /\ tries' = tries + 1
  /\ UNCHANGED <<commentVars, claimed, answered, sent, misreported, isLive>>

\* Mutant: the check made when the row was loaded is relied on.
ClaimMatchesAsLoaded(x) == x \in Stored

\* updateMany where replied_at is null: the row may also be deleted by now.
ClaimMatches(x) == x \in Stored \ claimed

\* Mutant: the claim stores the text before anything is sent.
ClaimWithText(q) ==
  /\ step[q] = "claim"
  /\ ClaimMatches(target[q])
  /\ claimed' = claimed \cup {target[q]}
  /\ answered' = answered \cup {target[q]}
  /\ To(q, "dispatch")
  /\ UNCHANGED <<commentVars, sent, misreported, target, isLive, tries>>

Claim(q) ==
  /\ step[q] = "claim"
  /\ ClaimMatches(target[q])
  /\ claimed' = claimed \cup {target[q]}
  /\ To(q, "dispatch")
  /\ UNCHANGED <<commentVars, answered, sent, misreported, target, isLive, tries>>

\* Mutant: the claim is made inside the try block.
LoseClaimRollsBack(q) ==
  /\ step[q] = "claim"
  /\ ~ClaimMatches(target[q])
  /\ To(q, "rollback")
  /\ UNCHANGED <<commentVars, claimed, answered, sent, misreported, target, isLive, tries>>

LoseClaim(q) ==
  /\ step[q] = "claim"
  /\ ~ClaimMatches(target[q])
  /\ EndReply(q)
  /\ UNCHANGED <<commentVars, claimed, answered, sent, misreported, tries>>

\* Mutant: an error before the platform call leaves the claim behind.
CannotDispatchKeepsClaim(q) ==
  /\ step[q] = "dispatch"
  /\ EndReply(q)
  /\ UNCHANGED <<commentVars, claimed, answered, sent, misreported, tries>>

\* No post, account or token, or the platform refuses: nothing was sent.
CannotDispatch(q) ==
  /\ step[q] = "dispatch"
  /\ To(q, "rollback")
  /\ UNCHANGED <<commentVars, claimed, answered, sent, misreported, target, isLive, tries>>

\* adapter.replyComment puts the reply on the platform.  When the answer gets
\* lost the adapter reports a rejection all the same.
Dispatch(q) ==
  LET x == target[q] IN
  /\ step[q] = "dispatch"
  /\ sent' = [sent EXCEPT ![x] = @ + 1]
  /\ isLive' = [isLive EXCEPT ![q] = TRUE]
  /\ \/ To(q, "save") /\ UNCHANGED faults
     \/ To(q, "rollback") /\ Fault
  /\ UNCHANGED <<clock, table, ledger, syncs, claimed, answered, misreported, target, tries>>

Save(q) ==
  /\ step[q] = "save"
  /\ target[q] \in Stored
  /\ answered' = answered \cup {target[q]}
  /\ EndReply(q)
  /\ UNCHANGED <<commentVars, claimed, sent, misreported, tries>>

\* The row was deleted meanwhile, or the update fails, or only its answer is
\* lost.
SaveFails(q) ==
  /\ step[q] = "save"
  /\ \/ target[q] \in deleted /\ UNCHANGED <<answered, faults>>
     \/ /\ target[q] \in Stored /\ Fault
        /\ answered' \in {answered, answered \cup {target[q]}}
  /\ To(q, "rollback")
  /\ UNCHANGED <<clock, table, ledger, syncs, claimed, sent, misreported,
                 target, isLive, tries>>

\* The admin sees a failure.
ReportFailure(q) ==
  /\ misreported' = [misreported EXCEPT ![target[q]] = IF isLive[q] THEN @ + 1 ELSE @]
  /\ EndReply(q)

\* Mutant: a failed reply is given a state of its own, and the claim kept.
RollbackParks(q) ==
  /\ step[q] = "rollback"
  /\ To(q, "failed")
  /\ UNCHANGED <<commentVars, claimed, answered, sent, misreported, target, isLive, tries>>

\* The catch block: the claim is given up without a condition on its owner.
Rollback(q) ==
  /\ step[q] = "rollback"
  /\ claimed' = claimed \ {target[q]}
  /\ ReportFailure(q)
  /\ UNCHANGED <<commentVars, answered, sent, tries>>

RollbackFails(q) ==
  /\ step[q] = "rollback"
  /\ Fault
  /\ ReportFailure(q)
  /\ UNCHANGED <<clock, table, ledger, syncs, claimed, answered, sent, tries>>

\* The API process dies.
ReplyDies(q) ==
  /\ step[q] # "idle"
  /\ Fault
  /\ ReportFailure(q)
  /\ UNCHANGED <<clock, table, ledger, syncs, claimed, answered, sent, tries>>

-----------------------------------------------------------------------------

Reply(q) ==
  \/ \E x \in Rows : LoadComment(q, x)
  \/ Claim(q) \/ LoseClaim(q) \/ CannotDispatch(q) \/ Dispatch(q)
  \/ Save(q) \/ SaveFails(q) \/ Rollback(q) \/ RollbackFails(q) \/ ReplyDies(q)

\* A sync never writes the reply columns of a row; a deleted row loses them.
ReplyNext ==
  \/ CommentStep /\ UNCHANGED replyVars
  \/ \E q \in Requests : Reply(q)

ReplySpec == ReplyInit /\ [][ReplyNext]_vars

-----------------------------------------------------------------------------

PastClaim(q) == step[q] \in {"dispatch", "save", "rollback"}

\* The claim-first guard: however many requests race, a row is sent another
\* reply only after each earlier one was reported to the admin as a failure.
ResentOnlyAfterFailure == \A x \in Rows : sent[x] <= misreported[x] + 1

\* The unconditional rollback never takes a claim away from another request:
\* two requests are never past the claim of one row, and the claim stands as
\* long as its owner is there.
ClaimIsOwned ==
  \A q \in Requests : PastClaim(q) =>
    /\ target[q] \in claimed
    /\ \A o \in Requests \ {q} : PastClaim(o) => target[o] # target[q]

\* No claim is left behind: a stored row that is claimed has its answer, or a
\* request at work on it, unless a process or the database failed.
ClaimIsHeld ==
  \A x \in claimed \cap Stored :
    x \in answered \/ faults > 0 \/ \E q \in Requests : PastClaim(q) /\ target[q] = x

\* A row that shows an answer was really answered on its platform, although the
\* claim, the platform call and the saving of the text are three steps.
AnsweredWasSent == \A x \in answered : sent[x] > 0

\* The class comment's "no double-reply": a comment has at most one reply.
NoDoubleReply ==
  \A x, y \in Rows :
    /\ sent[x] <= 1
    /\ sent[x] > 0 /\ sent[y] > 0 /\ ext[x] = ext[y] => x = y
=============================================================================
