# content-hub in TLA+

content-hub (`src/`) is an internal CMS for a media team: admins write and
clear content, publish it to Facebook, YouTube, TikTok and LINE, watch its
metrics and comments, and record what it earns. The backend is a NestJS
application (`src/backend`) on PostgreSQL and Redis (BullMQ); the frontend
(`src/frontend`) is a Next.js client of its HTTP API. This directory holds TLA+
modules of the parts in which several actors share state, the TLC runs that
check them, and TLAPS proofs.

To repeat everything: `tlc -config X.cfg M` for each run in `PROJECT.json`,
`tlapm M.tla` for each module `*Proofs.tla`.

## 1. Inventory

Everything below is about `src/backend/src/modules/<part>`.

| Part | State | Operations | Interacts with |
|---|---|---|---|
| publish | `posts` (status, version, method), BullMQ queue `publish` | create, redispatch, record a native post, resolve `posted_unconfirmed`; worker: claim, dispatch, terminal write | content (gate), connected-accounts (token), ranking (advice), adapters (platforms) |
| connected-accounts, queue | `connected_accounts`, the OAuth state in the session, daily sweep | authorize, callback, disconnect, getValidToken, refresh | Meta and Google OAuth; read by publish, metrics, comments |
| comments | `comments`, `escalation_alerts`, `syncInFlight` flag | sync, evaluate, acknowledge, erase, purge, reply | adapters, connected-accounts, posts |
| content | `contents` | create, update, archive; licensing and clearance | publish gate |
| adapters (`publish/adapters`) | none | publish, read metrics, read comments, reply; mock or live | platforms; called by publish, metrics, comments |
| commerce | products, links, anchors, placements, conversions | create, retire, anchor, remove an anchor, place, convert, reverse, summaries | posts, contents, step-up |
| paid | campaigns, performance entries | create, update, retire, add an entry, correct, summaries | contents |
| ranking, scheduler | `ranking_scores` (append-only), the engine in force | compute a batch, read the latest, recommend | metrics, publish, content |
| metrics, dashboard, reports | `metrics` (append-only) | sync, enter by hand, overview, drill-down, trend, CSV | adapters, ranking |
| auth, throttler | users, the session store, throttle counters in Redis | login, lockout, logout, CSRF token, step-up | guards every request |
| retention | `audit_logs`, comments | record, anonymise, purge, the daily job | queue, comments |
| uploads | files on disk, `content_assets` | validate, measure an MP4, store, add and remove an asset | content |
| health, config | none | start-up checks, probe | |
| frontend | per page: rows, filter, error, CSRF token; per dialog: its selection | load, filter, write, reload | the HTTP API, through `lib/api-client.ts` |

What is hard, part by part (the full list, with lines, is `hazards` in
`PROJECT.json`):

* **publish.** A platform call cannot be undone and cannot be asked about. The
  answer may be lost, the worker may die, the queue may deliver a job twice, two
  admins may act at once, and the terminal write may fail after the post went
  live. Correct means: a (content, platform) is published at most once; `failed`
  and `draft` are never written over something live; `posted` is never a guess;
  `posted_unconfirmed` is left by admins only; a claimed row reaches an outcome.
* **connected accounts.** The sweep reads a row, talks to Meta, and then writes
  by id only; a disconnect or a reconnect may have happened in between. Correct
  means: consent that was withdrawn is respected, and an account about to expire
  is refreshed or marked whatever the others do.
* **comments.** Two processes may sync at once, one post's failure must not end a
  batch, and the check for a spike and the alert are two steps. Correct means: one
  row for a comment, one justified alert for an hour, every comment an adapter answered stored.
* **replies.** Claim, platform call and saving are three steps, with a rollback
  that names the row by id. Correct means: one owner of a claim, no claim left
  behind, no reply sent again unless the earlier one was reported as failed.
* **content.** Two PATCHes merge against the row each has read; the gate is
  checked on the merge, so together they may leave a row that neither was
  allowed to write.
* **commerce, paid.** Duplicate checks and inserts are separate steps; only
  some of them have a unique index or a CHECK constraint behind them. Reversals
  and corrections are chains of append-only rows. A list of products is anchored
  one item at a time, without a transaction.
* **ranking, metrics.** Readers take "the latest" row by dates that several runs
  may share, that an admin may type, and that belong to one engine or the other;
  some readers ask twice.
* **login, sessions.** The account row is read, a hash is verified, and the row
  is written back; the throttler is several commands to Redis; each request
  saves the whole of the session it loaded.
* **adapters.** An answer may be lost after the platform has acted: which error
  the caller sees decides whether it may try again.
* **retention.** Rows land after what they record, or never; the daily job may
  stop between its halves.
* **uploads.** The duration reader follows sizes that a file claims; the file, its
  URL and the asset row are three steps.
* **frontend.** No load cancels another, handlers close over the view of their
  render, rows and their counts are loaded one after the other and a count may fail silently,
  one save is several requests, and several tabs share one session.

## 2. Plan

| # | Module | What | State |
|---|---|---|---|
| 1 | `PublishPromise`, `Publish`, `PublishProofs` | the publish flow and the promise it implements | done |
| 2 | `ConnectedAccounts`, `ConnectedAccountsProofs` | tokens, disconnects and the sweep | done |
| 3 | `Comments`, `CommentReply` (extends it), `CommentsProofs` | syncs, alerts, erasure; replies composed with them | done |
| 4 | `ContentGate`, `ContentGateProofs` | concurrent edits of one content against the readiness gate | done |
| 5 | `Catalog`, `Placements`, `Conversions`, `Campaigns`, `PaidEntries`, `LedgerProofs` | the shop and the ad ledgers | done |
| 6 | more of `CommentsProofs` | every invariant of the comment modules | done |
| 7 | `Ranking`, `RankingFactors`, `Metrics` | batches, readings and their readers; the weights | done |
| 8 | `Login`, `Sessions`, `Contract` | attempts, the session store, routes and their guards | done |
| 9 | `Adapters`, `Retention`, `Uploads` | outcomes of platform calls, personal data, files | done |
| 10 | `Screens`, `AnchorDialog` | the pages and the dialogs of the frontend | done |
| 11 | `OperationsProofs`, `ClientProofs` | adapters, retention, uploads, login and sessions; the pages, the dialogs and the contract | done |
| 12 | `AnalyticsProofs` | the recommendation, the factors, the readers of the readings | done |
| 13 | `Office`, the type lemmas of `LedgerProofs`, `OperationsProofs`, `AnalyticsProofs` and `ClientProofs` | the parts of the back office taken together, and their types | done |
| 14 | `Ledger`, which `Conversions` and `PaidEntries` implement | an append-only table: rows stay, and amend an earlier row of their own account | done |
| 15 | `AdapterAnswers`, `AdapterPromise`, which `Adapters` implements | what a caller of an adapter may rely on, and that `Publish` and `CommentReply` rely on no more | done |
| 16 | more of `PublishProofs`, `ConnectedAccountsProofs`, `CommentsProofs`, `ContentGateProofs` | how far the claims the findings refute do hold | done |
| 17 | `ContentEditor` | the editor, which replaces its form by the answer of a save | open |

Abstract specifications: `PublishPromise` (a target has one owner at a time and
is published once), `Ledger` (an append-only table of amendments) and
`AdapterPromise` (a platform call is answered once, honestly). Each is implemented by
a detailed module, checked by TLC as a property of a run and proved. Every safety
property the runs check is a theorem.

## 3. Modules and code

### Publish

`Publish` interleaves admin requests (`Requests`), executions of the publish
processor (`Workers`), the queue and the `posts` table. Each `await` at which
another actor can slip in is the boundary of an action; `rpc` and `wpc` say
where a request or an execution stands, and `rver`, `wver` the version it read.

* Orchestrator (`publish-orchestrator.service.ts`): `CheckNewIntent`, then
  `CreateDraft` / `RecordManualExternal` or `InsertConflict`; `RedispatchCheck`,
  `RedispatchUpdate`; `Enqueue`. `InsertRow` is refused by the partial unique
  index (`OwnedByOther`).
* Resolution (`post-resolution.service.ts`): `LoadUnconfirmed`, `ConditionalResolve`.
* Worker (`publish-execution.service.ts`): `ReadPost`, `Claim` / `LoseClaim` /
  `ClaimConflict`, `GetToken`, `Dispatch`, `MarkFailed`, `RecordSuccess`,
  `SuccessNotRecorded`, `MarkUnconfirmed`, `Finish`.
* BullMQ, from how the code uses it: `Deliver`, `StalledCheck` (a lock that
  expired; `maxStalledCount` is the default, 1), `EndJob` (`attempts` is 1),
  jobs are retained when they are over and `add` ignores a jobId it knows.
* Disturbances: `AbandonRequest`, `Throw`, `Crash`, an expired lock, a refused
  terminal write and one whose acknowledgement is lost, `EditContent`. Each is an
  `Event(kind)`; `EventKinds` says which kinds a run allows.

`live[p]` counts what the dispatches of row p really created; no action of the
code reads it, except that an admin's verdict agrees with it at the moment the
row is loaded (the admin has looked at the platform). An error answer of a
platform is taken to mean that nothing was created, and a request that timed out
does not take effect later: the code assumes both.

`PublishPromise` is the abstract specification: a target has at most one owner,
is published at most once and under its owner, and is given up only while
nothing has been published. `Promise` in `Publish` maps the row counted by the
partial unique index to the owner.

### ConnectedAccounts

A row is its status, whether it has an access and a refresh token, and whether its
expiry is near (`due`). `ExchangeCode` and `SaveConnection` are an OAuth
callback, `Disconnect` the admin's call, `StartSweep` ... `FinishSweep` the
daily job with its read, exchange and write as separate steps. Two sweeps overlap when
the job's lock was lost. `consent` records the owner's last word and is read by no
action. The sweep sends every account, YouTube's too, to Meta's exchange; that is
the code's behaviour (`Exchange`). Tokens are abstracted to their presence;
ownership (`findOwned`) holds in every call and is left out, as is encryption;
the OAuth state in the session is in `Sessions`.

### Comments and CommentReply

`Comments` has the platforms' comments (`written`), the table (`ext`, `deleted`),
the alerts and each process's sync: `StartSync` (the in-flight flag),
`FetchComments` / `FetchFails` for each post, `PersistSnapshot` for each snapshot
(createMany with skipDuplicates over the partial unique index), `EndBatch`,
`Evaluate` (count), `RaiseAlert` (insert over the unique index on the bucket).
An answer of `FetchComments` holds any part of what was written: the sync asks for one
page and no more (`comment-ingestion.service.ts` line 117), an unreadable 200 body counts as
an empty list, and rows without id or text are dropped (`facebook.adapter.ts` 177-208,
`youtube.adapter.ts` 174-215). `read` and `received` are history: the posts a sync has
read, and the comments it was given.
`Erase` and `Purge` are the retention controls, `Acknowledge` the admin's. One
tick is half an hour, so that the rolling window and the hourly bucket
(`Bucket`) differ. `now` is read and the rows are counted in one step.

`CommentReply` EXTENDS it with the reply requests: `LoadComment`, `Claim` /
`LoseClaim`, `Dispatch` / `CannotDispatch`, `Save` / `SaveFails`, `Rollback`, and
process death. `sent` and `misreported` record the replies on the platform and
those of them the admin was told had failed; no action of the code reads them.

### ContentGate

One content row and the PATCH requests that edit it. `CheckPatch` is `update` up
to its write: the row is read, merged with the PATCH and checked (`Accepts`);
`WritePatch` sets the PATCH's fields in whatever row there is by then, and
`WriteRefused` is the table's CHECK constraint on the ages. `Archive` is one step:
it only needs the row to exist. `Created`, the initial states, is what `create`
accepts. A clearance is cleared or not, a pillar comedy or not, an evidence URL
blank or not: that is all a rule looks at. `fresh` records whose read is
still up to date and is read by no action. In `Publish`, `EditContent` stands for
what this module does to the gate.

### The back office

`BackOffice` holds what the modules below share: `Request` (requests in the server
at one time), `Admin`, `None`, and the sliding window of the duplicate checks.
They share no variable; in each, an action ends at the `await` where another
request can come in.

* `Catalog` (`commerce-catalog.service.ts`, `commerce-anchor.service.ts`).
  `AnchorStart` opens a request over a list, then for each item `AnchorFind`,
  `AnchorReadProduct`, `AnchorReadLink`, `AnchorInsert`; a failure leaves the
  items before it anchored. `IndexAccepts` is the partial unique index.
* `Placements` (`commerce-placement.service.ts`): `PlaceStart`, `PlaceGate`,
  `PlaceDuplicate`, `PlaceMedia`, `PlaceInsert` while `ContentChanges` moves the
  gate and the assets. Nothing ever takes a placement down: the 409's advice to
  remove it first (lines 162-163) has no route.
* `Conversions` (`commerce-conversion.service.ts`, the summaries' netting): the check
  within the window, the insert with the linkage a reversal inherits (`Linkage`).
  `ConversionBook` shows the table as a `Ledger`, a row's account being its channel and
  its linkage, which is what the summaries add up by.
* `Campaigns` (`paid-campaign.service.ts`): `UpdateCampaign` reads and checks the
  merge, `WriteCampaign` writes the PATCH's own fields under the table's CHECK
  constraint. A JSON null passes the DTO and means two things: the check takes a null end
  for an open campaign and a null start for the row's own (`EffectiveEnd`,
  `EffectiveStart`), the write makes 1970-01-01 of either (`Written`, `Epoch`). `PaidEntries` (`paid-performance.service.ts`) EXTENDS it: entries and corrections;
  `EntryBook` shows the entries as a `Ledger`, the campaign being the account.
* `Ranking` (`ranking-engine*.service.ts`, `ranking.constants.ts`, the
  orchestrator's `recomputeRecommendation`, the scheduler): `RankBegins` dates a
  run, `RankCommits` inserts its rows in one transaction. `LatestScores` is the set of
  answers the query may give, since rows of one date come in any order.
  `RecommendReads` and `RecommendDecides` are the two queries.
* `RankingFactors`: both engines' factors, in integers, with `round4`, over facts
  that grow as posts, readings, decisions and policies do.
* `Metrics` (`metric-ingestion.service.ts`, `dashboard.service.ts`,
  `report-export.service.ts`): syncs post by post, manual readings, and the four
  readers. `Orders` are the orders in which the database may list rows.
* `Login` (`auth.service.ts`, `redis-throttler-storage.service.ts`): each Redis
  command is an action, then the row's read, decision and write.
* `Sessions` (`main.ts`, `auth.controller.ts`, `oauth-state.service.ts`,
  `connected-accounts.controller.ts`): a request loads a copy and saves the whole of it.
  The store itself, express-session over Redis, is modelled from its configuration.
* `Adapters` (`publish/adapters`): one call from `CallAdapter` to the outcome its
  caller sees. `acts` is what the platform really did; `PublishOutcome` and `ReplyOutcome`
  differ on a lost answer, which is what finding 4 is about. `Verdict` is what the callers
  conclude from an outcome (`dispatchAndRecord`, the reply service). `Adapter` maps the calls to
  `AdapterPromise`: asked, then answered once with one of `Answers(op)`, a pair of what
  the platform holds and the verdict. A dry run holds what it made up an id for (`Held`).
  `Dispatch` of `Publish` and `Dispatch`, `CannotDispatch` of `CommentReply` take exactly
  these answers, so what those modules assume of a platform is what the adapters give.
* `Retention` (`audit-log.service.ts`, `audit-retention.service.ts`,
  `comment-retention.service.ts`, `pdpa-retention.processor.ts`). Time is in days;
  `Overflows` are the days that do not exist a year earlier, where `setMonth` spills
  over although the comment on `subtractMonths` says the day is clamped.
* `Uploads` (`content.controller.ts`, `upload-validation.service.ts`,
  `mp4-duration.ts`, the disk storage, `AssetsSection.tsx`): what the duration
  reader finds at an offset is chosen when it looks, so every file is covered.
* `Contract` (`lib/api-client.ts`, the DTOs, the controllers' guards): `ApiClient`
  is what each call sends, group by group (`AuthCalls` ... `PaidCalls`), `Routes`
  which guards and DTO its route has, controller by controller, `Status` the guards
  in order. `++` puts groups together. Tabs share a session; a page keeps the token
  it loaded.
* `Screens` (`app/*/page.tsx`): one record per page (how a filter loads, which
  writes it has, which it reloads after), and the actions they have in common. A load
  asks who is signed in, then for the rows, and on the posts, placements and products pages
  then for a count beside each row; a count that cannot be had is left blank and sets
  no error (`CountFails`). A sync of comments sets the page back to 1 only after its reload
  (`PageReset`); a 401 leaves the screen (`SignedOut`), except after the dashboard's sync,
  which shows it as an error. The rows and what is counted of them share one version, as
  do all rows of a screen. Two requests that the paid page and the dashboard send together
  for the rows are one. `memory` is history: the newest own write, and which loads are overtaken or ask
  for a view that is no longer set.
* `AnchorDialog` (`AnchorPickerModal.tsx`, `AnchorPicker.tsx`,
  `ManualExternalRecordModal.tsx`) over the server's item-by-item loops.

`Office` puts them together, as the application's root module does: `OfficeSpec` is the
conjunction of the sixteen specifications, so any part may move at any time, and
`TypesOK` the conjunction of their type invariants. `MCBackOffice` instantiates it.
There, `part` names the one that moves in a behaviour; since the parts share no
variable, no state of a part is lost by that, and the states checked are the sum of
the parts' and not their product.

## 4. Runs

| Run | Shows | Bounds |
|---|---|---|
| `publish_safety` | published once, safe retries and verdicts, exclusive claims, refinement of `PublishPromise` | 1 target, 2 rows, 2 requests, 2 workers, 2 jobs, one disturbance of any kind |
| `publish_liveness` | claimed rows and queued drafts reach an outcome | the same with one request, redelivery the only disturbance |
| `publish_redelivery` | finding: a redelivered job can claim a second time | as above |
| `publish_redispatch` | finding: an accepted redispatch can be dropped | as above, one failed call |
| `accounts` | withdrawn consent is respected; due accounts are settled | a page and a channel, 1 callback, 2 sweeps, 1 fault |
| `accounts_disconnect` | finding: a token comes back after a disconnect | as above, no fault |
| `content_gate` | the ages stay in order; a PATCH nobody overlapped leaves no uncleared row `ready` | 2 editors, 2 ages, PATCHes of one or two fields |
| `content_ready` | finding: two PATCHes together leave a row `ready` and not cleared | as above |
| `comments_sync` | one row per comment, one justified alert per hour, every answer stored | 2 posts, 1 comment each, 2 rows, 2 processes, 4 half-hours, 1 fault |
| `comment_reply` | one owner of a claim, none left behind, guarded replies | 1 comment, 2 rows, 1 sync, 2 requests, 3 tries, 2 faults |
| `comment_reply_twice` | finding: a lost answer leads to a second reply | as above, 1 fault |
| `back_office` | the sixteen parts of the back office, each alone: `TypesOK` and the properties below | 2 requests, 1 admin, 2 products, campaigns, providers, tasks, files or tabs; see the cfg |

What `back_office` checks, and what each leaves out because the code does not promise it:

| Property | Of | Excepted |
|---|---|---|
| `CatalogIsSound` | one live anchor per product and target; no request pins a product retired before it came in | a product retired while the request runs |
| `PlacementIsSound` | one placement per target, admissible durations, the gate passed while the request was in the server | the gate closing between its check and the insert |
| `ConversionsAreSound` | reversals net where their rows are counted; a resent request is refused unless it raced; the table implements `Ledger` | a reversal sent without its linkage: the window compares what the client sent |
| `PaidIsSound` | ordered dates whatever nulls and overlapping PATCHes do, unique external ids, corrections inside their campaign, resent entries refused unless they raced; the entries implement `Ledger` | |
| `RankingIsSound` | latest scores are one run of one engine; recommendation and score agree; totals stay shares of one, past decisions move one by at most a tenth and in their own direction, a met target means no pressure, and (an action property) one more live post never raises it | two runs at one instant, a run between the two queries |
| `MetricsAreFaithful` | a sync that ends has an outcome for every post and is what the dashboard shows; dashboard, trend and report agree; a drill-down is its content's share of the overview | two readings of a post at one date (the report breaks ties otherwise), a sync that another one or a manual reading overlapped, a reading dated in the future |
| `AttemptsAreCounted` | no window lets more than the limit through; every wrong password counts | attempts that overlap: the later write wins |
| `SessionsAreSound` | undisturbed handshakes succeed once, sessions logged out stay so | requests that overlap: whole copies are saved |
| `AdaptersKeepPromise` | what may be retried left nothing on the platform; mock mode sends nothing; the calls implement `AdapterPromise` | replies reported as rejected (finding 4) |
| `NamesLastTheWindow` | identifiers of failed logins go after their window, nothing else does | rows that were lost |
| `UploadsAreSound` | the box walk advances; an asset names a whole file | |
| `ContractIsKept` | no call is refused for its fields; 403 only after another login or a revoked role; writes pass only from a page of the running session | logging out, which has no CSRF guard |
| `ScreenIsCurrent` | an idle page without an error shows its view's rows, and beside a row a count or nothing, none older than its user's last acknowledged write, although loads and counts fail and requests overlap | what was last shown by a load that a later one had overtaken, or that a handler or an effect of an older view asked for; a page set back over a later load; the scheduler's dialog over an error |
| `SavedMeansPinned` | a save that reports success pinned what is checked | products others touched; one pinned by an earlier failed save and then unchecked |

Why these bounds are enough to be interesting. Two rows and two requests are what
a duplicate needs; two workers what a redelivery needs; two jobs are a dispatch and
its retry; the disturbances are single because each is by itself what the code has
to survive. In `comments_sync` a row that was deleted uses its primary key up: two
keys allow a comment to be inserted again after an erasure. Four half-hours span
two buckets and a window across their boundary. Two
editors and PATCHes of two fields are what an overlap needs; two ages can be out of order. Every bound is a constant:
`MaxJobs`, `MaxEvents`, `MaxFaults`, `MaxNow`, `MaxTries`, and the sizes of the
sets of ids. Symmetry is used in safety runs only, over ids that no
definition tells apart; in `back_office`, over the requests and, separately, over the
ids each part has two of, products excepted, since the lists to anchor name them.

In `back_office` two requests of everything are what a race needs. Lists of two
products make a batch that fails halfway; durations are one below the rule's range and
one at its end (9, 60); conversions and entries may number two, a row and its reversal
or correction, all within the window; campaigns are dated 0, which is what a null becomes
(`Epoch`), and 1; two engines score different sets of platforms; the
clocks of retention, ranking, readings and login go past what they measure; the
throttler's limit and the lockout's are 2, with three hits; one session has two
handshakes, with one provider or with two; an MP4 has twelve
units of four bytes, enough for a container, a box with an extended size and its header;
the contract has two tabs and three logins. `RankingFactors` takes one ratio and a cadence
of one post, averages of zero and above, and the five decisions that feedback starts at.
One audited event is enough, since a sweep looks at each row by itself; so is one reach,
since the readers are compared row by row. A login over a running session, several posts
per period and an expired window are in the theorems only. `VIEW` leaves out of a state
the variables of the parts that do not move, and of two parts what decides neither their
next steps nor their properties: whether a campaign is active, and of a screen the name of
the filter, the names of writes that act alike, and what went astray (`ScreenSeen`).

Deadlock is not checked where the ids or the clock run out and where admins may
simply stop (`Publish`, `Comments`, `CommentReply`, `back_office`); it is in `accounts`
and `content_gate`.

Fairness. `Publish!Fairness`: an execution in progress goes on (`Execute`) and a
waiting job is eventually taken (`Deliver`): that is what a BullMQ worker does as
long as it runs. Nothing obliges an admin. `ConnectedAccounts!FairSpec`: the
scheduler starts a sweep each day and a running sweep goes on. The liveness run
of the publish flow has no crash, because the code does not repair a row whose
worker died between claim and terminal write: it stays `scheduled` and is
meant to be found by monitoring.

### Findings

Each quotes a comment the code does not keep. The theorem named with it says how
much of the comment does hold, for every value of the constants.

1. **A redelivered job may dispatch again** (`publish_redelivery`). A job whose
   first run ended in `failed` while its lock was lost reads the row afresh and claims
   it at its new version. `publish.processor.ts` says such a job "simply loses the claim and exits".
   Nothing is published twice: a row that is claimed again for the same job is `failed` and
   has nothing live (`SecondClaimsAreRetries`).
2. **A redispatch may vanish** (`publish_redispatch`). The jobId holds the row's
   version; an attempt that dies before its claim leaves the version as it was,
   and the queue ignores the next job of the same id. Where no attempt ends before
   its claim other than by losing it (`Lossless`; one redelivery after a crash is
   allowed), a retry gets a fresh id (`RetriesGetFreshIds`).
3. **A token survives its disconnect** (`accounts_disconnect`). The sweep writes
   by id only. `ConsentRespected` still holds: the row stays disconnected. No other
   write does it (`SweepsAloneRestore`), and a YouTube token stays erased, since Meta's
   exchange refuses it (`GoogleTokensStayErased`).
4. **A comment may be replied to twice** (`comment_reply_twice`). A network
   failure after the reply went out is reported as a rejection and the claim is
   rolled back. Without a fault a row is sent one reply at most, whoever races
   (`RepliesAreSentOnce`).
5. **A row may be `ready` and not cleared** (`content_ready`). Each of two PATCHes
   passes the gate on the row it read. The publish flow checks the clearance
   again, so nothing is published from such a row. Only the write of a PATCH that was
   overlapped does it (`OverlapsAlone`), so PATCHes one at a time keep the gate
   (`OneEditorKeepsTheGate`).

Two more disagreements are in the model without a run of their own.
* The comment on BUG-7A-01 (`paid-campaign.service.ts` 41-46) says that dates out of order
  are answered by a clear 400 and never by the opaque 500 of the CHECK. A null end is
  checked as open and written as 1970-01-01: the CHECK refuses it with that 500, unless the
  campaign starts in 1970 too, and then closes what should have been opened. A null start
  moves the campaign's start to 1970. `PaidIsSound` holds, since the constraint does.
* A sync whose adapter swallows an unreadable body counts the post as synced. `SyncIsComplete`
  therefore speaks of the comments an adapter answered, and promises nothing about the rest.

## 5. Proofs

Each theorem holds for every value of the constants under the module's named
assumption (`PublishAssumption`, `AccountsAssumption`, `CommentsAssumption`,
`ReplyAssumption`, `ContentGateAssumption`, and those of the ledger and the other
back-office modules, each named `<Module>Assumption`). They only say that `None` is
no id and no row, that posts and row ids are finitely many, that bounds, windows,
lengths and ages are numbers (the threshold is not zero), that a comment is not
purged before its window is over, that an engine scores platforms the tie-break
lists, that the posts with metrics are a list without repetition, that a ratio is
between 0 and 100 percent, and that an MP4 is longer than the image ceiling (the
size that `Validate` chooses beside it is one unit above).

* `PublishProofs`. `PublishedOnce` is not inductive: that a failed row may be
  claimed depends on nothing being live for it, which depends on what a worker on
  its way to `failed` knows, which depends on its claim being exclusive and on
  a verdict still agreeing with the platform when it is written. `Inductive` in `Publish`
  is the conjunction of these: `RowInv` (what a status says about the world),
  `IndexInv` (the partial unique index), `RequestInv` (verdicts),
  `WorkerInv` (executions). One lemma per action, then `SpecInductive`, from
  which `PublishedAtMostOnce`, `RetriesAreSafe`, `PostedMeansPublished`,
  `ClaimsAreExclusive` and `UnconfirmedIsResolvedByAdmins` follow. `Refinement` shows that every step
  either acquires, publishes under, releases or leaves alone the owner of a
  target, as `PublishPromise` allows. For the findings, `AgesInv` says how old the version
  in a job's id is against the row's: a version never goes back and a status never changes
  without it (`RowsMove`), a job is no newer than its row, and an execution past its claim
  has left its job's version behind. `DispatchReliesOnPromise` is a lemma on the
  action alone, the inductive invariant giving the types.
* `ConnectedAccountsProofs`. `ConsentInv`: a row whose owner disconnected is never
  `connected` and has no refresh token, whatever the sweep's stale writes do,
  because they write `expired` or the access token and nothing else. `ErasedInv` adds that
  a sweep about to write holds a page's token, and that a YouTube token goes with consent.
* `CommentsProofs`. `NoDuplicateRows` and `OneAlertPerHour` rest on the two
  unique indexes, through every snapshot still in a process's hands;
  `SyncsAreComplete` on each post of a batch being counted or on its way;
  `AlertsAreReal`, which counts, on the cardinality theorems: the rows an
  evaluation has counted were there, and stay in the alert's history.
  Of `CommentReply`, `ReplyInv`: while a row is unclaimed every reply sent for
  it has been reported as failed; a request past its claim is its only owner and knows
  whether its own reply is live. The steps of `Comments` enter only through
  the fact that they leave the reply columns alone. `ClaimsAreHeld` needs a second
  invariant: without a fault, a claim belongs to a request still on its way or to an answer.
  `OnceInv` counts on top of it: without a fault a reply is given up only with a row that
  was deleted meanwhile, on which no claim is made again.
* `LedgerProofs`. `PlacementsAreSound`, `CatalogSound`, `ConversionsSound`,
  `PaidSound`: for each ledger an inductive invariant says what a request
  on its way to its insert knows of the table (what was gone when it came in, how many rows it had
  seen, which linkage its reversal inherits), and the insert turns that into the property.
  `PaidSound` is stated of the conjunction of the two specifications.
  `LedgersAreSound` is proved of `Ledger` alone: amendments point backwards within an account,
  so a chain of them is a strictly decreasing sequence of row numbers. `ConversionsSound` and
  `PaidSound` show each insert to be an `Enter` or a stutter, from the linkage a reversal inherits
  and from the campaign a correction is checked against; both tables inherit the result.
* `ContentGateProofs`. `GateInv`: the row's ages are in order, and a PATCH whose row has
  not moved since its read is one the checks accept in the row as it is now. The
  proof also shows that merging a PATCH into a row gives a row. `LoneInv`: the one PATCH
  in hand, merged into the row as it is or as archiving leaves it, is `ready` only if the
  gate allows it.
* `OperationsProofs`, one inductive invariant per module.
  `AdapterInv`: nothing is sent before the call dispatches, and only a live adapter
  dispatches. From it `AdaptersAreHonest` follows, and each step of a call is an `Ask`, an
  `Answer`, a `Leave` or a stutter of `AdapterPromise`. `RetentionInv`: no row is dated after now, the last sweep began in the
  past, and no row that was due then still has its name; a row that lands later is younger.
  `UploadInv`: only an answered request has a URL, and then its file is whole; a box
  that is being walked ends beyond its start. `LoginInv`: in one window no
  more attempts pass than the counter shows, and a verified attempt that nobody
  overlapped holds the row it will write. `SessionInv`: a state in a session or a
  copy is that session's own; as long as nothing disturbs a handshake, its state is in its
  session and in every copy of it until the callback (`Kept`), and
  afterwards in no copy, and in the store only while a copy is still out (`Once`).
  `LoginBounds` and `ScanInside` add what the types say and the properties do
  not need: a count restarts with its window, and a box that is walked lies in its parent.
* `AnalyticsProofs`. `RankInv`: the table consists of whole runs of one engine and
  one date each, a run on its way has a number of its own, and the row a
  recommendation has chosen stays the youngest of its platform while no other run
  commits. `FactorInv`: no more of an admin's posts are on a platform or of a pillar
  than are live, and the decisions that moved a score are among those counted; the
  rest is arithmetic on `Round4`, whose rounding is bounded and monotonic, factor by
  factor. `MetricInv` follows each sync through the list of posts (`SyncOK`) and says
  when the row it wrote still stands against the readings that came after (`Stands`).
  The readers are recursive functions over the rows in an order the database
  chooses. `Latest` is shown to return a row that no other row of the post replaces,
  the trend's last day the same row, and the sums of a partition of the posts to add
  up to the whole.
* `ClientProofs`. `DialogInv`: between two saves nothing is left in progress
  (`BetweenSaves`), what is pinned and was not before is this save's, other users'
  products aside (`OnlyOwnPins`), and what a save no longer has to do is done
  (`SaveProgress`); `NumbersOK` adds the types. `ScreenInv` says who will make good what is not shown yet: unless the last load
  went astray, either the rows shown are of the view that is set and as new as the
  user's last write, or an error is up, or a load that nothing has overtaken is on its way
  and will do it (`RowsPromised`, and `CountsPromised` for the counts); the loads overtaken
  are the ones asked before it (`OrderOK`). A step asks for a load, which then carries the
  promise, or a load leaves and overtakes those before it, or nothing moves; one lemma
  per kind carries the invariant over all actions. `ContractInv`: a page's token is the running session's exactly when nobody
  has logged in since the page loaded, because tokens are issued one after another
  (`TokensAreFresh`), and the call in progress is one of the client's, with its own
  page's token (`CallIsFaithful`). That every call fits its route (`Agree`, `Fits`) is
  proved per group of calls against its controller and carried over to the whole by
  the lemmas on `++`.
* `OfficeTypes`, in `ClientProofs`, joins the sixteen type lemmas: the office keeps
  its types whichever part moves, at once with others or alone. `TypesOK` in
  `back_office` is the same formula, on one part at a time.

Some proofs corrected the model or what it claimed.
* A sync of no posts at all was left in its loop; it ends at once, as the code's
  loop does.
* Two drill-downs were said to add up to the overview. With three contents they do
  not; `ReadModelsAgree` now says what holds of any number: a drill-down and
  what the other contents add up to.
* Two claims about the factors were true of the numbers TLC tries and are not of all:
  that only unanimous decisions move a score by the whole tenth, and that no pressure
  means a met target. `round4` makes one out of a share close enough to it. What holds
  is stronger where it matters (`ScoresAreAdvisory`): decisions never move a score
  against most of them, and the second holds up to a cadence of 20000.
* The offset of the duration reader stays inside the file because a box's end is
  at most its parent's (`BoxEnds`); the type invariant had allowed it to overshoot.
* In `Contract` the calls were one table; in groups, and groups of groups, they can be
  compared with their controllers one at a time.

Only model-checked: the liveness properties `ClaimSettles`, `IntentSettles` and
`DueIsSettled` (fairness and ENABLED are out of the prover's reach), and the
disagreements of the runs that expect a violation, which are counterexamples. Every other
property of every run is stated by a theorem. Where a recursive function had to be
reasoned about, its definition is unfolded and induction is done by hand, on
the least number at which a statement about that one function fails; the library's
induction theorems, whose parameter is an operator, cannot be used.

## 6. Not modelled

* commerce: `updateProduct` changes display fields no rule reads. Summaries are
  modelled by the rows they count; their split by currency is not, nor is the
  paid summary, which adds an entry and its correction alike.
* auth: hashing is an outcome, right or wrong; the step-up password is a
  precondition of the requests that carry it.
* audit: `record` never changes any state but the trail, so the other modules
  leave it out; redaction of what is recorded is not modelled.
* The contract has field names, required or optional, and guards; the formats of
  values and the bodies of answers are left out.
* frontend: the content editor, the login page, the report buttons, the escalation
  banner, the content and paid chips beside the rows, layout and wording.
* The formats of the CSV and PDF reports, health, configuration: read-only.
* The classifier's and the triage's word lists, reply templates and filters: a
  comment is negative or not, replyable or not.
* Files that a removed asset or a failed request leaves on disk: nothing in the code
  removes them, and no property is about them.
* A sweep that takes YouTube accounts to Meta's exchange marks them expired: modelled
  (`Exchange`), but no comment or doc says what should become of them.
