------------------------------ MODULE Adapters ------------------------------
(***************************************************************************)
(* One call of a platform adapter, from its token check to the error or    *)
(* result the caller sees: publish, read metrics, read comments, reply.    *)
(* The platform may act on a request whose answer is lost; an error        *)
(* response is taken to mean that it did not act.  The publish and reply   *)
(* modules rely on AdapterPromise, which these calls implement.            *)
(***************************************************************************)
EXTENDS BackOffice

CONSTANTS
  AdapterCall,   \* calls under way at one time
  Facebook, YouTube, TikTok, Line   \* AssetPlatform

VARIABLES
  liveMode,   \* platform -> PUBLISHER_IMPL_* is not mock
  calls       \* per call: where it is, or its outcome

adapterVars == <<liveMode, calls>>

AdapterPlatform == {Facebook, YouTube, TikTok, Line}
Operation == {"publish", "metrics", "comments", "reply"}

\* What an adapter looks at in a content and its post.
Subject == [type : {"video", "image", "text"}, caption : BOOLEAN, publicUrl : BOOLEAN,
            onDisk : BOOLEAN, externalId : BOOLEAN]

AdapterOutcome == {"ok", "token", "validation", "rejected", "ambiguous", "unimplemented", "unknown"}

AdapterTypeOK ==
  /\ liveMode \in [AdapterPlatform -> BOOLEAN]
  /\ \A r \in AdapterCall : calls[r] # Idle =>
       /\ calls[r].pc \in {"token", "validate", "mode", "live", "dispatch", "done"}
       /\ calls[r].op \in Operation
       /\ calls[r].on \in AdapterPlatform
       /\ calls[r].about \in Subject
       /\ calls[r].outcome \in AdapterOutcome \cup {None}
       /\ calls[r].sent \in 0..1
       /\ calls[r].acts \in 0..1

AdapterInit ==
  /\ liveMode \in [AdapterPlatform -> BOOLEAN]
  /\ calls = [r \in AdapterCall |-> Idle]

CallIs(r, pc) == calls[r].pc = pc /\ UNCHANGED liveMode

CallGoesTo(r, pc) == calls' = [calls EXCEPT ![r].pc = pc]

CallEnds(r, outcome) == calls' = [calls EXCEPT ![r].pc = "done", ![r].outcome = outcome]

-----------------------------------------------------------------------------
\* validateArgs of each adapter
FacebookTakes(about) ==
  about.type # "text" /\ liveMode[Facebook] => about.publicUrl

YouTubeTakes(about) == about.type = "video"

TikTokTakes(about) == about.type = "video"

LineTakes(about) == about.caption

AdapterTakes(p, about) ==
  /\ p = Facebook => FacebookTakes(about)
  /\ p = YouTube => YouTubeTakes(about)
  /\ p = TikTok => TikTokTakes(about)
  /\ p = Line => LineTakes(about)

\* isConfirmedNotPosted: the caller marks the post failed, which may be retried.
ConfirmedNotPosted == {"token", "validation", "rejected"}

\* Mutant: an answer that never came is an error like another.
LostIsRejected(answer) ==
  CASE answer = "id" -> "ok"
    [] answer \in {"error", "none"} -> "rejected"
    [] OTHER -> "ambiguous"

\* publishLive of Facebook, and the upload of YouTube: an answer to a class.
PublishOutcome(answer) ==
  CASE answer = "id" -> "ok"
    [] answer = "error" -> "rejected"
    [] OTHER -> "ambiguous"

\* replyCommentLive: whatever is not an id is a rejection.
ReplyOutcome(answer) == IF answer = "id" THEN "ok" ELSE "rejected"

\* fetchMetricsLive and fetchCommentsLive: an unreadable body reads as empty.
ReadOutcome(answer) == IF answer \in {"error", "none"} THEN "rejected" ELSE "ok"

-----------------------------------------------------------------------------
CallAdapter(r, op, p, about, token) ==
  /\ calls[r] = Idle
  /\ calls' = [calls EXCEPT ![r] = [pc |-> "token", op |-> op, on |-> p, about |-> about,
                                    token |-> token, outcome |-> None, sent |-> 0, acts |-> 0]]
  /\ UNCHANGED liveMode

ChecksToken(r) ==
  /\ CallIs(r, "token")
  /\ IF ~calls[r].token THEN CallEnds(r, "token")
     ELSE CallGoesTo(r, IF calls[r].op = "publish" THEN "validate" ELSE "mode")

ValidatesArgs(r) ==
  /\ CallIs(r, "validate")
  /\ IF AdapterTakes(calls[r].on, calls[r].about)
       THEN CallGoesTo(r, "mode")
       ELSE CallEnds(r, "validation")

\* The dry run may fail at MOCK_PUBLISHER_FAILURE_RATE where something is written.
RunsDry(r) ==
  /\ CallIs(r, "mode")
  /\ ~liveMode[calls[r].on]
  /\ \/ CallEnds(r, "ok")
     \/ calls[r].op \in {"publish", "reply"} /\ CallEnds(r, "rejected")

GoesLive(r) ==
  /\ CallIs(r, "mode")
  /\ liveMode[calls[r].on]
  /\ CallGoesTo(r, "live")

\* TikTok and LINE have no live integration.
LiveIsUnavailable(r) ==
  /\ CallIs(r, "live")
  /\ calls[r].on \in {TikTok, Line}
  /\ CallEnds(r, IF calls[r].op = "publish" THEN "validation" ELSE "unimplemented")

\* Reads need the id the platform gave the post.
LiveIsReady(r) ==
  /\ CallIs(r, "live")
  /\ calls[r].on \in {Facebook, YouTube}
  /\ ~(calls[r].on = YouTube /\ calls[r].op = "publish")
  /\ IF calls[r].op \in {"metrics", "comments"} /\ ~calls[r].about.externalId
       THEN CallEnds(r, "validation")
       ELSE CallGoesTo(r, "dispatch")

\* YouTube: the file, then the upload session, then the bytes read.  No video exists yet.
YouTubeOpensSession(r) ==
  /\ CallIs(r, "live")
  /\ calls[r].on = YouTube /\ calls[r].op = "publish"
  /\ IF ~calls[r].about.onDisk
       THEN CallEnds(r, "validation")
       ELSE \/ CallEnds(r, "rejected")
            \/ CallEnds(r, "unknown")
            \/ CallGoesTo(r, "dispatch")

\* The request goes out once.  An answer in time carries an id, no id or no
\* readable body; or it is an error; or there is none, and the platform may
\* have acted all the same.
PlatformAnswers(r) ==
  LET op == calls[r].op IN
  /\ CallIs(r, "dispatch")
  /\ \E answer \in {"id", "noid", "unreadable", "error", "none"}, acts \in 0..1 :
       /\ answer \in {"id", "noid", "unreadable"} => acts = 1
       /\ answer = "error" => acts = 0
       /\ calls' = [calls EXCEPT
            ![r].pc = "done", ![r].sent = 1,
            ![r].acts = IF op \in {"publish", "reply"} THEN acts ELSE 0,
            ![r].outcome = CASE op = "publish" -> PublishOutcome(answer)
                             [] op = "reply"   -> ReplyOutcome(answer)
                             [] OTHER          -> ReadOutcome(answer)]

CallerSees(r) ==
  /\ CallIs(r, "done")
  /\ calls' = [calls EXCEPT ![r] = Idle]

AdapterNext ==
  \E r \in AdapterCall :
    \/ \E op \in Operation, p \in AdapterPlatform, about \in Subject, token \in BOOLEAN :
         CallAdapter(r, op, p, about, token)
    \/ ChecksToken(r) \/ ValidatesArgs(r) \/ RunsDry(r) \/ GoesLive(r)
    \/ LiveIsUnavailable(r) \/ LiveIsReady(r) \/ YouTubeOpensSession(r)
    \/ PlatformAnswers(r) \/ CallerSees(r)

AdapterSpec == AdapterInit /\ [][AdapterNext]_adapterVars

-----------------------------------------------------------------------------
\* A publish that the caller may retry left nothing on the platform, one that
\* succeeded live left exactly one post there, and one whose request went out
\* without an answer is left to a human; a reply is reported as sent only if it
\* is there.
OutcomesAreHonest ==
  \A r \in AdapterCall : calls[r] # Idle /\ calls[r].pc = "done" =>
    LET call == calls[r] IN
    /\ call.op = "publish" /\ call.outcome \in ConfirmedNotPosted => call.acts = 0
    /\ call.op = "publish" /\ call.acts = 1 => call.outcome \in {"ok", "ambiguous"}
    /\ call.outcome = "ok" /\ liveMode[call.on] /\ call.op \in {"publish", "reply"} => call.acts = 1

\* In mock mode nothing leaves the process.
DryRunsSendNothing ==
  \A r \in AdapterCall :
    calls[r] # Idle /\ calls[r].pc = "done" /\ ~liveMode[calls[r].on] => calls[r].sent = 0

-----------------------------------------------------------------------------
\* What the callers conclude from an outcome: the publish processor retries only
\* what is confirmed as not posted, and the reply service whatever failed.
Verdict(call) ==
  CASE call.pc # "done" -> "none"
    [] call.pc = "done" /\ call.outcome = "ok" -> "done"
    [] call.pc = "done" /\ call.outcome # "ok" /\ call.op = "publish"
         /\ call.outcome \notin ConfirmedNotPosted -> "unclear"
    [] OTHER -> "undone"

\* A dry run holds what it made up an id for.
Held(call) ==
  IF liveMode[call.on] THEN call.acts
  ELSE IF call.op \in {"publish", "reply"} /\ Verdict(call) = "done" THEN 1 ELSE 0

CallsMade ==
  [r \in AdapterCall |->
     IF calls[r] = Idle THEN [op |-> "none", held |-> 0, verdict |-> "none"]
     ELSE [op |-> calls[r].op, held |-> Held(calls[r]), verdict |-> Verdict(calls[r])]]

Adapter == INSTANCE AdapterPromise WITH Slot <- AdapterCall, promised <- CallsMade

\* Whatever the platform, the mode and the answer, a call is what its caller may
\* rely on: the publish and the reply modules take no other answer.
AdaptersKeepPromise ==
  /\ [](OutcomesAreHonest /\ DryRunsSendNothing)
  /\ Adapter!AdapterPromiseSpec
=============================================================================
