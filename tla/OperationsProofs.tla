-------------------------- MODULE OperationsProofs --------------------------
(***************************************************************************)
(* Proofs about the adapters, the retention of personal data, uploads, the *)
(* login and its sessions, for any number of calls and rows.               *)
(***************************************************************************)
EXTENDS Adapters, Retention, Uploads, Login, Sessions, SequenceTheorems, TLAPS

-----------------------------------------------------------------------------
(* Adapters: nothing is sent before "dispatch", and that only in live mode. *)

CallPc == {"token", "validate", "mode", "live", "dispatch", "done"}

Calls == [pc : CallPc, op : Operation, on : AdapterPlatform, about : Subject,
          token : BOOLEAN, outcome : AdapterOutcome \cup {None}, sent : 0..1, acts : 0..1]

Honest(call) ==
  /\ call.op = "publish" /\ call.outcome \in ConfirmedNotPosted => call.acts = 0
  /\ call.op = "publish" /\ call.acts = 1 => call.outcome \in {"ok", "ambiguous"}
  /\ call.outcome = "ok" /\ liveMode[call.on] /\ call.op \in {"publish", "reply"} => call.acts = 1
  /\ ~liveMode[call.on] => call.sent = 0

CallOK(call) ==
  /\ call.pc \in CallPc \ {"done"} => call.sent = 0 /\ call.acts = 0
  /\ call.pc \in {"live", "dispatch"} => liveMode[call.on]
  /\ call.pc \in CallPc /\ call.op \notin {"publish", "reply"} => call.acts = 0
  /\ call.pc = "done" => Honest(call)

AdapterInv ==
  /\ liveMode \in [AdapterPlatform -> BOOLEAN]
  /\ calls \in [AdapterCall -> Calls \cup {Idle}]
  /\ \A r \in AdapterCall : CallOK(calls[r])

LEMMA AdapterInit1 == AdapterInit => AdapterInv
BY DEF AdapterInit, AdapterInv, CallOK, CallPc, Idle

\* One call moves on, the others stand, and so does the mode.
LEMMA CallMoves ==
  ASSUME AdapterInv, NEW r \in AdapterCall, NEW q \in Calls \cup {Idle}, CallOK(q),
         calls' = [calls EXCEPT ![r] = q], UNCHANGED liveMode
  PROVE  AdapterInv'
BY DEF AdapterInv, CallOK, Honest

\* A call that ends before anything is sent, other than live with an "ok".
LEMMA CallEndsUnsent ==
  ASSUME AdapterInv, NEW r \in AdapterCall, NEW outcome \in AdapterOutcome,
         calls[r] \in Calls, calls[r].pc # "done", UNCHANGED liveMode, CallEnds(r, outcome),
         outcome = "ok" => ~liveMode[calls[r].on]
  PROVE  AdapterInv'
<1> DEFINE q == [calls[r] EXCEPT !.pc = "done", !.outcome = outcome]
<1>1. q \in Calls \cup {Idle}
  BY DEF Calls, CallPc
<1>2. CallOK(q)
  BY DEF AdapterInv, CallOK, Honest, Calls, ConfirmedNotPosted
<1>3. calls' = [calls EXCEPT ![r] = q]
  BY DEF CallEnds, AdapterInv
<1> HIDE DEF q
<1> QED
  BY <1>1, <1>2, <1>3, CallMoves

\* A call that moves to a later place before anything is sent.
LEMMA CallGoesOn ==
  ASSUME AdapterInv, NEW r \in AdapterCall, NEW pc \in CallPc \ {"done"},
         calls[r] \in Calls, calls[r].pc # "done", UNCHANGED liveMode, CallGoesTo(r, pc),
         pc \in {"live", "dispatch"} => liveMode[calls[r].on]
  PROVE  AdapterInv'
<1> DEFINE q == [calls[r] EXCEPT !.pc = pc]
<1>1. q \in Calls \cup {Idle}
  BY DEF Calls
<1>2. CallOK(q)
  BY DEF AdapterInv, CallOK, Calls
<1>3. calls' = [calls EXCEPT ![r] = q]
  BY DEF CallGoesTo, AdapterInv
<1> HIDE DEF q
<1> QED
  BY <1>1, <1>2, <1>3, CallMoves

LEMMA AdapterNext1 == AdapterInv /\ [AdapterNext]_adapterVars => AdapterInv'
<1> SUFFICES ASSUME AdapterInv, [AdapterNext]_adapterVars PROVE AdapterInv'
  OBVIOUS
<1>c. ASSUME NEW r \in AdapterCall, NEW pc \in CallPc, CallIs(r, pc)
      PROVE  calls[r] \in Calls /\ calls[r].pc = pc /\ CallOK(calls[r]) /\ UNCHANGED liveMode
  BY <1>c DEF CallIs, AdapterInv, Idle, CallPc
<1>pcs. {"token", "validate", "mode", "live", "dispatch", "done"} \subseteq CallPc
  BY DEF CallPc
<1>0. ASSUME NEW r \in AdapterCall, NEW op \in Operation, NEW p \in AdapterPlatform,
             NEW about \in Subject, NEW token \in BOOLEAN, CallAdapter(r, op, p, about, token)
      PROVE  AdapterInv'
  <2> DEFINE q == [pc |-> "token", op |-> op, on |-> p, about |-> about,
                   token |-> token, outcome |-> None, sent |-> 0, acts |-> 0]
  <2>1. q \in Calls \cup {Idle} /\ CallOK(q)
    BY DEF Calls, CallPc, CallOK
  <2>2. calls' = [calls EXCEPT ![r] = q] /\ UNCHANGED liveMode
    BY <1>0 DEF CallAdapter
  <2> HIDE DEF q
  <2> QED
    BY <2>1, <2>2, CallMoves
<1>1. ASSUME NEW r \in AdapterCall, ChecksToken(r) PROVE AdapterInv'
  BY <1>1, <1>c, <1>pcs, CallEndsUnsent, CallGoesOn DEF ChecksToken, AdapterOutcome
<1>2. ASSUME NEW r \in AdapterCall, ValidatesArgs(r) PROVE AdapterInv'
  BY <1>2, <1>c, <1>pcs, CallEndsUnsent, CallGoesOn DEF ValidatesArgs, AdapterOutcome
<1>3. ASSUME NEW r \in AdapterCall, RunsDry(r) PROVE AdapterInv'
  BY <1>3, <1>c, <1>pcs, CallEndsUnsent DEF RunsDry, AdapterOutcome
<1>4. ASSUME NEW r \in AdapterCall, GoesLive(r) PROVE AdapterInv'
  BY <1>4, <1>c, <1>pcs, CallGoesOn DEF GoesLive
<1>5. ASSUME NEW r \in AdapterCall, LiveIsUnavailable(r) PROVE AdapterInv'
  BY <1>5, <1>c, <1>pcs, CallEndsUnsent DEF LiveIsUnavailable, AdapterOutcome
<1>6. ASSUME NEW r \in AdapterCall, LiveIsReady(r) PROVE AdapterInv'
  BY <1>6, <1>c, <1>pcs, CallEndsUnsent, CallGoesOn DEF LiveIsReady, AdapterOutcome, CallOK
<1>7. ASSUME NEW r \in AdapterCall, YouTubeOpensSession(r) PROVE AdapterInv'
  BY <1>7, <1>c, <1>pcs, CallEndsUnsent, CallGoesOn DEF YouTubeOpensSession, AdapterOutcome, CallOK
<1>8. ASSUME NEW r \in AdapterCall, PlatformAnswers(r) PROVE AdapterInv'
  <2>1. calls[r] \in Calls /\ liveMode[calls[r].on] /\ UNCHANGED liveMode
    BY <1>8, <1>c, <1>pcs DEF PlatformAnswers, CallOK
  <2>2. PICK answer \in {"id", "noid", "unreadable", "error", "none"}, acts \in 0..1 :
          /\ answer \in {"id", "noid", "unreadable"} => acts = 1
          /\ answer = "error" => acts = 0
          /\ calls' = [calls EXCEPT
               ![r].pc = "done", ![r].sent = 1,
               ![r].acts = IF calls[r].op \in {"publish", "reply"} THEN acts ELSE 0,
               ![r].outcome = CASE calls[r].op = "publish" -> PublishOutcome(answer)
                                [] calls[r].op = "reply"   -> ReplyOutcome(answer)
                                [] OTHER                   -> ReadOutcome(answer)]
    BY <1>8 DEF PlatformAnswers
  <2> DEFINE o == CASE calls[r].op = "publish" -> PublishOutcome(answer)
                    [] calls[r].op = "reply"   -> ReplyOutcome(answer)
                    [] OTHER                   -> ReadOutcome(answer)
             a == IF calls[r].op \in {"publish", "reply"} THEN acts ELSE 0
             q == [calls[r] EXCEPT !.pc = "done", !.sent = 1, !.acts = a, !.outcome = o]
  <2>3. calls' = [calls EXCEPT ![r] = q]
    BY <2>2 DEF AdapterInv
  <2>4. /\ calls[r].op = "publish" /\ o \in ConfirmedNotPosted => a = 0
        /\ calls[r].op = "publish" /\ a = 1 => o \in {"ok", "ambiguous"}
        /\ o = "ok" /\ calls[r].op \in {"publish", "reply"} => a = 1
        /\ calls[r].op \notin {"publish", "reply"} => a = 0
        /\ o \in AdapterOutcome /\ a \in 0..1
    BY <2>2 DEF PublishOutcome, ReplyOutcome, ReadOutcome, ConfirmedNotPosted, AdapterOutcome
  <2> HIDE DEF o, a
  <2>5. q \in Calls
    <3> DEFINE c1 == [calls[r] EXCEPT !.pc = "done", !.sent = 1]
    <3>1. c1 \in Calls
      <4>1. "done" \in CallPc /\ 1 \in 0..1
        BY <1>pcs
      <4> QED
        BY <2>1, <4>1 DEF Calls
    <3>2. q = [c1 EXCEPT !.acts = a, !.outcome = o]
      BY <2>1 DEF Calls
    <3> HIDE DEF c1, q
    <3> QED
      BY <2>4, <3>1, <3>2 DEF Calls
  <2>6. q.pc = "done" /\ q.op = calls[r].op /\ q.on = calls[r].on /\ q.acts = a /\ q.outcome = o
    BY <2>1 DEF Calls
  <2>7. CallOK(q)
    BY <2>1, <2>4, <2>6 DEF CallOK, Honest
  <2> HIDE DEF q
  <2> QED
    BY <2>1, <2>3, <2>5, <2>7, CallMoves
<1>9. ASSUME NEW r \in AdapterCall, CallerSees(r) PROVE AdapterInv'
  <2>1. CallOK(Idle)
    BY DEF CallOK, CallPc, Idle
  <2> QED
    BY <1>9, <2>1, CallMoves DEF CallerSees, CallIs
<1>10. CASE UNCHANGED adapterVars
  BY <1>10 DEF adapterVars, AdapterInv, CallOK, Honest
<1> QED
  BY <1>0, <1>1, <1>2, <1>3, <1>4, <1>5, <1>6, <1>7, <1>8, <1>9, <1>10 DEF AdapterNext

\* The answers of each operation.
LEMMA AnswersOfPublish ==
  /\ [held |-> 1, verdict |-> "done"] \in Adapter!Answers("publish")
  /\ [held |-> 0, verdict |-> "undone"] \in Adapter!Answers("publish")
  /\ \A held \in {0, 1} : [held |-> held, verdict |-> "unclear"] \in Adapter!Answers("publish")
<1>1. Adapter!Answers("publish")
        = {[held |-> 1, verdict |-> "done"], [held |-> 0, verdict |-> "undone"]}
          \cup [held : {0, 1}, verdict : {"unclear"}]
  BY DEF Adapter!Answers
<1> QED
  BY <1>1

LEMMA AnswersOfReply ==
  /\ [held |-> 1, verdict |-> "done"] \in Adapter!Answers("reply")
  /\ \A held \in {0, 1} : [held |-> held, verdict |-> "undone"] \in Adapter!Answers("reply")
<1>1. Adapter!Answers("reply")
        = {[held |-> 1, verdict |-> "done"]} \cup [held : {0, 1}, verdict : {"undone"}]
  BY DEF Adapter!Answers
<1> QED
  BY <1>1

LEMMA AnswersOfReads ==
  ASSUME NEW op, op \notin {"publish", "reply"}
  PROVE  /\ [held |-> 0, verdict |-> "done"] \in Adapter!Answers(op)
         /\ [held |-> 0, verdict |-> "undone"] \in Adapter!Answers(op)
<1>1. Adapter!Answers(op) = [held : {0}, verdict : {"done", "undone"}]
  BY DEF Adapter!Answers
<1> QED
  BY <1>1

\* What a caller can tell of a call that is not answered, and of one that is: what
\* the answer says of the platform is true of it.
LEMMA VerdictIsPromised ==
  ASSUME NEW call \in Calls, CallOK(call), liveMode \in [AdapterPlatform -> BOOLEAN]
  PROVE  /\ call.pc # "done" => Verdict(call) = "none" /\ Held(call) = 0
         /\ call.pc = "done" =>
              /\ Verdict(call) # "none"
              /\ [held |-> Held(call), verdict |-> Verdict(call)] \in Adapter!Answers(call.op)
<1>1. ASSUME call.pc # "done" PROVE Verdict(call) = "none" /\ Held(call) = 0
  BY <1>1 DEF Verdict, Held, CallOK, Calls
<1>2. CASE call.pc = "done"
  <2>1. Honest(call) /\ call.acts \in 0..1 /\ call.op \in Operation
    BY <1>2 DEF CallOK, Calls
  <2>2. Held(call) \in {0, 1}
    BY <2>1 DEF Held
  <2>3. CASE call.outcome = "ok"
    <3>1. Verdict(call) = "done"
      BY <1>2, <2>3 DEF Verdict
    <3>2. CASE call.op \in {"publish", "reply"}
      <4>1. Held(call) = 1
        BY <2>1, <2>3, <3>1, <3>2 DEF Held, Honest
      <4> QED
        BY <1>2, <3>1, <3>2, <4>1, AnswersOfPublish, AnswersOfReply
    <3>3. CASE call.op \notin {"publish", "reply"}
      <4>1. Held(call) = 0
        BY <1>2, <3>3 DEF Held, CallOK, CallPc
      <4> QED
        BY <1>2, <3>1, <3>3, <4>1, AnswersOfReads
    <3> QED
      BY <3>2, <3>3
  <2>4. CASE call.outcome # "ok"
    <3>1. CASE call.op = "publish" /\ call.outcome \in ConfirmedNotPosted
      <4>1. Verdict(call) = "undone"
        BY <1>2, <2>4, <3>1 DEF Verdict
      <4>2. Held(call) = 0
        BY <2>1, <3>1, <4>1 DEF Held, Honest
      <4> QED
        BY <1>2, <3>1, <4>1, <4>2, AnswersOfPublish
    <3>2. CASE call.op = "publish" /\ call.outcome \notin ConfirmedNotPosted
      <4>1. Verdict(call) = "unclear"
        BY <1>2, <2>4, <3>2 DEF Verdict
      <4> QED
        BY <1>2, <2>2, <3>2, <4>1, AnswersOfPublish
    <3>3. CASE call.op # "publish"
      <4>1. Verdict(call) = "undone"
        BY <1>2, <2>4, <3>3 DEF Verdict
      <4>2. call.op \notin {"publish", "reply"} => Held(call) = 0
        BY <1>2 DEF Held, CallOK, CallPc
      <4>3. CASE call.op = "reply"
        BY <1>2, <2>2, <4>1, <4>3, AnswersOfReply
      <4>4. CASE call.op # "reply"
        BY <1>2, <3>3, <4>1, <4>2, <4>4, AnswersOfReads
      <4> QED
        BY <4>3, <4>4
    <3> QED
      BY <3>1, <3>2, <3>3
  <2> QED
    BY <2>3, <2>4, <1>2
<1> QED
  BY <1>1, <1>2

\* What a caller can tell of one call.
Seen(call) ==
  IF call = Idle THEN [op |-> "none", held |-> 0, verdict |-> "none"]
  ELSE [op |-> call.op, held |-> Held(call), verdict |-> Verdict(call)]

\* A call that was asked, that goes on or is answered, or that its caller leaves.
CallMovesOn(r, q) ==
  \/ calls[r] = Idle /\ q \in Calls /\ q.pc # "done"
  \/ /\ calls[r] \in Calls /\ calls[r].pc # "done"
     /\ q \in Calls /\ q.op = calls[r].op
  \/ calls[r] \in Calls /\ calls[r].pc = "done" /\ q = Idle

\* Every step of the adapters moves one call so.
LEMMA CallStep ==
  ASSUME AdapterInv, AdapterInv', NEW r \in AdapterCall,
         \/ \E op \in Operation, p \in AdapterPlatform, about \in Subject, token \in BOOLEAN :
              CallAdapter(r, op, p, about, token)
         \/ ChecksToken(r) \/ ValidatesArgs(r) \/ RunsDry(r) \/ GoesLive(r)
         \/ LiveIsUnavailable(r) \/ LiveIsReady(r) \/ YouTubeOpensSession(r)
         \/ PlatformAnswers(r) \/ CallerSees(r)
  PROVE  /\ UNCHANGED liveMode
         /\ \E q \in Calls \cup {Idle} : calls' = [calls EXCEPT ![r] = q] /\ CallMovesOn(r, q)
<1>t. /\ calls \in [AdapterCall -> Calls \cup {Idle}]
      /\ calls' \in [AdapterCall -> Calls \cup {Idle}]
  BY DEF AdapterInv
<1>i. Idle \notin Calls /\ Idle.pc = "idle"
  BY DEF Idle, Calls, CallPc
\* A step within a call: what it writes is the call with another place and outcome.
<1>m. ASSUME NEW pc \in CallPc, calls[r].pc = pc, pc # "done", UNCHANGED liveMode,
             NEW q, calls' = [calls EXCEPT ![r] = q], q # Idle, q.op = calls[r].op
      PROVE  /\ UNCHANGED liveMode
             /\ \E c \in Calls \cup {Idle} : calls' = [calls EXCEPT ![r] = c] /\ CallMovesOn(r, c)
  <2>1. calls'[r] = q /\ q \in Calls
    BY <1>t, <1>m
  <2>2. calls[r] \in Calls
    BY <1>t, <1>i, <1>m DEF CallPc
  <2> QED
    BY <1>m, <2>1, <2>2 DEF CallMovesOn
<1>g. ASSUME NEW pc \in CallPc, NEW next \in CallPc, CallIs(r, pc), pc # "done",
             CallGoesTo(r, next)
      PROVE  /\ UNCHANGED liveMode
             /\ \E c \in Calls \cup {Idle} : calls' = [calls EXCEPT ![r] = c] /\ CallMovesOn(r, c)
  <2> DEFINE q == [calls[r] EXCEPT !.pc = next]
  <2>1. calls[r] \in Calls
    BY <1>t, <1>i, <1>g DEF CallIs, CallPc
  <2>2. q.op = calls[r].op /\ q.pc = next
    BY <2>1 DEF Calls
  <2>3. q # Idle
    BY <2>2, <1>i DEF CallPc
  <2>4. calls' = [calls EXCEPT ![r] = q]
    BY <1>g, <1>t DEF CallGoesTo
  <2> HIDE DEF q
  <2> QED
    BY <1>g, <1>m, <2>2, <2>3, <2>4 DEF CallIs
<1>e. ASSUME NEW pc \in CallPc, NEW outcome, CallIs(r, pc), pc # "done", CallEnds(r, outcome)
      PROVE  /\ UNCHANGED liveMode
             /\ \E c \in Calls \cup {Idle} : calls' = [calls EXCEPT ![r] = c] /\ CallMovesOn(r, c)
  <2> DEFINE q == [calls[r] EXCEPT !.pc = "done", !.outcome = outcome]
  <2>1. calls[r] \in Calls
    BY <1>t, <1>i, <1>e DEF CallIs, CallPc
  <2>2. q.op = calls[r].op /\ q.pc = "done"
    BY <2>1 DEF Calls
  <2>3. q # Idle
    BY <2>2, <1>i
  <2>4. calls' = [calls EXCEPT ![r] = q]
    BY <1>e, <1>t DEF CallEnds
  <2> HIDE DEF q
  <2> QED
    BY <1>e, <1>m, <2>2, <2>3, <2>4 DEF CallIs
<1>p. {"token", "validate", "mode", "live", "dispatch"} \subseteq CallPc
  BY DEF CallPc
<1>1. ASSUME NEW op \in Operation, NEW p \in AdapterPlatform, NEW about \in Subject,
             NEW token \in BOOLEAN, CallAdapter(r, op, p, about, token)
      PROVE  /\ UNCHANGED liveMode
             /\ \E c \in Calls \cup {Idle} : calls' = [calls EXCEPT ![r] = c] /\ CallMovesOn(r, c)
  <2> DEFINE q == [pc |-> "token", op |-> op, on |-> p, about |-> about,
                   token |-> token, outcome |-> None, sent |-> 0, acts |-> 0]
  <2>1. q \in Calls /\ q.pc # "done"
    BY <1>p DEF Calls
  <2>2. calls[r] = Idle /\ calls' = [calls EXCEPT ![r] = q] /\ UNCHANGED liveMode
    BY <1>1 DEF CallAdapter
  <2> HIDE DEF q
  <2> QED
    BY <2>1, <2>2 DEF CallMovesOn
<1>2. CASE ChecksToken(r) \/ ValidatesArgs(r)
  BY <1>2, <1>p, <1>g, <1>e DEF ChecksToken, ValidatesArgs
<1>3. CASE RunsDry(r) \/ GoesLive(r)
  BY <1>3, <1>p, <1>g, <1>e DEF RunsDry, GoesLive
<1>4. CASE LiveIsUnavailable(r) \/ LiveIsReady(r)
  BY <1>4, <1>p, <1>g, <1>e DEF LiveIsUnavailable, LiveIsReady
<1>5. CASE YouTubeOpensSession(r)
  BY <1>5, <1>p, <1>g, <1>e DEF YouTubeOpensSession
<1>6. CASE PlatformAnswers(r)
  <2>1. PICK a, o :
          calls' = [calls EXCEPT ![r].pc = "done", ![r].sent = 1, ![r].acts = a, ![r].outcome = o]
    BY <1>6 DEF PlatformAnswers
  <2> DEFINE q == [calls[r] EXCEPT !.pc = "done", !.sent = 1, !.acts = a, !.outcome = o]
  <2>2. CallIs(r, "dispatch")
    BY <1>6 DEF PlatformAnswers
  <2>3. calls[r] \in Calls
    BY <1>t, <1>i, <2>2 DEF CallIs
  <2>4. q.op = calls[r].op /\ q.pc = "done"
    BY <2>3 DEF Calls
  <2>5. calls' = [calls EXCEPT ![r] = q]
    BY <2>1, <1>t
  <2>6. q # Idle
    BY <2>4, <1>i
  <2> HIDE DEF q
  <2> QED
    BY <1>m, <1>p, <2>2, <2>4, <2>5, <2>6 DEF CallIs
<1>7. CASE CallerSees(r)
  <2>1. calls[r].pc = "done" /\ calls' = [calls EXCEPT ![r] = Idle] /\ UNCHANGED liveMode
    BY <1>7 DEF CallerSees, CallIs
  <2>2. calls[r] \in Calls
    BY <1>t, <1>i, <2>1
  <2> QED
    BY <2>1, <2>2 DEF CallMovesOn
<1> QED
  BY <1>1, <1>2, <1>3, <1>4, <1>5, <1>6, <1>7

\* A step of one call is a step of the promise, or one its caller cannot tell.
LEMMA CallKeepsPromise ==
  ASSUME AdapterInv, AdapterInv', NEW r \in AdapterCall, NEW q \in Calls \cup {Idle},
         UNCHANGED liveMode, calls' = [calls EXCEPT ![r] = q], CallMovesOn(r, q)
  PROVE  [Adapter!AdapterPromiseNext]_CallsMade
<1>t. /\ calls \in [AdapterCall -> Calls \cup {Idle}] /\ calls'[r] = q
      /\ Idle \notin Calls /\ liveMode \in [AdapterPlatform -> BOOLEAN]
  BY DEF AdapterInv, Idle, Calls, CallPc
<1>c. CallsMade = [s \in AdapterCall |-> Seen(calls[s])]
  BY DEF CallsMade, Seen
<1>d. CallsMade' = [CallsMade EXCEPT ![r] = Seen(q)]
  <2>1. CallsMade' = [s \in AdapterCall |-> Seen(calls'[s])]
    BY DEF CallsMade, Seen, Held, Verdict
  <2> QED
    BY <2>1, <1>c, <1>t
<1>e. CallsMade[r] = Seen(calls[r]) /\ DOMAIN CallsMade = AdapterCall
  BY <1>c
<1>o. CallOK(calls[r]) /\ CallOK(q)
  BY <1>t DEF AdapterInv, CallOK, Honest
<1>f. Seen(Idle) = Adapter!Free
  BY DEF Seen, Adapter!Free
<1>n. ASSUME NEW c \in Calls
      PROVE  Seen(c) = [op |-> c.op, held |-> Held(c), verdict |-> Verdict(c)] /\ c.op \in Operation
  BY <1>t DEF Seen, Calls
<1>1. CASE calls[r] = Idle /\ q \in Calls /\ q.pc # "done"
  <2>1. CallsMade[r] = Adapter!Free
    BY <1>1, <1>e, <1>f
  <2>2. Seen(q) = [op |-> q.op, held |-> 0, verdict |-> "none"]
    BY <1>1, <1>n, <1>o, <1>t, VerdictIsPromised
  <2>3. q.op \in Adapter!Operations
    BY <1>1, <1>n DEF Operation, Adapter!Operations, Adapter!Writes
  <2>4. Adapter!Ask(r)
    BY <1>d, <2>1, <2>2, <2>3 DEF Adapter!Ask
  <2> QED
    BY <2>4 DEF Adapter!AdapterPromiseNext
<1>2. CASE /\ calls[r] \in Calls /\ calls[r].pc # "done"
           /\ q \in Calls /\ q.op = calls[r].op
  <2>1. Seen(calls[r]) = [op |-> q.op, held |-> 0, verdict |-> "none"]
    BY <1>2, <1>n, <1>o, <1>t, VerdictIsPromised
  <2>2. CASE q.pc # "done"
    <3>1. Seen(q) = [op |-> q.op, held |-> 0, verdict |-> "none"]
      BY <1>2, <2>2, <1>n, <1>o, <1>t, VerdictIsPromised
    <3> QED
      BY <1>c, <1>d, <1>e, <2>1, <3>1
  <2>3. CASE q.pc = "done"
    <3> DEFINE answer == [held |-> Held(q), verdict |-> Verdict(q)]
    <3>1. answer \in Adapter!Answers(q.op)
      BY <1>2, <2>3, <1>o, <1>t, VerdictIsPromised
    <3>2. Seen(q) = [op |-> q.op, held |-> answer.held, verdict |-> answer.verdict]
      BY <1>2, <1>n
    <3> HIDE DEF answer
    <3>3. CallsMade[r].op = q.op /\ CallsMade[r].verdict = "none" /\ CallsMade[r] # Adapter!Free
      BY <1>2, <1>e, <1>n, <2>1 DEF Operation, Adapter!Free
    <3>4. CallsMade' = [CallsMade EXCEPT ![r] = [op |-> CallsMade[r].op, held |-> answer.held,
                                                 verdict |-> answer.verdict]]
      BY <1>d, <3>2, <3>3
    <3>5. Adapter!Answer(r)
      BY <3>1, <3>3, <3>4 DEF Adapter!Answer
    <3> QED
      BY <3>5 DEF Adapter!AdapterPromiseNext
  <2> QED
    BY <2>2, <2>3
<1>3. CASE calls[r] \in Calls /\ calls[r].pc = "done" /\ q = Idle
  <2>a. Verdict(calls[r]) # "none"
    BY <1>3, <1>o, <1>t, VerdictIsPromised
  <2>1. CallsMade[r].verdict # "none"
    BY <1>3, <1>e, <1>n, <2>a
  <2>2. Adapter!Leave(r)
    BY <1>3, <1>d, <1>f, <2>1 DEF Adapter!Leave
  <2> QED
    BY <2>2 DEF Adapter!AdapterPromiseNext
<1> QED
  BY <1>1, <1>2, <1>3 DEF CallMovesOn

LEMMA AdapterSteps ==
  AdapterInv /\ AdapterInv' /\ [AdapterNext]_adapterVars
    => [Adapter!AdapterPromiseNext]_CallsMade
<1> SUFFICES ASSUME AdapterInv, AdapterInv', [AdapterNext]_adapterVars
             PROVE  [Adapter!AdapterPromiseNext]_CallsMade
  OBVIOUS
<1>1. CASE UNCHANGED adapterVars
  <2>1. CallsMade' = CallsMade
    BY <1>1 DEF adapterVars, CallsMade, Held, Verdict
  <2> QED
    BY <2>1
<1>2. CASE AdapterNext
  <2>1. PICK r \in AdapterCall :
          \/ \E op \in Operation, p \in AdapterPlatform, about \in Subject, token \in BOOLEAN :
               CallAdapter(r, op, p, about, token)
          \/ ChecksToken(r) \/ ValidatesArgs(r) \/ RunsDry(r) \/ GoesLive(r)
          \/ LiveIsUnavailable(r) \/ LiveIsReady(r) \/ YouTubeOpensSession(r)
          \/ PlatformAnswers(r) \/ CallerSees(r)
    BY <1>2 DEF AdapterNext
  <2>2. /\ UNCHANGED liveMode
        /\ \E q \in Calls \cup {Idle} : calls' = [calls EXCEPT ![r] = q] /\ CallMovesOn(r, q)
    BY <2>1, CallStep
  <2> QED
    BY <2>2, CallKeepsPromise
<1> QED
  BY <1>1, <1>2

\* An adapter never reports as safe to retry a publish that the platform may
\* hold, nor as done one that it does not hold; and to its caller each call, on
\* any platform and in any mode, is one of AdapterPromise: asked once, answered
\* once, with an answer that is true of the platform (the adapters of
\* modules/publish, and what publish-execution.service.ts makes of an error).
THEOREM AdaptersAreHonest == AdapterSpec => AdaptersKeepPromise
<1>1. AdapterInv => OutcomesAreHonest /\ DryRunsSendNothing
  BY DEF AdapterInv, CallOK, Honest, OutcomesAreHonest, DryRunsSendNothing
<1>2. AdapterInit => Adapter!AdapterPromiseInit
  BY DEF AdapterInit, CallsMade, Adapter!AdapterPromiseInit, Adapter!Free
<1>3. AdapterSpec => []AdapterInv
  BY AdapterInit1, AdapterNext1, PTL DEF AdapterSpec
<1>4. AdapterSpec => Adapter!AdapterPromiseSpec
  BY <1>2, <1>3, AdapterSteps, PTL DEF AdapterSpec, Adapter!AdapterPromiseSpec
<1> QED
  BY <1>1, <1>3, <1>4, PTL DEF AdaptersKeepPromise

\* A call, its attempts and what the platform holds keep their types.
LEMMA AdapterTypes == AdapterSpec => []AdapterTypeOK
<1>1. AdapterInv => AdapterTypeOK
  BY DEF AdapterInv, AdapterTypeOK, Calls, CallPc
<1> QED
  BY <1>1, AdapterInit1, AdapterNext1, PTL DEF AdapterSpec

-----------------------------------------------------------------------------
(* Retention: names that were due at the last sweep are gone, because a    *)
(* row that lands later is younger than that sweep's cutoff.               *)

Sweeps == {Idle} \cup [pc : {"purge", "anonymize"}]
          \cup [pc : {"write"}, now : Day, job : BOOLEAN]

RetentionInv ==
  /\ trail \in [AuditedEvent -> {Idle, [at |-> "lost"]} \cup Pending \cup AuditRow]
  /\ sweep \in Sweeps
  /\ forgotten \in Day
  /\ retentionClock \in Day
  /\ forgotten <= retentionClock
  /\ sweep # Idle /\ sweep.pc = "write" => sweep.now <= retentionClock
  /\ \A e \in AuditedEvent :
       IsRow(e) => trail[e].createdAt <= retentionClock
  /\ \A e \in AuditedEvent : IsRow(e) /\ ExpiredName(trail[e], forgotten)
       => trail[e].actor = "[anonymized]"

RowsOnlyForgotten ==
  \A e \in AuditedEvent : IsRow(e) =>
    \/ trail'[e] = trail[e]
    \/ /\ trail'[e] = [trail[e] EXCEPT !.actor = "[anonymized]"]
       /\ trail[e].action = Failure
       /\ retentionClock - trail[e].createdAt > NameWindow

LEMMA RetentionInit1 == RetentionInit => RetentionInv
<1>1. Idle \notin AuditRow
  BY DEF Idle, AuditRow
<1> QED
  BY <1>1, RetentionAssumption DEF RetentionInit, RetentionInv, Sweeps, Day, IsRow, Idle

\* A row that the trail gets now is too young for any sweep so far.
LEMMA RowLands ==
  ASSUME RetentionInv, NEW e \in AuditedEvent, trail[e] \in Pending, PersistRow(e)
  PROVE  /\ RetentionInv'
         /\ RowsOnlyForgotten
<1> DEFINE row == [at |-> "trail", action |-> trail[e].action, actor |-> "named",
                   timestamp |-> trail[e].timestamp, createdAt |-> retentionClock]
<1>1. row \in AuditRow /\ row.createdAt = retentionClock
  BY DEF RetentionInv, AuditRow, Pending
<1>2. trail' = [trail EXCEPT ![e] = row] /\ UNCHANGED <<sweep, forgotten, retentionClock>>
  BY DEF PersistRow
<1>3. ~ExpiredName(row, forgotten)
  BY <1>1, RetentionAssumption DEF RetentionInv, ExpiredName, Day
<1>4. ~IsRow(e)
  BY DEF IsRow, AuditRow, Pending
<1> HIDE DEF row
<1>5. \A f \in AuditedEvent \ {e} : trail'[f] = trail[f]
  BY <1>2 DEF RetentionInv
<1>6. trail'[e] = row
  BY <1>2 DEF RetentionInv
<1>7. trail' \in [AuditedEvent -> {Idle, [at |-> "lost"]} \cup Pending \cup AuditRow]
  BY <1>1, <1>2 DEF RetentionInv
<1>8. RowsOnlyForgotten
  BY <1>4, <1>5 DEF RowsOnlyForgotten
<1>9. \A f \in AuditedEvent : (IsRow(f))' =>
        /\ trail'[f].createdAt <= retentionClock
        /\ ExpiredName(trail'[f], forgotten) => trail'[f].actor = "[anonymized]"
  BY <1>1, <1>3, <1>5, <1>6 DEF RetentionInv, IsRow, Day
<1>10. \A f \in AuditedEvent : (IsRow(f) /\ ExpiredName(trail[f], forgotten))'
         => trail'[f].actor = "[anonymized]"
  BY <1>2, <1>9 DEF ExpiredName, IsRow
<1>11. \A f \in AuditedEvent : (IsRow(f))' => trail'[f].createdAt <= retentionClock'
  BY <1>2, <1>9 DEF IsRow
<1> QED
  BY <1>2, <1>7, <1>8, <1>10, <1>11 DEF RetentionInv

\* Whatever touches no row of the trail keeps the invariant.
LEMMA RowsStand ==
  ASSUME RetentionInv,
         trail' \in [AuditedEvent -> {Idle, [at |-> "lost"]} \cup Pending \cup AuditRow],
         \A e \in AuditedEvent : IsRow(e) \/ trail'[e] \in AuditRow => trail'[e] = trail[e],
         sweep' \in Sweeps, UNCHANGED forgotten,
         retentionClock' \in Day, retentionClock <= retentionClock',
         sweep' # Idle /\ sweep'.pc = "write" => sweep'.now <= retentionClock'
  PROVE  /\ RetentionInv'
         /\ RowsOnlyForgotten
<1>1. RowsOnlyForgotten
  BY DEF RowsOnlyForgotten
<1>2. \A e \in AuditedEvent : (IsRow(e))' => IsRow(e) /\ trail'[e] = trail[e]
  BY DEF IsRow
<1>3. \A e \in AuditedEvent : (IsRow(e))' => trail'[e].createdAt <= retentionClock'
  BY <1>2 DEF RetentionInv, IsRow, AuditRow, Day
<1>4. \A e \in AuditedEvent : (IsRow(e) /\ ExpiredName(trail[e], forgotten))'
        => trail'[e].actor = "[anonymized]"
  BY <1>2 DEF RetentionInv, ExpiredName
<1>5. forgotten' \in Day /\ forgotten' <= retentionClock'
  BY DEF RetentionInv, Day
<1> QED
  BY <1>1, <1>3, <1>4, <1>5 DEF RetentionInv

LEMMA NamesGo ==
  ASSUME RetentionInv, AnonymizeWrites
  PROVE  RetentionInv' /\ RowsOnlyForgotten
<1>1. sweep.now \in Day /\ sweep.now <= retentionClock
  BY DEF RetentionInv, AnonymizeWrites, Sweeps
<1>2. \A e \in AuditedEvent :
        trail'[e] = IF IsRow(e) /\ ExpiredName(trail[e], sweep.now)
                      THEN [trail[e] EXCEPT !.actor = "[anonymized]"]
                      ELSE trail[e]
  BY DEF AnonymizeWrites
<1>3. \A row \in AuditRow :
        LET gone == [row EXCEPT !.actor = "[anonymized]"] IN
        /\ gone \in AuditRow
        /\ gone.createdAt = row.createdAt /\ gone.actor = "[anonymized]"
  BY DEF AuditRow
<1>4. \A e \in AuditedEvent :
        /\ IsRow(e) => trail'[e] \in AuditRow /\ trail'[e].createdAt = trail[e].createdAt
        /\ ~IsRow(e) => trail'[e] = trail[e]
  BY <1>2, <1>3 DEF IsRow
<1>5. trail' \in [AuditedEvent -> {Idle, [at |-> "lost"]} \cup Pending \cup AuditRow]
  <2>1. trail' = [e \in AuditedEvent |-> trail'[e]]
    BY DEF AnonymizeWrites
  <2> QED
    BY <1>4, <2>1 DEF RetentionInv
<1>6. \A e \in AuditedEvent : (IsRow(e))' /\ ExpiredName(trail'[e], sweep.now)
        => trail'[e].actor = "[anonymized]"
  <2> SUFFICES ASSUME NEW e \in AuditedEvent, (IsRow(e))', ExpiredName(trail'[e], sweep.now)
               PROVE  trail'[e].actor = "[anonymized]"
    OBVIOUS
  <2>1. IsRow(e)
    BY <1>4 DEF IsRow
  <2>2. CASE ExpiredName(trail[e], sweep.now)
    <3>1. trail'[e] = [trail[e] EXCEPT !.actor = "[anonymized]"]
      BY <1>2, <2>1, <2>2
    <3>2. trail[e] \in AuditRow
      BY <2>1 DEF IsRow
    <3> QED
      BY <1>3, <3>1, <3>2
  <2>3. CASE ~ExpiredName(trail[e], sweep.now)
    BY <1>2, <2>1, <2>3
  <2> QED
    BY <2>2, <2>3
<1>7. RowsOnlyForgotten
  <2> SUFFICES ASSUME NEW e \in AuditedEvent, IsRow(e), ExpiredName(trail[e], sweep.now)
               PROVE  /\ trail[e].action = Failure
                      /\ retentionClock - trail[e].createdAt > NameWindow
    BY <1>2 DEF RowsOnlyForgotten
  <2>1. trail[e].createdAt \in Nat
    BY RetentionAssumption DEF IsRow, AuditRow, Day
  <2> QED
    BY <1>1, <2>1, RetentionAssumption DEF ExpiredName, RetentionInv, Day
<1>8. \A e \in AuditedEvent : (IsRow(e))' => trail'[e].createdAt <= retentionClock
  BY <1>4 DEF RetentionInv, IsRow
<1>9. sweep' = Idle /\ forgotten' = sweep.now /\ UNCHANGED retentionClock
  BY DEF AnonymizeWrites
<1> QED
  BY <1>1, <1>5, <1>6, <1>7, <1>8, <1>9 DEF RetentionInv, Sweeps, ExpiredName

LEMMA RetentionNext1 ==
  ASSUME RetentionInv, [RetentionNext]_retentionVars
  PROVE  RetentionInv' /\ (RowsOnlyForgotten \/ UNCHANGED retentionVars)
<1>1. ASSUME NEW e \in AuditedEvent, NEW action \in {Failure, "other"}, Record(e, action)
      PROVE  RetentionInv' /\ RowsOnlyForgotten
  <2>1. ~IsRow(e)
    BY <1>1 DEF Record, IsRow, Idle, AuditRow
  <2>2. [at |-> "pending", action |-> action, timestamp |-> retentionClock] \in Pending
    BY DEF RetentionInv, Pending
  <2>3. Pending \cap AuditRow = {}
    BY DEF Pending, AuditRow
  <2>4. trail' \in [AuditedEvent -> {Idle, [at |-> "lost"]} \cup Pending \cup AuditRow]
    BY <1>1, <2>2 DEF Record, RetentionInv
  <2>5. \A f \in AuditedEvent : IsRow(f) \/ trail'[f] \in AuditRow => trail'[f] = trail[f]
    BY <1>1, <2>1, <2>2, <2>3 DEF Record, RetentionInv
  <2> QED
    BY <1>1, <2>4, <2>5, RowsStand DEF Record, RetentionInv, Day
<1>2. ASSUME NEW e \in AuditedEvent, PersistRow(e)
      PROVE  RetentionInv' /\ RowsOnlyForgotten
  BY <1>2, RowLands DEF PersistRow
<1>3. ASSUME NEW e \in AuditedEvent, LoseRow(e)
      PROVE  RetentionInv' /\ RowsOnlyForgotten
  <2>1. ~IsRow(e) /\ [at |-> "lost"] \notin AuditRow
    BY <1>3 DEF LoseRow, IsRow, Pending, AuditRow
  <2>2. trail' \in [AuditedEvent -> {Idle, [at |-> "lost"]} \cup Pending \cup AuditRow]
    BY <1>3 DEF LoseRow, RetentionInv
  <2>3. \A f \in AuditedEvent : IsRow(f) \/ trail'[f] \in AuditRow => trail'[f] = trail[f]
    BY <1>3, <2>1 DEF LoseRow, RetentionInv
  <2> QED
    BY <1>3, <2>2, <2>3, RowsStand DEF LoseRow, RetentionInv, Day
<1>4. ASSUME UNCHANGED <<trail, forgotten, retentionClock>>, sweep' \in Sweeps,
             sweep' # Idle /\ sweep'.pc = "write" => sweep'.now <= retentionClock
      PROVE  RetentionInv' /\ RowsOnlyForgotten
  BY <1>4, RowsStand DEF RetentionInv, Day
<1>5. ASSUME NEW c \in OldComment, NEW written \in Day, SyncBrings(c, written)
      PROVE  RetentionInv' /\ RowsOnlyForgotten
  BY <1>4, <1>5 DEF SyncBrings, RetentionInv
<1>6. CASE SweepStarts
  BY <1>4, <1>6 DEF SweepStarts, Sweeps
<1>7. CASE SweepPurges
  BY <1>4, <1>7 DEF SweepPurges, Sweeps
<1>8. CASE AdminPurges
  BY <1>4, <1>8 DEF AdminPurges, RetentionInv
<1>9. CASE AnonymizeStarts
  <2>1. sweep' \in Sweeps /\ sweep'.now = retentionClock
    BY <1>9 DEF AnonymizeStarts, Sweeps, RetentionInv
  <2> QED
    BY <1>4, <1>9, <2>1 DEF AnonymizeStarts, RetentionInv, Day
<1>10. CASE AnonymizeWrites
  BY <1>10, NamesGo
<1>11. CASE SweepFails
  BY <1>4, <1>11 DEF SweepFails, Sweeps
<1>12. CASE RetentionTick
  <2>1. retentionClock' \in Day /\ retentionClock <= retentionClock'
    BY <1>12, RetentionAssumption DEF RetentionTick, RetentionInv, Day
  <2>2. sweep # Idle /\ sweep.pc = "write" => sweep.now <= retentionClock'
    BY <1>12, <2>1 DEF RetentionTick, RetentionInv, Day, Sweeps
  <2> QED
    BY <1>12, <2>1, <2>2, RowsStand DEF RetentionTick, RetentionInv
<1>13. CASE UNCHANGED retentionVars
  BY <1>4, <1>13 DEF retentionVars, RetentionInv
<1> QED
  BY <1>1, <1>2, <1>3, <1>5, <1>6, <1>7, <1>8, <1>9, <1>10, <1>11, <1>12, <1>13 DEF RetentionNext

\* No failed login that was due at the last sweep is still named, and no row is
\* changed in any other way or before its time, however rows and sweeps overlap.
THEOREM NamesAreForgotten == RetentionSpec => NamesLastTheWindow
<1>1. RetentionInv => (\A e \in AuditedEvent : IsRow(e) /\ ExpiredName(trail[e], forgotten)
                        => trail[e].actor = "[anonymized]")
  BY DEF RetentionInv
<1>2. RetentionInv /\ [RetentionNext]_retentionVars => RetentionInv'
  BY RetentionNext1
<1>3. RetentionInv /\ [RetentionNext]_retentionVars => [RowsOnlyForgotten]_retentionVars
  BY RetentionNext1
<1>4. RetentionSpec => [][RowsOnlyForgotten]_retentionVars
  BY <1>2, <1>3, RetentionInit1, PTL DEF RetentionSpec
<1>5. RetentionSpec => [](\A e \in AuditedEvent : IsRow(e) /\ ExpiredName(trail[e], forgotten)
                        => trail[e].actor = "[anonymized]")
  BY <1>1, <1>2, RetentionInit1, PTL DEF RetentionSpec
<1> QED
  BY <1>4, <1>5 DEF NamesLastTheWindow, RowsOnlyForgotten

\* A comment in the inbox has the day it was written.
LEMMA InboxKeepsTypes ==
  ASSUME inbox \in [OldComment -> Day \cup {None}], [RetentionNext]_retentionVars
  PROVE  inbox' \in [OldComment -> Day \cup {None}]
<1>1. ASSUME NEW c \in OldComment, NEW written \in Day, SyncBrings(c, written)
      PROVE  inbox' \in [OldComment -> Day \cup {None}]
  BY <1>1 DEF SyncBrings
<1>2. ASSUME SweepPurges \/ AdminPurges
      PROVE  inbox' \in [OldComment -> Day \cup {None}]
  BY <1>2 DEF SweepPurges, AdminPurges, PurgeExpired
<1>3. CASE UNCHANGED inbox
  BY <1>3
<1> QED
  BY <1>1, <1>2, <1>3
     DEF RetentionNext, retentionVars, Record, PersistRow, LoseRow, SweepStarts,
         AnonymizeStarts, AnonymizeWrites, SweepFails, RetentionTick

\* The queue, the rows, the inbox and the sweep under way keep their types.
LEMMA RetentionTypes == RetentionSpec => []RetentionTypeOK
<1>1. RetentionInit => inbox \in [OldComment -> Day \cup {None}]
  BY DEF RetentionInit
<1>2. RetentionInv /\ inbox \in [OldComment -> Day \cup {None}] => RetentionTypeOK
  BY DEF RetentionInv, RetentionTypeOK, Sweeps
<1>3. RetentionInv /\ [RetentionNext]_retentionVars => RetentionInv'
  BY RetentionNext1
<1>4. inbox \in [OldComment -> Day \cup {None}] /\ [RetentionNext]_retentionVars
        => (inbox \in [OldComment -> Day \cup {None}])'
  BY InboxKeepsTypes
<1> QED
  BY <1>1, <1>2, <1>3, <1>4, RetentionInit1, PTL DEF RetentionSpec

-----------------------------------------------------------------------------
(* Uploads: a URL is given out only of a file that is whole, which nothing *)
(* writes again; and a box that is read ends beyond where it starts.       *)

UploadPc == {"new", "reading", "checked", "writing", "written", "answered", "refused", "failed"}

ScanOK ==
  /\ scan \in [level : {"off", "file", "moov", "mvhd"}, offset : Nat, limit : Nat, reads : Nat]
  /\ scan.reads <= scan.offset

FilesOK ==
  /\ upload \in [File -> [pc : UploadPc, seconds : Nat \cup {None}]]
  /\ stored \in [File -> {"absent", "partial", "whole"}]
  /\ section \in [busy : BOOLEAN, url : File \cup {None}, listed : SUBSET File]
  /\ assets \subseteq File
  /\ \A f \in File : upload[f].pc \in {"written", "answered"} => stored[f] = "whole"
  /\ \A f \in assets \cup ({section.url} \ {None}) : f \in File /\ upload[f].pc = "answered"

UploadInv == ScanOK /\ FilesOK

LEMMA UploadInit1 == UploadInit => UploadInv
BY DEF UploadInit, UploadInv, ScanOK, FilesOK, NoScan, UploadPc

\* A request moves on to where its file needs no URL and nothing of it is promised.
LEMMA UploadMoves ==
  ASSUME FilesOK, NEW f \in File, NEW pc \in UploadPc \ {"written", "answered"},
         NEW seconds \in Nat \cup {None}, upload[f].pc # "answered",
         upload' = [upload EXCEPT ![f] = [pc |-> pc, seconds |-> seconds]],
         UNCHANGED assets,
         stored' \in [File -> {"absent", "partial", "whole"}],
         \A g \in File \ {f} : stored'[g] = stored[g],
         section' \in [busy : BOOLEAN, url : File \cup {None}, listed : SUBSET File],
         section'.url = section.url
  PROVE  FilesOK'
<1>1. upload' \in [File -> [pc : UploadPc, seconds : Nat \cup {None}]]
  BY DEF FilesOK
<1>2. \A g \in File \ {f} : upload'[g] = upload[g]
  BY DEF FilesOK
<1>3. upload'[f].pc = pc
  BY DEF FilesOK
<1>4. \A g \in File : upload'[g].pc \in {"written", "answered"} => stored'[g] = "whole"
  BY <1>2, <1>3 DEF FilesOK
<1>5. f \notin assets \cup ({section.url} \ {None})
  BY DEF FilesOK
<1>6. \A g \in (assets \cup ({section.url} \ {None}))' : g \in File /\ upload'[g].pc = "answered"
  BY <1>2, <1>5 DEF FilesOK
<1> QED
  BY <1>1, <1>4, <1>6 DEF FilesOK

\* The same of Moves, which keeps the duration.
LEMMA MovesKeep ==
  ASSUME FilesOK, NEW f \in File, NEW pc \in UploadPc \ {"written", "answered"}, Moves(f, pc),
         upload[f].pc # "answered", UNCHANGED assets,
         stored' \in [File -> {"absent", "partial", "whole"}],
         \A g \in File \ {f} : stored'[g] = stored[g],
         section' \in [busy : BOOLEAN, url : File \cup {None}, listed : SUBSET File],
         section'.url = section.url
  PROVE  FilesOK'
<1> DEFINE q == [upload[f] EXCEPT !.pc = pc]
<1>0. /\ q = [pc |-> pc, seconds |-> upload[f].seconds]
      /\ upload[f].seconds \in Nat \cup {None}
  BY DEF FilesOK
<1>1. upload' = [upload EXCEPT ![f] = q]
  BY DEF Moves, FilesOK
<1> HIDE DEF q
<1> QED
  BY <1>0, <1>1, UploadMoves

LEMMA BoxMovesForward ==
  ASSUME NEW start \in Nat, NEW limit \in Nat, NEW box \in Box(start, limit)
  PROVE  /\ box.body \in Nat /\ box.end \in Nat
         /\ start < box.body /\ start < box.end
BY DEF Box, BoxEnds, HeaderUnits, LargeSizeUnits

LEMMA WholeSecondsType ==
  ASSUME NEW timescale \in {0, 1, 3}, NEW duration \in {0, 1, 4}
  PROVE  WholeSeconds(timescale, duration) \in Nat \cup {None}
BY DEF WholeSeconds

LEMMA ReadsKeeps ==
  ASSUME UploadInv, NEW f \in File, upload[f].pc = "reading", NEW seconds \in Nat \cup {None},
         Reads(f, seconds), UNCHANGED <<stored, section, assets>>
  PROVE  UploadInv'
<1>1. ScanOK'
  BY DEF Reads, ScanOK, NoScan
<1>2. FilesOK'
  BY UploadMoves DEF UploadInv, Reads, FilesOK, UploadPc
<1> QED
  BY <1>1, <1>2 DEF UploadInv

LEMMA UploadNext1 == UploadInv /\ [UploadNext]_uploadVars => UploadInv'
<1> SUFFICES ASSUME UploadInv, [UploadNext]_uploadVars PROVE UploadInv'
  OBVIOUS
<1> USE DEF UploadInv
<1>u. UNCHANGED scan => ScanOK'
  BY DEF ScanOK
<1>p. UploadPc = {"new", "reading", "checked", "writing", "written", "answered", "refused", "failed"}
  BY DEF UploadPc
<1>t. /\ stored \in [File -> {"absent", "partial", "whole"}]
      /\ section \in [busy : BOOLEAN, url : File \cup {None}, listed : SUBSET File]
  BY DEF FilesOK
<1>b. \A busy \in BOOLEAN :
        /\ [section EXCEPT !.busy = busy]
             \in [busy : BOOLEAN, url : File \cup {None}, listed : SUBSET File]
        /\ [section EXCEPT !.busy = busy].url = section.url
  BY <1>t
<1>s. \A f \in File, x \in {"absent", "partial", "whole"} :
        /\ [stored EXCEPT ![f] = x] \in [File -> {"absent", "partial", "whole"}]
        /\ [stored EXCEPT ![f] = x][f] = x
        /\ \A g \in File \ {f} : [stored EXCEPT ![f] = x][g] = stored[g]
  BY <1>t
<1>1. ASSUME NEW f \in File, Validate(f) PROVE UploadInv'
  <2>1. upload[f].pc = "new" /\ UNCHANGED <<stored, assets>>
        /\ section' = [section EXCEPT !.busy = TRUE]
    BY <1>1 DEF Validate
  <2>2. PICK pc \in {"refused", "checked", "reading"} : Moves(f, pc)
    BY <1>1 DEF Validate
  <2>3. FilesOK'
    BY <1>b, <1>p, <1>t, <2>1, <2>2, MovesKeep
  <2>4. ScanOK'
    BY <1>1, UploadsAssumption DEF Validate, ScanOK
  <2> QED
    BY <2>3, <2>4
<1>2. ASSUME NEW f \in File, ReadBox(f) PROVE UploadInv'
  <2>1. CASE Reads(f, None)
    BY <1>2, <2>1, ReadsKeeps DEF ReadBox
  <2>2. CASE ~Reads(f, None)
    <3>1. PICK box \in Box(scan.offset, scan.limit), wanted \in BOOLEAN :
            scan' = [scan EXCEPT
                       !.reads = @ + 1,
                       !.level = IF ~wanted THEN @ ELSE IF @ = "file" THEN "moov" ELSE "mvhd",
                       !.offset = IF wanted THEN box.body ELSE box.end,
                       !.limit = IF wanted THEN box.end ELSE @]
      BY <1>2, <2>2 DEF ReadBox
    <3>2. UNCHANGED <<upload, stored, section, assets>>
      BY <1>2, <2>2 DEF ReadBox
    <3>3. scan.offset \in Nat /\ scan.limit \in Nat /\ scan.reads \in Nat
          /\ scan.reads <= scan.offset /\ scan.level \in {"off", "file", "moov", "mvhd"}
      BY DEF ScanOK
    <3>4. box.body \in Nat /\ box.end \in Nat /\ scan.offset < box.body /\ scan.offset < box.end
      BY <3>3, BoxMovesForward
    <3> DEFINE o == IF wanted THEN box.body ELSE box.end
               l == IF wanted THEN box.end ELSE scan.limit
               v == IF ~wanted THEN scan.level
                    ELSE IF scan.level = "file" THEN "moov" ELSE "mvhd"
    <3>5. o \in Nat /\ scan.offset < o /\ l \in Nat /\ v \in {"off", "file", "moov", "mvhd"}
      BY <3>3, <3>4
    <3>6. scan' = [level |-> v, offset |-> o, limit |-> l, reads |-> scan.reads + 1]
      BY <3>1 DEF ScanOK
    <3> HIDE DEF o, l, v
    <3>7. ScanOK'
      BY <3>3, <3>5, <3>6 DEF ScanOK
    <3>8. FilesOK'
      BY <3>2 DEF FilesOK
    <3> QED
      BY <3>7, <3>8
  <2> QED
    BY <2>1, <2>2
<1>3. ASSUME NEW f \in File, ReadMvhd(f) PROVE UploadInv'
  <2>1. PICK seconds \in Nat \cup {None} : Reads(f, seconds)
    BY <1>3, WholeSecondsType DEF ReadMvhd
  <2> QED
    BY <1>3, <2>1, ReadsKeeps DEF ReadMvhd
<1>4. ASSUME NEW f \in File, WriteStarts(f) PROVE UploadInv'
  BY <1>4, <1>u, <1>p, <1>t, <1>s, MovesKeep DEF WriteStarts
<1>5. ASSUME NEW f \in File, WriteEnds(f) PROVE UploadInv'
  <2>1. /\ upload[f].pc = "writing" /\ stored' = [stored EXCEPT ![f] = "whole"]
        /\ upload' = [upload EXCEPT ![f].pc = "written"] /\ UNCHANGED <<scan, section, assets>>
    BY <1>5 DEF WriteEnds, Moves
  <2>2. upload' \in [File -> [pc : UploadPc, seconds : Nat \cup {None}]]
    BY <1>p, <2>1 DEF FilesOK
  <2>3. \A g \in File \ {f} : upload'[g] = upload[g] /\ stored'[g] = stored[g]
    BY <2>1 DEF FilesOK
  <2>4. f \notin assets \cup ({section.url} \ {None}) /\ stored'[f] = "whole"
    BY <2>1 DEF FilesOK
  <2>5. FilesOK'
    BY <1>s, <2>1, <2>2, <2>3, <2>4 DEF FilesOK
  <2> QED
    BY <1>u, <2>1, <2>5
<1>6. ASSUME NEW f \in File, UploadAnswered(f) PROVE UploadInv'
  <2>1. /\ upload[f].pc = "written" /\ upload' = [upload EXCEPT ![f].pc = "answered"]
        /\ section' = [section EXCEPT !.busy = FALSE, !.url = f]
        /\ UNCHANGED <<scan, stored, assets>>
    BY <1>6 DEF UploadAnswered, Answers, Moves
  <2>2. upload' \in [File -> [pc : UploadPc, seconds : Nat \cup {None}]]
    BY <1>p, <2>1 DEF FilesOK
  <2>3. section' \in [busy : BOOLEAN, url : File \cup {None}, listed : SUBSET File]
        /\ section'.url = f
    BY <2>1 DEF FilesOK
  <2>4. upload'[f].pc = "answered" /\ stored[f] = "whole"
        /\ \A g \in File \ {f} : upload'[g] = upload[g]
    BY <2>1 DEF FilesOK
  <2>5. FilesOK'
    BY <2>1, <2>2, <2>3, <2>4 DEF FilesOK
  <2> QED
    BY <1>u, <2>1, <2>5
<1>7. ASSUME NEW f \in File, UploadFails(f) PROVE UploadInv'
  BY <1>7, <1>u, <1>b, <1>p, <1>t, MovesKeep DEF UploadFails
<1>8. CASE AddAsset
  <2>1. /\ section.url \in File /\ section.url # None
        /\ assets' = assets \cup {section.url} /\ UNCHANGED <<upload, scan, stored>>
    BY <1>8 DEF AddAsset, FilesOK
  <2>2. assets' \in SUBSET File
    BY <2>1 DEF FilesOK
  <2>3. section' \in [busy : BOOLEAN, url : File \cup {None}, listed : SUBSET File]
        /\ section'.url \in {None, section.url}
    <3>1. CASE section' = [section EXCEPT !.url = None, !.listed = assets']
      BY <1>t, <2>2, <3>1
    <3>2. CASE section' = [section EXCEPT !.url = None]
      BY <1>t, <3>2
    <3>3. CASE UNCHANGED section
      BY <1>t, <3>3
    <3> QED
      BY <1>8, <3>1, <3>2, <3>3 DEF AddAsset
  <2>4. FilesOK'
    BY <2>1, <2>2, <2>3 DEF FilesOK
  <2> QED
    BY <1>u, <2>1, <2>4
<1>9. ASSUME NEW f \in File, RemoveAsset(f) PROVE UploadInv'
  <2>1. assets' = assets \ {f} /\ UNCHANGED <<upload, scan, stored>>
    BY <1>9 DEF RemoveAsset
  <2>2. section' \in [busy : BOOLEAN, url : File \cup {None}, listed : SUBSET File]
        /\ section'.url = section.url
    BY <1>9 DEF RemoveAsset, FilesOK
  <2>3. FilesOK'
    BY <2>1, <2>2 DEF FilesOK
  <2> QED
    BY <1>u, <2>1, <2>3
<1>10. CASE UNCHANGED uploadVars
  BY <1>10, <1>u DEF uploadVars, FilesOK
<1> QED
  BY <1>1, <1>2, <1>3, <1>4, <1>5, <1>6, <1>7, <1>8, <1>9, <1>10 DEF UploadNext

\* An asset's file is whole, and the walk over the boxes of a file moves
\* forward at each, whatever the file claims and however long it is.
THEOREM UploadsStaySound == UploadSpec => []UploadsAreSound
<1>1. UploadInv => UploadsAreSound
  BY DEF UploadInv, ScanOK, FilesOK, UploadsAreSound
<1> QED
  BY <1>1, UploadInit1, UploadNext1, PTL DEF UploadSpec

\* The walk stays inside the file.
ScanInside == scan.offset <= Length /\ scan.limit <= Length

\* A box ends where its parent does, or before.
LEMMA BoxIsInside ==
  ASSUME NEW start \in Nat, NEW limit \in Nat, NEW box \in Box(start, limit)
  PROVE  box.body <= limit /\ box.end <= limit
BY SMTT(40) DEF Box, BoxEnds, HeaderUnits, LargeSizeUnits

\* Every step of the walk goes to a box inside the one it is in.
LEMMA ScanStaysInside ==
  ASSUME UploadInv, ScanInside, [UploadNext]_uploadVars
  PROVE  ScanInside'
<1> USE UploadsAssumption
<1>r. ASSUME NEW f \in File, NEW seconds, Reads(f, seconds) PROVE ScanInside'
  BY <1>r DEF Reads, NoScan, ScanInside
<1>1. ASSUME NEW f \in File, Validate(f) PROVE ScanInside'
  BY <1>1 DEF Validate, ScanInside
<1>2. ASSUME NEW f \in File, ReadBox(f) PROVE ScanInside'
  <2>1. ASSUME NEW box \in Box(scan.offset, scan.limit), NEW wanted \in BOOLEAN,
               scan' = [scan EXCEPT
                          !.reads = @ + 1,
                          !.level = IF ~wanted THEN @ ELSE IF @ = "file" THEN "moov" ELSE "mvhd",
                          !.offset = IF wanted THEN box.body ELSE box.end,
                          !.limit = IF wanted THEN box.end ELSE @]
        PROVE  ScanInside'
    <3>1. scan.offset \in Nat /\ scan.limit \in Nat
      BY DEF UploadInv, ScanOK
    <3>2. /\ box.body \in Nat /\ box.end \in Nat
          /\ box.body <= scan.limit /\ box.end <= scan.limit
      BY <3>1, BoxMovesForward, BoxIsInside
    <3>3. /\ scan'.offset = IF wanted THEN box.body ELSE box.end
          /\ scan'.limit = IF wanted THEN box.end ELSE scan.limit
      BY <2>1 DEF UploadInv, ScanOK
    <3> QED
      BY <3>1, <3>2, <3>3 DEF ScanInside
  <2> QED
    BY <1>2, <1>r, <2>1 DEF ReadBox
<1>3. ASSUME NEW f \in File, ReadMvhd(f) PROVE ScanInside'
  BY <1>3, <1>r DEF ReadMvhd
<1>4. CASE UNCHANGED scan
  BY <1>4 DEF ScanInside
<1> QED
  BY <1>1, <1>2, <1>3, <1>4
     DEF UploadNext, uploadVars, AddAsset, WriteStarts, WriteEnds, UploadAnswered, UploadFails,
         RemoveAsset

\* Files, rows and the walk through a file keep their types.
LEMMA UploadTypes == UploadSpec => []UploadTypeOK
<1>1. UploadInit => ScanInside
  BY UploadsAssumption DEF UploadInit, ScanInside, NoScan
<1>2. UploadInv /\ ScanInside /\ [UploadNext]_uploadVars => ScanInside'
  BY ScanStaysInside
<1>3. UploadInv /\ ScanInside => UploadTypeOK
  BY UploadsAssumption DEF UploadInv, ScanOK, FilesOK, ScanInside, UploadTypeOK, UploadPc
<1> QED
  BY <1>1, <1>2, <1>3, UploadInit1, UploadNext1, PTL DEF UploadSpec

-----------------------------------------------------------------------------
(* Login: who is let through is counted before, in the same window; and an *)
(* attempt that is alone between its read and its write holds the row.     *)

AttemptRow == [failed : Nat, lockedUntil : Nat]

Attempts == [pc : {"count", "expire", "weigh", "read", "verified"}, right : BOOLEAN,
             total : Nat, seen : AttemptRow]

Verified(r) == attempts[r] # Idle /\ attempts[r].pc = "verified"

ThrottleOK ==
  /\ hits.count \in Nat /\ tally.through \in Nat
  /\ tally.through <= hits.count
  /\ tally.through <= HitLimit

CountsOK ==
  ~tally.overlapped =>
    /\ account.failed = tally.wrong
    /\ \A r \in Request : Verified(r) => attempts[r].seen = account
    /\ \A r, q \in Request : Verified(r) /\ Verified(q) => r = q

LoginInv ==
  /\ account \in AttemptRow
  /\ hits \in [count : Nat, expires : Nat \cup {None}]
  /\ attempts \in [Request -> Attempts \cup {Idle}]
  /\ loginClock \in Nat
  /\ tally \in [through : Nat, wrong : Nat, overlapped : BOOLEAN]
  /\ ThrottleOK
  /\ CountsOK

LEMMA LoginInit1 == LoginInit => LoginInv
BY LoginAssumption DEF LoginInit, LoginInv, ThrottleOK, CountsOK, NoHits, AttemptRow, Verified, Idle

\* A request that moves or ends without a password being verified.
LEMMA AttemptMoves ==
  ASSUME LoginInv, NEW r \in Request, NEW q \in Attempts \cup {Idle},
         q # Idle => q.pc # "verified",
         attempts' = [attempts EXCEPT ![r] = q],
         UNCHANGED account, UNCHANGED loginClock,
         hits' \in [count : Nat, expires : Nat \cup {None}],
         tally' \in [through : Nat, wrong : Nat, overlapped : BOOLEAN],
         ThrottleOK', tally'.wrong = tally.wrong, tally'.overlapped = tally.overlapped
  PROVE  LoginInv'
<1>1. attempts' \in [Request -> Attempts \cup {Idle}]
  BY DEF LoginInv
<1>2. \A s \in Request : (Verified(s))' => Verified(s) /\ attempts'[s] = attempts[s]
  BY DEF LoginInv, Verified
<1>3. CountsOK'
  BY <1>2 DEF CountsOK, LoginInv
<1> QED
  BY <1>1, <1>3 DEF LoginInv

LEMMA LoginNext1 == LoginInv /\ [LoginNext]_loginVars => LoginInv'
<1> SUFFICES ASSUME LoginInv, [LoginNext]_loginVars PROVE LoginInv'
  OBVIOUS
<1>k. Idle \in Attempts \cup {Idle}
  OBVIOUS
<1>i. ASSUME NEW r \in Request, attempts[r].pc # Idle.pc PROVE attempts[r] \in Attempts
  BY <1>i DEF LoginInv
<1>g. ASSUME NEW c \in Attempts, NEW pc \in {"count", "expire", "weigh", "read", "verified"}
      PROVE  /\ [c EXCEPT !.pc = pc] \in Attempts
             /\ [c EXCEPT !.pc = pc].pc = pc
  BY <1>g DEF Attempts
<1>h. UNCHANGED <<hits, tally>> =>
        /\ hits' \in [count : Nat, expires : Nat \cup {None}]
        /\ tally' \in [through : Nat, wrong : Nat, overlapped : BOOLEAN]
        /\ ThrottleOK'
  BY DEF LoginInv, ThrottleOK
<1>1. ASSUME NEW r \in Request, NEW right \in BOOLEAN, ThrottlePeeks(r, right) PROVE LoginInv'
  <2> DEFINE q == [pc |-> "count", right |-> right, total |-> 0, seen |-> account]
  <2>1. q \in Attempts \cup {Idle} /\ q.pc # "verified"
    BY DEF Attempts, LoginInv
  <2>2. attempts' = [attempts EXCEPT ![r] = q] /\ UNCHANGED <<account, hits, loginClock, tally>>
    BY <1>1 DEF ThrottlePeeks
  <2> HIDE DEF q
  <2> QED
    BY <1>h, <2>1, <2>2, AttemptMoves
<1>2. ASSUME NEW r \in Request, ThrottleCounts(r) PROVE LoginInv'
  <2>1. attempts[r] \in Attempts
    BY <1>2, <1>i DEF ThrottleCounts, Idle
  <2> DEFINE pc == IF hits.count = 0 THEN "expire" ELSE "weigh"
             q  == [attempts[r] EXCEPT !.total = hits.count + 1, !.pc = pc]
  <2>2. hits.count + 1 \in Nat /\ pc \in {"expire", "weigh"}
    BY DEF LoginInv, ThrottleOK
  <2>3. attempts' = [attempts EXCEPT ![r] = q] /\ UNCHANGED <<account, loginClock>>
    BY <1>2 DEF ThrottleCounts, LoginInv
  <2> HIDE DEF pc
  <2>4. q \in Attempts \cup {Idle} /\ q.pc # "verified"
    BY <2>1, <2>2 DEF Attempts
  <2> HIDE DEF q
  <2>5. hits' \in [count : Nat, expires : Nat \cup {None}] /\ hits'.count = hits.count + 1
    BY <1>2, <2>2 DEF ThrottleCounts, LoginInv
  <2>6. /\ tally' \in [through : Nat, wrong : Nat, overlapped : BOOLEAN]
        /\ tally'.wrong = tally.wrong /\ tally'.overlapped = tally.overlapped
        /\ tally'.through = tally.through + IF OverLimit(hits.count + 1) THEN 0 ELSE 1
    BY <1>2 DEF ThrottleCounts, LoginInv
  <2>7. ThrottleOK'
    BY <2>5, <2>6, LoginAssumption DEF LoginInv, ThrottleOK, OverLimit
  <2> QED
    BY <2>3, <2>4, <2>5, <2>6, <2>7, AttemptMoves
<1>3. ASSUME NEW r \in Request, ThrottleExpires(r) PROVE LoginInv'
  <2>1. attempts[r] \in Attempts
    BY <1>3, <1>i DEF ThrottleExpires, Idle
  <2> DEFINE q == [attempts[r] EXCEPT !.pc = "weigh"]
  <2>2. q \in Attempts \cup {Idle} /\ q.pc # "verified"
    BY <1>g, <2>1
  <2>3. attempts' = [attempts EXCEPT ![r] = q] /\ UNCHANGED <<account, loginClock, tally>>
    BY <1>3 DEF ThrottleExpires, AttemptGoesTo, LoginInv
  <2> HIDE DEF q
  <2>4. hits' \in [count : Nat, expires : Nat \cup {None}] /\ hits'.count = hits.count
    BY <1>3, LoginAssumption DEF ThrottleExpires, LoginInv
  <2>5. ThrottleOK' /\ tally' \in [through : Nat, wrong : Nat, overlapped : BOOLEAN]
    BY <2>3, <2>4 DEF LoginInv, ThrottleOK
  <2> QED
    BY <2>2, <2>3, <2>4, <2>5, AttemptMoves
<1>4. ASSUME NEW r \in Request, ThrottleWeighs(r) PROVE LoginInv'
  <2>1. attempts[r] \in Attempts /\ UNCHANGED <<account, hits, loginClock, tally>>
    BY <1>4, <1>i DEF ThrottleWeighs, Idle
  <2>2. CASE AttemptEnds(r)
    BY <1>h, <1>k, <2>1, <2>2, AttemptMoves DEF AttemptEnds
  <2>3. CASE AttemptGoesTo(r, "read")
    <3> DEFINE q == [attempts[r] EXCEPT !.pc = "read"]
    <3>1. q \in Attempts \cup {Idle} /\ q.pc # "verified"
      BY <1>g, <2>1
    <3>2. attempts' = [attempts EXCEPT ![r] = q]
      BY <2>3 DEF AttemptGoesTo, LoginInv
    <3> HIDE DEF q
    <3> QED
      BY <1>h, <2>1, <3>1, <3>2, AttemptMoves
  <2> QED
    BY <1>4, <2>2, <2>3 DEF ThrottleWeighs
<1>5. ASSUME NEW r \in Request, AttemptReads(r) PROVE LoginInv'
  <2>1. attempts[r] \in Attempts /\ attempts[r].pc = "read"
    BY <1>5, <1>i DEF AttemptReads, Idle
  <2> DEFINE q == [attempts[r] EXCEPT !.pc = "verified", !.seen = account]
  <2>2. attempts' = [attempts EXCEPT ![r] = q] /\ UNCHANGED <<account, hits, loginClock>>
    BY <1>5 DEF AttemptReads, LoginInv
  <2>3. q \in Attempts /\ q.seen = account
    BY <2>1 DEF Attempts, LoginInv
  <2> HIDE DEF q
  <2>4. /\ tally' \in [through : Nat, wrong : Nat, overlapped : BOOLEAN]
        /\ tally'.through = tally.through /\ tally'.wrong = tally.wrong
        /\ ~tally'.overlapped => ~tally.overlapped /\ \A s \in Request : ~Verified(s)
    BY <1>5 DEF AttemptReads, LoginInv, Verified
  <2>5. \A s \in Request \ {r} : (Verified(s))' <=> Verified(s)
    BY <2>2 DEF LoginInv, Verified
  <2>6. attempts'[r].seen = account /\ attempts' \in [Request -> Attempts \cup {Idle}]
    BY <2>2, <2>3 DEF LoginInv
  <2>7. CountsOK'
    BY <2>2, <2>4, <2>5, <2>6 DEF CountsOK, LoginInv
  <2>8. ThrottleOK'
    BY <2>2, <2>4 DEF ThrottleOK, LoginInv
  <2> QED
    BY <2>2, <2>4, <2>6, <2>7, <2>8 DEF LoginInv
<1>6. ASSUME NEW r \in Request, AttemptLocked(r) PROVE LoginInv'
  BY <1>6, <1>h, <1>k, AttemptMoves DEF AttemptLocked, AttemptEnds
<1>w. ASSUME NEW r \in Request, Verified(r), AttemptEnds(r), account' \in AttemptRow,
             UNCHANGED <<hits, loginClock>>,
             tally' \in [through : Nat, wrong : Nat, overlapped : BOOLEAN],
             tally'.through = tally.through, tally'.overlapped = tally.overlapped,
             ~tally.overlapped => account'.failed = tally'.wrong
      PROVE  LoginInv'
  <2>1. attempts' \in [Request -> Attempts \cup {Idle}]
    BY <1>w DEF AttemptEnds, LoginInv
  <2>2. \A s \in Request : (Verified(s))' => s # r /\ Verified(s)
    BY <1>w DEF AttemptEnds, LoginInv, Verified
  <2>3. CountsOK'
    BY <1>w, <2>2 DEF CountsOK, LoginInv
  <2>4. ThrottleOK'
    BY <1>w DEF ThrottleOK, LoginInv
  <2> QED
    BY <1>w, <2>1, <2>3, <2>4 DEF LoginInv
<1>7. ASSUME NEW r \in Request, AttemptFails(r) PROVE LoginInv'
  <2>1. attempts[r] \in Attempts /\ Verified(r)
    BY <1>7, <1>i DEF AttemptFails, Verified, Idle
  <2>2. attempts[r].seen \in AttemptRow
    BY <2>1 DEF Attempts
  <2>3. account' = AfterFailure(attempts[r].seen) /\ attempts[r].seen.lockedUntil <= loginClock
    BY <1>7, <2>2 DEF AttemptFails, LockedIn, LoginInv, AttemptRow
  <2>4. /\ account' \in AttemptRow
        /\ IF attempts[r].seen.failed + 1 >= MaxFailed
             THEN account'.failed = 0 /\ account'.lockedUntil > loginClock
             ELSE /\ account'.failed = attempts[r].seen.failed + 1
                  /\ ~(account'.lockedUntil > loginClock)
    BY <2>2, <2>3, LoginAssumption DEF AfterFailure, AttemptRow, LoginInv
  <2>5. /\ tally' \in [through : Nat, wrong : Nat, overlapped : BOOLEAN]
        /\ tally'.through = tally.through /\ tally'.overlapped = tally.overlapped
        /\ tally'.wrong = IF account'.lockedUntil > loginClock THEN 0 ELSE tally.wrong + 1
    BY <1>7 DEF AttemptFails, LoginInv
  <2>6. ~tally.overlapped => attempts[r].seen = account /\ account.failed = tally.wrong
    BY <2>1 DEF LoginInv, CountsOK
  <2>7. ~tally.overlapped => account'.failed = tally'.wrong
    BY <2>4, <2>5, <2>6
  <2> QED
    BY <1>7, <1>w, <2>1, <2>4, <2>5, <2>7 DEF AttemptFails
<1>8. ASSUME NEW r \in Request, AttemptSucceeds(r) PROVE LoginInv'
  <2>1. Verified(r)
    BY <1>8 DEF AttemptSucceeds, Verified, Idle
  <2>2. account' \in AttemptRow /\ account'.failed = 0
    BY <1>8 DEF AttemptSucceeds, AttemptRow
  <2>3. /\ tally' \in [through : Nat, wrong : Nat, overlapped : BOOLEAN]
        /\ tally'.through = tally.through /\ tally'.overlapped = tally.overlapped
        /\ tally'.wrong = 0
    BY <1>8 DEF AttemptSucceeds, LoginInv
  <2> QED
    BY <1>8, <1>w, <2>1, <2>2, <2>3 DEF AttemptSucceeds
<1>9. CASE LoginServerDies
  <2>1. \A s \in Request : attempts'[s] = Idle
    BY <1>9 DEF LoginServerDies
  <2>2. attempts' \in [Request -> Attempts \cup {Idle}]
    BY <1>9 DEF LoginServerDies
  <2>3. CountsOK'
    BY <1>9, <2>1 DEF LoginServerDies, CountsOK, LoginInv, Verified
  <2> QED
    BY <1>9, <1>h, <2>2, <2>3 DEF LoginServerDies, LoginInv
<1>10. CASE LoginTick
  <2>1. UNCHANGED <<account, attempts>> /\ loginClock' \in Nat
    BY <1>10 DEF LoginTick, LoginInv
  <2>2. /\ hits' \in [count : Nat, expires : Nat \cup {None}]
        /\ tally' \in [through : Nat, wrong : Nat, overlapped : BOOLEAN]
        /\ tally'.wrong = tally.wrong /\ tally'.overlapped = tally.overlapped
        /\ \/ tally'.through = 0
           \/ hits'.count = hits.count /\ tally'.through = tally.through
    BY <1>10 DEF LoginTick, LoginInv, NoHits
  <2>3. ThrottleOK'
    BY <2>2, LoginAssumption DEF ThrottleOK, LoginInv
  <2>4. CountsOK'
    BY <2>1, <2>2 DEF CountsOK, LoginInv, Verified
  <2> QED
    BY <2>1, <2>2, <2>3, <2>4 DEF LoginInv
<1>11. CASE UNCHANGED loginVars
  <2>1. CountsOK'
    BY <1>11 DEF loginVars, CountsOK, LoginInv, Verified
  <2> QED
    BY <1>11, <1>h, <2>1 DEF loginVars, LoginInv
<1> QED
  BY <1>1, <1>2, <1>3, <1>4, <1>5, <1>6, <1>7, <1>8, <1>9, <1>10, <1>11 DEF LoginNext

\* However many attempts overlap and however often the server dies, a window
\* lets no more than the limit through, and attempts that do not overlap are
\* all counted.
THEOREM LoginsAreCounted == LoginSpec => []AttemptsAreCounted
<1>1. LoginInv => AttemptsAreCounted
  BY DEF LoginInv, ThrottleOK, CountsOK, AttemptsAreCounted
<1> QED
  BY <1>1, LoginInit1, LoginNext1, PTL DEF LoginSpec

\* The counts and instants of the login rows stay within their bounds.
Bounded(row) == row.failed <= MaxFailed - 1 /\ row.lockedUntil \in Instant

LoginBounds ==
  /\ Bounded(account)
  /\ \A r \in Request : attempts[r] # Idle => Bounded(attempts[r].seen)
  /\ hits.count <= MaxHits /\ hits.expires \in Instant \cup {None}
  /\ blockedTill \in Instant
  /\ loginClock <= MaxLoginClock

\* No handler writes a count or an instant beyond the bounds.
LEMMA LoginStaysBounded ==
  ASSUME LoginInv, LoginBounds, [LoginNext]_loginVars
  PROVE  LoginBounds'
<1> USE LoginAssumption
<1>0. /\ loginClock \in 0..MaxLoginClock
      /\ loginClock + HitWindow \in Instant /\ loginClock + Lockout \in Instant /\ 0 \in Instant
  BY DEF LoginInv, LoginBounds, Instant
<1>m. ASSUME NEW r \in Request, NEW q,
             attempts' = [attempts EXCEPT ![r] = q], q # Idle => Bounded(q.seen)
      PROVE  \A s \in Request : attempts'[s] # Idle => Bounded(attempts'[s].seen)
  BY <1>m DEF LoginBounds, LoginInv
<1>a. ASSUME NEW r \in Request, attempts[r].pc # Idle.pc
      PROVE  attempts[r] \in Attempts /\ Bounded(attempts[r].seen)
  BY <1>a DEF LoginInv, LoginBounds
<1>1. ASSUME NEW r \in Request, NEW right \in BOOLEAN, ThrottlePeeks(r, right) PROVE LoginBounds'
  BY <1>1, <1>m DEF ThrottlePeeks, LoginBounds, Bounded
<1>2. ASSUME NEW r \in Request, ThrottleCounts(r) PROVE LoginBounds'
  <2>1. attempts[r] \in Attempts /\ Bounded(attempts[r].seen)
    BY <1>2, <1>a DEF ThrottleCounts, Idle
  <2>2. \A s \in Request : attempts'[s] # Idle => Bounded(attempts'[s].seen)
    BY <1>2, <2>1 DEF ThrottleCounts, LoginInv, LoginBounds, Attempts, Bounded
  <2>3. hits'.count <= MaxHits /\ hits'.expires = hits.expires
    BY <1>2 DEF ThrottleCounts, LoginInv
  <2> QED
    BY <1>2, <2>2, <2>3 DEF ThrottleCounts, LoginBounds, Bounded
<1>3. ASSUME NEW r \in Request, ThrottleExpires(r) PROVE LoginBounds'
  <2>1. attempts[r] \in Attempts /\ Bounded(attempts[r].seen)
    BY <1>3, <1>a DEF ThrottleExpires, Idle
  <2>2. \A s \in Request : attempts'[s] # Idle => Bounded(attempts'[s].seen)
    BY <1>3, <2>1 DEF ThrottleExpires, AttemptGoesTo, LoginInv, LoginBounds, Attempts, Bounded
  <2>3. hits'.count <= MaxHits /\ hits'.expires \in Instant \cup {None}
    BY <1>0, <1>3 DEF ThrottleExpires, LoginInv, LoginBounds
  <2> QED
    BY <1>3, <2>2, <2>3 DEF ThrottleExpires, LoginBounds, Bounded
<1>4. ASSUME NEW r \in Request, ThrottleWeighs(r) PROVE LoginBounds'
  <2>1. attempts[r] \in Attempts /\ Bounded(attempts[r].seen)
    BY <1>4, <1>a DEF ThrottleWeighs, Idle
  <2>2. \A s \in Request : attempts'[s] # Idle => Bounded(attempts'[s].seen)
    BY <1>4, <2>1 DEF ThrottleWeighs, AttemptGoesTo, AttemptEnds, LoginInv, LoginBounds, Attempts, Bounded
  <2> QED
    BY <1>0, <1>4, <2>2 DEF ThrottleWeighs, LoginBounds, Bounded
<1>5. ASSUME NEW r \in Request, AttemptReads(r) PROVE LoginBounds'
  <2>1. attempts[r] \in Attempts
    BY <1>5, <1>a DEF AttemptReads, Idle
  <2>2. \A s \in Request : attempts'[s] # Idle => Bounded(attempts'[s].seen)
    BY <1>5, <2>1 DEF AttemptReads, LoginInv, LoginBounds, Attempts, Bounded
  <2> QED
    BY <1>5, <2>2 DEF AttemptReads, LoginBounds, Bounded
<1>e. ASSUME NEW r \in Request, AttemptEnds(r)
      PROVE  \A s \in Request : attempts'[s] # Idle => Bounded(attempts'[s].seen)
  BY <1>e, <1>m DEF AttemptEnds
<1>6. ASSUME NEW r \in Request, AttemptLocked(r) PROVE LoginBounds'
  BY <1>6, <1>e DEF AttemptLocked, LoginBounds, Bounded
<1>7. ASSUME NEW r \in Request, AttemptFails(r) PROVE LoginBounds'
  <2>1. attempts[r] \in Attempts /\ Bounded(attempts[r].seen)
    BY <1>7, <1>a DEF AttemptFails, Idle
  <2>2. Bounded(account')
    BY <1>0, <1>7, <2>1 DEF AttemptFails, AfterFailure, Bounded, Attempts, AttemptRow
  <2> QED
    BY <1>7, <1>e, <2>2 DEF AttemptFails, LoginBounds, Bounded
<1>8. ASSUME NEW r \in Request, AttemptSucceeds(r) PROVE LoginBounds'
  <2>1. Bounded(account')
    BY <1>0, <1>8 DEF AttemptSucceeds, Bounded
  <2> QED
    BY <1>8, <1>e, <2>1 DEF AttemptSucceeds, LoginBounds, Bounded
<1>9. CASE LoginServerDies
  BY <1>9 DEF LoginServerDies, LoginBounds, Bounded, Idle
<1>10. CASE LoginTick
  BY <1>10 DEF LoginTick, LoginBounds, LoginInv, NoHits, Bounded
<1>11. CASE UNCHANGED loginVars
  BY <1>11 DEF loginVars, LoginBounds, Bounded
<1> QED
  BY <1>1, <1>2, <1>3, <1>4, <1>5, <1>6, <1>7, <1>8, <1>9, <1>10, <1>11 DEF LoginNext

\* The account, the throttler's counter and the attempts keep their types.
LEMMA LoginTypes == LoginSpec => []LoginTypeOK
<1>1. LoginInit => LoginBounds
  BY LoginAssumption DEF LoginInit, LoginBounds, Bounded, NoHits, Instant
<1>2. LoginInv /\ LoginBounds /\ [LoginNext]_loginVars => LoginBounds'
  BY LoginStaysBounded
<1>3. LoginInv /\ LoginBounds => LoginTypeOK
  <2> SUFFICES ASSUME LoginInv, LoginBounds PROVE LoginTypeOK
    OBVIOUS
  <2>1. account \in [failed : 0..MaxFailed - 1, lockedUntil : Instant]
    BY LoginAssumption DEF LoginInv, LoginBounds, Bounded, AttemptRow
  <2>2. hits \in [count : 0..MaxHits, expires : Instant \cup {None}]
    BY LoginAssumption DEF LoginInv, LoginBounds
  <2>3. tally \in [through : 0..MaxHits, wrong : Nat, overlapped : BOOLEAN]
    BY LoginAssumption DEF LoginInv, LoginBounds, ThrottleOK
  <2>4. \A r \in Request : attempts[r] # Idle =>
          attempts[r].pc \in {"count", "expire", "weigh", "read", "verified"}
    BY DEF LoginInv, Attempts
  <2> QED
    BY <2>1, <2>2, <2>3, <2>4, LoginAssumption DEF LoginInv, LoginBounds, LoginTypeOK
<1> QED
  BY <1>1, <1>2, <1>3, LoginInit1, LoginNext1, PTL DEF LoginSpec

-----------------------------------------------------------------------------
(* Sessions: what a request that is alone with its session knows of it. *)

\* A request that has a copy of its session, and will save it.
Copying(x) == x.pc \in {"authorize", "exchange", "refused"}

States == [Provider -> {0} \cup Token]

Copies == [pc : {"authorize", "exchange", "refused"}, session : SessionId, token : Token,
           fair : BOOLEAN, copy : States]

Visits == [pc : {"login", "logout"}, session : 0..MaxSessions]

SessionTypes ==
  /\ DOMAIN store \subseteq 1..made
  /\ \A s \in DOMAIN store : store[s] \in States
  /\ cookie \in 0..made
  /\ handling \in [Request -> {Idle} \cup Visits \cup Copies]
  /\ \A r \in Request : Copying(handling[r]) => handling[r].session <= made
  /\ \A r \in Request : handling[r].pc = "logout" => handling[r].session \in 1..made
  /\ handshakes \in Seq(Handshake)
  /\ \A t \in DOMAIN handshakes : handshakes[t].session <= made
  /\ Len(handshakes) <= MaxHandshakes
  /\ made \in 0..MaxSessions
  /\ ended \subseteq 1..made

\* A state that session s has was generated for s and its provider.
OwnStates(states, s) ==
  \A p \in Provider : states[p] # 0 =>
    /\ states[p] \in DOMAIN handshakes
    /\ handshakes[states[p]].session = s /\ handshakes[states[p]].of = p

StatesAreOwn ==
  /\ \A s \in DOMAIN store : OwnStates(store[s], s)
  /\ \A r \in Request : Copying(handling[r]) => OwnStates(handling[r].copy, handling[r].session)

EndedIsGone ==
  \A s \in ended : /\ s \notin DOMAIN store
                   /\ \A r \in Request : Copying(handling[r]) => handling[r].session # s

\* Until its callback, the state of an undisturbed handshake is in its
\* session and in every copy of it.
Kept(t) ==
  LET h == handshakes[t] IN
  ~h.disturbed /\ h.sent /\ h.accepted = 0 /\ ~h.expired =>
    /\ h.session \in DOMAIN store => store[h.session][h.of] = t
    /\ \A r \in Request :
         Copying(handling[r]) /\ handling[r].session = h.session => handling[r].copy[h.of] = t

\* Afterwards it is in no copy, and in its session only until a copy is saved.
Once(t) ==
  LET h == handshakes[t] IN
  ~h.disturbed /\ h.accepted > 0 =>
    /\ h.accepted = 1
    /\ \A r \in Request :
         Copying(handling[r]) /\ handling[r].session = h.session => handling[r].copy[h.of] # t
    /\ h.session \in DOMAIN store /\ store[h.session][h.of] = t =>
         \E r \in Request : Copying(handling[r]) /\ handling[r].session = h.session

\* A redirect that is being prepared has a handshake of its own in its copy.
Prepares(r) ==
  LET t == handling[r].token
      h == handshakes[t]
  IN handling[r].pc = "authorize" =>
       /\ t \in DOMAIN handshakes
       /\ h.session = handling[r].session /\ ~h.sent /\ h.accepted = 0
       /\ handling[r].copy[h.of] = t
       /\ \A q \in Request \ {r} : handling[q].pc = "authorize" => handling[q].token # t

SessionInv ==
  /\ SessionTypes
  /\ StatesAreOwn
  /\ EndedIsGone
  /\ \A t \in DOMAIN handshakes : Kept(t) /\ Once(t)
  /\ \A r \in Request : Prepares(r)
  /\ \A r \in Request : handling[r].pc = "refused" => ~handling[r].fair

LEMMA SessionInit1 == SessionInit => SessionInv
<1> SUFFICES ASSUME SessionInit PROVE SessionInv
  OBVIOUS
<1>1. DOMAIN store = {} /\ handshakes \in Seq(Handshake) /\ DOMAIN handshakes = {} /\ Len(handshakes) = 0
  BY EmptySeq DEF SessionInit
<1>2. SessionTypes
  BY <1>1, SessionsAssumption DEF SessionInit, SessionTypes, Copying, Idle, SessionId
<1> QED
  BY <1>1, <1>2 DEF SessionInit, SessionInv, StatesAreOwn, EndedIsGone, Prepares, Copying, Idle

LEMMA HandshakesOf ==
  ASSUME SessionTypes
  PROVE  /\ Len(handshakes) \in 0..MaxHandshakes /\ DOMAIN handshakes = 1..Len(handshakes)
         /\ \A t \in DOMAIN handshakes : handshakes[t] \in Handshake
BY LenProperties, ElementOfSeq, SessionsAssumption DEF SessionTypes

\* A step that leaves the handshakes and every copy alone, and changes the
\* store only by removing sessions and by making an empty one.
QuietlyStored ==
  \A s \in DOMAIN store' :
    \/ s \in DOMAIN store /\ store'[s] = store[s]
    \/ s = made + 1 /\ store'[s] = NoStates

QuietCopies ==
  \A q \in Request : Copying(handling'[q]) \/ Copying(handling[q]) => handling'[q] = handling[q]

EndsUncopied ==
  \A s \in ended' \ ended :
    /\ s \in 1..made /\ s \notin DOMAIN store'
    /\ \A q \in Request : Copying(handling[q]) => handling[q].session # s

LEMMA QuietStep ==
  ASSUME SessionInv, SessionTypes', handshakes' = handshakes, QuietlyStored, QuietCopies, EndsUncopied
  PROVE  SessionInv'
<1> USE DEF QuietlyStored, QuietCopies, EndsUncopied
<1>1. StatesAreOwn'
  BY DEF SessionInv, StatesAreOwn, OwnStates, NoStates
<1>2. EndedIsGone'
  BY DEF SessionInv, EndedIsGone, SessionTypes
<1>3. ASSUME NEW t \in DOMAIN handshakes' PROVE Kept(t)'
  BY <1>3 DEF SessionInv, Kept, SessionTypes
<1>4. ASSUME NEW t \in DOMAIN handshakes' PROVE Once(t)'
  <2>1. Once(t) /\ handshakes[t].session # made + 1
    BY <1>4, HandshakesOf, SessionsAssumption DEF SessionInv, SessionTypes, Handshake, SessionId
  <2>2. \A r \in Request : Copying(handling'[r]) => handling'[r] = handling[r] /\ Copying(handling[r])
    OBVIOUS
  <2>3. \A r \in Request : Copying(handling[r]) => handling'[r] = handling[r] /\ Copying(handling'[r])
    OBVIOUS
  <2> QED
    BY <2>1, <2>2, <2>3 DEF Once
<1>5. \A r \in Request : Prepares(r)'
  BY DEF SessionInv, Prepares, Copying
<1>6. \A r \in Request : handling'[r].pc = "refused" => ~handling'[r].fair
  BY DEF SessionInv, Copying
<1> QED
  BY <1>1, <1>2, <1>3, <1>4, <1>5, <1>6 DEF SessionInv
\* What a step does to a handshake it is not about: it may disturb it.
Follows(g, h) ==
  /\ g.session = h.session /\ g.of = h.of /\ g.sent = h.sent
  /\ g.accepted = h.accepted /\ g.expired = h.expired
  /\ h.disturbed => g.disturbed

\* A request saves its copy: handshakes that a second copy is out for are
\* disturbed, and nobody else has been in the session.
LEMMA SaveStep ==
  ASSUME SessionInv, SessionTypes', NEW r \in Request, Copying(handling[r]),
         UNCHANGED <<cookie, made, ended>>,
         handling' = [handling EXCEPT ![r] = Idle],
         store' = Saved(handling[r].session, handling[r].copy),
         DOMAIN handshakes' = DOMAIN handshakes,
         \A t \in DOMAIN handshakes :
           /\ handshakes[t].session = handling[r].session /\ CopiesOut(r, handling[r].session) =>
                handshakes'[t].disturbed
           /\ \/ Follows(handshakes'[t], handshakes[t])
              \/ /\ handling[r].pc = "authorize" /\ t = handling[r].token
                 /\ Follows(handshakes'[t], [handshakes[t] EXCEPT !.sent = TRUE])
  PROVE  SessionInv'
<1> DEFINE s == handling[r].session
<1>0. /\ handling[r] \in Copies
      /\ \A q \in Request : Copying(handling'[q]) => q # r /\ handling'[q] = handling[q]
      /\ \A q \in Request \ {r} : handling'[q] = handling[q]
      /\ handling'[r].pc = "idle"
  BY DEF SessionInv, SessionTypes, Copying, Idle, Visits
<1>f. \A t \in DOMAIN handshakes :
        /\ handshakes'[t].session = handshakes[t].session /\ handshakes'[t].of = handshakes[t].of
        /\ handshakes'[t].accepted = handshakes[t].accepted
        /\ handshakes'[t].expired = handshakes[t].expired
        /\ handshakes[t].disturbed => handshakes'[t].disturbed
        /\ \/ handshakes'[t].sent = handshakes[t].sent
           \/ handling[r].pc = "authorize" /\ t = handling[r].token
  <2> SUFFICES ASSUME NEW t \in DOMAIN handshakes
               PROVE  /\ handshakes'[t].session = handshakes[t].session
                      /\ handshakes'[t].of = handshakes[t].of
                      /\ handshakes'[t].accepted = handshakes[t].accepted
                      /\ handshakes'[t].expired = handshakes[t].expired
                      /\ handshakes[t].disturbed => handshakes'[t].disturbed
                      /\ \/ handshakes'[t].sent = handshakes[t].sent
                         \/ handling[r].pc = "authorize" /\ t = handling[r].token
    OBVIOUS
  <2>1. handshakes[t] \in Handshake
    BY HandshakesOf DEF SessionInv
  <2>2. CASE Follows(handshakes'[t], handshakes[t])
    BY <2>2 DEF Follows
  <2>3. CASE /\ handling[r].pc = "authorize" /\ t = handling[r].token
             /\ Follows(handshakes'[t], [handshakes[t] EXCEPT !.sent = TRUE])
    BY SMTT(40), <2>1, <2>3 DEF Follows, Handshake
  <2> QED
    BY <2>2, <2>3
<1>1. StatesAreOwn'
  BY <1>0, <1>f DEF SessionInv, StatesAreOwn, OwnStates, Saved
<1>2. EndedIsGone'
  BY <1>0 DEF SessionInv, EndedIsGone, Saved
<1>3. ASSUME NEW t \in DOMAIN handshakes' PROVE Kept(t)'
  <2>1. Kept(t) /\ Prepares(r)
    BY <1>3 DEF SessionInv
  <2>2. CASE handshakes[t].session # s
    BY <1>0, <1>f, <1>3, <2>1, <2>2 DEF Kept, Saved, Prepares
  <2>3. CASE handshakes[t].session = s
    <3>1. handshakes'[t].disturbed \/ ~CopiesOut(r, s)
      BY <1>3, <2>3
    <3> QED
      BY <1>0, <1>f, <1>3, <2>1, <2>3, <3>1 DEF Kept, Saved, Prepares, CopiesOut, Copying
  <2> QED
    BY <2>2, <2>3
<1>4. ASSUME NEW t \in DOMAIN handshakes' PROVE Once(t)'
  <2>1. Once(t)
    BY <1>4 DEF SessionInv
  <2>2. CASE handshakes[t].session # s
    BY <1>0, <1>f, <1>4, <2>1, <2>2 DEF Once, Saved
  <2>3. CASE handshakes[t].session = s
    <3>1. handshakes'[t].disturbed \/ ~CopiesOut(r, s)
      BY <1>4, <2>3
    <3> QED
      BY <1>0, <1>f, <1>4, <2>1, <2>3, <3>1 DEF Once, Saved, CopiesOut, Copying
  <2> QED
    BY <2>2, <2>3
<1>5. ASSUME NEW q \in Request PROVE Prepares(q)'
  BY <1>0, <1>f, <1>5 DEF SessionInv, Prepares
<1>6. \A q \in Request : handling'[q].pc = "refused" => ~handling'[q].fair
  BY <1>0 DEF SessionInv
<1> QED
  BY <1>1, <1>2, <1>3, <1>4, <1>5, <1>6 DEF SessionInv

\* A request comes in, loads its session into copy c, and sets or clears
\* there the state of provider p, about handshake t.
Loads(r, c, p, t) ==
  /\ handling[r] = Idle /\ Authenticated
  /\ UNCHANGED <<store, cookie, made, ended>>
  /\ handling' = [handling EXCEPT ![r] = c]
  /\ c.session = cookie /\ c.token = t
  /\ c.copy = [store[cookie] EXCEPT ![p] = c.copy[p]] /\ c.copy[p] \in {0, t}
  /\ c.copy[p] = t => handshakes'[t].session = cookie /\ handshakes'[t].of = p
  /\ c.pc = "refused" => ~c.fair

\* It disturbs the handshakes of its session, other than t, that are with p
\* or have a second copy out.
Overlaps(r, p, t) ==
  /\ t \in DOMAIN handshakes'
  /\ DOMAIN handshakes' \ {t} \subseteq DOMAIN handshakes
  /\ DOMAIN handshakes \subseteq DOMAIN handshakes'
  /\ \A u \in DOMAIN handshakes :
       handshakes'[u].session = handshakes[u].session /\ handshakes'[u].of = handshakes[u].of
  /\ \A u \in DOMAIN handshakes \ {t} :
       /\ Follows(handshakes'[u], handshakes[u])
       /\ handshakes[u].session = cookie /\ (handshakes[u].of = p \/ CopiesOut(r, cookie)) =>
            handshakes'[u].disturbed
  /\ \A q \in Request : handling[q].pc = "authorize" => handling[q].token # t

LEMMA LoadStep ==
  ASSUME SessionInv, SessionTypes', NEW r \in Request, NEW c \in Copies, NEW p \in Provider, NEW t,
         Loads(r, c, p, t), Overlaps(r, p, t), Kept(t)', Once(t)', Prepares(r)'
  PROVE  SessionInv'
<1> USE DEF Loads, Overlaps
<1>0. /\ \A q \in Request : handling'[q] = IF q = r THEN c ELSE handling[q]
      /\ handling[r].pc = "idle" /\ cookie \in DOMAIN store
      /\ \A q \in Request : handling[q].pc = "authorize" => Copying(handling[q])
      /\ store[cookie] \in States
  BY DEF SessionInv, SessionTypes, Copying, Idle, Authenticated
<1>1. StatesAreOwn'
  <2>1. OwnStates(store[cookie], cookie)
    BY <1>0 DEF SessionInv, StatesAreOwn
  <2>2. OwnStates(c.copy, cookie)'
    <3> SUFFICES ASSUME NEW x \in Provider, c.copy[x] # 0
                 PROVE  /\ c.copy[x] \in DOMAIN handshakes'
                        /\ handshakes'[c.copy[x]].session = cookie /\ handshakes'[c.copy[x]].of = x
      BY DEF OwnStates
    <3>1. CASE x = p
      BY <3>1
    <3>2. CASE x # p
      <4>1. c.copy[x] = store[cookie][x]
        BY <1>0, <3>2 DEF States
      <4> QED
        BY <2>1, <4>1 DEF OwnStates
    <3> QED
      BY <3>1, <3>2
  <2>3. \A x \in DOMAIN store : OwnStates(store[x], x)'
    BY DEF SessionInv, StatesAreOwn, OwnStates
  <2>4. \A q \in Request \ {r} :
          Copying(handling[q]) => OwnStates(handling[q].copy, handling[q].session)'
    BY <1>0 DEF SessionInv, StatesAreOwn, OwnStates
  <2> QED
    BY <1>0, <2>2, <2>3, <2>4 DEF StatesAreOwn, OwnStates
<1>2. EndedIsGone'
  BY <1>0 DEF SessionInv, EndedIsGone
<1>3. ASSUME NEW u \in DOMAIN handshakes', u # t PROVE Kept(u)' /\ Once(u)'
  <2>0. u \in DOMAIN handshakes /\ handshakes[u] \in Handshake /\ Kept(u) /\ Once(u)
    BY <1>3, ElementOfSeq, LenProperties DEF SessionInv, SessionTypes
  <2>1. /\ handshakes'[u].sent = handshakes[u].sent /\ handshakes'[u].accepted = handshakes[u].accepted
        /\ handshakes'[u].expired = handshakes[u].expired
        /\ handshakes[u].disturbed => handshakes'[u].disturbed
        /\ handshakes[u].session = cookie /\ (handshakes[u].of = p \/ CopiesOut(r, cookie)) =>
             handshakes'[u].disturbed
        /\ handshakes[u].of \in Provider
    BY <1>3, <2>0 DEF Follows, Handshake
  <2>s. handshakes'[u].session = handshakes[u].session /\ handshakes'[u].of = handshakes[u].of
    BY <2>0
  <2>2. CASE handshakes[u].session # cookie
    <3>1. \A q \in Request : Copying(handling'[q]) /\ handling'[q].session = handshakes[u].session =>
            Copying(handling[q]) /\ handling'[q] = handling[q]
      BY <1>0, <2>2
    <3>2. \A q \in Request : Copying(handling[q]) /\ handling[q].session = handshakes[u].session =>
            handling'[q] = handling[q]
      BY <1>0 DEF Copying
    <3>3. Kept(u)'
      BY <2>0, <2>1, <2>s, <3>1 DEF Kept
    <3>4. Once(u)'
      BY <2>0, <2>1, <2>s, <3>1, <3>2 DEF Once
    <3> QED
      BY <3>3, <3>4
  <2>3. CASE handshakes[u].session = cookie /\ ~handshakes'[u].disturbed
    <3>1. c.copy[handshakes[u].of] = store[cookie][handshakes[u].of]
      BY <1>0, <2>1, <2>3 DEF States
    <3>2. \A q \in Request \ {r} : Copying(handling[q]) => handling[q].session # cookie
      BY <2>1, <2>3 DEF CopiesOut, Copying
    <3>3. ~Copying(handling[r])
      BY <1>0 DEF Copying
    <3>4. Kept(u)'
      BY <1>0, <2>0, <2>1, <2>3, <3>1, <3>2 DEF Kept
    <3>5. Once(u)'
      BY <1>0, <2>0, <2>1, <2>3, <3>1, <3>2, <3>3 DEF Once, Copies, Copying
    <3> QED
      BY <3>4, <3>5
  <2>4. CASE handshakes'[u].disturbed
    BY <2>4 DEF Kept, Once
  <2> QED
    BY <2>2, <2>3, <2>4
<1>4. ASSUME NEW q \in Request PROVE Prepares(q)'
  <2>1. CASE q # r
    <3>0. Prepares(q) /\ handling'[q] = handling[q]
      BY <1>0, <2>1 DEF SessionInv
    <3>1. CASE handling[q].pc = "authorize"
      <4> DEFINE u == handling[q].token
      <4>1. u \in DOMAIN handshakes \ {t} /\ handshakes[u] \in Handshake
        BY <3>0, <3>1, ElementOfSeq, LenProperties DEF Prepares, SessionInv, SessionTypes
      <4>2. handshakes'[u].sent = handshakes[u].sent /\ handshakes'[u].accepted = handshakes[u].accepted
        BY <4>1 DEF Follows
      <4> QED
        BY <1>0, <2>1, <3>0, <3>1, <4>1, <4>2 DEF Prepares
    <3> QED
      BY <3>0, <3>1 DEF Prepares
  <2> QED
    BY <2>1
<1>5. \A q \in Request : handling'[q].pc = "refused" => ~handling'[q].fair
  BY <1>0 DEF SessionInv
<1> QED
  BY <1>1, <1>2, <1>3, <1>4, <1>5 DEF SessionInv
-----------------------------------------------------------------------------
(* What the actions do to the sequence of handshakes. *)

LEMMA HandshakeSeq ==
  ASSUME NEW hs \in Seq(Handshake), NEW f, f = [t \in DOMAIN hs |-> f[t]],
         \A t \in DOMAIN hs : f[t] \in Handshake
  PROVE  f \in Seq(Handshake) /\ Len(f) = Len(hs) /\ DOMAIN f = DOMAIN hs
<1>1. Len(hs) \in Nat /\ DOMAIN hs = 1..Len(hs)
  BY LenProperties
<1>2. f \in [1..Len(hs) -> Handshake]
  BY <1>1
<1>3. f \in Seq(Handshake)
  BY <1>1, <1>2, SeqDef
<1> QED
  BY <1>1, <1>2, <1>3, LenProperties

LEMMA DisturbedFollows ==
  ASSUME SessionTypes, NEW r \in Request, NEW s
  PROVE  /\ Disturbed(r, s) \in Seq(Handshake)
         /\ Len(Disturbed(r, s)) = Len(handshakes) /\ DOMAIN Disturbed(r, s) = DOMAIN handshakes
         /\ \A t \in DOMAIN handshakes :
              /\ Follows(Disturbed(r, s)[t], handshakes[t])
              /\ handshakes[t].session = s /\ CopiesOut(r, s) => Disturbed(r, s)[t].disturbed
<1> DEFINE f == Disturbed(r, s)
           d(t) == handshakes[t].disturbed \/ (handshakes[t].session = s /\ CopiesOut(r, s))
<1>1. f = [t \in DOMAIN handshakes |-> [handshakes[t] EXCEPT !.disturbed = d(t)]]
  BY DEF Disturbed
<1>2. \A t \in DOMAIN handshakes : d(t) \in BOOLEAN
  OBVIOUS
<1>3. \A t \in DOMAIN handshakes : handshakes[t].disturbed => d(t)
  OBVIOUS
<1>4. \A t \in DOMAIN handshakes : handshakes[t].session = s /\ CopiesOut(r, s) => d(t)
  OBVIOUS
<1> HIDE DEF f, d
<1>5. \A t \in DOMAIN handshakes : f[t] = [handshakes[t] EXCEPT !.disturbed = d(t)]
  BY <1>1
<1>6. \A t \in DOMAIN handshakes : f[t] \in Handshake /\ f[t].disturbed = d(t)
  BY ZenonT(60), <1>2, <1>5, HandshakesOf DEF Handshake
<1>7. \A t \in DOMAIN handshakes : Follows(f[t], handshakes[t])
  BY ZenonT(60), <1>3, <1>5, <1>6, HandshakesOf DEF Handshake, Follows
<1>8. f \in Seq(Handshake) /\ Len(f) = Len(handshakes) /\ DOMAIN f = DOMAIN handshakes
  BY <1>1, <1>6, HandshakeSeq DEF SessionTypes
<1> QED
  BY <1>4, <1>6, <1>7, <1>8 DEF f

LEMMA OutdatedFollows ==
  ASSUME NEW hs \in Seq(Handshake), NEW p, NEW but
  PROVE  /\ Outdated(p, but, hs) \in Seq(Handshake)
         /\ Len(Outdated(p, but, hs)) = Len(hs) /\ DOMAIN Outdated(p, but, hs) = DOMAIN hs
         /\ \A t \in DOMAIN hs :
              /\ Follows(Outdated(p, but, hs)[t], hs[t])
              /\ hs[t].session = cookie /\ hs[t].of = p /\ t # but =>
                   Outdated(p, but, hs)[t].disturbed
<1> DEFINE f == Outdated(p, but, hs)
           d(t) == hs[t].disturbed \/ (hs[t].session = cookie /\ hs[t].of = p /\ t # but)
<1>0. \A t \in DOMAIN hs : hs[t] \in Handshake
  BY LenProperties, ElementOfSeq
<1>1. f = [t \in DOMAIN hs |-> [hs[t] EXCEPT !.disturbed = d(t)]]
  BY DEF Outdated
<1>2. \A t \in DOMAIN hs : d(t) \in BOOLEAN
  OBVIOUS
<1>3. \A t \in DOMAIN hs : hs[t].disturbed => d(t)
  OBVIOUS
<1>4. \A t \in DOMAIN hs : hs[t].session = cookie /\ hs[t].of = p /\ t # but => d(t)
  OBVIOUS
<1> HIDE DEF f, d
<1>5. \A t \in DOMAIN hs : f[t] = [hs[t] EXCEPT !.disturbed = d(t)]
  BY <1>1
<1>6. \A t \in DOMAIN hs : f[t] \in Handshake /\ f[t].disturbed = d(t)
  BY <1>0, <1>2, <1>5 DEF Handshake
<1>7. \A t \in DOMAIN hs : Follows(f[t], hs[t])
  BY ZenonT(60), <1>0, <1>3, <1>5, <1>6 DEF Handshake, Follows
<1>8. f \in Seq(Handshake) /\ Len(f) = Len(hs) /\ DOMAIN f = DOMAIN hs
  BY <1>1, <1>6, HandshakeSeq
<1> QED
  BY <1>4, <1>6, <1>7, <1>8 DEF f
\* Both at once, as a request that comes in does.
LEMMA ArrivalFollows ==
  ASSUME SessionTypes, NEW r \in Request, NEW p, NEW but, NEW now,
         now = Outdated(p, but, Disturbed(r, cookie))
  PROVE  /\ now \in Seq(Handshake)
         /\ Len(now) = Len(handshakes) /\ DOMAIN now = DOMAIN handshakes
         /\ \A t \in DOMAIN handshakes :
              /\ Follows(now[t], handshakes[t])
              /\ handshakes[t].session = cookie /\ handshakes[t].of = p /\ t # but => now[t].disturbed
              /\ handshakes[t].session = cookie /\ CopiesOut(r, cookie) => now[t].disturbed
<1> DEFINE hs == Disturbed(r, cookie)
<1>1. /\ hs \in Seq(Handshake) /\ Len(hs) = Len(handshakes) /\ DOMAIN hs = DOMAIN handshakes
      /\ \A t \in DOMAIN handshakes :
           /\ Follows(hs[t], handshakes[t])
           /\ handshakes[t].session = cookie /\ CopiesOut(r, cookie) => hs[t].disturbed
  BY DisturbedFollows
<1> HIDE DEF hs
<1>2. /\ now \in Seq(Handshake) /\ Len(now) = Len(hs) /\ DOMAIN now = DOMAIN hs
      /\ \A t \in DOMAIN hs :
           /\ Follows(now[t], hs[t])
           /\ hs[t].session = cookie /\ hs[t].of = p /\ t # but => now[t].disturbed
  BY <1>1, OutdatedFollows DEF hs
<1> QED
  BY <1>1, <1>2 DEF Follows

LEMMA EndTypes ==
  ASSUME SessionTypes, NEW r \in Request, handling[r] \in Copies, handling[r].session \in 1..made,
         UNCHANGED <<cookie, made, ended>>,
         handling' = [handling EXCEPT ![r] = Idle],
         store' = Saved(handling[r].session, handling[r].copy),
         handshakes' \in Seq(Handshake), Len(handshakes') = Len(handshakes),
         DOMAIN handshakes' = DOMAIN handshakes,
         \A t \in DOMAIN handshakes : handshakes'[t].session = handshakes[t].session
  PROVE  SessionTypes'
<1>1. handling[r].copy \in States
  BY DEF Copies
<1>2. DOMAIN store' \subseteq 1..made' /\ \A s \in DOMAIN store' : store'[s] \in States
  BY <1>1 DEF SessionTypes, Saved
<1>3. /\ handling' \in [Request -> {Idle} \cup Visits \cup Copies]
      /\ \A q \in Request : Copying(handling'[q]) => handling'[q].session <= made'
      /\ \A q \in Request : handling'[q].pc = "logout" => handling'[q].session \in 1..made'
  BY DEF SessionTypes, Copying, Idle
<1>4. \A t \in DOMAIN handshakes' : handshakes'[t].session <= made'
  BY SMTT(40) DEF SessionTypes
<1> QED
  BY <1>2, <1>3, <1>4 DEF SessionTypes, States, Token

LEMMA AuthorizeEndsKeeps ==
  ASSUME SessionInv, NEW r \in Request, AuthorizeEnds(r)
  PROVE  SessionInv'
<1> DEFINE s == handling[r].session
           t == handling[r].token
           hs == Disturbed(r, s)
<1>1. /\ handling[r] \in Copies /\ Copying(handling[r]) /\ s \in 1..made
  BY SessionsAssumption
  DEF AuthorizeEnds, SessionInv, SessionTypes, Copying, Idle, Visits, Copies, SessionId
<1>2. /\ hs \in Seq(Handshake) /\ Len(hs) = Len(handshakes) /\ DOMAIN hs = DOMAIN handshakes
      /\ \A u \in DOMAIN handshakes :
           /\ Follows(hs[u], handshakes[u])
           /\ handshakes[u].session = s /\ CopiesOut(r, s) => hs[u].disturbed
  BY DisturbedFollows DEF SessionInv
<1>3. handshakes' = [hs EXCEPT ![t].sent = TRUE]
  BY DEF AuthorizeEnds
<1> HIDE DEF hs
<1>4. t \in DOMAIN handshakes /\ \A u \in DOMAIN handshakes : hs[u] \in Handshake
  BY <1>2, LenProperties, ElementOfSeq DEF SessionInv, Prepares, AuthorizeEnds
<1>5. /\ DOMAIN handshakes' = DOMAIN handshakes
      /\ \A u \in DOMAIN handshakes : handshakes'[u] = IF u = t THEN [hs[u] EXCEPT !.sent = TRUE] ELSE hs[u]
  BY <1>2, <1>3, <1>4
<1>6. [hs[t] EXCEPT !.sent = TRUE] \in Handshake
  BY <1>4, <1>2 DEF Handshake
<1>7. handshakes' \in Seq(Handshake) /\ Len(handshakes') = Len(handshakes)
  BY <1>2, <1>3, <1>4, <1>6, ExceptSeq, LenProperties
<1>8. ASSUME NEW u \in DOMAIN handshakes
      PROVE  /\ handshakes'[u].session = handshakes[u].session
             /\ handshakes[u].session = s /\ CopiesOut(r, s) => handshakes'[u].disturbed
             /\ \/ Follows(handshakes'[u], handshakes[u])
                \/ u = t /\ Follows(handshakes'[u], [handshakes[u] EXCEPT !.sent = TRUE])
  <2>1. CASE u # t
    BY ZenonT(60), <1>2, <1>5, <2>1 DEF Follows
  <2>2. CASE u = t
    <3>1. handshakes[u] \in Handshake /\ hs[u] \in Handshake
      BY <1>4, HandshakesOf DEF SessionInv
    <3>2. Follows(hs[u], handshakes[u]) /\ handshakes'[u] = [hs[u] EXCEPT !.sent = TRUE]
      BY <1>2, <1>5, <2>2
    <3>3. handshakes[u].session = s /\ CopiesOut(r, s) => hs[u].disturbed
      BY <1>2
    <3>4. handshakes'[u].disturbed = hs[u].disturbed
      BY <3>1, <3>2 DEF Handshake
    <3>5. /\ handshakes'[u].session = handshakes[u].session
          /\ Follows(handshakes'[u], [handshakes[u] EXCEPT !.sent = TRUE])
      BY SMTT(40), <3>1, <3>2, <3>4 DEF Follows, Handshake
    <3> QED
      BY <2>2, <3>3, <3>4, <3>5
  <2> QED
    BY <2>1, <2>2
<1>9. SessionTypes'
  BY <1>1, <1>5, <1>7, <1>8, EndTypes DEF SessionInv, AuthorizeEnds, Handles
<1> QED
  BY <1>1, <1>5, <1>8, <1>9, SaveStep DEF AuthorizeEnds, Handles

LEMMA CallbackEndsKeeps ==
  ASSUME SessionInv, NEW r \in Request, CallbackEnds(r)
  PROVE  SessionInv'
<1> DEFINE s == handling[r].session
<1>1. /\ handling[r] \in Copies /\ Copying(handling[r]) /\ s \in 1..made
  BY SessionsAssumption
  DEF CallbackEnds, SessionInv, SessionTypes, Copying, Idle, Visits, Copies, SessionId
<1>2. /\ handshakes' \in Seq(Handshake) /\ Len(handshakes') = Len(handshakes)
      /\ DOMAIN handshakes' = DOMAIN handshakes
      /\ \A u \in DOMAIN handshakes :
           /\ Follows(handshakes'[u], handshakes[u])
           /\ handshakes[u].session = s /\ CopiesOut(r, s) => handshakes'[u].disturbed
  BY DisturbedFollows DEF SessionInv, CallbackEnds
<1>3. \A u \in DOMAIN handshakes : handshakes'[u].session = handshakes[u].session
  BY <1>2 DEF Follows
<1>4. SessionTypes'
  BY <1>1, <1>2, <1>3, EndTypes DEF SessionInv, CallbackEnds, Handles
<1> QED
  BY <1>1, <1>2, <1>4, SaveStep DEF CallbackEnds, Handles
LEMMA ArrivalTypes ==
  ASSUME SessionTypes, NEW r \in Request, NEW c \in Copies, c.session = cookie, Authenticated,
         UNCHANGED <<store, cookie, made, ended>>,
         handling' = [handling EXCEPT ![r] = c],
         handshakes' \in Seq(Handshake), Len(handshakes') <= MaxHandshakes,
         \A t \in DOMAIN handshakes' : handshakes'[t].session <= made
  PROVE  SessionTypes'
<1>1. cookie <= made
  BY SessionsAssumption DEF SessionTypes, Authenticated
<1>2. /\ handling' \in [Request -> {Idle} \cup Visits \cup Copies]
      /\ \A q \in Request : Copying(handling'[q]) => handling'[q].session <= made'
      /\ \A q \in Request : handling'[q].pc = "logout" => handling'[q].session \in 1..made'
  BY <1>1 DEF SessionTypes, Copies
<1> QED
  BY <1>2 DEF SessionTypes, States, Token

LEMMA AuthorizeArrivesKeeps ==
  ASSUME SessionInv, NEW r \in Request, NEW p \in Provider, AuthorizeArrives(r, p)
  PROVE  SessionInv'
<1>0. PICK t : t = Len(handshakes) + 1
  OBVIOUS
<1> DEFINE now == Outdated(p, t, Disturbed(r, cookie))
           h == [of |-> p, session |-> cookie, sent |-> FALSE, accepted |-> 0, expired |-> FALSE,
                 disturbed |-> CopiesOut(r, cookie)]
<1>c. PICK c : c = [pc |-> "authorize", session |-> cookie, token |-> t, fair |-> FALSE,
                    copy |-> [store[cookie] EXCEPT ![p] = t]]
  OBVIOUS
<1>1. /\ cookie \in DOMAIN store /\ cookie \in 1..made /\ cookie \in SessionId
      /\ store[cookie] \in States /\ t \in Token /\ Len(handshakes) \in Nat
      /\ DOMAIN handshakes = 1..Len(handshakes)
      /\ handling[r] = Idle /\ t <= MaxHandshakes
  BY <1>0, HandshakesOf, SessionsAssumption
  DEF SessionInv, SessionTypes, AuthorizeArrives, Authenticated, SessionId, Token
<1>2. /\ now \in Seq(Handshake) /\ Len(now) = Len(handshakes) /\ DOMAIN now = DOMAIN handshakes
      /\ \A u \in DOMAIN handshakes :
           /\ Follows(now[u], handshakes[u])
           /\ handshakes[u].session = cookie /\ handshakes[u].of = p /\ u # t => now[u].disturbed
           /\ handshakes[u].session = cookie /\ CopiesOut(r, cookie) => now[u].disturbed
  BY ArrivalFollows DEF SessionInv
<1>3. handshakes' = Append(now, h) /\ handling' = [handling EXCEPT ![r] = c]
  BY <1>0, <1>c DEF AuthorizeArrives, Handles, StateKey
<1>4. CopiesOut(r, cookie) \in BOOLEAN
  BY DEF CopiesOut
<1>5. h \in Handshake
  BY <1>1, <1>4, SessionsAssumption DEF Handshake
<1>6. /\ h.of = p /\ h.session = cookie /\ h.sent = FALSE /\ h.accepted = 0
      /\ c.pc = "authorize" /\ c.session = cookie /\ c.token = t
      /\ c.copy = [store[cookie] EXCEPT ![p] = t]
  BY <1>c
<1>7. c \in Copies
  BY <1>1, <1>c DEF Copies, States
<1> HIDE DEF now, h
<1>8. /\ handshakes' \in Seq(Handshake) /\ Len(handshakes') = t /\ DOMAIN handshakes' = 1..t
      /\ \A u \in DOMAIN handshakes : handshakes'[u] = now[u]
      /\ handshakes'[t] = h
  BY <1>0, <1>1, <1>2, <1>3, <1>5, LenProperties
<1>9. \A u \in DOMAIN handshakes' : u \in DOMAIN handshakes \/ u = t
  BY <1>0, <1>1, <1>8
<1>10. SessionTypes'
  <2>1. \A u \in DOMAIN handshakes' : handshakes'[u].session <= made
    BY <1>1, <1>2, <1>6, <1>8, <1>9, SessionsAssumption DEF SessionInv, SessionTypes, Follows
  <2> QED
    BY <1>1, <1>3, <1>6, <1>7, <1>8, <2>1, ArrivalTypes DEF SessionInv, AuthorizeArrives
<1>11. Kept(t)' /\ Once(t)'
  BY <1>1, <1>6, <1>8 DEF Kept, Once
<1>12. \A q \in Request : handling[q].pc = "authorize" => handling[q].token # t
  BY <1>0, <1>1 DEF SessionInv, Prepares
<1>13. c.copy[p] = t
  BY <1>1, <1>6 DEF States
<1>14. Prepares(r)'
  <2>1. \A q \in Request : handling'[q] = IF q = r THEN c ELSE handling[q]
    BY <1>3 DEF SessionInv, SessionTypes
  <2> QED
    <3>1. handling'[r].token = t /\ handling'[r].pc = "authorize" /\ handling'[r].session = cookie
          /\ handling'[r].copy[p] = t
      BY <1>6, <1>13, <2>1
    <3>2. /\ t \in DOMAIN handshakes' /\ handshakes'[t].session = cookie /\ ~handshakes'[t].sent
          /\ handshakes'[t].accepted = 0 /\ handshakes'[t].of = p
      BY <1>1, <1>6, <1>8 DEF Token
    <3>3. \A q \in Request \ {r} : handling'[q].pc = "authorize" => handling'[q].token # t
      BY <1>12, <2>1
    <3> QED
      BY <3>1, <3>2, <3>3 DEF Prepares
<1>15. /\ t \in DOMAIN handshakes' /\ DOMAIN handshakes \subseteq DOMAIN handshakes'
       /\ DOMAIN handshakes' \ {t} \subseteq DOMAIN handshakes /\ t \notin DOMAIN handshakes
  BY <1>0, <1>1, <1>8
<1>16. \A u \in DOMAIN handshakes :
         /\ Follows(handshakes'[u], handshakes[u])
         /\ handshakes'[u].session = handshakes[u].session /\ handshakes'[u].of = handshakes[u].of
         /\ handshakes[u].session = cookie /\ (handshakes[u].of = p \/ CopiesOut(r, cookie)) =>
              handshakes'[u].disturbed
  BY <1>2, <1>8, <1>15 DEF Follows
<1>17. Authenticated /\ UNCHANGED <<store, cookie, made, ended>>
  BY DEF AuthorizeArrives
<1>18. Loads(r, c, p, t)
  BY <1>1, <1>3, <1>6, <1>8, <1>13, <1>17 DEF Loads
<1>19. Overlaps(r, p, t)
  BY <1>12, <1>15, <1>16 DEF Overlaps
<1> QED
  BY <1>7, <1>10, <1>11, <1>14, <1>18, <1>19, LoadStep
LEMMA CallbackArrivesKeeps ==
  ASSUME SessionInv, NEW r \in Request, NEW t \in DOMAIN handshakes, CallbackArrives(r, t)
  PROVE  SessionInv'
<1> DEFINE valid == store[cookie][handshakes[t].of] = t /\ ~handshakes[t].expired
           accept == valid /\ Outdated(handshakes[t].of, t, Disturbed(r, cookie))[t].accepted < MaxHandshakes
<1>p. PICK p : p = handshakes[t].of
  OBVIOUS
<1> DEFINE now == Outdated(p, t, Disturbed(r, cookie))
           fair == now[t].session = cookie /\ now[t].accepted = 0 /\ ~now[t].expired /\ ~now[t].disturbed
<1>c. PICK c : c = [pc |-> IF valid THEN "exchange" ELSE "refused", session |-> cookie, token |-> t,
                    fair |-> fair, copy |-> [store[cookie] EXCEPT ![p] = 0]]
  OBVIOUS
<1>1. /\ cookie \in DOMAIN store /\ cookie \in 1..made /\ cookie \in SessionId
      /\ store[cookie] \in States /\ t \in Token /\ t # 0 /\ p \in Provider
      /\ DOMAIN handshakes = 1..Len(handshakes) /\ Len(handshakes) \in 0..MaxHandshakes
      /\ handling[r] = Idle /\ handshakes[t] \in Handshake /\ handshakes[t].sent
      /\ UNCHANGED <<store, cookie, made, ended>>
  BY <1>p, HandshakesOf, SessionsAssumption
  DEF SessionInv, SessionTypes, CallbackArrives, Authenticated, SessionId, Token, Handshake
<1>2. /\ now \in Seq(Handshake) /\ Len(now) = Len(handshakes) /\ DOMAIN now = DOMAIN handshakes
      /\ \A u \in DOMAIN handshakes :
           /\ Follows(now[u], handshakes[u])
           /\ handshakes[u].session = cookie /\ handshakes[u].of = p /\ u # t => now[u].disturbed
           /\ handshakes[u].session = cookie /\ CopiesOut(r, cookie) => now[u].disturbed
  BY ArrivalFollows DEF SessionInv
<1>3. /\ handling' = [handling EXCEPT ![r] = c]
      /\ handshakes' = IF valid /\ now[t].accepted < MaxHandshakes
                         THEN [now EXCEPT ![t].accepted = @ + 1] ELSE now
  BY <1>p, <1>c DEF CallbackArrives, Handles, StateKey, Consumed
<1>4. /\ c.pc = IF valid THEN "exchange" ELSE "refused"
      /\ c.session = cookie /\ c.token = t /\ c.copy = [store[cookie] EXCEPT ![p] = 0]
      /\ c.fair = fair
  BY <1>c
<1>5. valid \in BOOLEAN /\ fair \in BOOLEAN
  OBVIOUS
<1>6. valid => store[cookie][p] = t /\ ~handshakes[t].expired
  BY <1>p
<1>7. store[cookie][p] = t /\ ~handshakes[t].expired => valid
  BY <1>p
<1>8. fair => now[t].session = cookie /\ now[t].accepted = 0 /\ ~now[t].expired /\ ~now[t].disturbed
  OBVIOUS
<1> HIDE DEF valid, fair, now
<1>9. c \in Copies /\ c.copy[p] = 0
  <2>1. [store[cookie] EXCEPT ![p] = 0] \in States /\ [store[cookie] EXCEPT ![p] = 0][p] = 0
    BY <1>1 DEF States
  <2> QED
    BY <1>1, <1>5, <1>c, <2>1 DEF Copies
<1>10. now[t] \in Handshake /\ Follows(now[t], handshakes[t])
  BY <1>2, LenProperties, ElementOfSeq
<1>11. /\ \A u \in DOMAIN handshakes \ {t} : handshakes'[u] = now[u]
       /\ handshakes' \in Seq(Handshake) /\ Len(handshakes') = Len(handshakes)
       /\ DOMAIN handshakes' = DOMAIN handshakes
  <2>1. CASE valid /\ now[t].accepted < MaxHandshakes
    <3>1. [now[t] EXCEPT !.accepted = @ + 1] \in Handshake
      BY <1>10, <2>1, SessionsAssumption DEF Handshake
    <3>2. handshakes' = [now EXCEPT ![t] = [now[t] EXCEPT !.accepted = @ + 1]]
      BY <1>3, <2>1
    <3> QED
      BY <1>1, <1>2, <3>1, <3>2, ExceptSeq, LenProperties
  <2>2. CASE ~(valid /\ now[t].accepted < MaxHandshakes)
    BY <1>2, <1>3, <2>2
  <2> QED
    BY <2>1, <2>2
<1>12. /\ handshakes'[t].session = handshakes[t].session /\ handshakes'[t].of = p
       /\ handshakes'[t].expired = handshakes[t].expired
       /\ handshakes'[t].disturbed = now[t].disturbed
       /\ handshakes[t].disturbed => now[t].disturbed
       /\ handshakes[t].session = cookie /\ CopiesOut(r, cookie) => now[t].disturbed
       /\ valid /\ handshakes[t].accepted = 0 => handshakes'[t].accepted = 1
       /\ ~valid => handshakes'[t].accepted = handshakes[t].accepted
       /\ handshakes'[t].accepted = 0 => handshakes[t].accepted = 0
  <2>1. handshakes[t].session = cookie /\ CopiesOut(r, cookie) => now[t].disturbed
    BY <1>2
  <2>2. CASE valid /\ now[t].accepted < MaxHandshakes
    <3>1. handshakes'[t] = [now[t] EXCEPT !.accepted = @ + 1]
      BY <1>2, <1>3, <2>2
    <3> QED
      BY <1>1, <1>10, <1>p, <2>1, <2>2, <3>1 DEF Handshake, Follows
  <2>3. CASE ~(valid /\ now[t].accepted < MaxHandshakes)
    <3>1. handshakes'[t] = now[t]
      BY <1>3, <2>3
    <3>2. handshakes[t].accepted = 0 => 0 < MaxHandshakes
      BY <1>1, SessionsAssumption DEF Token
    <3> QED
      BY <1>1, <1>10, <1>p, <2>1, <2>3, <3>1, <3>2 DEF Handshake, Follows
  <2> QED
    BY <2>2, <2>3
<1>13. SessionTypes'
  <2>1. \A u \in DOMAIN handshakes' : handshakes'[u].session <= made
    BY ZenonT(60), <1>2, <1>11, <1>12 DEF SessionInv, SessionTypes, Follows
  <2>2. Len(handshakes') <= MaxHandshakes /\ Authenticated
    BY <1>1, <1>11, SessionsAssumption DEF Authenticated
  <2> QED
    BY <1>1, <1>3, <1>4, <1>9, <1>11, <2>1, <2>2, ArrivalTypes DEF SessionInv
<1>14. handshakes[t].session = cookie /\ ~now[t].disturbed =>
         \A q \in Request : Copying(handling[q]) => handling[q].session # cookie
  BY <1>1, <1>12 DEF CopiesOut, Copying, Idle
<1>15. store[cookie][p] = t => handshakes[t].session = cookie
  BY <1>1 DEF SessionInv, StatesAreOwn, OwnStates
<1>16. /\ \A q \in Request : handling'[q] = IF q = r THEN c ELSE handling[q]
       /\ ~Copying(handling[r]) /\ Copying(c)
  BY <1>1, <1>3, <1>4 DEF SessionInv, SessionTypes, Copying, Idle
<1>17. Kept(t) /\ Once(t) /\ handshakes[t].accepted \in Nat
  BY <1>1, SessionsAssumption DEF SessionInv, Handshake
<1>18. handshakes[t].session = cookie /\ ~now[t].disturbed /\ handshakes[t].accepted = 0 /\ ~handshakes[t].expired
         => store[cookie][p] = t
  BY <1>1, <1>12, <1>17, <1>p DEF Kept
<1>19. Kept(t)'
  <2>1. CASE handshakes[t].session = cookie
    BY <1>7, <1>12, <1>18, <2>1 DEF Kept
  <2>2. CASE handshakes[t].session # cookie
    <3>1. ~valid
      BY <1>6, <1>15, <2>2
    <3> QED
      BY <1>1, <1>4, <1>12, <1>16, <1>17, <1>p, <2>2, <3>1 DEF Kept
  <2> QED
    BY <2>1, <2>2
<1>20. Once(t)'
  <2>1. CASE handshakes[t].session = cookie /\ ~now[t].disturbed
    <3>1. handshakes[t].accepted > 0 => handshakes[t].accepted = 1 /\ store[cookie][p] # t
      BY <1>1, <1>12, <1>14, <1>17, <1>p, <2>1 DEF Once
    <3>2. handshakes'[t].accepted > 0 => handshakes'[t].accepted = 1
      BY <1>6, <1>12, <1>17, <3>1
    <3>3. \A q \in Request : Copying(handling'[q]) /\ handling'[q].session = cookie => q = r
      BY <1>14, <1>16, <2>1
    <3>4. Copying(handling'[r]) /\ handling'[r].session = cookie /\ handling'[r].copy[p] # t
      BY <1>1, <1>4, <1>9, <1>16
    <3> QED
      BY <1>12, <2>1, <3>2, <3>3, <3>4 DEF Once
  <2>2. CASE handshakes[t].session # cookie
    <3>1. ~valid
      BY <1>6, <1>15, <2>2
    <3> QED
      BY <1>1, <1>4, <1>12, <1>16, <1>17, <1>p, <2>2, <3>1 DEF Once
  <2>3. CASE now[t].disturbed
    BY <1>12, <2>3 DEF Once
  <2> QED
    BY <2>1, <2>2, <2>3
<1>21. Prepares(r)'
  BY <1>4, <1>16 DEF Prepares
<1>22. c.pc = "refused" => ~c.fair
  BY <1>4, <1>7, <1>8, <1>10, <1>18 DEF Follows
<1>23. Loads(r, c, p, t)
  BY <1>1, <1>3, <1>4, <1>9, <1>22 DEF Loads, Authenticated
<1>24. Overlaps(r, p, t)
  <2>1. \A q \in Request : handling[q].pc = "authorize" => handling[q].token # t
    BY <1>1 DEF SessionInv, Prepares
  <2>2. \A u \in DOMAIN handshakes :
          handshakes'[u].session = handshakes[u].session /\ handshakes'[u].of = handshakes[u].of
    BY <1>2, <1>11, <1>12, <1>p DEF Follows
  <2>3. \A u \in DOMAIN handshakes \ {t} :
          /\ Follows(handshakes'[u], handshakes[u])
          /\ handshakes[u].session = cookie /\ (handshakes[u].of = p \/ CopiesOut(r, cookie)) =>
               handshakes'[u].disturbed
    BY <1>2, <1>11
  <2> QED
    BY <1>11, <2>1, <2>2, <2>3 DEF Overlaps
<1> QED
  BY <1>1, <1>9, <1>13, <1>19, <1>20, <1>21, <1>23, <1>24, LoadStep

LEMMA HandshakeExpiresKeeps ==
  ASSUME SessionInv, NEW t \in DOMAIN handshakes, HandshakeExpires(t)
  PROVE  SessionInv'
<1>1. /\ handshakes[t] \in Handshake /\ t \in 1..Len(handshakes) /\ SessionTypes
      /\ UNCHANGED <<store, cookie, handling, made, ended>>
      /\ handshakes' = [handshakes EXCEPT ![t] = [handshakes[t] EXCEPT !.expired = TRUE]]
  BY HandshakesOf DEF SessionInv, HandshakeExpires
<1>2. [handshakes[t] EXCEPT !.expired = TRUE] \in Handshake
  BY <1>1 DEF Handshake
<1>3. /\ handshakes' \in Seq(Handshake) /\ Len(handshakes') = Len(handshakes)
      /\ DOMAIN handshakes' = DOMAIN handshakes
  BY <1>1, <1>2, ExceptSeq, LenProperties DEF SessionTypes
<1>4. ASSUME NEW u \in DOMAIN handshakes
      PROVE  /\ handshakes'[u].session = handshakes[u].session /\ handshakes'[u].of = handshakes[u].of
             /\ handshakes'[u].sent = handshakes[u].sent
             /\ handshakes'[u].accepted = handshakes[u].accepted
             /\ handshakes'[u].disturbed = handshakes[u].disturbed
             /\ handshakes[u].expired => handshakes'[u].expired
  BY <1>1 DEF Handshake
<1>5. SessionTypes'
  BY <1>1, <1>3, <1>4 DEF SessionTypes, Token, States
<1>6. StatesAreOwn'
  BY <1>1, <1>3, <1>4 DEF SessionInv, StatesAreOwn, OwnStates
<1>7. EndedIsGone'
  BY <1>1 DEF SessionInv, EndedIsGone
<1>8. ASSUME NEW u \in DOMAIN handshakes' PROVE Kept(u)'
  BY <1>1, <1>3, <1>4 DEF SessionInv, Kept
<1>9. ASSUME NEW u \in DOMAIN handshakes' PROVE Once(u)'
  BY <1>1, <1>3, <1>4 DEF SessionInv, Once
<1>10. \A q \in Request : Prepares(q)'
  BY <1>1, <1>3, <1>4 DEF SessionInv, Prepares
<1> QED
  BY <1>1, <1>5, <1>6, <1>7, <1>8, <1>9, <1>10 DEF SessionInv

LEMMA ServerDeathKeeps ==
  ASSUME SessionInv, SessionServerDies
  PROVE  SessionInv'
<1>1. /\ \A q \in Request : handling'[q] = Idle
      /\ UNCHANGED <<store, cookie, made, ended>> /\ SessionTypes
      /\ handling' \in [Request -> {Idle} \cup Visits \cup Copies]
      /\ handshakes' = [t \in DOMAIN handshakes |-> [handshakes[t] EXCEPT !.disturbed = TRUE]]
  BY DEF SessionInv, SessionServerDies
<1>2. \A t \in DOMAIN handshakes : handshakes[t] \in Handshake
  BY <1>1, HandshakesOf
<1>3. \A t \in DOMAIN handshakes :
        /\ handshakes'[t] \in Handshake /\ handshakes'[t].disturbed
        /\ handshakes'[t].session = handshakes[t].session /\ handshakes'[t].of = handshakes[t].of
  BY <1>1, <1>2 DEF Handshake
<1>4. /\ handshakes' \in Seq(Handshake) /\ Len(handshakes') = Len(handshakes)
      /\ DOMAIN handshakes' = DOMAIN handshakes
  BY <1>1, <1>3, HandshakeSeq DEF SessionTypes
<1>5. SessionTypes'
  BY <1>1, <1>3, <1>4 DEF SessionTypes, Token, States, Copying, Idle
<1>6. StatesAreOwn'
  BY <1>1, <1>3, <1>4 DEF SessionInv, StatesAreOwn, OwnStates, Copying, Idle
<1>7. EndedIsGone'
  BY <1>1 DEF SessionInv, EndedIsGone, Copying, Idle
<1>8. \A u \in DOMAIN handshakes' : Kept(u)' /\ Once(u)'
  BY <1>3, <1>4 DEF Kept, Once
<1>9. \A q \in Request : Prepares(q)' /\ handling'[q].pc # "refused"
  BY <1>1 DEF Prepares, Idle
<1> QED
  BY <1>5, <1>6, <1>7, <1>8, <1>9 DEF SessionInv

LEMMA SessionNext1 == SessionInv /\ [SessionNext]_sessionVars => SessionInv'
<1> SUFFICES ASSUME SessionInv, [SessionNext]_sessionVars PROVE SessionInv'
  OBVIOUS
<1>0. SessionTypes
  BY DEF SessionInv
<1>1. ASSUME NEW r \in Request, LoginArrives(r) PROVE SessionInv'
  <2>1. [pc |-> "login", session |-> cookie] \in Visits
    BY <1>0, SessionsAssumption DEF SessionTypes, Visits
  <2>2. \A q \in Request : handling'[q] =
           IF q = r THEN [pc |-> "login", session |-> cookie] ELSE handling[q]
    BY <1>0, <1>1 DEF SessionTypes, LoginArrives, Handles
  <2>3. SessionTypes'
    BY <1>0, <1>1, <2>1, <2>2 DEF SessionTypes, LoginArrives, Handles, Copying, Token, States
  <2>4. QuietCopies
    BY <1>1, <2>2 DEF QuietCopies, LoginArrives, Copying, Idle
  <2>q. QuietlyStored /\ EndsUncopied /\ handshakes' = handshakes
    BY <1>1 DEF LoginArrives, QuietlyStored, EndsUncopied
  <2> QED
    BY <2>3, <2>4, <2>q, QuietStep
<1>2. ASSUME NEW r \in Request, LoginMakesSession(r) PROVE SessionInv'
  <2>0. /\ made' = made + 1 /\ cookie' = made + 1 /\ handshakes' = handshakes /\ ended' = ended
        /\ \A q \in Request : handling'[q] = IF q = r THEN Idle ELSE handling[q]
        /\ handling' \in [Request -> {Idle} \cup Visits \cup Copies]
    BY <1>0, <1>2 DEF SessionTypes, LoginMakesSession, Handles
  <2>1. made \in Nat /\ made + 1 \in 0..MaxSessions
    BY <1>0, <1>2, SessionsAssumption DEF SessionTypes, LoginMakesSession
  <2>2. QuietlyStored
    <3>1. /\ DOMAIN store' = (DOMAIN store \ {handling[r].session}) \cup {made + 1}
          /\ \A s \in DOMAIN store' : store'[s] = IF s = made + 1 THEN NoStates ELSE store[s]
      BY <1>2 DEF LoginMakesSession
    <3> QED
      BY <3>1 DEF QuietlyStored
  <2>3. SessionTypes'
    <3>1. /\ DOMAIN store' \subseteq 1..(made + 1)
          /\ \A s \in DOMAIN store' : store'[s] \in States
      BY <1>0, <2>1, <2>2 DEF SessionTypes, NoStates, States, QuietlyStored
    <3>2. \A q \in Request : /\ Copying(handling'[q]) => handling'[q].session <= made + 1
                             /\ handling'[q].pc = "logout" => handling'[q].session \in 1..(made + 1)
      <4> SUFFICES ASSUME NEW q \in Request, q # r
                   PROVE  /\ Copying(handling[q]) => handling[q].session <= made + 1
                          /\ handling[q].pc = "logout" => handling[q].session \in 1..(made + 1)
        BY <2>0 DEF Copying, Idle
      <4>1. Copying(handling[q]) => handling[q].session \in Nat /\ handling[q].session <= made
        BY <1>0, SessionsAssumption DEF SessionTypes, Copies, Copying, Visits, Idle, SessionId
      <4> QED
        BY <1>0, <2>1, <4>1 DEF SessionTypes
    <3>3. \A t \in DOMAIN handshakes : handshakes[t].session <= made + 1
      BY <1>0, <2>1, HandshakesOf, SessionsAssumption DEF SessionTypes, Handshake, SessionId
    <3>4. ended \subseteq 1..(made + 1) /\ made + 1 \in 0..(made + 1)
      BY <1>0, <2>1 DEF SessionTypes
    <3> QED
      BY <1>0, <2>0, <2>1, <3>1, <3>2, <3>3, <3>4 DEF SessionTypes, Token, States
  <2>4. QuietCopies
    BY <1>2, <2>0 DEF QuietCopies, LoginMakesSession, Copying, Idle
  <2>5. EndsUncopied
    BY <2>0 DEF EndsUncopied
  <2> QED
    BY <2>0, <2>2, <2>3, <2>4, <2>5, QuietStep
<1>3. ASSUME NEW r \in Request, LogoutArrives(r) PROVE SessionInv'
  <2>1. [pc |-> "logout", session |-> cookie] \in Visits /\ cookie \in 1..made
    BY <1>0, <1>3, SessionsAssumption DEF SessionTypes, Visits, LogoutArrives, Authenticated
  <2>2. \A q \in Request : handling'[q] =
           IF q = r THEN [pc |-> "logout", session |-> cookie] ELSE handling[q]
    BY <1>0, <1>3 DEF SessionTypes, LogoutArrives, Handles
  <2>3. SessionTypes'
    BY <1>0, <1>3, <2>1, <2>2 DEF SessionTypes, LogoutArrives, Handles, Copying, Token, States
  <2>4. QuietCopies
    BY <1>3, <2>2 DEF QuietCopies, LogoutArrives, Copying, Idle
  <2>q. QuietlyStored /\ EndsUncopied /\ handshakes' = handshakes
    BY <1>3 DEF LogoutArrives, QuietlyStored, EndsUncopied
  <2> QED
    BY <2>3, <2>4, <2>q, QuietStep
<1>4. ASSUME NEW r \in Request, LogoutDestroys(r) PROVE SessionInv'
  <2>1. handling[r].session \in 1..made
    BY <1>0, <1>4 DEF SessionTypes, LogoutDestroys
  <2>2. \A q \in Request : handling'[q] = IF q = r THEN Idle ELSE handling[q]
    BY <1>0, <1>4 DEF SessionTypes, LogoutDestroys, Handles
  <2>3. /\ DOMAIN store' = DOMAIN store \ {handling[r].session}
        /\ \A s \in DOMAIN store' : store'[s] = store[s]
    BY <1>4 DEF LogoutDestroys, Removed
  <2>4. ended' \subseteq 1..made
    BY <1>0, <1>4, <2>1 DEF SessionTypes, LogoutDestroys
  <2>5. SessionTypes'
    BY <1>0, <1>4, <2>2, <2>3, <2>4
    DEF SessionTypes, LogoutDestroys, Handles, Copying, Token, States, Idle
  <2>6. QuietCopies
    BY <1>4, <2>2 DEF QuietCopies, LogoutDestroys, Copying, Idle
  <2>7. EndsUncopied
    <3> SUFFICES ASSUME NEW s \in ended', s \notin ended
                 PROVE  /\ s \in 1..made /\ s \notin DOMAIN store'
                        /\ \A q \in Request : Copying(handling[q]) => handling[q].session # s
      BY DEF EndsUncopied
    <3>1. s = handling[r].session /\ ~CopiesOut(r, s)
      BY <1>4 DEF LogoutDestroys
    <3>2. ~Copying(handling[r])
      BY <1>4 DEF LogoutDestroys, Copying
    <3> QED
      BY <2>1, <2>3, <3>1, <3>2 DEF CopiesOut, Copying
  <2>q. QuietlyStored /\ handshakes' = handshakes
    BY <1>4, <2>3 DEF LogoutDestroys, QuietlyStored
  <2> QED
    BY <2>5, <2>6, <2>7, <2>q, QuietStep
<1>5. ASSUME NEW r \in Request, NEW p \in Provider, AuthorizeArrives(r, p) PROVE SessionInv'
  BY <1>5, AuthorizeArrivesKeeps
<1>6. ASSUME NEW r \in Request, AuthorizeEnds(r) PROVE SessionInv'
  BY <1>6, AuthorizeEndsKeeps
<1>7. ASSUME NEW r \in Request, NEW t \in DOMAIN handshakes, CallbackArrives(r, t) PROVE SessionInv'
  BY <1>7, CallbackArrivesKeeps
<1>8. ASSUME NEW r \in Request, CallbackEnds(r) PROVE SessionInv'
  BY <1>8, CallbackEndsKeeps
<1>9. ASSUME NEW s \in DOMAIN store, SessionExpires(s) PROVE SessionInv'
  <2>1. DOMAIN store' \subseteq DOMAIN store /\ \A x \in DOMAIN store' : store'[x] = store[x]
    BY <1>9 DEF SessionExpires, Removed
  <2>2. SessionTypes'
    BY <1>0, <1>9, <2>1 DEF SessionTypes, SessionExpires, Token, States
  <2>q. QuietlyStored /\ EndsUncopied /\ QuietCopies /\ handshakes' = handshakes
    BY <1>9, <2>1 DEF SessionExpires, QuietlyStored, EndsUncopied, QuietCopies
  <2> QED
    BY <2>2, <2>q, QuietStep
<1>10. ASSUME NEW t \in DOMAIN handshakes, HandshakeExpires(t) PROVE SessionInv'
  BY <1>10, HandshakeExpiresKeeps
<1>11. ASSUME SessionServerDies PROVE SessionInv'
  BY <1>11, ServerDeathKeeps
<1>12. ASSUME UNCHANGED sessionVars PROVE SessionInv'
  <2>1. SessionTypes'
    BY <1>0, <1>12 DEF SessionTypes, sessionVars, Token, States
  <2>q. QuietlyStored /\ EndsUncopied /\ QuietCopies /\ handshakes' = handshakes
    BY <1>12 DEF sessionVars, QuietlyStored, EndsUncopied, QuietCopies
  <2> QED
    BY <2>1, <2>q, QuietStep
<1> QED
  BY <1>1, <1>2, <1>3, <1>4, <1>5, <1>6, <1>7, <1>8, <1>9, <1>10, <1>11, <1>12 DEF SessionNext

\* However the requests of one browser overlap, and sessions expire, end or are
\* saved again: a handshake that nothing disturbed is accepted, its state once,
\* and a session that was logged out while nobody had a copy of it stays out of
\* the store (OAuthStateService.generate and validate, the login and logout
\* handlers, and the session middleware that saves whole copies).
THEOREM SessionsStaySound == SessionSpec => []SessionsAreSound
<1>1. SessionInv => SessionsAreSound
  <2> SUFFICES ASSUME SessionInv PROVE SessionsAreSound
    OBVIOUS
  <2>1. \A t \in DOMAIN handshakes : handshakes[t].accepted > 1 => handshakes[t].disturbed
    <3> SUFFICES ASSUME NEW t \in DOMAIN handshakes, handshakes[t].accepted > 1, ~handshakes[t].disturbed
                 PROVE  FALSE
      OBVIOUS
    <3>1. Once(t) /\ handshakes[t].accepted \in Nat
      BY HandshakesOf, SessionsAssumption DEF SessionInv, Handshake
    <3> QED
      BY <3>1 DEF Once
  <2> QED
    BY <2>1 DEF SessionInv, EndedIsGone, SessionsAreSound
<1> QED
  BY <1>1, SessionInit1, SessionNext1, PTL DEF SessionSpec

\* Sessions, states, cookies and requests in hand keep their types.
LEMMA SessionTypesHold == SessionSpec => []SessionTypeOK
<1>1. SessionTypes => SessionTypeOK
  <2> SUFFICES ASSUME SessionTypes PROVE SessionTypeOK
    OBVIOUS
  <2>1. made \in 0..MaxSessions /\ 1..made \subseteq SessionId
    BY SessionsAssumption DEF SessionTypes, SessionId
  <2>2. \A r \in Request : handling[r] # Idle =>
          handling[r].pc \in {"login", "logout", "authorize", "exchange", "refused"}
    BY DEF SessionTypes, Visits, Copies
  <2>3. cookie \in 0..MaxSessions
    BY <2>1, SessionsAssumption DEF SessionTypes
  <2> QED
    BY <2>1, <2>2, <2>3 DEF SessionTypes, SessionTypeOK, States
<1>2. SessionInv => SessionTypes
  BY DEF SessionInv
<1> QED
  BY <1>1, <1>2, SessionInit1, SessionNext1, PTL DEF SessionSpec

=============================================================================
