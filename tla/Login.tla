------------------------------- MODULE Login -------------------------------
(***************************************************************************)
(* Attempts to log in to one account from one address, handled             *)
(* concurrently: the throttler's commands to Redis, then the account row   *)
(* that is read, decided on after the hash is verified, and written back.  *)
(* The server may die between two commands; Redis and the row survive it.  *)
(***************************************************************************)
EXTENDS BackOffice

CONSTANTS
  HitLimit,      \* LOGIN_RATE_LIMIT.limit
  HitWindow,     \* its ttl, which is also the block's duration
  MaxFailed,     \* MAX_FAILED_ATTEMPTS
  Lockout,       \* LOCKOUT_DURATION_MS
  MaxLoginClock, \* bound: the clock
  MaxHits        \* bound: hits in one window

ASSUME LoginAssumption ==
  {HitLimit, HitWindow, MaxLoginClock, MaxHits} \subseteq Nat
  /\ {MaxFailed, Lockout} \subseteq Nat \ {0}

VARIABLES
  account,     \* failedLoginAttempts and lockedUntil
  hits,        \* the hit key: its count, and when it expires (None: never)
  blockedTill, \* when the block key expires
  attempts,    \* per request: an attempt under way
  loginClock,
  tally        \* history: attempts let through in this window, wrong
               \* passwords in a row, whether two attempts have overlapped

loginVars == <<account, hits, blockedTill, attempts, loginClock, tally>>

Instant == 0..MaxLoginClock + Lockout + HitWindow

LoginTypeOK ==
  /\ account \in [failed : 0..MaxFailed - 1, lockedUntil : Instant]
  /\ hits \in [count : 0..MaxHits, expires : Instant \cup {None}]
  /\ blockedTill \in Instant
  /\ \A r \in Request : attempts[r] # Idle =>
       attempts[r].pc \in {"count", "expire", "weigh", "read", "verified"}
  /\ loginClock \in 0..MaxLoginClock
  /\ tally \in [through : 0..MaxHits, wrong : Nat, overlapped : BOOLEAN]

NoHits == [count |-> 0, expires |-> None]

LoginInit ==
  /\ account = [failed |-> 0, lockedUntil |-> 0]
  /\ hits = NoHits
  /\ blockedTill = 0
  /\ attempts = [r \in Request |-> Idle]
  /\ loginClock = 0
  /\ tally = [through |-> 0, wrong |-> 0, overlapped |-> FALSE]

AttemptGoesTo(r, pc) == attempts' = [attempts EXCEPT ![r].pc = pc]

AttemptEnds(r) == attempts' = [attempts EXCEPT ![r] = Idle]

-----------------------------------------------------------------------------
\* RedisThrottlerStorageService.increment, one action per command.

\* PTTL of the block key.  A blocked client is told so at once.
ThrottlePeeks(r, right) ==
  /\ attempts[r] = Idle
  /\ blockedTill <= loginClock
  /\ attempts' = [attempts EXCEPT ![r] = [pc |-> "count", right |-> right, total |-> 0,
                                          seen |-> account]]
  /\ UNCHANGED <<account, hits, blockedTill, loginClock, tally>>

OverLimit(total) == total > HitLimit

\* INCR, which numbers the requests of a window
ThrottleCounts(r) ==
  /\ attempts[r].pc = "count"
  /\ hits.count < MaxHits
  /\ hits' = [hits EXCEPT !.count = @ + 1]
  /\ attempts' = [attempts EXCEPT ![r].total = hits.count + 1,
                                  ![r].pc = IF hits.count = 0 THEN "expire" ELSE "weigh"]
  /\ tally' = [tally EXCEPT !.through = @ + IF OverLimit(hits.count + 1) THEN 0 ELSE 1]
  /\ UNCHANGED <<account, blockedTill, loginClock>>

\* PEXPIRE, by the request that made the key
ThrottleExpires(r) ==
  /\ attempts[r].pc = "expire"
  /\ hits' = [hits EXCEPT !.expires = loginClock + HitWindow]
  /\ AttemptGoesTo(r, "weigh")
  /\ UNCHANGED <<account, blockedTill, loginClock, tally>>

\* SET of the block key when the total is over the limit
ThrottleWeighs(r) ==
  /\ attempts[r].pc = "weigh"
  /\ IF OverLimit(attempts[r].total)
       THEN /\ blockedTill' = loginClock + HitWindow
            /\ AttemptEnds(r)
       ELSE /\ AttemptGoesTo(r, "read")
            /\ UNCHANGED blockedTill
  /\ UNCHANGED <<account, hits, loginClock, tally>>

-----------------------------------------------------------------------------
\* findUnique, then the hash is verified, locked or not.
AttemptReads(r) ==
  /\ attempts[r].pc = "read"
  /\ attempts' = [attempts EXCEPT ![r].pc = "verified", ![r].seen = account]
  /\ tally' = [tally EXCEPT !.overlapped = @ \/ \E q \in Request : /\ attempts[q] # Idle
                                                                   /\ attempts[q].pc = "verified"]
  /\ UNCHANGED <<account, hits, blockedTill, loginClock>>

LockedIn(seen) == seen.lockedUntil > loginClock

\* Mutant: the count starts again at every failure.
CountForgotten(seen) == [failed |-> 1 % MaxFailed, lockedUntil |-> seen.lockedUntil]

\* registerFailedAttempt: what it writes, from the row it had read.
AfterFailure(seen) ==
  IF seen.failed + 1 >= MaxFailed
    THEN [failed |-> 0, lockedUntil |-> loginClock + Lockout]
    ELSE [failed |-> seen.failed + 1, lockedUntil |-> seen.lockedUntil]

AttemptLocked(r) ==
  /\ attempts[r].pc = "verified"
  /\ LockedIn(attempts[r].seen)
  /\ AttemptEnds(r)
  /\ UNCHANGED <<account, hits, blockedTill, loginClock, tally>>

AttemptFails(r) ==
  /\ attempts[r].pc = "verified"
  /\ ~LockedIn(attempts[r].seen)
  /\ ~attempts[r].right
  /\ account' = AfterFailure(attempts[r].seen)
  /\ tally' = [tally EXCEPT !.wrong = IF account'.lockedUntil > loginClock THEN 0 ELSE @ + 1]
  /\ AttemptEnds(r)
  /\ UNCHANGED <<hits, blockedTill, loginClock>>

\* resetFailedAttempts; the controller then makes a session.
AttemptSucceeds(r) ==
  /\ attempts[r].pc = "verified"
  /\ ~LockedIn(attempts[r].seen)
  /\ attempts[r].right
  /\ account' = [failed |-> 0, lockedUntil |-> 0]
  /\ tally' = [tally EXCEPT !.wrong = 0]
  /\ AttemptEnds(r)
  /\ UNCHANGED <<hits, blockedTill, loginClock>>

-----------------------------------------------------------------------------
LoginServerDies ==
  /\ attempts' = [r \in Request |-> Idle]
  /\ UNCHANGED <<account, hits, blockedTill, loginClock, tally>>

\* Keys expire by themselves, which opens a new window.
LoginTick ==
  /\ loginClock < MaxLoginClock
  /\ loginClock' = loginClock + 1
  /\ IF hits.expires = loginClock'
       THEN hits' = NoHits /\ tally' = [tally EXCEPT !.through = 0]
       ELSE UNCHANGED <<hits, tally>>
  /\ UNCHANGED <<account, blockedTill, attempts>>

LoginNext ==
  \/ \E r \in Request : \/ \E right \in BOOLEAN : ThrottlePeeks(r, right)
                        \/ ThrottleCounts(r) \/ ThrottleExpires(r) \/ ThrottleWeighs(r)
                        \/ AttemptReads(r) \/ AttemptLocked(r)
                        \/ AttemptFails(r) \/ AttemptSucceeds(r)
  \/ LoginServerDies
  \/ LoginTick

LoginSpec == LoginInit /\ [][LoginNext]_loginVars

-----------------------------------------------------------------------------
\* However requests overlap and the server dies, one window lets no more than
\* the limit through to the password; and as long as no two attempts
\* overlapped from the reading of the row to its writing, the row has counted
\* every wrong password since the last lock or success, so that the account
\* locks at the last one it allows.
AttemptsAreCounted ==
  /\ tally.through <= HitLimit
  /\ ~tally.overlapped => account.failed = tally.wrong
=============================================================================
