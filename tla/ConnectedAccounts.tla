------------------------- MODULE ConnectedAccounts -------------------------
(***************************************************************************)
(* Connected platform accounts: the OAuth callbacks that connect them, the *)
(* admin who disconnects them, the daily sweep that refreshes expiring     *)
(* tokens, and the consumers (publish, metrics, comments) that read one.   *)
(* Ownership is a guard of every call and is left out: callers own the row.*)
(***************************************************************************)
EXTENDS Naturals

CONSTANTS
  Accounts,    \* (user, platform, platform account) triples
  Google,      \* the YouTube ones; the others are Facebook pages
  Callbacks,   \* OAuth callbacks handled concurrently
  Sweeps,      \* concurrent executions of the sweep: one, or two when the
               \* lock of a running job was lost and the job is run again
  None,        \* no account in hand
  MaxFaults    \* bound: failed database calls and dead processes

ASSUME AccountsAssumption ==
  /\ Google \subseteq Accounts
  /\ None \notin Accounts
  /\ MaxFaults \in Nat

VARIABLES
  status,      \* connected_accounts.status, "absent" before the first connect
  access,      \* accounts with an access_token_encrypted
  refresh,     \* accounts with a refresh_token_encrypted
  due,         \* accounts whose token_expires_at is less than 7 days away
  consent,     \* accounts whose owner's last word was connect, not disconnect
  cbAccount,   \* the account a callback is about to save
  swPc, swTodo, swAccount, \* a sweep's step, its list, the account in hand
  faults

row == <<status, access, refresh, due>>
sweeps == <<swPc, swTodo, swAccount>>
vars == <<row, consent, cbAccount, sweeps, faults>>

Status == {"absent", "connected", "disconnected", "expired"}
SweepPc == {"idle", "list", "read", "exchange", "write", "expire"}

TypeOK ==
  /\ status \in [Accounts -> Status]
  /\ access \subseteq Accounts
  /\ refresh \subseteq Accounts
  /\ due \subseteq Accounts
  /\ consent \subseteq Accounts
  /\ cbAccount \in [Callbacks -> Accounts \cup {None}]
  /\ swPc \in [Sweeps -> SweepPc]
  /\ swTodo \in [Sweeps -> SUBSET Accounts]
  /\ swAccount \in [Sweeps -> Accounts \cup {None}]
  /\ faults \in 0..MaxFaults

Init ==
  /\ status = [a \in Accounts |-> "absent"]
  /\ access = {} /\ refresh = {} /\ due = {} /\ consent = {}
  /\ cbAccount = [b \in Callbacks |-> None]
  /\ swPc = [s \in Sweeps |-> "idle"]
  /\ swTodo = [s \in Sweeps |-> {}]
  /\ swAccount = [s \in Sweeps |-> None]
  /\ faults = 0

Fault == faults < MaxFaults /\ faults' = faults + 1

SetStatus(a, s) == status' = [status EXCEPT ![a] = s]

-----------------------------------------------------------------------------
(* The owner's side.                                                       *)

\* A callback whose state and code are good has exchanged the code; when an
\* exchange fails nothing is saved and the callback is not seen here.
ExchangeCode(b, a) ==
  /\ cbAccount[b] = None
  /\ cbAccount' = [cbAccount EXCEPT ![b] = a]
  /\ UNCHANGED <<row, consent, sweeps, faults>>

\* The upsert.  Google does not always return a refresh token: the stored one
\* is then kept.  A Google access token lives for an hour: it is due at once.
SaveConnection(b) ==
  LET a == cbAccount[b] IN
  /\ a # None
  /\ SetStatus(a, "connected")
  /\ access' = access \cup {a}
  /\ \/ UNCHANGED refresh
     \/ a \in Google /\ refresh' = refresh \cup {a}
  /\ due' = IF a \in Google THEN due \cup {a} ELSE due \ {a}
  /\ consent' = consent \cup {a}
  /\ cbAccount' = [cbAccount EXCEPT ![b] = None]
  /\ UNCHANGED <<sweeps, faults>>

\* The upsert fails, or the process dies before it.
ConnectionNotSaved(b) ==
  /\ cbAccount[b] # None
  /\ cbAccount' = [cbAccount EXCEPT ![b] = None]
  /\ Fault
  /\ UNCHANGED <<row, consent, sweeps>>

Disconnect(a) ==
  /\ status[a] # "absent"
  /\ SetStatus(a, "disconnected")
  /\ access' = access \ {a}
  /\ refresh' = refresh \ {a}
  /\ consent' = consent \ {a}
  /\ UNCHANGED <<due, cbAccount, sweeps, faults>>

\* Time passes: a stored expiry comes within a week.
BecomeDue(a) ==
  /\ status[a] # "absent"
  /\ due' = due \cup {a}
  /\ UNCHANGED <<status, access, refresh, consent, cbAccount, sweeps, faults>>

\* getValidToken hands a token out for a.
Usable(a) == a \in access /\ status[a] = "connected"

-----------------------------------------------------------------------------
(* The sweep.                                                              *)

SweepGoto(s, pc) == swPc' = [swPc EXCEPT ![s] = pc]

\* refreshToken is done with the account: on to the next one.
NextAccount(s) ==
  /\ SweepGoto(s, "read")
  /\ swAccount' = [swAccount EXCEPT ![s] = None]
  /\ UNCHANGED swTodo

StartSweep(s) ==
  /\ swPc[s] = "idle"
  /\ SweepGoto(s, "list")
  /\ UNCHANGED <<row, consent, cbAccount, swTodo, swAccount, faults>>

\* The list is read once; what changes afterwards is not seen.
FindExpiring(s) ==
  /\ swPc[s] = "list"
  /\ swTodo' = [swTodo EXCEPT ![s] = {a \in due : status[a] = "connected"}]
  /\ SweepGoto(s, "read")
  /\ UNCHANGED <<row, consent, cbAccount, swAccount, faults>>

\* refreshToken loads the row again: it looks at the token, not at the status.
ReadAccount(s, a) ==
  /\ swPc[s] = "read"
  /\ a \in swTodo[s]
  /\ swTodo' = [swTodo EXCEPT ![s] = @ \ {a}]
  /\ IF a \in access
     THEN /\ SweepGoto(s, "exchange")
          /\ swAccount' = [swAccount EXCEPT ![s] = a]
     ELSE UNCHANGED <<swPc, swAccount>>
  /\ UNCHANGED <<row, consent, cbAccount, faults>>

\* The exchange, with its one retry, is Meta's for every account: it answers a
\* page's token or refuses it, and knows nothing of a Google token.
Exchange(s) ==
  /\ swPc[s] = "exchange"
  /\ \/ swAccount[s] \notin Google /\ SweepGoto(s, "write")
     \/ SweepGoto(s, "expire")
  /\ UNCHANGED <<row, consent, cbAccount, swTodo, swAccount, faults>>

\* Mutant: a refreshed account is connected again.
WriteRefreshedConnects(s) ==
  LET a == swAccount[s] IN
  /\ swPc[s] = "write"
  /\ access' = access \cup {a}
  /\ due' = due \ {a}
  /\ SetStatus(a, "connected")
  /\ NextAccount(s)
  /\ UNCHANGED <<refresh, consent, cbAccount, faults>>

\* The update names the row by id only.
WriteRefreshed(s) ==
  LET a == swAccount[s] IN
  /\ swPc[s] = "write"
  /\ access' = access \cup {a}
  /\ due' = due \ {a}
  /\ NextAccount(s)
  /\ UNCHANGED <<status, refresh, consent, cbAccount, faults>>

\* The update failed: the catch block treats it as a failed exchange.
WriteFails(s) ==
  /\ swPc[s] = "write"
  /\ Fault
  /\ SweepGoto(s, "expire")
  /\ UNCHANGED <<row, consent, cbAccount, swTodo, swAccount>>

\* Mutant: a failed refresh is only logged.
MarkExpiredLogs(s) ==
  /\ swPc[s] = "expire"
  /\ NextAccount(s)
  /\ UNCHANGED <<row, consent, cbAccount, faults>>

\* Mutant: a failed refresh writes the enum's other value.
MarkRevoked(s) ==
  /\ swPc[s] = "expire"
  /\ SetStatus(swAccount[s], "revoked")
  /\ NextAccount(s)
  /\ UNCHANGED <<access, refresh, due, consent, cbAccount, faults>>

\* By id only again: whatever has become of the row since ReadAccount.
MarkExpired(s) ==
  /\ swPc[s] = "expire"
  /\ SetStatus(swAccount[s], "expired")
  /\ NextAccount(s)
  /\ UNCHANGED <<access, refresh, due, consent, cbAccount, faults>>

EndSweep(s) ==
  /\ SweepGoto(s, "idle")
  /\ swTodo' = [swTodo EXCEPT ![s] = {}]
  /\ swAccount' = [swAccount EXCEPT ![s] = None]

FinishSweep(s) ==
  /\ swPc[s] = "read" /\ swTodo[s] = {}
  /\ EndSweep(s)
  /\ UNCHANGED <<row, consent, cbAccount, faults>>

\* A read, or the write in the catch block, fails and the rest of the list is
\* given up; or the worker dies.
AbortSweep(s) ==
  /\ swPc[s] # "idle"
  /\ Fault
  /\ EndSweep(s)
  /\ UNCHANGED <<row, consent, cbAccount>>

-----------------------------------------------------------------------------

SweepStep(s) ==
  \/ StartSweep(s) \/ FindExpiring(s) \/ (\E a \in swTodo[s] : ReadAccount(s, a))
  \/ Exchange(s) \/ WriteRefreshed(s) \/ MarkExpired(s) \/ FinishSweep(s)

Next ==
  \/ \E b \in Callbacks : \/ \E a \in Accounts : ExchangeCode(b, a)
                          \/ SaveConnection(b)
                          \/ ConnectionNotSaved(b)
  \/ \E a \in Accounts : Disconnect(a) \/ BecomeDue(a)
  \/ \E s \in Sweeps : SweepStep(s) \/ WriteFails(s) \/ AbortSweep(s)

Spec == Init /\ [][Next]_vars

\* The scheduler starts a sweep every day and a started one goes on.
FairSpec == Spec /\ \A s \in Sweeps : WF_vars(SweepStep(s))

-----------------------------------------------------------------------------

\* An owner who disconnects withdraws consent for good: no sweep that races the
\* disconnect makes the account usable again, or keeps its refresh token.
ConsentRespected ==
  \A a \in Accounts : a \notin consent => ~Usable(a) /\ a \notin refresh

\* disconnect's comment: the token columns are null "after disconnect".
TokenErasedOnDisconnect ==
  \A a \in Accounts : status[a] = "disconnected" => a \notin access

\* A connected account whose token is about to expire does not stay so: a
\* sweep refreshes it or marks it expired, although any account before it in
\* the list may fail and a sweep may die half-way.
DueIsSettled ==
  \A a \in Accounts : (a \in due /\ Usable(a)) ~> ~(a \in due /\ Usable(a))
=============================================================================
