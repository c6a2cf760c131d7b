---------------------------- MODULE PaidEntries ----------------------------
(***************************************************************************)
(* The append-only performance entries of the ad campaigns.  A correction  *)
(* is a new entry that names the one it corrects.  Campaign rows are never *)
(* deleted, and a retired campaign still takes entries.                    *)
(***************************************************************************)
EXTENDS Campaigns

CONSTANTS
  AdCampaign,    \* the campaigns that exist
  Figures,       \* what an entry says: period, spend, reach, clicks, results
  PaidWindow,    \* how long an identical entry is refused
  MaxEntries, MaxPaidClock

ASSUME PaidEntriesAssumption ==
  PaidWindow \in Nat /\ MaxEntries \in Nat /\ MaxPaidClock \in Nat

VARIABLES
  entries,    \* the rows of ad_performance_entries
  entering,   \* per request: an entry on its way in
  paidClock

entryVars == <<entries, entering, paidClock>>

\* What an entry's client sends; `corrects` is an entry or 0.
EntryBody == [campaign : AdCampaign, figures : Figures, corrects : 0..MaxEntries]

EntryRow == [by : Admin, body : EntryBody, at : 0..MaxPaidClock,
             checkedAt : 0..MaxPaidClock, seen : 0..MaxEntries]

EntryTypeOK ==
  /\ entries \in Seq(EntryRow)
  /\ paidClock \in 0..MaxPaidClock
  /\ \A r \in Request : entering[r] # Idle =>
       entering[r].pc \in {"target", "insert"} /\ entering[r].body \in EntryBody

EntryInit ==
  /\ entries = <<>>
  /\ entering = [r \in Request |-> Idle]
  /\ paidClock = 0

-----------------------------------------------------------------------------
\* assertNotDuplicateWithinWindow
RepeatsEntry(a, body) ==
  \E i \in DOMAIN entries :
    /\ entries[i].by = a
    /\ entries[i].body = body
    /\ InWindow(entries[i].at, paidClock, PaidWindow)

\* assertCorrectionTargetIsSameCampaign
CorrectionTargetOK(body) ==
  body.corrects # 0 =>
    /\ body.corrects \in DOMAIN entries
    /\ entries[body.corrects].body.campaign = body.campaign

EntryCheck(r, a, body) ==
  /\ entering[r] = Idle
  /\ ~RepeatsEntry(a, body)
  /\ entering' = [entering EXCEPT ![r] =
       [pc |-> "target", by |-> a, body |-> body,
        checkedAt |-> paidClock, seen |-> Len(entries)]]
  /\ UNCHANGED <<entries, paidClock>>

EntryTarget(r) ==
  /\ entering[r].pc = "target"
  /\ entering' = [entering EXCEPT ![r] =
       IF CorrectionTargetOK(@.body) THEN [@ EXCEPT !.pc = "insert"] ELSE Idle]
  /\ UNCHANGED <<entries, paidClock>>

EntryInsert(r) ==
  LET q == entering[r] IN
  /\ q.pc = "insert"
  /\ Len(entries) < MaxEntries
  /\ entries' = Append(entries, [by |-> q.by, body |-> q.body, at |-> paidClock,
                                 checkedAt |-> q.checkedAt, seen |-> q.seen])
  /\ entering' = [entering EXCEPT ![r] = Idle]
  /\ UNCHANGED paidClock

PaidTick ==
  /\ paidClock < MaxPaidClock
  /\ paidClock' = paidClock + 1
  /\ UNCHANGED <<entries, entering>>

EntryNext ==
  \/ \E r \in Request, a \in Admin, body \in EntryBody : EntryCheck(r, a, body)
  \/ \E r \in Request : EntryTarget(r) \/ EntryInsert(r)
  \/ PaidTick

EntrySpec == EntryInit /\ [][EntryNext]_entryVars

-----------------------------------------------------------------------------
\* P-A3.  However long a chain of corrections is, it stays in one campaign and
\* leads back to earlier entries only.
CorrectionStaysInCampaign ==
  \A j \in DOMAIN entries :
    LET i == entries[j].body.corrects IN
    i # 0 => i < j /\ entries[i].body.campaign = entries[j].body.campaign

\* An entry sent again by the same admin within the window leaves a second row
\* only if it was checked before the first was inserted.
ResentEntryIsRefused ==
  \A i, j \in DOMAIN entries :
    /\ i < j
    /\ entries[i].by = entries[j].by
    /\ entries[i].body = entries[j].body
    /\ InWindow(entries[i].at, entries[j].checkedAt, PaidWindow)
    => entries[j].seen < i

\* The history of a campaign holds each entry once, and corrections of its own.
EntriesAreSound == CorrectionStaysInCampaign /\ ResentEntryIsRefused

\* The table as a ledger: an entry is counted under its campaign.
PaidHistory ==
  [i \in DOMAIN entries |->
     [account |-> entries[i].body.campaign, amends |-> entries[i].body.corrects]]

EntryBook == INSTANCE Ledger WITH Account <- AdCampaign, book <- PaidHistory

\* So are paid campaigns and the histories of their entries, which are ledgers.
PaidIsSound ==
  /\ [](CampaignsAreSound /\ EntriesAreSound)
  /\ EntryBook!LedgerSpec
=============================================================================
