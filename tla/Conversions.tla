---------------------------- MODULE Conversions ----------------------------
(***************************************************************************)
(* The append-only ledger of shop commissions.  A refund is a new row that *)
(* names the row it reverses; a request repeated within the window is      *)
(* refused; the global and the per-content summary read the rows.          *)
(***************************************************************************)
EXTENDS BackOffice, FiniteSets

CONSTANTS
  Channel,
  Content,
  Place,              \* posts and placements a conversion may be linked to
  ContentOf,          \* Place -> Content
  Amount,             \* commission amounts, negative ones included
  ConversionWindow,   \* how long an identical request is refused
  MaxConversions, MaxClock

ASSUME ConversionsAssumption ==
  /\ ContentOf \in [Place -> Content]
  /\ ConversionWindow \in Nat /\ MaxConversions \in Nat /\ MaxClock \in Nat

VARIABLES
  conversions,  \* the rows of commerce_conversions
  converting,   \* per request: its body, and the rows it has looked at
  clock

conversionVars == <<conversions, converting, clock>>

\* What a client sends, byte for byte; `reverses` is the row it reverses or 0.
ConversionBody == [channel : Channel, amount : Amount, place : Place \cup {None},
         reverses : 0..MaxConversions]

ConversionRow == [by : Admin, body : ConversionBody, place : Place \cup {None}, at : 0..MaxClock,
        checkedAt : 0..MaxClock, seen : 0..MaxConversions]

ConversionTypeOK ==
  /\ conversions \in Seq(ConversionRow)
  /\ clock \in 0..MaxClock
  /\ \A r \in Request : converting[r] # Idle =>
       /\ converting[r].pc \in {"target", "insert"}
       /\ converting[r].by \in Admin
       /\ converting[r].body \in ConversionBody
       /\ converting[r].seen \in 0..MaxConversions

ConversionInit ==
  /\ conversions = <<>>
  /\ converting = [r \in Request |-> Idle]
  /\ clock = 0

-----------------------------------------------------------------------------
\* assertNotDuplicateWithinWindow compares the client's linkage with the
\* stored one.  A reversal's target is not compared.
RepeatsConversion(by, body) ==
  \E i \in DOMAIN conversions :
    LET row == conversions[i] IN
    /\ row.by = by
    /\ InWindow(row.at, clock, ConversionWindow)
    /\ row.body.channel = body.channel
    /\ row.body.amount = body.amount
    /\ row.place = body.place

\* Mutant: a reversal keeps the linkage the client sent.
ClientLinkage(body) == body.place

\* A reversal inherits the linkage of the row it reverses.
Linkage(body) ==
  IF body.reverses = 0 THEN body.place ELSE conversions[body.reverses].place

\* loadAndValidateReversalTarget: it exists and is on the same channel.
ReversalTargetOK(body) ==
  body.reverses # 0 =>
    /\ body.reverses \in DOMAIN conversions
    /\ conversions[body.reverses].body.channel = body.channel

-----------------------------------------------------------------------------
ConvertCheck(r, a, body) ==
  /\ converting[r] = Idle
  /\ ~RepeatsConversion(a, body)
  /\ converting' = [converting EXCEPT ![r] =
       [pc |-> "target", by |-> a, body |-> body,
        checkedAt |-> clock, seen |-> Len(conversions)]]
  /\ UNCHANGED <<conversions, clock>>

ConvertTarget(r) ==
  /\ converting[r].pc = "target"
  /\ converting' = [converting EXCEPT ![r] =
       IF ReversalTargetOK(@.body) THEN [@ EXCEPT !.pc = "insert"] ELSE Idle]
  /\ UNCHANGED <<conversions, clock>>

ConvertInsert(r) ==
  LET q == converting[r] IN
  /\ q.pc = "insert"
  /\ Len(conversions) < MaxConversions
  /\ conversions' = Append(conversions,
       [by |-> q.by, body |-> q.body, place |-> Linkage(q.body), at |-> clock,
        checkedAt |-> q.checkedAt, seen |-> q.seen])
  /\ converting' = [converting EXCEPT ![r] = Idle]
  /\ UNCHANGED clock

ConversionTick ==
  /\ clock < MaxClock
  /\ clock' = clock + 1
  /\ UNCHANGED <<conversions, converting>>

ConversionNext ==
  \/ \E r \in Request, a \in Admin, body \in ConversionBody : ConvertCheck(r, a, body)
  \/ \E r \in Request : ConvertTarget(r) \/ ConvertInsert(r)
  \/ ConversionTick

ConversionSpec == ConversionInit /\ [][ConversionNext]_conversionVars

-----------------------------------------------------------------------------
(* The read model: each summary is the set of rows it nets.                *)

\* contentSummary: rows linked to a post or placement of the content.
ContentRows(c) ==
  {i \in DOMAIN conversions :
     conversions[i].place # None /\ ContentOf[conversions[i].place] = c}

\* byChannel
ChannelRows(ch) == {i \in DOMAIN conversions : conversions[i].body.channel = ch}

\* BUG-QA-6A-01.  A reversal is netted in every summary its row is counted in
\* and in no other, whatever linkage the client sent with it.
ReversalNetsItsRow ==
  \A j \in DOMAIN conversions :
    LET i == conversions[j].body.reverses IN
    i # 0 =>
      /\ \A c \in Content : i \in ContentRows(c) <=> j \in ContentRows(c)
      /\ \A ch \in Channel : i \in ChannelRows(ch) <=> j \in ChannelRows(ch)

\* A request sent again by the same admin within the window leaves a second
\* row only if it was checked before the first was inserted.  The case of a
\* reversal sent without its linkage is left out: the check misses it.
ResentIsRefused ==
  \A i, j \in DOMAIN conversions :
    /\ i < j
    /\ conversions[i].by = conversions[j].by
    /\ conversions[i].body = conversions[j].body
    /\ conversions[i].place = conversions[j].body.place
    /\ InWindow(conversions[i].at, conversions[j].checkedAt, ConversionWindow)
    => conversions[j].seen < i

\* The table as a ledger: a row is counted under its channel and its linkage.
ConversionEntries ==
  [i \in DOMAIN conversions |->
     [account |-> <<conversions[i].body.channel, conversions[i].place>>,
      amends |-> conversions[i].body.reverses]]

ConversionBook == INSTANCE Ledger WITH
  Account <- Channel \X (Place \cup {None}), book <- ConversionEntries

\* The table is a ledger, whatever is inserted between a request's look at its
\* target and its own insert; it nets what was reversed, once per request sent.
ConversionsAreSound ==
  /\ [](ReversalNetsItsRow /\ ResentIsRefused)
  /\ ConversionBook!LedgerSpec
=============================================================================
