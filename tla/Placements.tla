----------------------------- MODULE Placements -----------------------------
(***************************************************************************)
(* Recording a placement the admin has already made by hand on a shop      *)
(* channel: step-up password, the copyright gate, the duplicate check, the *)
(* media, the duration gate, the insert.  Other requests change the        *)
(* content meanwhile.  No operation ever takes a placement down.           *)
(***************************************************************************)
EXTENDS BackOffice

CONSTANTS
  Clip,        \* contents
  Shop,        \* channels
  GatedShop,   \* the channel whose videos have a bounded duration
  Duration,    \* durations a client may send or a file may have
  MinDuration, MaxDuration

VARIABLES
  publishable,  \* Clip -> ready, cleared and with its evidence
  assetLength,  \* Clip -> the duration parsed at upload, if it could be
  placements,   \* the rows of commerce_placements
  placing       \* per request: what it is about to record

placementVars == <<publishable, assetLength, placements, placing>>

Placement == [clip : Clip, shop : Shop, duration : Duration \cup {None}, passed : BOOLEAN]

PlacementTypeOK ==
  /\ publishable \in [Clip -> BOOLEAN]
  /\ assetLength \in [Clip -> Duration \cup {None}]
  /\ placements \subseteq Placement
  /\ \A r \in Request : placing[r] # Idle =>
       /\ placing[r].pc \in {"gate", "duplicate", "media", "insert"}
       /\ placing[r].row \in Placement
       /\ placing[r].fromAsset \in BOOLEAN

PlacementInit ==
  /\ publishable \in [Clip -> BOOLEAN]
  /\ assetLength \in [Clip -> Duration \cup {None}]
  /\ placements = {}
  /\ placing = [r \in Request |-> Idle]

-----------------------------------------------------------------------------
\* assertShopeeDuration and the CHECK of the table: no duration is a refusal.
DurationFits(shop, d) ==
  shop = GatedShop => d # None /\ d \in MinDuration..MaxDuration

\* assertNoActiveDuplicate
ActivePlacement(c, s) == \E p \in placements : p.clip = c /\ p.shop = s

\* Mutant: the table has no partial unique index.
NoPlacementIndex(c, s) == TRUE

\* commerce_placements_content_channel_active_key
PlacementIndexAccepts(c, s) == ~ActivePlacement(c, s)

\* assertPublishableContent, on the row this request reads.
PassesGate(c) == publishable[c]

\* resolveMedia: a duration the admin typed wins over the parsed one.
MediaDuration(typed, fromAsset, c) ==
  IF typed = None /\ fromAsset THEN assetLength[c] ELSE typed

-----------------------------------------------------------------------------
PlaceRefused(r) == placing' = [placing EXCEPT ![r] = Idle]

PlaceGoesTo(r, pc) == placing' = [placing EXCEPT ![r].pc = pc]

\* A fresh password has been given.  `passed` is history: the content was
\* publishable at some time while the request was in the server.
PlaceStart(r, c, s, d, fromAsset) ==
  /\ placing[r] = Idle
  /\ placing' = [placing EXCEPT ![r] =
       [pc |-> "gate", fromAsset |-> fromAsset,
        row |-> [clip |-> c, shop |-> s, duration |-> d, passed |-> publishable[c]]]]
  /\ UNCHANGED <<publishable, assetLength, placements>>

PlaceGate(r) ==
  /\ placing[r].pc = "gate"
  /\ IF PassesGate(placing[r].row.clip) THEN PlaceGoesTo(r, "duplicate") ELSE PlaceRefused(r)
  /\ UNCHANGED <<publishable, assetLength, placements>>

PlaceDuplicate(r) ==
  /\ placing[r].pc = "duplicate"
  /\ IF ActivePlacement(placing[r].row.clip, placing[r].row.shop)
       THEN PlaceRefused(r)
       ELSE PlaceGoesTo(r, "media")
  /\ UNCHANGED <<publishable, assetLength, placements>>

PlaceMedia(r) ==
  LET row == placing[r].row
      d   == MediaDuration(row.duration, placing[r].fromAsset, row.clip)
  IN
  /\ placing[r].pc = "media"
  /\ IF DurationFits(row.shop, d)
       THEN placing' = [placing EXCEPT ![r].pc = "insert", ![r].row.duration = d]
       ELSE PlaceRefused(r)
  /\ UNCHANGED <<publishable, assetLength, placements>>

PlaceInsert(r) ==
  LET row == placing[r].row IN
  /\ placing[r].pc = "insert"
  /\ IF PlacementIndexAccepts(row.clip, row.shop)
       THEN placements' = placements \cup {row}
       ELSE UNCHANGED placements
  /\ PlaceRefused(r)
  /\ UNCHANGED <<publishable, assetLength>>

\* Another request clears the content, withdraws it or archives it.
ContentChanges(c) ==
  /\ publishable' = [publishable EXCEPT ![c] = ~@]
  /\ placing' = [r \in Request |->
       IF placing[r] # Idle /\ placing[r].row.clip = c
         THEN [placing[r] EXCEPT !.row.passed = @ \/ publishable'[c]]
         ELSE placing[r]]
  /\ UNCHANGED <<assetLength, placements>>

PlacementNext ==
  \/ \E r \in Request, c \in Clip, s \in Shop, d \in Duration \cup {None},
        fromAsset \in BOOLEAN : PlaceStart(r, c, s, d, fromAsset)
  \/ \E r \in Request : PlaceGate(r) \/ PlaceDuplicate(r) \/ PlaceMedia(r) \/ PlaceInsert(r)
  \/ \E c \in Clip : ContentChanges(c)

PlacementSpec == PlacementInit /\ [][PlacementNext]_placementVars

-----------------------------------------------------------------------------
\* However requests overlap, a content has one placement per channel, the
\* placement of the gated channel has a duration its rule admits, typed or
\* parsed, and what is recorded had been publishable while its request was in
\* the server: a clearance withdrawn before the request came in stops it.
PlacementIsSound ==
  /\ \A p, q \in placements : p.clip = q.clip /\ p.shop = q.shop => p = q
  /\ \A p \in placements : p.shop = GatedShop => p.duration \in MinDuration..MaxDuration
  /\ \A p \in placements : p.passed
=============================================================================
