----------------------------- MODULE Campaigns -----------------------------
(***************************************************************************)
(* Ad campaigns.  A PATCH is checked merged with the row it read, and then *)
(* writes its own fields; the order of the dates is also a CHECK           *)
(* constraint, the external id of the ad channel a unique index.  The DTO  *)
(* lets a null date through: the check takes a null start for the row's    *)
(* own and a null end for an open campaign, and the write turns either     *)
(* into 1970-01-01.                                                        *)
(***************************************************************************)
EXTENDS BackOffice

CONSTANTS
  Campaign,      \* campaign rows, created or not
  ExternalId,    \* ids of the ad channel
  Date           \* start and end dates that a client sends

\* new Date(null): 1970-01-01
Epoch == 0

\* What a date column holds.
StoredDate == Date \cup {Epoch}

ASSUME CampaignsAssumption == Date \subseteq Nat /\ None \notin StoredDate

VARIABLES
  campaigns,  \* Campaign -> its row, or None
  editing     \* per request: a PATCH checked and not yet written

campaignVars == <<campaigns, editing>>

CampaignRow == [start : StoredDate, end : StoredDate \cup {None}, external : ExternalId \cup {None},
                active : BOOLEAN]

ASSUME NoneIsNoCampaign == None \notin CampaignRow

\* The fields of a PATCH; None is a JSON null, which @IsOptional accepts.
CampaignPatch ==
  UNION {[sent -> Date \cup {None}] : sent \in {{"start"}, {"end"}, {"start", "end"}}}

CampaignTypeOK ==
  /\ campaigns \in [Campaign -> CampaignRow \cup {None}]
  /\ \A r \in Request : editing[r] # Idle =>
       /\ campaigns[editing[r].campaign] # None
       /\ editing[r].patch \in CampaignPatch

CampaignInit ==
  /\ campaigns = [c \in Campaign |-> None]
  /\ editing = [r \in Request |-> Idle]

-----------------------------------------------------------------------------
\* effectiveStartDate and effectiveEndDate: what the check looks at
EffectiveStart(row, patch) ==
  IF "start" \in DOMAIN patch /\ patch["start"] # None THEN patch["start"] ELSE row.start

EffectiveEnd(row, patch) == IF "end" \in DOMAIN patch THEN patch["end"] ELSE row.end

\* data: what the row becomes
Written(row, patch) ==
  [f \in DOMAIN row |-> IF f \notin DOMAIN patch THEN row[f]
                        ELSE IF patch[f] = None THEN Epoch ELSE patch[f]]

\* Mutant: the table has no CHECK constraint.
NoDateConstraint(row) == TRUE

\* ad_campaigns_date_range_chk
CampaignTableAccepts(row) == RangeInOrder(row.start, row.end)

\* createOrConflict, UNIQUE(channel, external_campaign_id): null never clashes.
ExternalIdIsFree(x) ==
  x # None => \A c \in Campaign : campaigns[c] # None => campaigns[c].external # x

CreateCampaign(c, row) ==
  /\ campaigns[c] = None
  /\ row.start \in Date /\ row.end \in Date \cup {None}
  /\ RangeInOrder(row.start, row.end)
  /\ ExternalIdIsFree(row.external)
  /\ campaigns' = [campaigns EXCEPT ![c] = row]
  /\ UNCHANGED editing

\* update, up to its write: the effective range is checked on the row as read.
UpdateCampaign(r, c, patch) ==
  /\ editing[r] = Idle
  /\ campaigns[c] # None
  /\ RangeInOrder(EffectiveStart(campaigns[c], patch), EffectiveEnd(campaigns[c], patch))
  /\ editing' = [editing EXCEPT ![r] = [pc |-> "write", campaign |-> c, patch |-> patch]]
  /\ UNCHANGED campaigns

\* The PATCH's own fields are written; a row out of order is refused (a 500),
\* so a null end, checked as open, is refused unless the start is the Epoch too.
WriteCampaign(r) ==
  LET c    == editing[r].campaign
      next == Written(campaigns[c], editing[r].patch)
  IN
  /\ editing[r].pc = "write"
  /\ campaigns' = IF CampaignTableAccepts(next) THEN [campaigns EXCEPT ![c] = next] ELSE campaigns
  /\ editing' = [editing EXCEPT ![r] = Idle]

RetireCampaign(c) ==
  /\ campaigns[c] # None
  /\ campaigns' = [campaigns EXCEPT ![c].active = FALSE]
  /\ UNCHANGED editing

CampaignNext ==
  \/ \E c \in Campaign, row \in CampaignRow : row.active /\ CreateCampaign(c, row)
  \/ \E r \in Request, c \in Campaign, patch \in CampaignPatch : UpdateCampaign(r, c, patch)
  \/ \E r \in Request : WriteCampaign(r)
  \/ \E c \in Campaign : RetireCampaign(c)

CampaignSpec == CampaignInit /\ [][CampaignNext]_campaignVars

-----------------------------------------------------------------------------
\* BUG-7A-01.  Two PATCHes, each in order with the row it read, never leave a
\* campaign that ends before it starts, and neither does a null, which the
\* check and the write read differently; and no two campaigns share the id of
\* the ad channel.
CampaignsAreSound ==
  \A c \in Campaign : campaigns[c] # None =>
    /\ RangeInOrder(campaigns[c].start, campaigns[c].end)
    /\ \A d \in Campaign \ {c} :
         campaigns[d] # None /\ campaigns[c].external # None
           => campaigns[d].external # campaigns[c].external
=============================================================================
