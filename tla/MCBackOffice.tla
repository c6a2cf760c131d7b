---------------------------- MODULE MCBackOffice ----------------------------
(***************************************************************************)
(* Instances of the back-office modules for TLC.  They share no variable:  *)
(* a behaviour is one of a single part, chosen at the start, with the      *)
(* other parts in a fixed initial state, so that the states checked are    *)
(* the sum of the parts' and not their product.                           *)
(***************************************************************************)
EXTENDS Office, TLC

CONSTANTS
  one, two,      \* model values: the requests
  left, right    \* model values: the other sets that are symmetric

VARIABLE part

Symmetry == Permutations({one, two}) \cup Permutations({left, right})

\* Products to anchor in one request, and the links with them.
Lists == {<<[product |-> "p1", url |-> None]>>,
          <<[product |-> "p2", url |-> "u1"], [product |-> "p1", url |-> None]>>}

OneContent == "post" :> "content"

Platforms == <<"facebook", "youtube">>
Ranks == "v1" :> {"facebook"} @@ "v2" :> {"facebook", "youtube"}

Posts == <<"p1", "p2">>
Contents == "p1" :> "c1" @@ "p2" :> "c2"

Parts == {"catalog", "placements", "conversions", "campaigns", "entries", "factors", "ranking",
          "metrics", "login", "sessions", "adapters", "retention", "screens", "dialog", "uploads",
          "contract"}

\* Where a part has several initial states, the one it rests in.
Parked ==
  /\ publishable = [c \in Clip |-> TRUE]
  /\ part # "placements" => assetLength = [c \in Clip |-> None]
  /\ part # "ranking" => engine = "v1"
  \* One call at a time looks at the mode of its own platform only.
  /\ \A p \in AdapterPlatform : liveMode[p] <=> liveMode[Facebook]
  /\ part # "adapters" => ~liveMode[Facebook]
  /\ part # "dialog" => dialog.kind = "picker" /\ Live = {}

BackOfficeInit ==
  /\ part \in Parts
  /\ CatalogInit
  /\ PlacementInit
  /\ ConversionInit
  /\ CampaignInit
  /\ EntryInit
  /\ FactorsInit
  /\ RankingInit
  /\ MetricInit
  /\ LoginInit
  /\ SessionInit
  /\ AdapterInit
  /\ RetentionInit
  /\ ScreenInit
  /\ AnchorDialogInit
  /\ UploadInit
  /\ ContractInit
  /\ Parked

OthersRest(p) ==
  /\ UNCHANGED part
  /\ p # "catalog" => UNCHANGED catalogVars
  /\ p # "placements" => UNCHANGED placementVars
  /\ p # "conversions" => UNCHANGED conversionVars
  /\ p # "campaigns" => UNCHANGED campaignVars
  /\ p # "entries" => UNCHANGED entryVars
  /\ p # "factors" => UNCHANGED facts
  /\ p # "ranking" => UNCHANGED rankingVars
  /\ p # "metrics" => UNCHANGED metricVars
  /\ p # "login" => UNCHANGED loginVars
  /\ p # "sessions" => UNCHANGED sessionVars
  /\ p # "adapters" => UNCHANGED adapterVars
  /\ p # "retention" => UNCHANGED retentionVars
  /\ p # "screens" => UNCHANGED screenVars
  /\ p # "dialog" => UNCHANGED anchorDialogVars
  /\ p # "uploads" => UNCHANGED uploadVars
  /\ p # "contract" => UNCHANGED contractVars

\* What decides how a screen goes on.  A filter is the one that is set or the other.
\* Of a write in flight, only what follows from it matters; of a load that has shown its
\* rows, neither the view nor what it was asked after; of what was last shown by a
\* load that went astray, nothing.
ViewSeen(view) == <<view.filter = screen.view.filter, view.page>>

WriteSeen(t) ==
  LET w == task[t].write IN
  IF t \in Loading
    THEN IF w \in screen.kind.alone /\ ~FromDialog(w) THEN w ELSE None
    ELSE <<w \in screen.kind.alone, w \in NeedNoRow, FromDialog(w), w \in RowsUnchanged,
           w \in screen.kind.first, ReloadsAfter(w)>>

ShowsRows(t) == t \in Loading /\ task[t].pc \in {"asked", "answered"}

TaskSeen(t) ==
  IF task[t] = Idle THEN Idle
  ELSE <<task[t].pc, task[t].version, WriteSeen(t),
         IF t \in Loading /\ ~ShowsRows(t) THEN None ELSE ViewSeen(task[t].view)>>

ScreenSeen ==
  <<screen.kind, screen.at, screen.view.page, screen.error, screen.token, rows, memory.mine,
    IF screen.shown = None \/ "rows" \in memory.astray THEN <<screen.shown = None>>
    ELSE <<ViewSeen(screen.shown.view), screen.shown.version>>,
    IF "counts" \in memory.astray THEN None ELSE screen.count,
    "rows" \in memory.astray,
    [t \in Task |-> TaskSeen(t)],
    memory.late, {t \in memory.stale : ShowsRows(t)},
    {p \in memory.before : ShowsRows(p[2]) /\ p[1] \notin memory.late}>>

\* Nothing in the module asks whether a campaign is active.
CampaignSeen ==
  <<[c \in Campaign |-> IF campaigns[c] = None THEN None
                       ELSE [campaigns[c] EXCEPT !.active = TRUE]], editing>>

\* The other parts' variables do not change: the moving part's tell states apart.
View ==
  <<part,
    CASE part = "catalog" -> catalogVars
      [] part = "placements" -> placementVars
      [] part = "conversions" -> conversionVars
      [] part = "campaigns" -> CampaignSeen
      [] part = "entries" -> entryVars
      [] part = "factors" -> facts
      [] part = "ranking" -> rankingVars
      [] part = "metrics" -> metricVars
      [] part = "login" -> loginVars
      [] part = "sessions" -> sessionVars
      [] part = "adapters" -> adapterVars
      [] part = "retention" -> retentionVars
      [] part = "screens" -> ScreenSeen
      [] part = "dialog" -> anchorDialogVars
      [] part = "uploads" -> uploadVars
      [] part = "contract" -> contractVars>>

BackOfficeNext ==
  \/ part = "catalog" /\ CatalogNext /\ OthersRest("catalog")
  \/ part = "placements" /\ PlacementNext /\ OthersRest("placements")
  \/ part = "conversions" /\ ConversionNext /\ OthersRest("conversions")
  \/ part = "campaigns" /\ CampaignNext /\ OthersRest("campaigns")
  \/ part = "entries" /\ EntryNext /\ OthersRest("entries")
  \/ part = "factors" /\ FactorsNext /\ OthersRest("factors")
  \/ part = "ranking" /\ RankingNext /\ OthersRest("ranking")
  \/ part = "metrics" /\ MetricNext /\ OthersRest("metrics")
  \/ part = "login" /\ LoginNext /\ OthersRest("login")
  \/ part = "sessions" /\ SessionNext /\ OthersRest("sessions")
  \/ part = "adapters" /\ AdapterNext /\ OthersRest("adapters")
  \/ part = "retention" /\ RetentionNext /\ OthersRest("retention")
  \/ part = "screens" /\ ScreenNext /\ OthersRest("screens")
  \/ part = "dialog" /\ AnchorDialogNext /\ OthersRest("dialog")
  \/ part = "uploads" /\ UploadNext /\ OthersRest("uploads")
  \/ part = "contract" /\ ContractNext /\ OthersRest("contract")
=============================================================================
