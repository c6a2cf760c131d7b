------------------------------- MODULE Office -------------------------------
(***************************************************************************)
(* The back office as a whole: the modules the application imports, beside *)
(* publishing, content, accounts and comments, which compose among         *)
(* themselves, and the frontend that calls them.  The parts share no       *)
(* variable, so the office takes any interleaving of their steps, two at   *)
(* once included.                                                          *)
(***************************************************************************)
EXTENDS Catalog, Placements, Conversions, Campaigns, PaidEntries, RankingFactors,
        Ranking, Metrics, Login, Sessions, Adapters,
        Retention, Screens, AnchorDialog, Uploads, Contract

OfficeSpec ==
  /\ CatalogSpec /\ PlacementSpec /\ ConversionSpec
  /\ CampaignSpec /\ EntrySpec
  /\ FactorsSpec /\ RankingSpec /\ MetricSpec
  /\ LoginSpec /\ SessionSpec
  /\ AdapterSpec /\ RetentionSpec /\ UploadSpec
  /\ ScreenSpec /\ AnchorDialogSpec /\ ContractSpec

\* Every part's variables keep their types, whichever part moves.
TypesOK ==
  /\ CatalogTypeOK /\ PlacementTypeOK /\ ConversionTypeOK
  /\ CampaignTypeOK /\ EntryTypeOK
  /\ FactorsTypeOK /\ RankingTypeOK /\ MetricTypeOK
  /\ LoginTypeOK /\ SessionTypeOK
  /\ AdapterTypeOK /\ RetentionTypeOK /\ UploadTypeOK
  /\ ScreenTypeOK /\ AnchorDialogTypeOK /\ ContractTypeOK
=============================================================================
