------------------------------ MODULE Contract ------------------------------
(***************************************************************************)
(* The HTTP contract between the frontend's api client and the             *)
(* controllers: which fields each call sends and which its DTO takes (the  *)
(* validation pipe refuses unknown and missing ones), and the guards each  *)
(* route runs, in order, over the session the tabs of one browser share.   *)
(* A tab reads the CSRF token when its page loads and keeps it; another    *)
(* tab may log in or out meanwhile.                                        *)
(***************************************************************************)
EXTENDS BackOffice

CONSTANTS
  Tab,        \* tabs of one browser
  MaxLogins   \* bound: sessions made, and CSRF tokens issued

ASSUME ContractAssumption ==
  /\ MaxLogins \in Nat
  /\ None \notin Nat

VARIABLES
  session,   \* the session the cookie names: number, its CSRF token; or None
  issued,    \* CSRF tokens issued
  isAdmin,   \* users.role of the user who is signed in
  tab,       \* per tab: the token its page holds, or None
  call,      \* the api call in progress
  outdated   \* history: tabs whose page was loaded before the latest login

contractVars == <<session, issued, isAdmin, tab, call, outdated>>

-----------------------------------------------------------------------------
\* What the client sends: fields always there, fields there when filled in.
Sends(always, maybe) == [always |-> always, maybe |-> maybe]
Empty == Sends({}, {})

ListContentQuery == Sends({}, {"type", "status", "licensingStatus", "ageBand", "search"})
CreateContentInput ==
  Sends({"type", "title", "mediaUrl", "targetAgeMin", "targetAgeMax", "licensingStatus", "markReady",
         "copyrightCleared"},
        {"caption", "licenseNotes", "contentPillar", "copyrightNotes", "copyrightEvidenceUrl",
         "fileSizeBytes", "mimeType"})
UpdateContentInput ==
  Sends({"type", "title", "caption", "targetAgeMin", "targetAgeMax", "licensingStatus", "licenseNotes",
         "copyrightCleared", "copyrightNotes", "copyrightEvidenceUrl"}, {"contentPillar", "status"})
CreateContentAssetInput == Sends({"platform", "aspectRatio", "mediaUrl"}, {})
CreatePostInput == Sends({"contentId", "platform", "password"}, {"overrideReason"})
RecordManualExternalInput ==
  Sends({"contentId", "platform", "externalPostId", "password"}, {"externalPostUrl", "overrideReason"})
CreateManualMetricInput == Sends({"reach", "engagement", "revenue"}, {"collectedAt"})
ReplyCommentInput == Sends({"message", "password"}, {})
ListCommentsQuery ==
  Sends({}, {"platform", "sentiment", "priority", "slaBreach", "replied", "page", "pageSize"})
ListCommerceProductsQuery == Sends({}, {"channel", "isActive", "q"})
CreateCommerceProductInput ==
  Sends({"channel", "externalProductId", "name"},
        {"sku", "productUrl", "listPrice", "currency", "commissionRatePct"})
UpdateCommerceProductInput ==
  Sends({}, {"name", "sku", "productUrl", "listPrice", "currency", "commissionRatePct"})
CreateAffiliateLinkInput == Sends({"url"}, {"trackingCode", "subId"})
RecordProductAnchorsInput == Sends({"anchors"}, {})
RecordCommercePlacementInput ==
  Sends({"contentId", "channel", "externalMediaId", "password"},
        {"externalUrl", "durationSeconds", "sourceAssetId", "note"})
ListCommercePlacementsQuery == Sends({}, {"channel", "status", "contentId"})
CreateCommerceConversionInput ==
  Sends({"channel", "periodStart", "periodEnd", "commissionAmount"},
        {"ordersCount", "itemsSold", "grossSalesAmount", "postId", "placementId", "productId",
         "affiliateLinkId", "reversalOfId", "statementRef"})
ListCommerceConversionsQuery == Sends({}, {"channel", "productId", "placementId", "postId"})
OverlapCheckQuery == Sends({"channel", "periodStart", "periodEnd"}, {})
CommerceSummaryQuery == Sends({}, {"channel", "productId", "periodStart", "periodEnd"})
ListPaidCampaignsQuery == Sends({}, {"isActive", "q", "contentId"})
CreatePaidCampaignInput ==
  Sends({"channel", "externalCampaignName", "objective", "startDate"},
        {"externalCampaignId", "contentId", "endDate", "plannedBudget", "currency", "status"})
UpdatePaidCampaignInput ==
  Sends({}, {"externalCampaignName", "objective", "contentId", "startDate", "endDate",
             "plannedBudget", "currency", "status"})
CreatePerformanceEntryInput ==
  Sends({"periodStart", "periodEnd", "spend"},
        {"reach", "impressions", "clicks", "resultType", "resultCount", "currency",
         "correctsEntryId", "sourceRef"})
PerformanceOverlapCheckQuery == Sends({"periodStart", "periodEnd"}, {})
PaidSummaryQuery == Sends({}, {"campaignId", "contentId", "periodStart", "periodEnd"})

\* The filters of a report by the button that links to it; no page passes more.
ReportQuery == Empty

\* A call with the page's token, and one without.
Signed(shape) == [signed |-> TRUE, sends |-> shape]
Plain(shape) == [signed |-> FALSE, sends |-> shape]

\* What two groups of names say, taken together.
f ++ g == [name \in DOMAIN f \cup DOMAIN g |-> IF name \in DOMAIN f THEN f[name] ELSE g[name]]

AuthCalls == [logout |-> Signed(Empty), me |-> Plain(Empty)]

AccountCalls == [listConnectedAccounts |-> Plain(Empty), disconnectAccount |-> Signed(Empty)]

ContentCalls ==
  [listContents |-> Plain(ListContentQuery), getContent |-> Plain(Empty),
   createContent |-> Signed(CreateContentInput), updateContent |-> Signed(UpdateContentInput),
   archiveContent |-> Signed(Empty), uploadMedia |-> Signed(Empty), listAssets |-> Plain(Empty),
   addAsset |-> Signed(CreateContentAssetInput), removeAsset |-> Signed(Empty)]

RankingCalls == [rankContent |-> Signed(Empty), getScores |-> Plain(Empty)]

SchedulerCalls == [getSchedulerOverview |-> Plain(Empty)]

PostCalls ==
  [createPost |-> Signed(CreatePostInput),
   recordManualExternalPost |-> Signed(RecordManualExternalInput),
   publishPost |-> Signed(Sends({"password"}, {})), listPosts |-> Plain(Sends({}, {"status"})),
   resolvePosted |-> Signed(Sends({"externalPostId"}, {})), resolveNotPosted |-> Signed(Empty)]

MetricCalls ==
  [syncMetrics |-> Signed(Empty), addManualMetric |-> Signed(CreateManualMetricInput),
   listMetrics |-> Plain(Empty)]

DashboardCalls ==
  [getDashboardOverview |-> Plain(Empty), getDashboardRevenue |-> Plain(Empty),
   getContentRevenue |-> Plain(Empty)]

ReportCalls == [reportCsv |-> Plain(ReportQuery)]

CommentCalls ==
  [listComments |-> Plain(ListCommentsQuery), syncComments |-> Signed(Empty),
   replyComment |-> Signed(ReplyCommentInput), listEscalations |-> Plain(Sends({"active"}, {})),
   ackEscalation |-> Signed(Empty), eraseComment |-> Signed(Empty)]

CommentTemplateCalls == [listCommentTemplates |-> Plain(Empty)]

CatalogCalls ==
  [listCommerceProducts |-> Plain(ListCommerceProductsQuery),
   createCommerceProduct |-> Signed(CreateCommerceProductInput),
   updateCommerceProduct |-> Signed(UpdateCommerceProductInput),
   retireCommerceProduct |-> Signed(Empty), listAffiliateLinks |-> Plain(Empty),
   createAffiliateLink |-> Signed(CreateAffiliateLinkInput), retireAffiliateLink |-> Signed(Empty)]

PostAnchorCalls ==
  [listPostProductAnchors |-> Plain(Empty),
   anchorProductsToPost |-> Signed(RecordProductAnchorsInput),
   removePostProductAnchor |-> Signed(Empty)]

PlacementCalls ==
  [listPlacementProductAnchors |-> Plain(Empty),
   anchorProductsToPlacement |-> Signed(RecordProductAnchorsInput),
   removePlacementProductAnchor |-> Signed(Empty),
   recordCommercePlacement |-> Signed(RecordCommercePlacementInput),
   listCommercePlacements |-> Plain(ListCommercePlacementsQuery)]

ConversionCalls ==
  [createCommerceConversion |-> Signed(CreateCommerceConversionInput),
   listCommerceConversions |-> Plain(ListCommerceConversionsQuery),
   checkConversionOverlap |-> Plain(OverlapCheckQuery)]

SummaryCalls ==
  [getCommerceSummary |-> Plain(CommerceSummaryQuery), getContentCommerceSummary |-> Plain(Empty)]

PaidCalls ==
  [listPaidCampaigns |-> Plain(ListPaidCampaignsQuery),
   createPaidCampaign |-> Signed(CreatePaidCampaignInput),
   updatePaidCampaign |-> Signed(UpdatePaidCampaignInput), retirePaidCampaign |-> Signed(Empty),
   listPerformanceEntries |-> Plain(Empty),
   createPerformanceEntry |-> Signed(CreatePerformanceEntryInput),
   checkPerformanceOverlap |-> Plain(PerformanceOverlapCheckQuery),
   getPaidSummary |-> Plain(PaidSummaryQuery)]

EditorialCalls == AuthCalls ++ AccountCalls ++ ContentCalls ++ RankingCalls ++ SchedulerCalls

PublishingCalls ==
  PostCalls ++ MetricCalls ++ DashboardCalls ++ ReportCalls ++ CommentCalls ++ CommentTemplateCalls

CommerceCalls ==
  CatalogCalls ++ PostAnchorCalls ++ PlacementCalls ++ ConversionCalls ++ SummaryCalls

ApiClient == EditorialCalls ++ PublishingCalls ++ CommerceCalls ++ PaidCalls

-----------------------------------------------------------------------------
\* What the DTOs take: the fields that must be there, and those that may be.
Takes(required, optional) == [required |-> required, optional |-> optional]
NoDto == Takes({}, {})

ListContentQueryDto == Takes({}, {"type", "status", "licensingStatus", "ageBand", "search"})
CreateContentDto ==
  Takes({"type", "title", "mediaUrl", "targetAgeMin", "targetAgeMax", "licensingStatus"},
        {"caption", "licenseNotes", "licenseExpiresAt", "markReady", "contentPillar", "copyrightCleared",
         "copyrightNotes", "copyrightEvidenceUrl", "fileSizeBytes", "mimeType"})
UpdateContentDto ==
  Takes({}, {"type", "title", "caption", "targetAgeMin", "targetAgeMax", "status", "licensingStatus",
             "licenseNotes", "licenseExpiresAt", "contentPillar", "copyrightCleared", "copyrightNotes",
             "copyrightEvidenceUrl"})
CreateContentAssetDto == Takes({"platform", "aspectRatio", "mediaUrl"}, {"durationSeconds"})
CreatePostDto == Takes({"contentId", "platform", "password"}, {"overrideReason"})
RecordManualExternalDto ==
  Takes({"contentId", "platform", "externalPostId", "password"}, {"externalPostUrl", "overrideReason"})
PublishRetryDto == Takes({"password"}, {})
ListPostsQueryDto == Takes({}, {"status"})
ResolvePostedDto == Takes({"externalPostId"}, {})
CreateManualMetricDto == Takes({"reach", "engagement", "revenue"}, {"collectedAt"})
ReportQueryDto == Takes({}, {"from", "to", "platform", "contentId"})
ListCommentsQueryDto ==
  Takes({}, {"platform", "sentiment", "priority", "slaBreach", "replied", "page", "pageSize"})
ListEscalationsQueryDto == Takes({}, {"active"})
ReplyCommentDto == Takes({"password", "message"}, {})
ListProductsQueryDto == Takes({}, {"channel", "isActive", "q"})
CreateProductDto ==
  Takes({"channel", "externalProductId", "name"},
        {"sku", "productUrl", "listPrice", "currency", "commissionRatePct"})
UpdateProductDto ==
  Takes({}, {"name", "sku", "productUrl", "listPrice", "currency", "commissionRatePct"})
CreateAffiliateLinkDto == Takes({"url"}, {"trackingCode", "subId"})
RecordProductAnchorsDto == Takes({"anchors"}, {})
RecordCommercePlacementDto ==
  Takes({"contentId", "channel", "externalMediaId", "password"},
        {"externalUrl", "durationSeconds", "sourceAssetId", "note"})
ListPlacementsQueryDto == Takes({}, {"channel", "status", "contentId"})
CreateConversionDto ==
  Takes({"channel", "periodStart", "periodEnd", "commissionAmount"},
        {"ordersCount", "itemsSold", "grossSalesAmount", "postId", "placementId", "productId",
         "affiliateLinkId", "reversalOfId", "statementRef"})
ListConversionsQueryDto == Takes({}, {"channel", "productId", "placementId", "postId"})
OverlapCheckQueryDto == Takes({"channel", "periodStart", "periodEnd"}, {})
CommerceSummaryQueryDto == Takes({}, {"channel", "productId", "periodStart", "periodEnd"})
ListPaidCampaignsQueryDto == Takes({}, {"isActive", "q", "contentId"})
CreatePaidCampaignDto ==
  Takes({"channel", "externalCampaignName", "objective", "startDate"},
        {"externalCampaignId", "contentId", "endDate", "plannedBudget", "currency", "status"})

UpdatePaidCampaignDto ==
  Takes({}, {"externalCampaignName", "objective", "contentId", "startDate", "endDate",
             "plannedBudget", "currency", "status"})
CreatePerformanceEntryDto ==
  Takes({"periodStart", "periodEnd", "spend"},
        {"reach", "impressions", "clicks", "resultType", "resultCount", "currency",
         "correctsEntryId", "sourceRef"})
PerformanceOverlapCheckQueryDto == Takes({"periodStart", "periodEnd"}, {})
PaidSummaryQueryDto == Takes({}, {"campaignId", "contentId", "periodStart", "periodEnd"})

\* The routes a call reaches, with the guards they run after the session guard.
Route(guards, dto) == [guards |-> guards, dto |-> dto]
Read(dto) == Route({"admin"}, dto)
Write(dto) == Route({"admin", "csrf"}, dto)
Throttled(dto) == Route({"admin", "csrf", "throttler"}, dto)

AuthController == [logout |-> Route({}, NoDto), me |-> Route({}, NoDto)]

ConnectedAccountsController ==
  [listConnectedAccounts |-> Read(NoDto), disconnectAccount |-> Write(NoDto)]

ContentController ==
  [listContents |-> Read(ListContentQueryDto), getContent |-> Read(NoDto),
   createContent |-> Write(CreateContentDto), updateContent |-> Write(UpdateContentDto),
   archiveContent |-> Write(NoDto), uploadMedia |-> Write(NoDto), listAssets |-> Read(NoDto),
   addAsset |-> Write(CreateContentAssetDto), removeAsset |-> Write(NoDto)]

RankingController == [rankContent |-> Write(NoDto), getScores |-> Read(NoDto)]

SchedulerController == [getSchedulerOverview |-> Read(NoDto)]

PostsController ==
  [createPost |-> Throttled(CreatePostDto),
   recordManualExternalPost |-> Throttled(RecordManualExternalDto),
   publishPost |-> Throttled(PublishRetryDto), listPosts |-> Read(ListPostsQueryDto),
   resolvePosted |-> Write(ResolvePostedDto), resolveNotPosted |-> Write(NoDto)]

MetricsController ==
  [syncMetrics |-> Write(NoDto), addManualMetric |-> Write(CreateManualMetricDto),
   listMetrics |-> Read(NoDto)]

DashboardController ==
  [getDashboardOverview |-> Read(NoDto), getDashboardRevenue |-> Read(NoDto),
   getContentRevenue |-> Read(NoDto)]

\* Five reports; what the buttons link to passes every one's DTO.
ReportsController == [reportCsv |-> Read(ReportQueryDto)]

CommentsController ==
  [listComments |-> Read(ListCommentsQueryDto), syncComments |-> Throttled(NoDto),
   replyComment |-> Throttled(ReplyCommentDto), ackEscalation |-> Write(NoDto),
   listEscalations |-> Read(ListEscalationsQueryDto), eraseComment |-> Write(NoDto)]

CommentTemplatesController == [listCommentTemplates |-> Read(NoDto)]

CommerceCatalogController ==
  [listCommerceProducts |-> Read(ListProductsQueryDto),
   createCommerceProduct |-> Write(CreateProductDto),
   updateCommerceProduct |-> Write(UpdateProductDto), retireCommerceProduct |-> Write(NoDto),
   listAffiliateLinks |-> Read(NoDto), createAffiliateLink |-> Write(CreateAffiliateLinkDto),
   retireAffiliateLink |-> Write(NoDto)]

PostAnchorsController ==
  [listPostProductAnchors |-> Read(NoDto), anchorProductsToPost |-> Write(RecordProductAnchorsDto),
   removePostProductAnchor |-> Write(NoDto)]

CommercePlacementController ==
  [recordCommercePlacement |-> Throttled(RecordCommercePlacementDto),
   listCommercePlacements |-> Read(ListPlacementsQueryDto),
   listPlacementProductAnchors |-> Read(NoDto),
   anchorProductsToPlacement |-> Write(RecordProductAnchorsDto),
   removePlacementProductAnchor |-> Write(NoDto)]

CommerceConversionController ==
  [createCommerceConversion |-> Write(CreateConversionDto),
   listCommerceConversions |-> Read(ListConversionsQueryDto),
   checkConversionOverlap |-> Read(OverlapCheckQueryDto)]

CommerceSummaryController ==
  [getCommerceSummary |-> Read(CommerceSummaryQueryDto), getContentCommerceSummary |-> Read(NoDto)]

PaidController ==
  [listPaidCampaigns |-> Read(ListPaidCampaignsQueryDto),
   createPaidCampaign |-> Write(CreatePaidCampaignDto),
   updatePaidCampaign |-> Write(UpdatePaidCampaignDto), retirePaidCampaign |-> Write(NoDto),
   listPerformanceEntries |-> Read(NoDto),
   createPerformanceEntry |-> Write(CreatePerformanceEntryDto),
   checkPerformanceOverlap |-> Read(PerformanceOverlapCheckQueryDto),
   getPaidSummary |-> Read(PaidSummaryQueryDto)]

\* The controllers of the app's modules.
EditorialRoutes ==
  AuthController ++ ConnectedAccountsController ++ ContentController ++ RankingController
  ++ SchedulerController

PublishingRoutes ==
  PostsController ++ MetricsController ++ DashboardController ++ ReportsController
  ++ CommentsController ++ CommentTemplatesController

CommerceRoutes ==
  CommerceCatalogController ++ PostAnchorsController ++ CommercePlacementController
  ++ CommerceConversionController ++ CommerceSummaryController

Routes == EditorialRoutes ++ PublishingRoutes ++ CommerceRoutes ++ PaidController

\* whitelist with forbidNonWhitelisted.
PipeTakes(dto, fields) ==
  dto.required \subseteq fields /\ fields \subseteq dto.required \cup dto.optional

-----------------------------------------------------------------------------
NoCall == [pc |-> "idle"]
Statuses == {200, 400, 401, 403, 429}

ContractTypeOK ==
  /\ session \in {None} \cup 1..MaxLogins
  /\ issued \in 0..MaxLogins
  /\ isAdmin \in BOOLEAN
  /\ tab \in [Tab -> {None} \cup 1..MaxLogins]
  /\ call # NoCall => /\ call.by \in Tab /\ call.name \in DOMAIN ApiClient
                      /\ call.pc \in {"sent", "answered"}
                      /\ call.pc = "answered" => call.status \in Statuses
  /\ outdated \subseteq Tab
  /\ DOMAIN ApiClient = DOMAIN Routes

ContractInit ==
  /\ session = None /\ issued = 0 /\ isAdmin = TRUE
  /\ tab = [t \in Tab |-> None]
  /\ call = NoCall
  /\ outdated = {}

\* login: a new session, with a CSRF token of its own, for an admin or not.
LogsIn ==
  /\ issued < MaxLogins
  /\ issued' = issued + 1 /\ session' = issued + 1
  /\ isAdmin' \in BOOLEAN
  /\ outdated' = Tab
  /\ UNCHANGED <<tab, call>>

SessionEnds ==
  /\ session' = None
  /\ UNCHANGED <<issued, isAdmin, tab, call, outdated>>

RoleIsRevoked ==
  /\ isAdmin' = FALSE
  /\ UNCHANGED <<session, issued, tab, call, outdated>>

\* Mutant: every request for the token replaces it.
TokenAnew == issued + 1

\* csrf: the session's token; login has put one there.
TokenIssued == session

\* A page loads: who am I, and the token; without a session it goes to /login.
PageLoads(t) ==
  /\ call # NoCall => call.by # t
  /\ IF session = None
       THEN /\ tab' = [tab EXCEPT ![t] = None]
            /\ UNCHANGED <<session, issued, outdated>>
       ELSE /\ TokenIssued <= MaxLogins
            /\ session' = TokenIssued
            /\ issued' = IF TokenIssued > issued THEN TokenIssued ELSE issued
            /\ tab' = [tab EXCEPT ![t] = TokenIssued]
            /\ outdated' = outdated \ {t}
  /\ UNCHANGED <<isAdmin, call>>

\* The optional fields all or none: what the pipe decides is monotone between them.
CallSent(t, name) ==
  LET api == ApiClient[name] IN
  /\ call = NoCall
  /\ tab[t] # None
  /\ \E fields \in {api.sends.always, api.sends.always \cup api.sends.maybe} :
       call' = [pc |-> "sent", by |-> t, name |-> name, fields |-> fields,
                token |-> IF api.signed THEN tab[t] ELSE None]
  /\ UNCHANGED <<session, issued, isAdmin, tab, outdated>>

\* Session guard, admin guard, CSRF guard, throttler, validation pipe.
Status(route) ==
  IF session = None THEN {401}
  ELSE IF "admin" \in route.guards /\ ~isAdmin THEN {403}
  ELSE IF "csrf" \in route.guards /\ call.token # session THEN {403}
  ELSE (IF "throttler" \in route.guards THEN {429} ELSE {})
       \cup {IF PipeTakes(route.dto, call.fields) THEN 200 ELSE 400}

ServerAnswers ==
  /\ call.pc = "sent"
  /\ \E status \in Status(Routes[call.name]) :
       /\ call' = [pc |-> "answered", by |-> call.by, name |-> call.name, status |-> status,
                   admin |-> isAdmin, late |-> call.by \in outdated]
       /\ session' = IF call.name = "logout" /\ status = 200 THEN None ELSE session
  /\ UNCHANGED <<issued, isAdmin, tab, outdated>>

\* A read answered 401 sends the tab to /login.
TabContinues ==
  /\ call.pc = "answered"
  /\ tab' = IF call.status = 401 /\ ~ApiClient[call.name].signed
              THEN [tab EXCEPT ![call.by] = None] ELSE tab
  /\ call' = NoCall
  /\ UNCHANGED <<session, issued, isAdmin, outdated>>

ContractNext ==
  \/ LogsIn \/ SessionEnds \/ RoleIsRevoked \/ ServerAnswers \/ TabContinues
  \/ \E t \in Tab : \/ PageLoads(t)
                    \/ \E name \in DOMAIN ApiClient : CallSent(t, name)

ContractSpec == ContractInit /\ [][ContractNext]_contractVars

-----------------------------------------------------------------------------
\* No call the frontend makes is refused for the fields it sends.  A tab is
\* refused only when somebody has logged in since its page loaded, or the user
\* is no admin, whatever other tabs load meanwhile; and a write (logging out
\* excepted) goes through only for an admin, from a page of the running session.
ContractIsKept ==
  call.pc = "answered" =>
    /\ call.status # 400
    /\ call.status = 403 => call.late \/ ~call.admin
    /\ call.status = 200 /\ ApiClient[call.name].signed /\ call.name # "logout" =>
         call.admin /\ ~call.late
=============================================================================
