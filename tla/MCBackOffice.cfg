INIT BackOfficeInit
NEXT BackOfficeNext
CONSTANTS
  one = one
  two = two
  left = left
  right = right
  None = None
  Request = {one, two}
  Admin = {a1}
\* Catalog
  Product = {"p1", "p2"}
  Url = {"u1"}
  Target = {"post"}
  AnchorLists <- Lists
  MaxAnchors = 2
\* Placements
  Clip = {"clip"}
  Shop = {"shopee", "other"}
  GatedShop = "shopee"
  Duration = {9, 60}
  MinDuration = 10
  MaxDuration = 60
\* Conversions
  Channel = {left, right}
  Content = {"content"}
  Place = {"post"}
  ContentOf <- OneContent
  Amount = {1}
  ConversionWindow = 0
  MaxConversions = 2
  MaxClock = 0
\* Campaigns and PaidEntries
  Campaign = {left, right}
  ExternalId = {"x"}
  Date = {0, 1}
  AdCampaign = {left, right}
  Figures = {"f"}
  PaidWindow = 1
  MaxEntries = 2
  MaxPaidClock = 1
\* RankingFactors
  NoPolicy = NoPolicy
  Ratio = {40}
  Cadence = {1}
  Average = {0, 2}
  Automated = TRUE
  MaxLive = 1
  MaxDecisions = 5
\* Ranking
  Engine = {"v1", "v2"}
  TieBreak <- Platforms
  RanksOn <- Ranks
  Score = {1, 2}
  MaxRuns = 2
  MaxRankClock = 1
\* Metrics
  LivePosts <- Posts
  PostContent <- Contents
  Reach = {1}
  MaxNow = 1
  MaxReadings = 2
\* Login
  HitLimit = 2
  HitWindow = 1
  MaxFailed = 2
  Lockout = 1
  MaxLoginClock = 1
  MaxHits = 3
\* Sessions
  Provider = {left, right}
  MaxSessions = 1
  MaxHandshakes = 2
\* Adapters
  AdapterCall = {"call"}
  Facebook = "facebook"
  YouTube = "youtube"
  TikTok = "tiktok"
  Line = "line"
\* Retention
  AuditedEvent = {"login"}
  OldComment = {"c1"}
  NameWindow = 1
  CommentWindow = 2
  Overflows = {3}
  MaxRetentionClock = 3
\* Screens, AnchorDialog, Uploads and Contract
  Task = {left, right}
  MaxRows = 1
  Pinnable = {left, right}
  Tag = {"link"}
  MaxPins = 2
  File = {left, right}
  Length = 12
  MaxImage = 4
  MaxVideo = 12
  Tab = {left, right}
  MaxLogins = 3
SYMMETRY Symmetry
VIEW View
INVARIANTS
  TypesOK
  PlacementIsSound
  MetricsAreFaithful
  AttemptsAreCounted
  SessionsAreSound
  
  SavedMeansPinned
  UploadsAreSound
  ContractIsKept
PROPERTIES
  RankingIsSound
  CatalogIsSound
  ConversionsAreSound
  PaidIsSound
  NamesLastTheWindow
  AdaptersKeepPromise
CHECK_DEADLOCK FALSE
