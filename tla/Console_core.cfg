CONSTANTS
  Null = Null
  Legacy = Legacy
  PageLimit = 1
  Contents <- MCContents
  MaxCatalogClicks = 2
  ScopesToEdit <- MCScopesToEdit
  MaxFormClicks = 4
  ExecutionTypes = {"index"}
  CampaignsOf <- MCCampaignsOf
  ItemsOf <- MCItemsOf
  ToApprove = {1, 3}
  Running = {"k1"}
  MaxElsewhere = 1
  MaxCampaignClicks = 2
  AllFindings <- MCFindings
  Topics <- MCTopics
  StartMinute = 20200
  LastMinute = 20201
  TimeZone = 420
  CustomRanges <- MCCustomRanges
  MaxDashboardClicks = 2
  TrendLimit = 1
  ChartTables = {"A", "B"}
  Shapes <- MCShapes
  AutoCreated = {"a"}
  MaxRuns = 1
  Starts <- MCStarts
  PreviewCluster = "c4"
  PreviewRanges <- MCPreviewRanges
  Thresholds <- MCThresholds
  KeyOf <- MCKeyOf
SPECIFICATION Spec
INVARIANTS
  ChartsAgree
  RequestsAreListed
  HiddenFiltersAreOff
  ViewsAgree
  PreviewsAgree
PROPERTIES
  BulkStaysInCluster
  SelectionSettles
CHECK_DEADLOCK FALSE
