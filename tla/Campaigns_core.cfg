\* Two campaigns, two DBAs, the runner with a crash, one midnight.
CONSTANTS
  Ids = {c1, c2}
  Users = {u1, u2}
  Tables = {t1}
  Types <- MCTypes
  Entries <- MCEntries
  LastDay = 1
  MayCrash = TRUE
  Null = Null
SPECIFICATION Spec
INVARIANTS CampaignTypeOK OneLive UntouchedEditKeeps
PROPERTIES RevivedByDiscoveryOrExtension
SYMMETRY UsersAndCampaignsAreAlike
