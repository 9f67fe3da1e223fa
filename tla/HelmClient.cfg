\* Concurrent calls of the helm client; the last of them may be over.
SPECIFICATION FairSpec
CONSTANTS
  Urls <- MCUrls
  Goroutines = {g1, g2}
  Offers <- MCOffers
  News = {3}
  Malformed = {2}
  ChartTexts <- MCChartTexts
  Scopes <- MCScopes
  Installed = {"Deployment", "ClusterRole"}
  Instance <- MCInstance
  Attempts = 2
  Budgets <- MCBudgets
  Lower <- MCLower
  Width = 4
  Invalid = Invalid
  None = None
INVARIANTS TypeOK OwnRepository FetchFresh LoneCallSucceeds RenderedFindable SpecAddsUp
PROPERTIES CallsDescend CallsEnd
CHECK_DEADLOCK FALSE
