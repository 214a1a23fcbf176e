SPECIFICATION FairSpec
CONSTANTS
  Views = {v1, v2}
  Browsers = {b1, b2, b3}
  Urls = {u1}
  NULL = NULL
  EmptyUrl = EmptyUrl
  InitialCounts <- NoGarbage
  AwaitCreated = TRUE
  DevToolsUsed = FALSE
INVARIANTS
  RefIsOwnExistingBrowser
  OneBrowserPerView
PROPERTIES
  ImplementsSlot
  CloseRequestsMainBrowser
  DestroyedViewLosesBrowsers
  CountFallsBack
CHECK_DEADLOCK FALSE
