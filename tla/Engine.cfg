SPECIFICATION FairEngineSpec
CONSTANTS
  Views = {main_web}
  Browsers = {b1, b2, b3}
  Urls = {u1}
  NULL = NULL
  EmptyUrl = EmptyUrl
  InitialCounts <- SomeGarbage
  AwaitCreated = FALSE
  DevToolsUsed = TRUE
INVARIANTS
  CountTracksBrowsers
  RefIsOwnExistingBrowser
  NoDanglingDelegate
PROPERTIES
  NewBrowserLoadsRememberedUrl
  ContextOutlivesCallbacks
  CloseLeadsToRelease
CHECK_DEADLOCK FALSE
