SPECIFICATION Spec
CONSTANTS
  Views = {v1}
  Browsers = {b1, b2, b3}
  Urls = {u1}
  NULL = NULL
  EmptyUrl = EmptyUrl
  InitialCounts <- NoGarbage
  AwaitCreated = TRUE
  DevToolsUsed = TRUE
PROPERTIES
  CloseRequestsMainBrowser
CHECK_DEADLOCK FALSE
