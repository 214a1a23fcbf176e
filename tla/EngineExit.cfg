SPECIFICATION EngineSpec
CONSTANTS
  Views = {main_web}
  Browsers = {b1, b2, b3}
  Urls = {u1}
  NULL = NULL
  EmptyUrl = EmptyUrl
  InitialCounts <- NoGarbage
  AwaitCreated = FALSE
  DevToolsUsed = FALSE
PROPERTIES
  NoLiveBrowserAtShutdown
CHECK_DEADLOCK FALSE
