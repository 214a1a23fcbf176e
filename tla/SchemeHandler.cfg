SPECIFICATION FairSpec
CONSTANTS
  Requests = {r1, r2}
  Urls = {handler, logo, both, other}
  HandlerUrls = {handler, both}
  LogoUrls = {logo, both}
  Bytes <- Alphabet
  PageHtml <- Page
  LogoImage <- Image
  MaxRead = 4
  NULL = NULL
INVARIANTS
  DoneIsWhole
  TypeFitsBytes
PROPERTIES
  RequestsEnd
  ImplementsStream
CHECK_DEADLOCK FALSE
