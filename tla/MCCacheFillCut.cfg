SPECIFICATION Spec
CONSTANTS
  MaxVersion = 2
  Fetcher = {f1, f2}
  Url = {u1}
  NoUrl = NoUrl
  Window = 1
  MaxKills = 1
  Nobody = Nobody
PROPERTIES
  NotModifiedHasFile
