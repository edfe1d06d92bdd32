SPECIFICATION FairSpec
CONSTANTS
  MaxVersion = 2
  Fetcher = {f1, f2}
  Url = {u1, u2}
  NoUrl = NoUrl
  Window = 2
  MaxKills = 1
  Nobody = Nobody
INVARIANTS
  TypeOK
  
  NoStepBack
  PreparedUnlessUpset
  
PROPERTIES
  RefreshReaches
