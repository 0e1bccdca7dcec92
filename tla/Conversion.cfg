\* Two hosts qualify and convert two leads while they are merged, trashed and purged.
SPECIFICATION FairSystem
CONSTANTS
  None = None
  w1 = w1
  h1 = h1
  h2 = h2
  o1 = o1
  p1 = p1
  p2 = p2
  v1 = v1
  Leads = {1, 2}
  Sessions = {w1, h1, h2}
  Workers = {w1}
  Orgs = {o1}
  OrgOf <- OneOrg
  CreatedAt <- SameAge
  Parties = {p1, p2}
  Fields = {}
  Values = {v1}
  Seed <- SeedRows
  Requests <- BothWays
  MAX_PINNED_ABSORBS = 5
  MAX_AUTO_BATCH = 6
  CHAIN_FOLLOW_LIMIT = 16
  MaxRequests = 1
  Environment = {"delete", "purge"}
  MayCrash = FALSE
  Hosts = {h1, h2}
  MaxVerbs = 2
  HostsCrash = TRUE
INVARIANTS SystemTypeOK ClaimsHold DealsFollow CacheFresh
PROPERTIES KeepsPromise ImplementsForest VerbsAnswered
