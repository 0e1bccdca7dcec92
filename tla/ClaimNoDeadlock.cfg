\* Refuted: ordered batch locks keep overlapping merges from deadlocking.
SPECIFICATION Spec
CONSTANTS
  None = None
  w1 = w1
  w2 = w2
  o1 = o1
  o2 = o2
  p1 = p1
  v2 = v2
  v3 = v3
  Leads = {1, 2, 3}
  Sessions = {w1, w2}
  Workers = {w1, w2}
  Orgs = {o1, o2}
  OrgOf <- OneOrg
  CreatedAt <- SameAge
  Parties = {p1}
  Fields = {"email"}
  Values = {v2, v3}
  Seed <- SeedRows
  Requests <- ThreeLeads
  MAX_PINNED_ABSORBS = 2
  MAX_AUTO_BATCH = 3
  CHAIN_FOLLOW_LIMIT = 16
  MaxRequests = 3
  Environment = {}
  MayCrash = FALSE
INVARIANTS NoDeadlock
