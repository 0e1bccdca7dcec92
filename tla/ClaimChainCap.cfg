\* Refuted: the chain follow limit is unreachable.  Limit 2 stands for the 16 of the code.
SPECIFICATION Spec
CONSTANTS
  None = None
  w1 = w1
  w2 = w2
  o1 = o1
  o2 = o2
  p1 = p1
  v2 = v2
  v3 = v3
  Leads = {1, 2, 3, 4}
  Sessions = {w1}
  Workers = {w1}
  Orgs = {o1, o2}
  OrgOf <- OneOrg
  CreatedAt <- SameAge
  Parties = {p1}
  Fields = {}
  Values = {v2, v3}
  Seed <- SeedRows
  Requests <- ChainOfFour
  MAX_PINNED_ABSORBS = 2
  MAX_AUTO_BATCH = 3
  CHAIN_FOLLOW_LIMIT = 2
  MaxRequests = 4
  Environment = {}
  MayCrash = FALSE
INVARIANTS ChainLimitUnreachable
