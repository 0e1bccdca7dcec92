\* Chains of absorbs under a short follow limit, in two orgs, while leads are trashed,
\* restored and purged.
SPECIFICATION Spec
CONSTANTS
  None = None
  w1 = w1
  w2 = w2
  o1 = o1
  o2 = o2
  p1 = p1
  v2 = v2
  v3 = v3
  Leads = {1, 2, 3, 4}
  Sessions = {w1}
  Workers = {w1}
  Orgs = {o1, o2}
  OrgOf <- LastApart
  CreatedAt <- SameAge
  Parties = {p1}
  Fields = {}
  Values = {v2, v3}
  Seed <- SeedRows
  Requests <- Chains
  MAX_PINNED_ABSORBS = 2
  MAX_AUTO_BATCH = 3
  CHAIN_FOLLOW_LIMIT = 1
  MaxRequests = 4
  Environment = {"delete", "restore", "purge"}
  MayCrash = FALSE
INVARIANTS FenceHolds AnswersStayTrue
