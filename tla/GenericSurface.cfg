\* Unguarded edits, creates and purges beside merges of the same leads.
SPECIFICATION FairCrud
CONSTANTS
  None = None
  w1 = w1
  e1 = e1
  e2 = e2
  o1 = o1
  p1 = p1
  short = short
  long = long
  Leads = {1, 2, 3}
  Sessions = {w1}
  Workers = {w1}
  Orgs = {o1}
  OrgOf <- OneOrg
  CreatedAt <- SameAge
  Parties = {p1}
  Fields = {"phone", "notes"}
  Values = {short, long}
  Seed <- SeedRows
  Requests <- Merges
  MAX_PINNED_ABSORBS = 5
  MAX_AUTO_BATCH = 6
  CHAIN_FOLLOW_LIMIT = 3
  MaxRequests = 2
  Environment = {"delete"}
  MayCrash = FALSE
  Editors = {e1, e2}
  Drafts <- Sheets
  Patches <- Changes
  Breaking = {long}
  MaxEdits = 2
INVARIANTS CrudTypeOK NoNewBreaks CacheFresh
PROPERTIES MergesAnswered
