\* Refuted: foreign numbers pass through with their digits.
SPECIFICATION IntakeSpec
CONSTANTS
  None = None
  w1 = w1
  s1 = s1
  s2 = s2
  o1 = o1
  p1 = p1
  visitor = visitor
  Leads = {1, 2, 3}
  Sessions = {w1}
  Workers = {w1}
  Orgs = {o1}
  OrgOf <- OneOrg
  CreatedAt <- Arrival
  Parties = {p1}
  Fields = {"phone", "email"}
  Values <- Contacts
  Seed <- SeedRows
  Requests = {}
  MAX_PINNED_ABSORBS = 5
  MAX_AUTO_BATCH = 6
  CHAIN_FOLLOW_LIMIT = 16
  MaxRequests = 0
  Environment = {"convert", "delete"}
  MayCrash = FALSE
  Sites = {s1, s2}
  Visitors = {visitor}
  Forms <- Visits
  Bodies <- Abroad
  Queries <- Scans
  Label <- Labels
  Line <- Lines
  Owner <- Owners
INVARIANTS InternationalPassesThrough
