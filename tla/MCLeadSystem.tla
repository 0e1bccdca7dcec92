----------------------------- MODULE MCLeadSystem -----------------------------
(***************************************************************************)
(* Small instances of LeadSystem for the model checker.                     *)
(***************************************************************************)
EXTENDS LeadSystem

CONSTANTS w1, h1, h2, o1, p1, p2, v1

Captured(status) ==
  [life |-> "active", status |-> status, party |-> None, merged_into |-> None,
   fields |-> [f \in Fields |-> None]]

\* Lead 2 was given up as junk, which keeps it from qualifying and not from converting.
SeedRows == [l \in Leads |-> Captured(IF l = 2 THEN "junk" ELSE "new")]
SameAge == [l \in Leads |-> 0]
OneOrg == [l \in Leads |-> o1]

\* A merge either way between the two leads.
BothWays ==
  {[master |-> 1, ids |-> <<2>>, org |-> None], [master |-> 2, ids |-> <<1>>, org |-> None]}
=============================================================================
