------------------------------ MODULE MCLeadCrud ------------------------------
(***************************************************************************)
(* A small instance of LeadCrud for the model checker.                      *)
(***************************************************************************)
EXTENDS LeadCrud, TLC

CONSTANTS w1, e1, e2, o1, p1, short, long

\* Lead 2 was stored before the rules were declared and breaks one of them;
\* lead 3 has no row yet.
SeedRows == [l \in Leads |->
  [life |-> IF l = 3 THEN "unborn" ELSE "active", status |-> "new", party |-> None,
   merged_into |-> None,
   fields |-> [f \in Fields |-> IF l = 2 /\ f = "notes" THEN long ELSE None]]]

SameAge == [l \in Leads |-> 0]
OneOrg == [l \in Leads |-> o1]

Sheet(status, party, into, phone, notes) ==
  [status |-> status, party |-> party, merged_into |-> into,
   fields |-> [f \in Fields |-> IF f = "phone" THEN phone ELSE notes]]

\* Pointers either way, an old note sent back, and a phone the rules refuse.
Sheets ==
  {Sheet("new", None, 1, short, long), Sheet("converted", p1, 2, None, None),
   Sheet("new", None, None, long, None)}

Changes == {[merged_into |-> 2], [status |-> "unheard of", notes |-> short]}

Merges ==
  {[master |-> 1, ids |-> <<2>>, org |-> None], [master |-> None, ids |-> <<2, 3>>, org |-> None]}
=============================================================================
