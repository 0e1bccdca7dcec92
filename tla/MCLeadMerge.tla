----------------------------- MODULE MCLeadMerge -----------------------------
(***************************************************************************)
(* Small instances of LeadMerge for the model checker, and the claims of    *)
(* the documentation that runs of it refute.                                *)
(***************************************************************************)
EXTENDS LeadMergeClaims, TLC

CONSTANTS w1, w2, o1, o2, p1, v2, v3

Captured(status, email) ==
  [life |-> "active", status |-> status, party |-> None, merged_into |-> None,
   fields |-> [f \in Fields |-> email]]

\* Leads 2 and 3 have different emails and the others none.
SeedRows ==
  [l \in Leads |-> CASE l = 2 -> Captured("contacted", v2)
                     [] l = 3 -> Captured("new", v3)
                     [] OTHER -> Captured("new", None)]

SameAge == [l \in Leads |-> 0]
OneOrg == [l \in Leads |-> o1]
\* Lead 4 belongs to the second org.
LastApart == [l \in Leads |-> IF l = 4 THEN o2 ELSE o1]

Pin(m, ids) == [master |-> m, ids |-> ids, org |-> None]
Auto(ids) == [master |-> None, ids |-> ids, org |-> None]
In(org, r) == [r EXCEPT !.org = org]

\* Merges of three leads, in every direction, and one of each bad shape.
ThreeLeads ==
  {Pin(1, <<2>>), Pin(2, <<3>>), Pin(3, <<1, 2>>), Auto(<<3, 1, 3>>),
   Auto(<<1, 2>>), Pin(1, <<1>>), Auto(<<1>>)}

\* Chains longer than the follow limit of the run that uses them, by callers
\* fenced into the first org, and a link out of it into the second by one without
\* a fence: from then on the chains of 3 and 2 leave the org.
Chains ==
  {In(o1, r) : r \in {Pin(2, <<1>>), Pin(3, <<2>>), Auto(<<1, 2>>), Pin(1, <<3>>), Pin(3, <<4>>)}}
    \cup {Pin(4, <<3>>)}

\* A few merges that keep getting into each other's way.
Contended == {Pin(1, <<2>>), Pin(2, <<3>>), Auto(<<2, 1>>)}

\* Absorbs one on top of the other: 1 into 2 into 3 into 4.
ChainOfFour == {Pin(2, <<1>>), Pin(3, <<2>>), Pin(4, <<3>>), Pin(1, <<4>>)}

\* Lead 3 goes into 2, and then one batch names them both.
Nested == {Pin(2, <<3>>), Pin(1, <<2, 3>>)}

Symmetry == Permutations(Workers)
=============================================================================
