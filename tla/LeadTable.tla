------------------------------ MODULE LeadTable ------------------------------
(***************************************************************************)
(* The lead.leads table and the row locks PostgreSQL keeps on it, with the  *)
(* operations other than merge that write it.  Each of those is one         *)
(* statement: it waits for the lock on its row and re-evaluates its WHERE   *)
(* clause on the row it finds then, which is what UPDATE does under READ    *)
(* COMMITTED.                                                               *)
(***************************************************************************)
EXTENDS LeadOrder

CONSTANTS
  Leads,      \* lead ids; numbers, because the batch lock is ORDER BY id
  Sessions,   \* database connections, each on one transaction at a time
  Workers,    \* the ones that run merges
  Orgs,       \* org scopes of the composing service
  OrgOf,      \* the org the row-level fence files each lead under
  CreatedAt,  \* the creation time the audit trigger stamped on each lead
  Fields,     \* the nullable lead-owned columns a merge fills
  Values,     \* their values
  Seed        \* the table before the first step: leads as captured

\* An unborn id has no row yet and a gone one had its row deleted.
Row == [life : {"unborn", "active", "trash", "gone"},
        status : Statuses,
        party : Parties \cup {None},
        merged_into : Leads \cup {None},
        fields : [Fields -> Values \cup {None}]]

\* Seed is a table nobody has merged yet.  Its status is converted exactly where
\* its party is set: claim_conversion writes the two columns together.
ASSUME TableAssumption ==
  /\ Leads \subseteq Nat
  /\ Workers \subseteq Sessions
  /\ None \notin Leads \cup Sessions \cup Orgs \cup Row
  /\ None \notin Values
  /\ OrgOf \in [Leads -> Orgs]
  /\ CreatedAt \in [Leads -> Nat \cup {None}]
  /\ Seed \in [Leads -> Row]
  /\ \A l \in Leads : /\ Seed[l].merged_into = None
                      /\ Seed[l].status = "converted" <=> Seed[l].party # None

VARIABLES
  row,   \* the committed table
  lock   \* the session whose transaction has locked each row, or None

tableVars == <<row, lock>>

TableInit ==
  /\ row = Seed
  /\ lock = [l \in Leads |-> None]

-----------------------------------------------------------------------------
\* Mutation of InScope: the pool without its row-level fence.
UnfencedInScope(l, org) == TRUE

\* The row-level fence: an unfenced request (None) sees every org.
InScope(l, org) == org = None \/ OrgOf[l] = org

\* What `WHERE id = ANY($1) AND deleted_at IS NULL` sees through the fence.
Visible(l, org) == row[l].life = "active" /\ InScope(l, org)

Merged(l) == row[l].merged_into # None

\* The table has a row of this id, in the trash or not.
Stored(l) == row[l].life \in {"active", "trash"}

\* A single UPDATE of the row, once no transaction holds it.
Update(l, guard, new) ==
  /\ lock[l] = None
  /\ guard
  /\ row' = [row EXCEPT ![l] = new]
  /\ UNCHANGED lock

-----------------------------------------------------------------------------
\* Mutation of Qualifies: the update without its status filter.
QualifiesAnything(l) == Stored(l)

\* The WHERE clause of mark_qualified keeps a converted, junk or lost status.
Qualifies(l) == Stored(l) /\ row[l].status \in {"new", "contacted", "qualified"}

Qualified(l) == [row[l] EXCEPT !.status = "qualified"]

MarkQualified(l) == Update(l, Qualifies(l), Qualified(l))

\* Mutations of Claimable: the claim without its compare-and-set, or with the
\* status filter of mark_qualified added to it.
ClaimableAgain(l) == Stored(l)
ClaimableIfOpen(l) == Stored(l) /\ row[l].party = None /\ row[l].status \notin {"junk", "lost"}

\* claim_conversion compares and sets on party_id IS NULL.  The statement looks
\* at nothing else: not at deleted_at, not at merged_into_lead_id.
Claimable(l) == Stored(l) /\ row[l].party = None

ConvertedTo(l, p) == [row[l] EXCEPT !.party = p, !.status = "converted"]

ClaimConversion(l, p) == Update(l, Claimable(l), ConvertedTo(l, p))

\* What is left of a deleted row: its id, which is never given out again.
Deleted == [life |-> "gone", status |-> "new", party |-> None, merged_into |-> None,
            fields |-> [f \in Fields |-> None]]

\* The generated surface: soft delete, restore from the trash, purge from it.
\* A purge takes the lead's own pointer with the row and leaves the pointers to it:
\* merged_into_lead_id has no foreign key.
SoftDelete(l) == Update(l, row[l].life = "active", [row[l] EXCEPT !.life = "trash"])
Restore(l)    == Update(l, row[l].life = "trash", [row[l] EXCEPT !.life = "active"])
Purge(l)      == Update(l, row[l].life = "trash", Deleted)
=============================================================================
