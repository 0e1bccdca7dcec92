------------------------------ MODULE LeadOrder ------------------------------
(***************************************************************************)
(* The confidence order of backbone-lead: which of several leads for the    *)
(* same person is the most credible master.  One comparison is used         *)
(* everywhere a master is chosen or duplicates are walked.                  *)
(***************************************************************************)
EXTENDS Integers

CONSTANTS
  Parties,   \* party ids a lead can be converted to
  None       \* the absent value: Option::None in the code, NULL in the table

Statuses == {"new", "contacted", "qualified", "converted", "junk", "lost"}

\* What the comparison reads of a lead: its status, its party anchor, when it
\* was created (absent when the row carries no timestamp) and its id.
ConfidenceKey ==
  [status : Statuses, party : Parties \cup {None},
   created_at : Nat \cup {None}, id : Nat]

\* None is no party and no timestamp: an absent value is never a present one.
ASSUME NoneIsAbsent == None \notin Parties /\ None \notin Nat

StatusRank(status) ==
  CASE status = "converted" -> 5
    [] status = "qualified" -> 4
    [] status = "contacted" -> 3
    [] status = "new" -> 2
    [] OTHER -> 1

Anchored(key) == key.party # None

\* Creation times compare newest first, and an absent time comes last.
Newer(a, b) ==
  /\ a.created_at # None
  /\ b.created_at # None => a.created_at > b.created_at

\* a ranks above b: the first criterion on which they differ decides.
RanksAbove(a, b) ==
  \/ StatusRank(a.status) > StatusRank(b.status)
  \/ /\ StatusRank(a.status) = StatusRank(b.status)
     /\ \/ Anchored(a) /\ ~Anchored(b)
        \/ /\ Anchored(a) = Anchored(b)
           /\ \/ Newer(a, b)
              \/ a.created_at = b.created_at /\ a.id < b.id
=============================================================================
