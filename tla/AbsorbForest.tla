----------------------------- MODULE AbsorbForest -----------------------------
(***************************************************************************)
(* What merging leads promises, with no transactions, locks or workers in   *)
(* it: one step absorbs a set of live, unconverted leads into a live        *)
(* master, which keeps the values it has and is given the ones it lacks.    *)
(* Deleting a lead is the only loss.  Module LeadMerge implements it.       *)
(***************************************************************************)
CONSTANTS Leads, Fields, Values,
  None   \* the absent value

VARIABLES
  parent,     \* the lead each lead was absorbed into, or None
  converted,  \* the leads that became customers
  fields,     \* each lead's nullable columns
  gone        \* the leads deleted for good

forest == <<parent, converted, fields, gone>>

Live(l) == l \notin gone /\ parent[l] = None

\* Absorbing D gives m the values filled: its own, else one of D's, else none.
Inherits(m, D, filled) ==
  \A f \in Fields :
    IF fields[m][f] # None THEN filled[f] = fields[m][f]
    ELSE LET offered == {fields[d][f] : d \in D} \ {None}
         IN IF offered = {} THEN filled[f] = None ELSE filled[f] \in offered

Absorb(m, D, filled) ==
  /\ D # {} /\ m \notin D /\ Live(m)
  /\ \A d \in D : Live(d) /\ d \notin converted
  /\ Inherits(m, D, filled)
  /\ parent' = [l \in Leads |-> IF l \in D THEN m ELSE parent[l]]
  /\ fields' = [fields EXCEPT ![m] = filled]
  /\ UNCHANGED <<converted, gone>>

Convert(l) ==
  /\ l \notin gone
  /\ converted' = converted \cup {l}
  /\ UNCHANGED <<parent, fields, gone>>

\* Deleting a lead takes what it holds and its pointer; pointers to it stay.
Remove(l) ==
  /\ gone' = gone \cup {l}
  /\ parent' = [parent EXCEPT ![l] = None]
  /\ converted' = converted \ {l}
  /\ fields' = [fields EXCEPT ![l] = [f \in Fields |-> None]]

ForestInit ==
  /\ parent = [l \in Leads |-> None]
  /\ converted \in SUBSET Leads
  /\ fields \in [Leads -> [Fields -> Values \cup {None}]]
  /\ gone \in SUBSET Leads

ForestNext ==
  \/ \E m \in Leads, D \in SUBSET Leads, filled \in [Fields -> Values \cup {None}] :
       Absorb(m, D, filled)
  \/ \E l \in Leads : Convert(l) \/ Remove(l)

ForestSpec == ForestInit /\ [][ForestNext]_forest

-----------------------------------------------------------------------------
ForestTypeOK ==
  /\ parent \in [Leads -> Leads \cup {None}]
  /\ converted \in SUBSET Leads
  /\ fields \in [Leads -> [Fields -> Values \cup {None}]]
  /\ gone \in SUBSET Leads

\* No set of leads points only into itself: the pointers make a forest.
ForestAcyclic ==
  \A S \in SUBSET Leads : S # {} => \E l \in S : parent[l] \notin S

\* A pointer is set once and a value, once there, stays, both until their own
\* lead is deleted: no later merge re-points an absorbed lead or loses a master's
\* own data, and what is deleted does not come back.
NothingLost ==
  [][ /\ gone \subseteq gone'
      /\ \A l \in Leads \ gone' :
           /\ parent[l] # None => parent'[l] = parent[l]
           /\ \A f \in Fields : fields[l][f] # None => fields'[l][f] = fields[l][f]
    ]_forest
=============================================================================
