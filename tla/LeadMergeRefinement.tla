-------------------------- MODULE LeadMergeRefinement --------------------------
(***************************************************************************)
(* merge_leads implements AbsorbForest, for any leads, workers, requests    *)
(* and limits: the table changes in whole absorbs, conversions and          *)
(* deletions only, so what is true of the forest is true of the table.      *)
(***************************************************************************)
EXTENDS LeadMergeProofs

Abstract == INSTANCE AbsorbForestProofs WITH
              parent <- [l \in Leads |-> row[l].merged_into],
              converted <- {l \in Leads : row[l].status = "converted"},
              fields <- [l \in Leads |-> row[l].fields],
              gone <- {l \in Leads : row[l].life = "gone"}

-----------------------------------------------------------------------------
\* Only a commit and the other writers touch the table.
LEMMA WhoWrites ==
  ASSUME Next
  PROVE  row' = row \/ OtherWriter \/ \E w \in Workers : Commit(w)
<1>1. ASSUME NEW w \in Workers, Progress(w), ~Commit(w) PROVE row' = row
  BY <1>1 DEF Progress, BatchMissing, ResolvePinned, Redirect, ResolveAuto, AutoAllAbsorbed,
       ChaseMissing, ChaseHop, ChaseTooDeep, ChaseFoundMaster, ChaseFoundOwner, ClassifyMaster,
       ClassifyConverted, ClassifyAbsorbed, ClassifyLive, CommitNothing, Publish, Abort, Step
<1>2. ASSUME NEW w \in Workers,
             \/ \E r \in Requests : RefuseShape(w, r) \/ Begin(w, r)
             \/ LockBatchRow(w) \/ ChaseFetch(w) \/ DeadlockVictim(w) \/ Crash(w)
      PROVE  row' = row
  BY <1>2 DEF RefuseShape, Begin, Accept, LockBatchRow, ChaseFetch, LockRow, DeadlockVictim, Crash, Abort
<1>3. CASE Quiescent
  BY <1>3 DEF Quiescent, vars
<1> QED
  BY <1>1, <1>2, <1>3 DEF Next

\* A commit absorbs: its cache is fresh, so what it classified on the cache is
\* true of the table it writes.
LEMMA CommitAbsorbs ==
  ASSUME IInv, NEW w \in Workers, Commit(w)
  PROVE  \E m \in Leads, D \in SUBSET Leads, filled \in [Fields -> Values \cup {None}] :
           Forest!Absorb(m, D, filled)
<1> DEFINE t == tx[w]
           m == t.master_id
           D == t.absorb_live
<1>1. /\ t \in Transaction /\ m \in Leads /\ D \in SUBSET Leads
      /\ D # {} /\ m \notin D
      /\ \A d \in D \cup {m} : t.rows[d] = row[d] /\ ~Merged(d) /\ row[d].life = "active"
      /\ \A d \in D : row[d].status # "converted"
  BY CommitWrites DEF Transaction, Visible
<1>2. PICK filled \in [Fields -> Values \cup {None}] :
        /\ \A f \in Fields : FillOrKeep(t, f, filled[f])
        /\ row' = [l \in Leads |-> IF l = m THEN [row[l] EXCEPT !.fields = filled]
                                   ELSE IF l \in D THEN [row[l] EXCEPT !.merged_into = m]
                                   ELSE row[l]]
  BY CommitWrites
<1>3. \A l \in Leads : row[l] \in Row
  BY DEF IInv, TypeOK
<1> HIDE DEF m, D
<1>4. \A l \in Leads :
        /\ row'[l].merged_into = IF l \in D THEN m ELSE row[l].merged_into
        /\ row'[l].fields = IF l = m THEN filled ELSE row[l].fields
        /\ row'[l].status = row[l].status /\ row'[l].life = row[l].life
  BY <1>1, <1>2, <1>3 DEF Row
<1>5. Forest!Inherits(m, D, filled)
  <2> SUFFICES ASSUME NEW f \in Fields
               PROVE  IF row[m].fields[f] # None THEN filled[f] = row[m].fields[f]
                      ELSE LET offered == {row[d].fields[f] : d \in D} \ {None}
                           IN IF offered = {} THEN filled[f] = None ELSE filled[f] \in offered
    <3>1. m \in Leads /\ D \in SUBSET Leads
      BY <1>1
    <3> QED
      BY <3>1 DEF Forest!Inherits
  <2>1. FillOrKeep(t, f, filled[f]) /\ t.rows[m] = row[m] /\ \A d \in D : t.rows[d] = row[d]
    BY <1>1, <1>2
  <2> QED
    BY <2>1, <1>1 DEF FillOrKeep, MostCredible, m, D
<1>6. Forest!Absorb(m, D, filled)
  <2>1. D # {} /\ m \notin D /\ Forest!Live(m)
          /\ \A d \in D : Forest!Live(d) /\ d \notin {l \in Leads : row[l].status = "converted"}
    BY <1>1 DEF Forest!Live, Merged
  <2>2. [l \in Leads |-> row'[l].merged_into]
          = [l \in Leads |-> IF l \in D THEN m ELSE [k \in Leads |-> row[k].merged_into][l]]
    BY <1>4
  <2>3. [l \in Leads |-> row'[l].fields]
          = [[l \in Leads |-> row[l].fields] EXCEPT ![m] = filled]
    BY <1>1, <1>4
  <2>4. /\ {l \in Leads : row'[l].status = "converted"} = {l \in Leads : row[l].status = "converted"}
        /\ {l \in Leads : row'[l].life = "gone"} = {l \in Leads : row[l].life = "gone"}
    BY <1>4
  <2> QED
    BY <1>5, <2>1, <2>2, <2>3, <2>4 DEF Forest!Absorb
<1> QED
  BY <1>1, <1>6

\* A purge deletes its lead from the forest.
LEMMA PurgeRemoves ==
  ASSUME IInv, NEW l \in Leads, Purge(l)
  PROVE  Forest!Remove(l)
<1>1. row' = [row EXCEPT ![l] = Deleted] /\ row \in [Leads -> Row]
  BY DEF Purge, Update, IInv, TypeOK
<1>2. /\ Deleted.life = "gone" /\ Deleted.status = "new" /\ Deleted.merged_into = None
      /\ Deleted.fields = [f \in Fields |-> None]
  BY DEF Deleted
<1>3. /\ [k \in Leads |-> row'[k].merged_into]
           = [[k \in Leads |-> row[k].merged_into] EXCEPT ![l] = None]
      /\ [k \in Leads |-> row'[k].fields]
           = [[k \in Leads |-> row[k].fields] EXCEPT ![l] = [f \in Fields |-> None]]
      /\ {k \in Leads : row'[k].status = "converted"}
           = {k \in Leads : row[k].status = "converted"} \ {l}
      /\ {k \in Leads : row'[k].life = "gone"} = {k \in Leads : row[k].life = "gone"} \cup {l}
  BY <1>1, <1>2
<1> QED
  BY <1>3 DEF Forest!Remove

\* The other writers convert a lead, delete one or change nothing the forest sees.
LEMMA OtherWriterConverts ==
  ASSUME IInv, OtherWriter
  PROVE  (\E l \in Leads : Forest!Convert(l) \/ Forest!Remove(l)) \/ UNCHANGED Forest!forest
<1>1. PICK l \in Leads :
        \/ MarkQualified(l) \/ \E p \in Parties : ClaimConversion(l, p)
        \/ SoftDelete(l) \/ Restore(l) \/ Purge(l)
  BY DEF OtherWriter
<1>2. row \in [Leads -> Row] /\ row[l] \in Row
  BY DEF IInv, TypeOK
<1>3. ASSUME NEW new, row' = [row EXCEPT ![l] = new],
             new.merged_into = row[l].merged_into, new.fields = row[l].fields,
             new.status = "converted" <=> row[l].status = "converted",
             new.life = "gone" <=> row[l].life = "gone"
      PROVE  UNCHANGED Forest!forest
  <2>1. \A k \in Leads : /\ row'[k].merged_into = row[k].merged_into
                         /\ row'[k].fields = row[k].fields
                         /\ row'[k].status = "converted" <=> row[k].status = "converted"
                         /\ row'[k].life = "gone" <=> row[k].life = "gone"
    BY <1>2, <1>3
  <2>2. /\ [k \in Leads |-> row'[k].merged_into] = [k \in Leads |-> row[k].merged_into]
        /\ [k \in Leads |-> row'[k].fields] = [k \in Leads |-> row[k].fields]
        /\ {k \in Leads : row'[k].status = "converted"} = {k \in Leads : row[k].status = "converted"}
        /\ {k \in Leads : row'[k].life = "gone"} = {k \in Leads : row[k].life = "gone"}
    BY <2>1
  <2> QED
    BY <2>2 DEF Forest!forest
<1>4. CASE MarkQualified(l)
  <2> DEFINE new == [row[l] EXCEPT !.status = "qualified"]
  <2>1. row' = [row EXCEPT ![l] = new] /\ row[l].status # "converted"
    BY <1>4 DEF MarkQualified, Qualifies, Qualified, Update
  <2>2. new.merged_into = row[l].merged_into /\ new.fields = row[l].fields
          /\ new.status = "qualified" /\ new.life = row[l].life
    BY <1>2 DEF Row
  <2> QED
    BY <1>3, <2>1, <2>2
<1>5. ASSUME NEW life, row' = [row EXCEPT ![l] = [row[l] EXCEPT !.life = life]],
             life # "gone", row[l].life # "gone"
      PROVE  UNCHANGED Forest!forest
  <2> DEFINE new == [row[l] EXCEPT !.life = life]
  <2>1. new.merged_into = row[l].merged_into /\ new.fields = row[l].fields
          /\ new.status = row[l].status /\ new.life = life
    BY <1>2 DEF Row
  <2> QED
    BY <1>3, <1>5, <2>1
<1>6. CASE SoftDelete(l) \/ Restore(l)
  BY <1>5, <1>6 DEF SoftDelete, Restore, Update
<1>7. ASSUME NEW p \in Parties, ClaimConversion(l, p)
      PROVE  Forest!Convert(l)
  <2> DEFINE new == [row[l] EXCEPT !.party = p, !.status = "converted"]
  <2>1. row' = [row EXCEPT ![l] = new] /\ row[l].life # "gone"
    BY <1>7 DEF ClaimConversion, ConvertedTo, Update, Claimable, Stored
  <2>2. new.merged_into = row[l].merged_into /\ new.fields = row[l].fields
          /\ new.status = "converted" /\ new.life = row[l].life
    BY <1>2 DEF Row
  <2> HIDE DEF new
  <2>3. \A k \in Leads : /\ row'[k].merged_into = row[k].merged_into
                         /\ row'[k].fields = row[k].fields
                         /\ row'[k].status = "converted" <=> row[k].status = "converted" \/ k = l
                         /\ row'[k].life = row[k].life
    BY <1>2, <2>1, <2>2
  <2>4. /\ [k \in Leads |-> row'[k].merged_into] = [k \in Leads |-> row[k].merged_into]
        /\ [k \in Leads |-> row'[k].fields] = [k \in Leads |-> row[k].fields]
        /\ {k \in Leads : row'[k].status = "converted"}
             = {k \in Leads : row[k].status = "converted"} \cup {l}
        /\ {k \in Leads : row'[k].life = "gone"} = {k \in Leads : row[k].life = "gone"}
    BY <2>3
  <2> QED
    BY <2>1, <2>4 DEF Forest!Convert
<1> QED
  BY <1>1, <1>4, <1>6, <1>7, PurgeRemoves

\* The initial table is an initial forest.
LEMMA InitIsForest == Init => Forest!ForestInit
<1> SUFFICES ASSUME Init PROVE Forest!ForestInit
  OBVIOUS
<1>1. \A l \in Leads : /\ row[l].merged_into = None
                       /\ row[l].fields \in [Fields -> Values \cup {None}]
  BY TableAssumption DEF Init, TableInit, Row
<1> QED
  BY <1>1 DEF Forest!ForestInit

\* Every step of the merges is a step of the forest or leaves it alone.
LEMMA StepIsForest == IInv /\ [Next]_vars => [Forest!ForestNext]_(Forest!forest)
<1> SUFFICES ASSUME IInv, [Next]_vars PROVE [Forest!ForestNext]_(Forest!forest)
  OBVIOUS
<1>1. CASE row' = row
  BY <1>1 DEF Forest!forest
<1>2. CASE OtherWriter
  BY <1>2, OtherWriterConverts DEF Forest!ForestNext
<1>3. ASSUME NEW w \in Workers, Commit(w) PROVE Forest!ForestNext
  BY <1>3, CommitAbsorbs DEF Forest!ForestNext
<1>4. CASE UNCHANGED vars
  BY <1>1, <1>4 DEF vars
<1> QED
  BY <1>1, <1>2, <1>3, <1>4, WhoWrites

\* merge_leads implements the abstract merge, step by step.
THEOREM RefinesForest == Spec => ImplementsForest
BY InitIsForest, StepIsForest, InvariantHolds, PTL DEF Spec, ImplementsForest, Forest!ForestSpec

\* The forest LeadMerge refers to is the one the proofs of AbsorbForest are about.
LEMMA SameForest == Forest!ForestSpec => Abstract!ForestSpec
<1>1. Forest!ForestInit => Abstract!ForestInit
  BY DEF Forest!ForestInit, Abstract!ForestInit
<1>2. [Forest!ForestNext]_(Forest!forest) => [Abstract!ForestNext]_(Abstract!forest)
  <2>1. ASSUME NEW m \in Leads, NEW D \in SUBSET Leads,
               NEW filled \in [Fields -> Values \cup {None}], Forest!Absorb(m, D, filled)
        PROVE  Abstract!Absorb(m, D, filled)
    BY <2>1 DEF Forest!Absorb, Abstract!Absorb, Forest!Inherits, Abstract!Inherits,
         Forest!Live, Abstract!Live
  <2>2. ASSUME NEW l \in Leads, Forest!Convert(l)
        PROVE  Abstract!Convert(l)
    BY <2>2 DEF Forest!Convert, Abstract!Convert
  <2>3. ASSUME NEW l \in Leads, Forest!Remove(l)
        PROVE  Abstract!Remove(l)
    BY <2>3 DEF Forest!Remove, Abstract!Remove
  <2>4. UNCHANGED Forest!forest => UNCHANGED Abstract!forest
    BY DEF Forest!forest, Abstract!forest
  <2> QED
    BY <2>1, <2>2, <2>3, <2>4 DEF Forest!ForestNext, Abstract!ForestNext
<1> QED
  BY <1>1, <1>2, PTL DEF Forest!ForestSpec, Abstract!ForestSpec

\* Whatever implements the forest loses nothing.
LEMMA ForestKeepsAll == ImplementsForest => NothingLost
<1>1. Abstract!NothingLost => Forest!NothingLost
  BY PTL DEF Abstract!NothingLost, Forest!NothingLost, Abstract!forest, Forest!forest
<1> QED
  BY <1>1, SameForest, Abstract!ForestLosesNothing DEF ImplementsForest, NothingLost

\* Whatever implements the forest closes no cycle.
LEMMA ForestHasNoCycle == ImplementsForest => []Acyclic
<1>1. Abstract!ForestSpec => []Abstract!ForestAcyclic
  BY Abstract!ForestIsAcyclic, NoneIsNothing
<1>2. Abstract!ForestAcyclic => Acyclic
  BY DEF Abstract!ForestAcyclic, Acyclic
<1> QED
  BY <1>1, <1>2, SameForest, PTL DEF ImplementsForest

\* Pointers are written once and no committed value is lost but with its lead.
THEOREM NothingIsLost == Spec => NothingLost
BY RefinesForest, ForestKeepsAll

\* No interleaving of merges closes a cycle of absorb pointers, so following a
\* chain always has an end.
THEOREM PointersAreAcyclic == Spec => []Acyclic
BY RefinesForest, ForestHasNoCycle

=============================================================================
