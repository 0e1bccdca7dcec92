---------------------------- MODULE LeadCrudProofs ----------------------------
(***************************************************************************)
(* What survives the generated surface.  A PUT or a PATCH may write any     *)
(* column, but it waits for the row like every other update: the inductive  *)
(* invariant of the merges goes through, and the declared rules of the      *)
(* columns keep new violations out although merges copy values unchecked.   *)
(***************************************************************************)
EXTENDS LeadCrud, LeadMergeRefinement

\* What an editor holds is a row as the table had it.
EditsOK ==
  \A e \in Editors : edit[e].lead # None => edit[e].lead \in Leads /\ edit[e].before \in Row

\* A value that breaks its column's rule was there before the rules.
Old(r) ==
  \A f \in Fields : r.fields[f] \in Breaking => \E m \in Leads : Seed[m].fields[f] = r.fields[f]

\* Every row in the table or in an editor's hands breaks no rule newly.
CrudInv ==
  /\ IInv /\ CrudTypeOK /\ EditsOK
  /\ \A l \in Leads : Old(row[l])
  /\ \A e \in Editors : edit[e].lead # None => Old(edit[e].before)

-----------------------------------------------------------------------------
\* A null breaks no rule.
LEMMA NullBreaksNothing == None \notin Breaking
BY CrudAssumption, NoneIsNothing

\* What is left of a deleted row holds nothing that could break a rule.
LEMMA DeletedIsOld == Old(Deleted)
<1>1. \A f \in Fields : Deleted.fields[f] = None
  BY DEF Deleted
<1> QED
  BY <1>1, NullBreaksNothing DEF Old

\* Applying a body to a row gives a row: parsing is what keeps it one.
LEMMA EditsMakeRows ==
  ASSUME NEW base \in Row
  PROVE  /\ \A draft \in Draft : Updated(base, draft) \in Row
         /\ \A patch : Patched(base, patch) \in Row
<1>1. ASSUME NEW draft \in Draft PROVE Updated(base, draft) \in Row
  BY <1>1 DEF Updated, Draft, Row
<1>2. ASSUME NEW patch PROVE Patched(base, patch) \in Row
  BY <1>2 DEF Patched, Patching, Row
<1> QED
  BY <1>1, <1>2

\* Rows that pass the rules beside a row that breaks none newly do not either.
LEMMA RulesKeepOld ==
  ASSUME NEW before \in Row, Old(before), NEW after, RulesHold(before, after)
  PROVE  Old(after)
BY NoneIsNothing DEF RulesHold, Old

\* So do the ones that pass them as new rows.
LEMMA RulesMakeOld ==
  ASSUME NEW after, RulesHold(None, after)
  PROVE  Old(after)
BY DEF RulesHold, Old

\* A single update to such a row keeps the invariant of rows.
LEMMA UpdateKeepsOld ==
  ASSUME IInv, \A l \in Leads : Old(row[l]), NEW l \in Leads, NEW guard, NEW new, Old(new),
         Update(l, guard, new)
  PROVE  \A k \in Leads : Old(row'[k])
BY DEF Update, IInv, TypeOK

-----------------------------------------------------------------------------
\* A merge copies values of rows it read, which are the rows as they are.
LEMMA MergesKeepOld ==
  ASSUME IInv, [Next]_vars, \A l \in Leads : Old(row[l])
  PROVE  \A l \in Leads : Old(row'[l])
<1>1. CASE row' = row
  BY <1>1
<1>2. CASE OtherWriter
  <2>1. PICK l \in Leads : /\ \A k \in Leads \ {l} : row'[k] = row[k]
                           /\ row'[l].fields = row[l].fields \/ row'[l] = Deleted
    <3>1. PICK l \in Leads : \/ MarkQualified(l)
                             \/ \E p \in Parties : ClaimConversion(l, p)
                             \/ SoftDelete(l) \/ Restore(l) \/ Purge(l)
      BY <1>2 DEF OtherWriter
    <3>2. row \in [Leads -> Row] /\ row[l] \in Row
      BY DEF IInv, TypeOK
    <3>3. ASSUME NEW guard, NEW new, Update(l, guard, new),
                 new.fields = row[l].fields \/ new = Deleted
          PROVE  /\ \A k \in Leads \ {l} : row'[k] = row[k]
                 /\ row'[l].fields = row[l].fields \/ row'[l] = Deleted
      BY <3>2, <3>3 DEF Update
    <3>4. /\ Qualified(l).fields = row[l].fields
          /\ [row[l] EXCEPT !.life = "trash"].fields = row[l].fields
          /\ [row[l] EXCEPT !.life = "active"].fields = row[l].fields
      BY <3>2 DEF Qualified, Row
    <3>5. \A p : ConvertedTo(l, p).fields = row[l].fields
      BY <3>2 DEF ConvertedTo, Row
    <3> QED
      BY <3>1, <3>3, <3>4, <3>5 DEF MarkQualified, ClaimConversion, SoftDelete, Restore, Purge
  <2>2. ASSUME NEW k \in Leads PROVE Old(row'[k])
    <3>1. CASE k = l /\ row'[k] = Deleted
      BY <3>1, DeletedIsOld
    <3>2. CASE row'[k].fields = row[k].fields
      BY <3>2 DEF Old
    <3> QED
      BY <2>1, <3>1, <3>2
  <2> QED
    BY <2>2
<1>3. ASSUME NEW w \in Workers, Commit(w)
      PROVE  \A l \in Leads : Old(row'[l])
  <2> DEFINE t == tx[w]
             m == t.master_id
             D == t.absorb_live
  <2>1. /\ t \in Transaction /\ m \in Leads /\ D \subseteq Leads
        /\ \A d \in D \cup {m} : t.rows[d] = row[d]
    BY <1>3, CommitWrites DEF Transaction
  <2>2. PICK filled \in [Fields -> Values \cup {None}] :
          /\ \A f \in Fields : FillOrKeep(t, f, filled[f])
          /\ row' = [l \in Leads |-> IF l = m THEN [row[l] EXCEPT !.fields = filled]
                                     ELSE IF l \in D THEN [row[l] EXCEPT !.merged_into = m]
                                     ELSE row[l]]
    BY <1>3, CommitWrites
  <2>3. ASSUME NEW f \in Fields
        PROVE  \E d \in D \cup {m} : filled[f] = row[d].fields[f]
    <3>1. filled[f] = t.rows[m].fields[f] \/ \E d \in D : filled[f] = t.rows[d].fields[f]
      BY <2>2 DEF FillOrKeep, MostCredible
    <3> QED
      BY <2>1, <3>1
  <2> HIDE DEF t, m, D
  <2>4. \A l \in Leads : row[l] \in Row
    BY DEF IInv, TypeOK
  <2>5. ASSUME NEW l \in Leads PROVE Old(row'[l])
    <3>1. CASE l = m
      <4>1. row'[l].fields = filled
        BY <2>2, <2>4, <3>1 DEF Row
      <4> QED
        BY <2>1, <2>3, <4>1 DEF Old
    <3>2. CASE l # m
      <4>1. row'[l].fields = row[l].fields
        BY <2>2, <2>4, <3>2 DEF Row
      <4> QED
        BY <4>1 DEF Old
    <3> QED
      BY <3>1, <3>2
  <2> QED
    BY <2>5
<1> QED
  BY <1>1, <1>2, <1>3, WhoWrites DEF vars

\* Emptying the trash writes only rows nobody holds.
LEMMA EmptyTrashPreserves ==
  ASSUME CrudInv, EmptyTrash
  PROVE  CrudInv'
<1> DEFINE trash == {l \in Leads : row[l].life = "trash"}
<1>1. /\ \A l \in trash : lock[l] = None
      /\ row' = [l \in Leads |-> IF l \in trash THEN Deleted ELSE row[l]]
      /\ lock' = lock /\ tx' = tx /\ answer' = answer /\ events' = events /\ left' = left
      /\ edit' = edit /\ edits' = edits
  BY DEF EmptyTrash, crudVars
<1> HIDE DEF trash
<1>2. \A l \in Leads : row[l] \in Row
  BY DEF CrudInv, IInv, TypeOK
<1>3. row' \in [Leads -> Row]
  BY <1>1, <1>2, DeletedIsRow
<1>4. TypeOK' /\ CrudTypeOK' /\ EditsOK'
  BY <1>1, <1>3 DEF CrudInv, CrudTypeOK, EditsOK, TypeOK
<1>5. ASSUME NEW w \in Workers PROVE Holds(w)' /\ Plan(tx[w])'
  <2>1. \A l \in Leads : lock[l] = w => row'[l] = row[l]
    BY <1>1, NoneIsNothing
  <2>2. Holds(w)'
    BY <1>1, <2>1 DEF CrudInv, IInv, Holds, Visible, InScope
  <2>3. Plan(tx[w])'
    BY <1>1 DEF CrudInv, IInv, Plan, FetchIds
  <2> QED
    BY <2>2, <2>3
<1>6. \A l \in Leads : row'[l] = IF l \in trash THEN Deleted ELSE row[l]
  BY <1>1
<1>7. \A l \in Leads : Old(row'[l])
  BY <1>6, DeletedIsOld DEF CrudInv
<1>8. \A e \in Editors : edit'[e].lead # None => Old(edit'[e].before)
  BY <1>1 DEF CrudInv
<1> QED
  BY <1>4, <1>5, <1>7, <1>8 DEF CrudInv, IInv, Old

\* A POST fills a row nobody can hold yet.
LEMMA CreatePreserves ==
  ASSUME CrudInv, NEW draft \in Drafts, Create(draft)
  PROVE  CrudInv'
<1>1. PICK l \in Leads :
        LET new == Updated([row[l] EXCEPT !.life = "active"], draft)
        IN RulesHold(None, new) /\ Update(l, TRUE, new)
  BY DEF Create
<1> DEFINE base == [row[l] EXCEPT !.life = "active"]
           new == Updated(base, draft)
<1>2. base \in Row
  BY DEF CrudInv, IInv, TypeOK, Row
<1>3. new \in Row
  BY <1>2, EditsMakeRows, CrudAssumption
<1>4. RulesHold(None, new) /\ Update(l, TRUE, new)
  BY <1>1
<1> HIDE DEF new
<1>5. Old(new)
  BY <1>4, RulesMakeOld
<1>6. UNCHANGED <<tx, answer, events, left, edit, edits>>
  BY DEF Create, crudVars
<1>7. IInv'
  BY <1>3, <1>4, <1>6, UpdatePreserves DEF CrudInv
<1>8. \A k \in Leads : Old(row'[k])
  BY <1>4, <1>5, UpdateKeepsOld DEF CrudInv
<1> QED
  BY <1>6, <1>7, <1>8 DEF CrudInv, CrudTypeOK, EditsOK, IInv, Old

\* A PUT or a PATCH saves a row that passed the rules beside the one it loaded.
LEMMA SavePreserves ==
  ASSUME CrudInv, NEW e \in Editors, edit[e].lead # None, NEW after \in Row, Save(e, after)
  PROVE  CrudInv'
<1> DEFINE l == edit[e].lead
           new == [after EXCEPT !.life = row[l].life]
<1>1. l \in Leads /\ edit[e].before \in Row /\ Old(edit[e].before)
  BY DEF CrudInv, EditsOK
<1>2. /\ RulesHold(edit[e].before, after) /\ Update(l, row[l].life = "active", new)
      /\ edit' = [edit EXCEPT ![e] = NoEdit]
      /\ UNCHANGED <<tx, answer, events, left>> /\ edits' = edits
  BY DEF Save
<1>3. Old(after)
  BY <1>1, <1>2, RulesKeepOld
<1>4. new \in Row /\ new.fields = after.fields
  BY <1>1 DEF CrudInv, IInv, TypeOK, Row
<1> HIDE DEF new
<1>5. Old(new)
  BY <1>3, <1>4 DEF Old
<1>6. IInv'
  BY <1>1, <1>2, <1>4, UpdatePreserves DEF CrudInv
<1>7. \A k \in Leads : Old(row'[k])
  BY <1>1, <1>2, <1>5, UpdateKeepsOld DEF CrudInv
<1>8. \A d \in Editors : edit'[d] = IF d = e THEN NoEdit ELSE edit[d]
  BY <1>2 DEF CrudInv, CrudTypeOK
<1>9. edit' \in [Editors -> Editing]
  BY <1>2 DEF CrudInv, CrudTypeOK, Editing, NoEdit
<1>10. EditsOK' /\ \A d \in Editors : edit'[d].lead # None => Old(edit'[d].before)
  BY <1>8 DEF CrudInv, EditsOK, NoEdit
<1> QED
  BY <1>2, <1>6, <1>7, <1>9, <1>10 DEF CrudInv, CrudTypeOK, IInv, Old

\* Loading takes a copy, refusing drops it.
LEMMA LoadPreserves ==
  ASSUME CrudInv, NEW e \in Editors, Refuse(e) \/ \E l \in Leads : Load(e, l)
  PROVE  CrudInv'
<1>1. UNCHANGED vars
  BY DEF Refuse, Load
<1>2. PICK c \in Editing :
        /\ edit' = [edit EXCEPT ![e] = c]
        /\ c.lead # None => c.lead \in Leads /\ c.before \in Row /\ Old(c.before)
  <2>1. CASE Refuse(e)
    <3>1. NoEdit \in Editing /\ NoEdit.lead = None
      BY DEF NoEdit, Editing
    <3> QED
      BY <2>1, <3>1 DEF Refuse
  <2>2. ASSUME NEW l \in Leads, Load(e, l)
        PROVE  \E c \in Editing :
                 /\ edit' = [edit EXCEPT ![e] = c]
                 /\ c.lead # None => c.lead \in Leads /\ c.before \in Row /\ Old(c.before)
    <3>1. row[l] \in Row /\ Old(row[l])
      BY DEF CrudInv, IInv, TypeOK
    <3> DEFINE c == [lead |-> l, before |-> row[l]]
    <3>2. c \in Editing /\ c.lead = l /\ c.before = row[l]
      BY <3>1 DEF Editing
    <3>3. edit' = [edit EXCEPT ![e] = c]
      BY <2>2 DEF Load
    <3> HIDE DEF c
    <3> QED
      BY <3>1, <3>2, <3>3
  <2> QED
    BY <2>1, <2>2
<1>3. edits' \in 0..MaxEdits
  BY CrudAssumption DEF CrudInv, CrudTypeOK, Refuse, Load
<1>4. edit' \in [Editors -> Editing]
        /\ \A d \in Editors : edit'[d] = IF d = e THEN c ELSE edit[d]
  BY <1>2 DEF CrudInv, CrudTypeOK
<1>5. EditsOK' /\ \A d \in Editors : edit'[d].lead # None => Old(edit'[d].before)
  BY <1>2, <1>4 DEF CrudInv, EditsOK
<1>6. IInv' /\ \A l \in Leads : Old(row'[l])
  BY <1>1 DEF vars, CrudInv, IInv, TypeOK, Holds, Plan, FetchIds, Visible, InScope
<1> QED
  BY <1>3, <1>4, <1>5, <1>6 DEF CrudInv, CrudTypeOK, IInv, Old

\* The invariant holds at first: every value is in the seed.
LEMMA CrudInitEstablishes == CrudInit => CrudInv
<1> SUFFICES ASSUME CrudInit PROVE CrudInv
  OBVIOUS
<1>1. IInv
  BY InitEstablishes DEF CrudInit
<1>2. edit = [e \in Editors |-> NoEdit] /\ edits = MaxEdits /\ row = Seed
  BY DEF CrudInit, Init, TableInit
<1>3. NoEdit \in Editing /\ NoEdit.lead = None
  BY DEF NoEdit, Editing
<1>4. CrudTypeOK /\ EditsOK /\ \A e \in Editors : edit[e].lead = None
  BY <1>1, <1>2, <1>3, CrudAssumption DEF CrudTypeOK, EditsOK, IInv
<1> QED
  BY <1>1, <1>2, <1>4 DEF CrudInv, Old

\* Every step of editors, merges and other writers keeps it.
LEMMA CrudKeeps == CrudInv /\ [CrudNext]_crudSystem => CrudInv'
<1> SUFFICES ASSUME CrudInv, [CrudNext]_crudSystem PROVE CrudInv'
  OBVIOUS
<1>1. CASE [Next]_vars /\ UNCHANGED crudVars
  <2>1. IInv' /\ \A l \in Leads : Old(row'[l])
    BY <1>1, NextPreserves, MergesKeepOld DEF CrudInv
  <2> QED
    BY <1>1, <2>1 DEF crudVars, CrudInv, CrudTypeOK, EditsOK, IInv, Old
<1>2. ASSUME NEW e \in Editors, NEW d \in Drafts, Put(e, d) PROVE CrudInv'
  <2>1. Updated(edit[e].before, d) \in Row
    BY <1>2, EditsMakeRows, CrudAssumption DEF Put, CrudInv, EditsOK
  <2> QED
    BY <1>2, <2>1, SavePreserves DEF Put
<1>3. ASSUME NEW e \in Editors, NEW p \in Patches, Patch(e, p) PROVE CrudInv'
  <2>1. PICK base \in {edit[e].before, row[edit[e].lead]} : Save(e, Patched(base, p))
    BY <1>3 DEF Patch
  <2>2. base \in Row /\ edit[e].lead # None
    BY <1>3 DEF Patch, CrudInv, EditsOK, IInv, TypeOK
  <2>3. Patched(base, p) \in Row
    BY <2>2, EditsMakeRows
  <2> QED
    BY <2>1, <2>2, <2>3, SavePreserves
<1> QED
  BY <1>1, <1>2, <1>3, CreatePreserves, LoadPreserves, EmptyTrashPreserves
     DEF CrudNext, crudSystem

\* The invariant holds beside the generated surface.
THEOREM CrudInvariantHolds == CrudSpec => []CrudInv
BY CrudInitEstablishes, CrudKeeps, PTL DEF CrudSpec

\* Every variable keeps its type beside the generated surface: a body whose
\* values do not parse never makes a row that is none.
THEOREM CrudTypeCorrect == CrudSpec => []CrudTypeOK
<1>1. CrudInv => CrudTypeOK
  BY DEF CrudInv
<1> QED
  BY <1>1, CrudInvariantHolds, PTL

\* Not even a PUT that writes every column changes a row a merge has read.
THEOREM CrudCacheIsFresh == CrudSpec => []CacheFresh
<1>1. CrudInv => CacheFresh
  BY DEF CrudInv, IInv, Holds, CacheFresh
<1> QED
  BY <1>1, CrudInvariantHolds, PTL

\* No column comes to break its rule by an edit of an old copy or by a merge.
THEOREM NoRuleIsNewlyBroken == CrudSpec => []NoNewBreaks
<1>1. CrudInv => NoNewBreaks
  BY DEF CrudInv, Old, NoNewBreaks
<1> QED
  BY <1>1, CrudInvariantHolds, PTL
=============================================================================
