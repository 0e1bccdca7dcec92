------------------------------- MODULE LeadCrud -------------------------------
(***************************************************************************)
(* The generated CRUD surface beside the merges.  A PUT or a PATCH loads    *)
(* the row, checks the row rules on what it would become, and saves it with *)
(* a statement of its own: no lock or transaction holds load and save       *)
(* together.  It may write every column, the absorb pointer, the status and *)
(* the party included, which is why the module calls it unguarded.          *)
(***************************************************************************)
EXTENDS LeadMerge

CONSTANTS
  Editors,   \* callers of the generated surface
  Drafts,    \* what they POST and PUT: every column a DTO carries
  Patches,   \* what they PATCH: some of the columns
  Breaking,  \* values the declared rules of a column refuse
  MaxEdits   \* bound: loads in one behaviour

Draft == [status : Statuses, party : Parties \cup {None},
          merged_into : Leads \cup {None}, fields : [Fields -> Values \cup {None}]]

ASSUME CrudAssumption ==
  /\ None \notin Editors
  /\ Drafts \subseteq Draft
  /\ Breaking \subseteq Values
  /\ MaxEdits \in Nat

VARIABLES
  edit,   \* the lead each editor has loaded, and the row as it was then
  edits   \* loads that may still happen

crudVars == <<edit, edits>>
crudSystem == <<vars, crudVars>>

Editing == [lead : Leads \cup {None}, before : Row \cup {None}]
NoEdit == [lead |-> None, before |-> None]

-----------------------------------------------------------------------------
\* Mutation of RulesHold: an update is checked nowhere.
RulesOnCreate(before, after) ==
  before = None => \A f \in Fields : after.fields[f] \notin Breaking

\* LeadRowRules: a create is checked on every column, an update on the columns
\* it changes from the row it loaded.
RulesHold(before, after) ==
  \A f \in Fields :
    before = None \/ before.fields[f] # after.fields[f] => after.fields[f] \notin Breaking

\* apply_update: every column comes from the DTO, an absent one as null.
Updated(base, draft) ==
  [life |-> base.life, status |-> draft.status, party |-> draft.party,
   merged_into |-> draft.merged_into, fields |-> draft.fields]

Patching(base, patch, Parses(_, _)) ==
  LET Take(column, old, type) ==
        IF column \in DOMAIN patch /\ Parses(patch[column], type) THEN patch[column] ELSE old
  IN [life |-> base.life,
      status |-> Take("status", base.status, Statuses),
      party |-> Take("party", base.party, Parties \cup {None}),
      merged_into |-> Take("merged_into", base.merged_into, Leads \cup {None}),
      fields |-> [f \in Fields |-> Take(f, base.fields[f], Values \cup {None})]]

\* Mutation of Patched: a value is taken whether or not it parses.
PatchedBlindly(base, patch) == Patching(base, patch, LAMBDA value, type : TRUE)

\* apply_patch: the named columns, and of those the values that parse.
Patched(base, patch) == Patching(base, patch, LAMBDA value, type : value \in type)

-----------------------------------------------------------------------------
\* POST: a row of any shape the rules allow, already merged or converted even.
Create(draft) ==
  \E l \in Leads :
    /\ row[l].life = "unborn" /\ \A m \in Leads : row[m].life = "unborn" => l <= m
    /\ LET new == Updated([row[l] EXCEPT !.life = "active"], draft)
       IN RulesHold(None, new) /\ Update(l, TRUE, new)
    /\ UNCHANGED <<tx, answer, events, left, crudVars>>

\* A PUT or PATCH loads the row unless it is in the trash.
Load(e, l) ==
  /\ edit[e].lead = None /\ edits > 0
  /\ row[l].life = "active"
  /\ edit' = [edit EXCEPT ![e] = [lead |-> l, before |-> row[l]]]
  /\ edits' = edits - 1
  /\ UNCHANGED vars

\* The save waits for the row like any update; it leaves the trash alone.
Save(e, after) ==
  LET l == edit[e].lead IN
  /\ l # None
  /\ RulesHold(edit[e].before, after)
  /\ Update(l, row[l].life = "active", [after EXCEPT !.life = row[l].life])
  /\ edit' = [edit EXCEPT ![e] = NoEdit]
  /\ UNCHANGED <<tx, answer, events, left, edits>>

Put(e, draft) == edit[e].lead # None /\ Save(e, Updated(edit[e].before, draft))

\* A PATCH saves the row it loaded with the change, or the columns it names only.
Patch(e, patch) ==
  /\ edit[e].lead # None
  /\ \E base \in {edit[e].before, row[edit[e].lead]} : Save(e, Patched(base, patch))

\* The rules refuse what was asked, or the row is gone by the time of the save.
Refuse(e) ==
  /\ edit[e].lead # None
  /\ \/ row[edit[e].lead].life # "active"
     \/ \E d \in Drafts : ~RulesHold(edit[e].before, Updated(edit[e].before, d))
  /\ edit' = [edit EXCEPT ![e] = NoEdit]
  /\ UNCHANGED <<vars, edits>>

\* DELETE /leads/empty: everything in the trash, once nobody holds any of it.
EmptyTrash ==
  LET trash == {l \in Leads : row[l].life = "trash"} IN
  /\ trash # {} /\ \A l \in trash : lock[l] = None
  /\ row' = [l \in Leads |-> IF l \in trash THEN Deleted ELSE row[l]]
  /\ UNCHANGED <<lock, tx, answer, events, left, crudVars>>

-----------------------------------------------------------------------------
CrudInit == Init /\ edit = [e \in Editors |-> NoEdit] /\ edits = MaxEdits

CrudNext ==
  \/ \E d \in Drafts : Create(d) \/ \E e \in Editors : Put(e, d)
  \/ \E e \in Editors : Refuse(e) \/ (\E l \in Leads : Load(e, l)) \/ \E p \in Patches : Patch(e, p)
  \/ EmptyTrash
  \/ Next /\ UNCHANGED crudVars

CrudSpec == CrudInit /\ [][CrudNext]_crudSystem

\* Merges run on, as in LeadMerge; nothing is assumed of the editors.
FairCrud ==
  /\ CrudSpec
  /\ \A w \in Workers :
       SF_crudSystem(/\ UNCHANGED crudVars
                     /\ LockBatchRow(w) \/ ChaseFetch(w) \/ Progress(w) \/ DeadlockVictim(w))

-----------------------------------------------------------------------------
CrudTypeOK ==
  /\ TypeOK
  /\ edit \in [Editors -> Editing]
  /\ edits \in 0..MaxEdits

\* No column of any lead breaks its rule but with a value that broke it before:
\* neither an edit of an old copy nor a merge's fill brings a new one in.
NoNewBreaks ==
  \A l \in Leads, f \in Fields :
    row[l].fields[f] \in Breaking => \E m \in Leads : Seed[m].fields[f] = row[l].fields[f]
=============================================================================
