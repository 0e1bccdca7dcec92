--------------------------- MODULE LeadIntakeProofs ---------------------------
(***************************************************************************)
(* Intake keeps its promises for any leads, forms, officers and schedules:  *)
(* types, links stored with their leads, durable attribution, true answers, *)
(* and, when callers name themselves and keys tell lines apart, no          *)
(* strangers in one chain.  The two foldings of a contact are one function  *)
(* up to the tabs one of them trims.                                        *)
(***************************************************************************)
EXTENDS LeadIntake, LeadMergeAnswers

(* What the scan and the match pick.                                        *)

\* Every set of leads is finite and can be counted.
LEMMA LeadSetsAreFinite ==
  ASSUME NEW S \in SUBSET Leads
  PROVE  IsFiniteSet(S) /\ Cardinality(S) \in Nat
BY IntakeAssumption, FS_Subset, FS_CardinalityType

\* The officer's list names members of the group and nobody else.
LEMMA ListsAreOfMembers ==
  ASSUME NEW S \in SUBSET Leads
  PROVE  SetToSeq(S) \in Seq(Leads) /\ Range(SetToSeq(S)) \subseteq S
<1> DEFINE n == Cardinality(S)
<1>1. n \in Nat /\ ExistsBijection(1..n, S)
  BY LeadSetsAreFinite, FS_CardinalityType
<1>2. \E f \in [1..n -> S] : IsInjective(f)
  BY <1>1 DEF ExistsBijection, Bijection, Injection
<1>3. SetToSeq(S) \in [1..n -> S]
  BY <1>2 DEF SetToSeq
<1> QED
  BY <1>1, <1>3 DEF Range

\* A lead's key in the confidence order.
LEMMA KeyNowIsKey ==
  ASSUME TypeOK, NEW l \in Leads
  PROVE  KeyNow(l) \in ConfidenceKey /\ KeyNow(l).id = l
<1>1. row[l].status \in Statuses /\ row[l].party \in Parties \cup {None}
  BY DEF TypeOK, Row
<1>2. l \in Nat /\ CreatedAt[l] \in Nat
  BY TableAssumption, IntakeAssumption
<1> QED
  BY <1>1, <1>2 DEF KeyNow, ConfidenceKey

\* The suggested master is one of the group.
LEMMA SuggestionIsMember ==
  ASSUME TypeOK, NEW S \in SUBSET Leads, S # {}
  PROVE  SuggestedMaster(S) \in S
<1> DEFINE R == {p \in S \X S : RanksAbove(KeyNow(p[1]), KeyNow(p[2]))}
<1>1. \A l, m \in S : <<l, m>> \in R <=> RanksAbove(KeyNow(l), KeyNow(m))
  OBVIOUS
<1>2. \A l \in S : KeyNow(l) \in ConfidenceKey /\ KeyNow(l).id = l
  BY KeyNowIsKey
<1>3. \A l, m, k \in S : <<l, m>> \in R /\ <<m, k>> \in R => <<l, k>> \in R
  BY <1>1, <1>2, RanksAboveTransitive
<1>4. \A l, m \in S : l # m => <<l, m>> \in R \/ <<m, l>> \in R
  BY <1>1, <1>2, RanksAboveTotal
<1> HIDE DEF R
<1>5. \E l \in S : \A m \in S \ {l} : <<l, m>> \in R
  BY <1>3, <1>4, LeadSetsAreFinite, FiniteHasFirst
<1>6. \E l \in S : \A m \in S \ {l} : RanksAbove(KeyNow(l), KeyNow(m))
  BY <1>1, <1>5
<1> QED
  BY <1>6 DEF SuggestedMaster

\* The leads a form is looked for among.
FoundFor(f) ==
  LET byPhone == Sharing("phone", SubmittedKey["phone"][f.phone])
  IN IF byPhone # {} THEN byPhone ELSE Sharing("email", SubmittedKey["email"][f.email])

\* A match is one of the leads found, and none of those is newer.
LEMMA MatchIsNewest ==
  ASSUME NEW f \in Form
  PROVE  IF FoundFor(f) = {} THEN Matched(f) = None
         ELSE /\ Matched(f) \in Match
              /\ Matched(f).lead \in FoundFor(f)
              /\ \A m \in FoundFor(f) : ~Newer(KeyNow(m), KeyNow(Matched(f).lead))
<1> DEFINE S == FoundFor(f)
           First(l, m) == \/ Newer(KeyNow(l), KeyNow(m))
                          \/ CreatedAt[l] = CreatedAt[m] /\ l < m
           R == {p \in S \X S : First(p[1], p[2])}
           top == CHOOSE l \in S : \A m \in S \ {l} : First(l, m)
           phone == SubmittedKey["phone"][f.phone]
           u == [lead |-> top, on |-> IF Sharing("phone", phone) # {} THEN "phone" ELSE "email",
                 divergence |-> phone # None /\ KeyOf("phone", top) \notin {None, phone}]
<1>1. S \subseteq Leads
  BY DEF FoundFor, Sharing
<1>2. Matched(f) = IF S = {} THEN None ELSE u
  BY DEF Matched, FoundFor
<1> SUFFICES ASSUME S # {} PROVE u \in Match /\ top \in S
                                   /\ \A m \in S : ~Newer(KeyNow(m), KeyNow(top))
  BY <1>2
<1>3. \A l \in S : l \in Nat /\ CreatedAt[l] \in Nat /\ KeyNow(l).created_at = CreatedAt[l]
  BY <1>1, TableAssumption, IntakeAssumption DEF KeyNow
<1>4. \A l, m \in S : <<l, m>> \in R <=> First(l, m)
  OBVIOUS
<1>5. \A l, m \in S : First(l, m) <=> \/ CreatedAt[l] > CreatedAt[m]
                                      \/ CreatedAt[l] = CreatedAt[m] /\ l < m
  BY <1>3, NoneIsAbsent DEF Newer
<1> HIDE DEF S, R, First
<1>6. \A l, m, k \in S : <<l, m>> \in R /\ <<m, k>> \in R => <<l, k>> \in R
  BY <1>3, <1>4, <1>5
<1>7. \A l, m \in S : l # m => <<l, m>> \in R \/ <<m, l>> \in R
  BY <1>3, <1>4, <1>5
<1>8. \E l \in S : \A m \in S \ {l} : <<l, m>> \in R
  BY <1>1, <1>6, <1>7, LeadSetsAreFinite, FiniteHasFirst
<1>9. \E l \in S : \A m \in S \ {l} : First(l, m)
  BY <1>4, <1>8
<1>10. top \in S /\ \A m \in S \ {top} : First(top, m)
  BY <1>9
<1>11. u \in Match
  BY <1>1, <1>10 DEF Match
<1> HIDE DEF top
<1>12. ASSUME NEW m \in S PROVE ~Newer(KeyNow(m), KeyNow(top))
  <2>1. CreatedAt[top] >= CreatedAt[m] /\ CreatedAt[top] \in Nat /\ CreatedAt[m] \in Nat
    BY <1>3, <1>5, <1>10
  <2> QED
    BY <1>3, <1>10, <2>1, NoneIsAbsent DEF Newer
<1> QED
  BY <1>10, <1>11, <1>12

-----------------------------------------------------------------------------
(* What the merges and their neighbours do to the table.                    *)

Born(l) == row[l].life # "unborn"

\* No merge has locked a row that is not there, nor waits for one in its batch.
LocksAreOfRows ==
  /\ \A w \in Workers, l \in Leads : lock[l] = w => Born(l)
  /\ \A w \in Workers : tx[w].pc = "batch" => \A l \in tx[w].todo : Born(l)

\* The merges' steps, an officer's merge being as good as any request.
MergeMove == Next \/ \E w \in Workers, r \in Request : Accept(w, r) /\ UNCHANGED left

\* A merge may begin with any well formed request.
LEMMA MergeMovePreserves == IInv /\ MergeMove => IInv'
<1>1. IInv => left \in Nat
  BY MergeAssumption DEF IInv, TypeOK
<1> QED
  BY <1>1, NextPreserves, AcceptPreserves DEF MergeMove

\* Conversions, qualifications and the trash never take a row away or bring one
\* back from nothing, and leave contacts and pointers alone.
LEMMA OtherWriterKeeps ==
  ASSUME IInv, OtherWriter, NEW l \in Leads
  PROVE  /\ lock' = lock
         /\ row'[l] = row[l] \/ (Stored(l) /\ Stored(l)')
         /\ row'[l].fields = row[l].fields /\ row'[l].merged_into = row[l].merged_into
<1>1. PICK k \in Leads :
        MarkQualified(k) \/ (\E p \in Parties : ClaimConversion(k, p)) \/ SoftDelete(k) \/ Restore(k)
  BY IntakeAssumption DEF OtherWriter
<1>2. row \in [Leads -> Row] /\ row[k] \in Row
  BY DEF IInv, TypeOK
<1>3. ASSUME NEW new, NEW guard, Update(k, guard, new), Stored(k),
             new.life \in {"active", "trash"},
             new.fields = row[k].fields, new.merged_into = row[k].merged_into
      PROVE  /\ lock' = lock
             /\ row'[l] = row[l] \/ (Stored(l) /\ Stored(l)')
             /\ row'[l].fields = row[l].fields /\ row'[l].merged_into = row[l].merged_into
  BY <1>2, <1>3 DEF Update, Stored
<1>4. CASE MarkQualified(k)
  <2>1. Stored(k)
    BY <1>4 DEF MarkQualified, Update, Qualifies
  <2>2. /\ Qualified(k).life = row[k].life /\ Qualified(k).fields = row[k].fields
        /\ Qualified(k).merged_into = row[k].merged_into
    BY <1>2 DEF Qualified, Row
  <2> QED
    BY <1>3, <1>4, <2>1, <2>2 DEF MarkQualified, Stored
<1>5. ASSUME NEW p \in Parties, ClaimConversion(k, p)
      PROVE  /\ lock' = lock
             /\ row'[l] = row[l] \/ (Stored(l) /\ Stored(l)')
             /\ row'[l].fields = row[l].fields /\ row'[l].merged_into = row[l].merged_into
  <2>1. Stored(k)
    BY <1>5 DEF ClaimConversion, Update, Claimable
  <2>2. /\ ConvertedTo(k, p).life = row[k].life /\ ConvertedTo(k, p).fields = row[k].fields
        /\ ConvertedTo(k, p).merged_into = row[k].merged_into
    BY <1>2 DEF ConvertedTo, Row
  <2> QED
    BY <1>3, <1>5, <2>1, <2>2 DEF ClaimConversion, Stored
<1>6. CASE SoftDelete(k) \/ Restore(k)
  <2>1. Stored(k)
    BY <1>6 DEF SoftDelete, Restore, Update, Stored
  <2>2. \A life : LET new == [row[k] EXCEPT !.life = life]
                  IN new.life = life /\ new.fields = row[k].fields /\ new.merged_into = row[k].merged_into
    BY <1>2 DEF Row
  <2>3. PICK life \in {"active", "trash"}, guard \in BOOLEAN : Update(k, guard, [row[k] EXCEPT !.life = life])
    BY <1>6 DEF SoftDelete, Restore
  <2> QED
    BY <1>3, <2>1, <2>2, <2>3
<1> QED
  BY <1>1, <1>4, <1>5, <1>6

\* A commit touches rows its own transaction has locked, and no row's life.
LEMMA CommitKeeps ==
  ASSUME IInv, NEW w \in Workers, Commit(w), NEW l \in Leads
  PROVE  /\ row'[l].life = row[l].life
         /\ row'[l] = row[l] \/ lock[l] = w
<1> DEFINE m == tx[w].master_id
           D == tx[w].absorb_live
<1>1. \A d \in D \cup {m} : lock[d] = w
  BY CommitWrites
<1>2. PICK filled \in [Fields -> Values \cup {None}] :
        row' = [k \in Leads |-> IF k = m THEN [row[k] EXCEPT !.fields = filled]
                                ELSE IF k \in D THEN [row[k] EXCEPT !.merged_into = m]
                                ELSE row[k]]
  BY CommitWrites
<1>3. row[l] \in Row
  BY DEF IInv, TypeOK
<1> HIDE DEF m, D
<1> QED
  BY <1>1, <1>2, <1>3 DEF Row

\* A merge step keeps every row stored or not, and what is not there it does
\* not touch.
LEMMA MergeMoveKeepsRows ==
  ASSUME IInv, LocksAreOfRows, MergeMove, NEW l \in Leads
  PROVE  /\ row'[l].life = row[l].life \/ (Stored(l) /\ Stored(l)')
         /\ ~Born(l) => row'[l] = row[l]
<1>1. CASE row' = row
  BY <1>1
<1>2. CASE OtherWriter
  BY <1>2, OtherWriterKeeps DEF Stored, Born
<1>3. ASSUME NEW w \in Workers, Commit(w)
      PROVE  /\ row'[l].life = row[l].life
             /\ ~Born(l) => row'[l] = row[l]
  BY <1>3, CommitKeeps DEF LocksAreOfRows
<1> QED
  BY <1>1, <1>2, <1>3, WhoWrites DEF MergeMove, Accept

\* What is there stays there, if only as a purged id.
LEMMA MergeMoveKeepsBorn ==
  ASSUME IInv, LocksAreOfRows, MergeMove, NEW l \in Leads
  PROVE  Born(l) <=> Born(l)'
BY MergeMoveKeepsRows DEF Born, Stored

\* Merges lock and wait for rows that are there.
LEMMA MergeMoveKeepsLocks == IInv /\ LocksAreOfRows /\ MergeMove => LocksAreOfRows'
<1> SUFFICES ASSUME IInv, LocksAreOfRows, MergeMove PROVE LocksAreOfRows'
  OBVIOUS
<1> DEFINE Goal == /\ \A w \in Workers, l \in Leads : lock'[l] = w => Born(l)
                   /\ \A w \in Workers : tx'[w].pc = "batch" => \A l \in tx'[w].todo : Born(l)
<1>1. /\ tx \in [Workers -> Transaction]
      /\ \A w \in Workers : tx'[w] \in Transaction
  BY MergeMovePreserves DEF IInv, TypeOK
<1>2. ASSUME NEW v \in Workers, Progress(v) PROVE Goal
  BY <1>2, ProgressLeavesBatch DEF LocksAreOfRows
<1>3. ASSUME NEW v \in Workers, LockBatchRow(v) PROVE Goal
  <2>1. PICK k \in Leads : /\ NextInBatch(tx[v], k)
                           /\ LockRow(v, k, [tx[v] EXCEPT !.todo = @ \ {k}])
    BY <1>3 DEF LockBatchRow
  <2>2. tx[v].pc = "batch" /\ tx[v] \in Transaction /\ k \in tx[v].todo
    BY <1>1, <1>3, <2>1 DEF LockBatchRow, NextInBatch
  <2> DEFINE t == [tx[v] EXCEPT !.todo = @ \ {k}]
  <2>3. t \in Transaction /\ t.todo \subseteq tx[v].todo /\ LockRow(v, k, t)
    BY <2>1, <2>2 DEF Transaction
  <2> HIDE DEF t
  <2> QED
    BY <2>2, <2>3, LockRowGives DEF LocksAreOfRows
<1>4. ASSUME NEW v \in Workers, ChaseFetch(v) PROVE Goal
  <2>1. PICK k \in Leads : /\ LockRow(v, k, tx[v]) /\ tx[v].pc = "chase" /\ Born(k)
    BY <1>4 DEF ChaseFetch, Chases, Visible, Born
  <2> QED
    BY <1>1, <2>1, LockRowGives DEF LocksAreOfRows
<1>5. ASSUME NEW v \in Workers, NEW r \in Request, Accept(v, r) PROVE Goal
  <2> DEFINE t == [Idle EXCEPT !.pc = "batch", !.master = r.master, !.ids = r.ids, !.org = r.org]
             todo == {l \in FetchIds(t) : Visible(l, t.org)}
             open == FirstOccurrences(t.ids)
             u == [t EXCEPT !.todo = todo, !.open = open]
  <2>1. tx' = [tx EXCEPT ![v] = u] /\ lock' = lock
    BY <1>5 DEF Accept
  <2>2. \A l \in todo : Born(l)
    BY DEF Visible, Born
  <2> HIDE DEF todo, open
  <2>3. u.todo = todo
    BY DEF Idle
  <2> HIDE DEF u
  <2> QED
    BY <1>1, <2>1, <2>2, <2>3 DEF LocksAreOfRows
<1>6. ASSUME NEW v \in Workers, DeadlockVictim(v) \/ Crash(v) PROVE Goal
  <2>1. tx' = [tx EXCEPT ![v] = Idle] /\ lock' = Unlocked(v)
    BY <1>6 DEF DeadlockVictim, Crash, Abort
  <2> QED
    BY <1>1, <2>1, UnlockedKeepsOthers DEF Idle, LocksAreOfRows
<1>7. ASSUME OtherWriter PROVE Goal
  BY <1>7, OtherWriterKeeps DEF OtherWriter, LocksAreOfRows
<1>8. ASSUME Quiescent \/ \E v \in Workers, r \in Requests : RefuseShape(v, r) PROVE Goal
  BY <1>8 DEF Quiescent, RefuseShape, vars, LocksAreOfRows
<1>9. Goal
  BY <1>2, <1>3, <1>4, <1>5, <1>6, <1>7, <1>8, MergeAssumption DEF MergeMove, Next, Begin
<1> QED
  BY <1>1, <1>9, MergeMoveKeepsBorn DEF LocksAreOfRows, Transaction

-----------------------------------------------------------------------------
(* The inductive invariant of intake.                                       *)

\* A form being taken in has an id of its own, minted for its visitor, that has
\* no row yet.
FormsHaveIds ==
  /\ \A s \in Sites : intake[s].pc # "idle" =>
       /\ intake[s].lead \in Leads /\ intake[s].form \in Forms
       /\ ~Born(intake[s].lead)
       /\ minted[intake[s].lead] = intake[s].form.visitor
  /\ \A s, z \in Sites :
       intake[s].pc # "idle" /\ intake[z].pc # "idle" /\ intake[s].lead = intake[z].lead => s = z

IntakeInv == IInv /\ LocksAreOfRows /\ IntakeTypeOK /\ FormsHaveIds /\ CapturedTogether

\* A new lead with the contacts of c takes the place of an id without a row.
Inserted(l, c) ==
  /\ ~Born(l) /\ row' = [row EXCEPT ![l] = Captured(c)]
  /\ UNCHANGED <<lock, tx, answer, events, left>>

Purged(l) == Purge(l) /\ UNCHANGED <<tx, answer, events, left>>

\* What is captured is a lead nobody has merged, with the contacts given.
LEMMA CapturedIsRow ==
  ASSUME NEW c \in Forms \cup Bodies
  PROVE  /\ Captured(c) \in Row /\ Captured(c).life = "active" /\ Captured(c).merged_into = None
         /\ \A f \in Fields : Captured(c).fields[f] = c[f]
<1>1. \A f \in Fields : c[f] \in Values \cup {None}
  BY IntakeAssumption DEF Form, Body, Contact
<1> QED
  BY <1>1 DEF Captured, Row, Statuses

\* An insert disturbs no merge: nobody has locked the row that was not there.
LEMMA InsertPreserves ==
  ASSUME IInv, LocksAreOfRows, NEW l \in Leads, NEW c \in Forms \cup Bodies, Inserted(l, c)
  PROVE  IInv' /\ LocksAreOfRows'
<1> DEFINE new == Captured(c)
<1>1. new \in Row /\ new.life = "active"
  BY CapturedIsRow
<1>2. row' = [row EXCEPT ![l] = new] /\ UNCHANGED <<lock, tx, answer, events, left>> /\ ~Born(l)
  BY DEF Inserted
<1> HIDE DEF new
<1>3. \A k \in Leads : row'[k] = IF k = l THEN new ELSE row[k]
  BY <1>2 DEF IInv, TypeOK
<1>4. TypeOK'
  BY <1>1, <1>2 DEF IInv, TypeOK
<1>5. ASSUME NEW v \in Workers PROVE Holds(v)' /\ Plan(tx[v])'
  <2>1. lock[l] # v
    BY <1>2 DEF LocksAreOfRows
  <2>2. Holds(v)'
    BY <1>2, <1>3, <2>1 DEF IInv, Holds, Visible, InScope
  <2>3. Plan(tx[v])'
    BY <1>2 DEF IInv, Plan, FetchIds
  <2> QED
    BY <2>2, <2>3
<1>6. LocksAreOfRows'
  BY <1>1, <1>2, <1>3 DEF LocksAreOfRows, Born, IInv, TypeOK, Transaction
<1> QED
  BY <1>4, <1>5, <1>6 DEF IInv

\* Neither does a purge, which waits for the row's lock.
LEMMA PurgePreserves ==
  ASSUME IInv, LocksAreOfRows, NEW l \in Leads, Purged(l)
  PROVE  IInv' /\ LocksAreOfRows'
<1>1. Deleted \in Row /\ Deleted.life = "gone"
  BY DeletedIsRow DEF Deleted
<1>2. Update(l, row[l].life = "trash", Deleted) /\ UNCHANGED <<tx, answer, events, left>>
  BY DEF Purged, Purge
<1>3. IInv'
  BY <1>1, <1>2, UpdatePreserves
<1>4. LocksAreOfRows'
  BY <1>1, <1>2 DEF LocksAreOfRows, Born, Update, IInv, TypeOK, Transaction
<1> QED
  BY <1>3, <1>4

\* What the officer asks for is a request like any other, of a group's members.
LEMMA OfficerAsks ==
  ASSUME IntakeTypeOK, NEW w \in Workers, NEW g \in groups, MergePinned(w, g) \/ MergeAuto(w, g)
  PROVE  \E r \in Request : /\ Accept(w, r) /\ UNCHANGED left
                            /\ Range(r.ids) \subseteq g.members
                            /\ r.master \in g.members \cup {None}
<1>1. /\ g.members \subseteq Leads /\ g.suggested \in g.members /\ g.converted \subseteq Leads
  BY DEF IntakeTypeOK, Group
<1>2. Others(g) \subseteq g.members
  BY DEF Others
<1>3. ASSUME NEW m \in g.members \cup {None}, NEW S \in SUBSET g.members,
             Accept(w, [master |-> m, ids |-> SetToSeq(S), org |-> None])
      PROVE  \E r \in Request : /\ Accept(w, r)
                                /\ Range(r.ids) \subseteq g.members
                                /\ r.master \in g.members \cup {None}
  <2> DEFINE r == [master |-> m, ids |-> SetToSeq(S), org |-> None]
  <2>1. SetToSeq(S) \in Seq(Leads) /\ Range(SetToSeq(S)) \subseteq S
    BY <1>1, ListsAreOfMembers
  <2>2. r \in Request
    BY <1>1, <2>1 DEF Request
  <2> QED
    BY <1>3, <2>1, <2>2
<1> QED
  BY <1>1, <1>2, <1>3 DEF MergePinned, MergeAuto

\* What a step of intake does to the table and the merges.
LEMMA IntakeMoves ==
  ASSUME IntakeInv, [IntakeNext]_intakeSystem
  PROVE  \/ UNCHANGED vars
         \/ MergeMove
         \/ \E l \in Leads, c \in Forms \cup Bodies : Inserted(l, c)
         \/ \E l \in Leads : Purged(l)
<1> DEFINE Goal == \/ UNCHANGED vars
                   \/ MergeMove
                   \/ \E l \in Leads, c \in Forms \cup Bodies : Inserted(l, c)
                   \/ \E l \in Leads : Purged(l)
<1>1. ASSUME NEW s \in Sites, FindMatch(s) \/ InsertAndLink(s) \/ RollbackIntake(s)
                                \/ \E f \in Forms : Submit(s, f)
      PROVE  Goal
  BY <1>1 DEF FindMatch, InsertAndLink, RollbackIntake, Submit
<1>2. ASSUME NEW s \in Sites, CommitIntake(s) PROVE Goal
  BY <1>2 DEF CommitIntake, IntakeInv, FormsHaveIds, Inserted
<1>3. ASSUME NEW b \in Bodies, CaptureLead(b) PROVE Goal
  BY <1>3 DEF CaptureLead, Mintable, Born, Inserted, vars
<1>4. ASSUME Officer PROVE Goal
  BY <1>4, OfficerAsks DEF Officer, Dismiss, MergeMove, IntakeInv
<1>5. ASSUME NEW l \in Leads, PurgeUnlinked(l) PROVE Goal
  BY <1>5 DEF PurgeUnlinked, Purged
<1>6. ASSUME NEW q \in Queries, Scan(q) PROVE Goal
  BY <1>6 DEF Scan
<1> QED
  BY <1>1, <1>2, <1>3, <1>4, <1>5, <1>6 DEF IntakeNext, SiteStep, MergeMove, intakeSystem

\* The table and the merges stay sound under everything intake does.
LEMMA TableStaysSound ==
  IntakeInv /\ [IntakeNext]_intakeSystem => IInv' /\ LocksAreOfRows'
<1>1. ASSUME IntakeInv, UNCHANGED vars PROVE IInv' /\ LocksAreOfRows'
  <2>1. IInv'
    BY <1>1, NextPreserves DEF IntakeInv
  <2> QED
    BY <1>1, <2>1 DEF vars, IntakeInv, LocksAreOfRows, Born
<1> QED
  BY <1>1, IntakeMoves, MergeMovePreserves, MergeMoveKeepsLocks, InsertPreserves, PurgePreserves
     DEF IntakeInv

\* A scan shows live leads that share a key, at least as many as were asked
\* for, and suggests one of them.
LEMMA ScannedGroups ==
  ASSUME TypeOK, NEW min \in Int, min >= 2, NEW g \in Candidates(min)
  PROVE  /\ g \in Group /\ Cardinality(g.members) >= 2 /\ g.suggested \in g.members
         /\ \E f \in Fields, l \in Leads : g.members = Sharing(f, KeyOf(f, l))
<1>1. PICK f \in Fields, l \in Leads :
        LET S == Sharing(f, KeyOf(f, l)) IN Populated(S, min) /\ g = GroupOf(f, S)
  BY DEF Candidates
<1> DEFINE S == Sharing(f, KeyOf(f, l))
<1>2. S \subseteq Leads /\ Cardinality(S) \in Nat /\ Cardinality(S) >= 2
  <2>1. S \subseteq Leads
    BY DEF Sharing
  <2>2. Cardinality(S) \in Nat /\ Cardinality(S) >= min
    BY <1>1, <2>1, LeadSetsAreFinite DEF Populated
  <2> QED
    BY <2>1, <2>2
<1>3. S # {}
  BY <1>2, FS_EmptySet
<1>4. g = GroupOf(f, S)
  BY <1>1
<1> HIDE DEF S
<1>5. SuggestedMaster(S) \in S
  BY <1>2, <1>3, SuggestionIsMember
<1>6. /\ g.kind = f /\ g.members = S /\ g.suggested = SuggestedMaster(S)
      /\ g.converted = {k \in S : row[k].status = "converted"}
      /\ g \in Group
  BY <1>2, <1>4, <1>5 DEF GroupOf, Group
<1> QED
  BY <1>2, <1>5, <1>6 DEF S

\* Groups on the officer's page stay groups.
LEMMA GroupsStayGroups ==
  ASSUME IntakeInv, [IntakeNext]_intakeSystem, NEW g \in groups'
  PROVE  /\ g \in Group /\ Cardinality(g.members) >= 2 /\ g.suggested \in g.members
         /\ \/ g \in groups
            \/ \E f \in Fields, l \in Leads : g.members = Sharing(f, KeyOf(f, l)) /\ row' = row
<1>1. CASE g \in groups
  BY <1>1 DEF IntakeInv, IntakeTypeOK
<1>2. ASSUME NEW q \in Queries, Scan(q)
      PROVE  g \in Candidates(q.min_group_size) /\ q.min_group_size \in Int /\ q.min_group_size >= 2
               /\ row' = row
  BY <1>2, IntakeAssumption DEF Scan, vars
<1>3. ASSUME g \notin groups PROVE \E q \in Queries : Scan(q)
  BY <1>3 DEF IntakeNext, SiteStep, FindMatch, InsertAndLink, CommitIntake, RollbackIntake, Submit,
       CaptureLead, Officer, Dismiss, MergePinned, MergeAuto, PurgeUnlinked, intakeVars, intakeSystem
<1>4. TypeOK
  BY DEF IntakeInv, IInv
<1> QED
  BY <1>1, <1>2, <1>3, <1>4, ScannedGroups

\* The steps of a site and the insert of the capture verb.
SiteMove(s) ==
  FindMatch(s) \/ InsertAndLink(s) \/ CommitIntake(s) \/ RollbackIntake(s) \/ \E f \in Forms : Submit(s, f)

\* Nobody else touches the sites, the ids or the links.
LEMMA WhoTakesIn ==
  ASSUME [IntakeNext]_intakeSystem
  PROVE  \/ \E s \in Sites : SiteMove(s)
         \/ \E b \in Bodies : CaptureLead(b)
         \/ UNCHANGED <<intake, minted, links>> /\
              (UNCHANGED vars \/ (\E w \in Workers, g \in groups : MergePinned(w, g) \/ MergeAuto(w, g))
                \/ (\E l \in Leads : PurgeUnlinked(l)) \/ Next)
BY DEF IntakeNext, SiteStep, SiteMove, Officer, Dismiss, MergePinned, MergeAuto, Scan,
       PurgeUnlinked, intakeVars, intakeSystem

\* A site's transaction is at rest, or it holds what it was submitted.
LEMMA SiteMoveShape ==
  ASSUME IntakeInv, NEW s \in Sites, SiteMove(s)
  PROVE  \E i \in Intake :
           /\ intake' = [intake EXCEPT ![s] = i]
           /\ UNCHANGED <<lock, tx, answer, events, left, groups, reply>>
           /\ \/ /\ i = AtRest /\ UNCHANGED <<row, minted, links>>
              \/ /\ intake[s].pc # "idle" /\ i.pc # "idle"
                 /\ i.lead = intake[s].lead /\ i.form = intake[s].form
                 /\ UNCHANGED <<row, minted, links>>
              \/ /\ i.pc # "idle" /\ i.lead \in Leads /\ Mintable(i.lead) /\ i.form \in Forms
                 /\ minted' = [minted EXCEPT ![i.lead] = i.form.visitor]
                 /\ UNCHANGED <<row, links>>
              \/ /\ i = AtRest /\ intake[s].pc # "idle"
                 /\ row' = [row EXCEPT ![intake[s].lead] = Captured(intake[s].form)]
                 /\ links' = links \cup {<<intake[s].lead, intake[s].form.visitor>>}
                 /\ minted' = minted
<1> DEFINE Shape(i) ==
           /\ intake' = [intake EXCEPT ![s] = i]
           /\ UNCHANGED <<lock, tx, answer, events, left, groups, reply>>
           /\ \/ /\ i = AtRest /\ UNCHANGED <<row, minted, links>>
              \/ /\ intake[s].pc # "idle" /\ i.pc # "idle"
                 /\ i.lead = intake[s].lead /\ i.form = intake[s].form
                 /\ UNCHANGED <<row, minted, links>>
              \/ /\ i.pc # "idle" /\ i.lead \in Leads /\ Mintable(i.lead) /\ i.form \in Forms
                 /\ minted' = [minted EXCEPT ![i.lead] = i.form.visitor]
                 /\ UNCHANGED <<row, links>>
              \/ /\ i = AtRest /\ intake[s].pc # "idle"
                 /\ row' = [row EXCEPT ![intake[s].lead] = Captured(intake[s].form)]
                 /\ links' = links \cup {<<intake[s].lead, intake[s].form.visitor>>}
                 /\ minted' = minted
<1>1. intake[s] \in Intake /\ AtRest \in Intake
  BY DEF IntakeInv, IntakeTypeOK, Intake, AtRest
<1>2. CASE FindMatch(s)
  <2> DEFINE i == [intake[s] EXCEPT !.pc = "insert", !.match = Matched(intake[s].form)]
  <2>1. intake[s].form \in Form /\ intake[s].pc = "match"
    BY <1>2, IntakeAssumption DEF IntakeInv, FormsHaveIds, FindMatch
  <2>2. Matched(intake[s].form) \in Match \cup {None}
    BY <2>1, MatchIsNewest
  <2>3. i \in Intake /\ Shape(i)
    BY <1>1, <1>2, <2>1, <2>2 DEF FindMatch, Intake, vars
  <2> QED
    BY <2>3
<1>3. CASE InsertAndLink(s)
  <2> DEFINE i == [intake[s] EXCEPT !.pc = "commit"]
  <2>1. i \in Intake /\ i.pc = "commit" /\ i.lead = intake[s].lead /\ i.form = intake[s].form
    BY <1>1 DEF Intake
  <2>2. /\ intake' = [intake EXCEPT ![s] = i] /\ intake[s].pc = "insert"
        /\ UNCHANGED <<vars, minted, links, groups, reply>>
    BY <1>3 DEF InsertAndLink
  <2> HIDE DEF i
  <2>3. Shape(i)
    BY <2>1, <2>2 DEF vars
  <2> QED
    BY <2>1, <2>3
<1>4. CASE CommitIntake(s)
  <2>1. Shape(AtRest)
    BY <1>4 DEF CommitIntake, Linked
  <2> QED
    BY <1>1, <2>1
<1>5. CASE RollbackIntake(s)
  <2>1. Shape(AtRest)
    BY <1>5 DEF RollbackIntake, vars
  <2> QED
    BY <1>1, <2>1
<1>6. ASSUME NEW f \in Forms, Submit(s, f) PROVE \E i \in Intake : Shape(i)
  <2>1. PICK l \in Leads :
          /\ Mintable(l)
          /\ intake' = [intake EXCEPT ![s] = [AtRest EXCEPT !.pc = "match", !.lead = l, !.form = f]]
          /\ minted' = [minted EXCEPT ![l] = f.visitor]
    BY <1>6 DEF Submit
  <2> DEFINE i == [AtRest EXCEPT !.pc = "match", !.lead = l, !.form = f]
  <2>2. i \in Intake /\ i.pc = "match" /\ i.lead = l /\ i.form = f
    BY <1>1, IntakeAssumption DEF Intake, AtRest
  <2>3. UNCHANGED <<vars, links, groups, reply>> /\ intake' = [intake EXCEPT ![s] = i]
    BY <1>6, <2>1 DEF Submit
  <2> HIDE DEF i
  <2>4. Shape(i)
    BY <2>1, <2>2, <2>3 DEF vars
  <2> QED
    BY <2>2, <2>4
<1> QED
  BY <1>2, <1>3, <1>4, <1>5, <1>6 DEF SiteMove

\* Forms keep ids of their own, and every insert takes an id nobody else has.
LEMMA FormsKeepIds == IntakeInv /\ [IntakeNext]_intakeSystem => FormsHaveIds'
<1> SUFFICES ASSUME IntakeInv, [IntakeNext]_intakeSystem PROVE FormsHaveIds'
  OBVIOUS
<1>1. /\ intake \in [Sites -> Intake] /\ minted \in [Leads -> Visitors \cup {None}]
      /\ row \in [Leads -> Row] /\ FormsHaveIds
  BY DEF IntakeInv, IntakeTypeOK, TypeOK
<1>2. AtRest.pc = "idle"
  BY DEF AtRest
<1>3. ASSUME NEW s \in Sites, SiteMove(s) PROVE FormsHaveIds'
  <2>1. PICK i \in Intake :
           /\ intake' = [intake EXCEPT ![s] = i]
           /\ \/ /\ i = AtRest /\ UNCHANGED <<row, minted, links>>
              \/ /\ intake[s].pc # "idle" /\ i.pc # "idle"
                 /\ i.lead = intake[s].lead /\ i.form = intake[s].form
                 /\ UNCHANGED <<row, minted, links>>
              \/ /\ i.pc # "idle" /\ i.lead \in Leads /\ Mintable(i.lead) /\ i.form \in Forms
                 /\ minted' = [minted EXCEPT ![i.lead] = i.form.visitor]
                 /\ UNCHANGED <<row, links>>
              \/ /\ i = AtRest /\ intake[s].pc # "idle"
                 /\ row' = [row EXCEPT ![intake[s].lead] = Captured(intake[s].form)]
                 /\ links' = links \cup {<<intake[s].lead, intake[s].form.visitor>>}
                 /\ minted' = minted
    BY <1>3, SiteMoveShape
  <2>2. \A z \in Sites : intake'[z] = IF z = s THEN i ELSE intake[z]
    BY <1>1, <2>1
  <2>3. CASE i = AtRest /\ UNCHANGED <<row, minted, links>>
    BY <1>1, <1>2, <2>2, <2>3 DEF FormsHaveIds, Born
  <2>4. CASE /\ intake[s].pc # "idle" /\ i.pc # "idle"
             /\ i.lead = intake[s].lead /\ i.form = intake[s].form
             /\ UNCHANGED <<row, minted, links>>
    BY <1>1, <2>2, <2>4 DEF FormsHaveIds, Born
  <2>5. CASE /\ i.pc # "idle" /\ i.lead \in Leads /\ Mintable(i.lead) /\ i.form \in Forms
             /\ minted' = [minted EXCEPT ![i.lead] = i.form.visitor]
             /\ UNCHANGED <<row, links>>
    <3>1. ~Born(i.lead) /\ \A z \in Sites : intake[z].lead # i.lead
      BY <2>5 DEF Mintable, Born
    <3> QED
      BY <1>1, <2>2, <2>5, <3>1 DEF FormsHaveIds, Born
  <2>6. CASE /\ i = AtRest /\ intake[s].pc # "idle"
             /\ row' = [row EXCEPT ![intake[s].lead] = Captured(intake[s].form)]
             /\ minted' = minted
    BY <1>1, <1>2, <2>2, <2>6 DEF FormsHaveIds, Born
  <2> QED
    BY <2>1, <2>3, <2>4, <2>5, <2>6
<1>4. ASSUME UNCHANGED <<intake, minted>>,
             \A s \in Sites : intake[s].pc # "idle" =>
                row'[intake[s].lead].life = row[intake[s].lead].life
      PROVE  FormsHaveIds'
  BY <1>1, <1>4 DEF FormsHaveIds, Born
<1>5. ASSUME NEW b \in Bodies, CaptureLead(b) PROVE FormsHaveIds'
  <2>1. \E l \in Leads : Mintable(l) /\ (row' = row \/ row' = [row EXCEPT ![l] = Captured(b)])
    BY <1>5 DEF CaptureLead
  <2>2. \A s \in Sites : row'[intake[s].lead] = row[intake[s].lead] \/ intake[s].pc = "idle"
    BY <1>1, <2>1 DEF Mintable, FormsHaveIds
  <2>3. UNCHANGED <<intake, minted>>
    BY <1>5 DEF CaptureLead
  <2> QED
    BY <1>4, <2>2, <2>3
<1>6. ASSUME NEW l \in Leads, PurgeUnlinked(l), UNCHANGED <<intake, minted>> PROVE FormsHaveIds'
  <2>1. row[l].life = "trash" /\ \A k \in Leads : k # l => row'[k] = row[k]
    BY <1>1, <1>6 DEF PurgeUnlinked, Purge, Update
  <2> QED
    BY <1>1, <1>4, <1>6, <2>1 DEF FormsHaveIds, Born
<1>7. ASSUME MergeMove, UNCHANGED <<intake, minted>> PROVE FormsHaveIds'
  BY <1>1, <1>4, <1>7, MergeMoveKeepsRows DEF IntakeInv, FormsHaveIds
<1>8. CASE UNCHANGED vars /\ UNCHANGED <<intake, minted>>
  BY <1>4, <1>8 DEF vars
<1> QED
  BY <1>3, <1>5, <1>6, <1>7, <1>8, WhoTakesIn, OfficerAsks DEF MergeMove, IntakeInv

\* Types of what intake keeps beside the table.
LEMMA IntakeTypesStay == IntakeInv /\ [IntakeNext]_intakeSystem => IntakeTypeOK'
<1> SUFFICES ASSUME IntakeInv, [IntakeNext]_intakeSystem PROVE IntakeTypeOK'
  OBVIOUS
<1>1. IntakeTypeOK
  BY DEF IntakeInv
<1>2. TypeOK'
  BY TableStaysSound DEF IInv
<1>3. groups' \subseteq {g \in Group : Cardinality(g.members) >= 2 /\ g.suggested \in g.members}
  BY GroupsStayGroups
<1>4. reply' \in {"none", "created", "invalid_input", "internal_error"}
  <2>1. ASSUME NEW b \in Bodies, CaptureLead(b)
        PROVE  reply' \in {"created", "invalid_input", "internal_error"}
    BY <2>1 DEF CaptureLead, CaptureCode
  <2>2. ASSUME \A b \in Bodies : ~CaptureLead(b) PROVE reply' = reply
    BY <2>2 DEF IntakeNext, SiteStep, FindMatch, InsertAndLink, CommitIntake, RollbackIntake, Submit,
         Officer, Dismiss, MergePinned, MergeAuto, Scan, PurgeUnlinked, intakeVars, intakeSystem
  <2> QED
    BY <1>1, <2>1, <2>2 DEF IntakeTypeOK
<1>5. /\ intake' \in [Sites -> Intake] /\ minted' \in [Leads -> Visitors \cup {None}]
      /\ links' \subseteq Leads \X Visitors
  <2>1. ASSUME NEW s \in Sites, SiteMove(s)
        PROVE  /\ intake' \in [Sites -> Intake] /\ minted' \in [Leads -> Visitors \cup {None}]
               /\ links' \subseteq Leads \X Visitors
    <3>1. \A f \in Forms : f.visitor \in Visitors
      BY IntakeAssumption DEF Form
    <3> QED
      BY <1>1, <2>1, <3>1, SiteMoveShape DEF IntakeTypeOK, IntakeInv, FormsHaveIds
  <2>2. CASE UNCHANGED <<intake, minted, links>>
    BY <1>1, <2>2 DEF IntakeTypeOK
  <2> QED
    BY <2>1, <2>2, WhoTakesIn DEF CaptureLead
<1> QED
  BY <1>2, <1>3, <1>4, <1>5 DEF IntakeTypeOK

\* A lead and its link come together and go separately from nothing: the commit
\* writes both, the merges and their neighbours neither, and only a lead without
\* a link is purged.
LEMMA LinksStayWithLeads == IntakeInv /\ [IntakeNext]_intakeSystem => CapturedTogether'
<1> SUFFICES ASSUME IntakeInv, [IntakeNext]_intakeSystem, NEW l \in Leads, NEW v \in Visitors
             PROVE  <<l, v>> \in links' <=> Stored(l)' /\ minted'[l] = v
  BY DEF CapturedTogether
<1>1. /\ intake \in [Sites -> Intake] /\ minted \in [Leads -> Visitors \cup {None}]
      /\ row \in [Leads -> Row] /\ FormsHaveIds
      /\ <<l, v>> \in links <=> Stored(l) /\ minted[l] = v
      /\ v # None
  BY IntakeAssumption DEF IntakeInv, IntakeTypeOK, TypeOK, CapturedTogether
<1>2. ASSUME row' = row \/ Stored(l)' = Stored(l), UNCHANGED <<minted, links>>
      PROVE  <<l, v>> \in links' <=> Stored(l)' /\ minted'[l] = v
  BY <1>1, <1>2 DEF Stored
<1>3. ASSUME NEW s \in Sites, SiteMove(s)
      PROVE  <<l, v>> \in links' <=> Stored(l)' /\ minted'[l] = v
  <2> DEFINE k == intake[s].lead
             f == intake[s].form
  <2>1. CASE UNCHANGED <<row, minted, links>>
    BY <1>2, <2>1
  <2>2. CASE \E m \in Leads, x \in Forms : /\ Mintable(m) /\ minted' = [minted EXCEPT ![m] = x.visitor]
                                           /\ UNCHANGED <<row, links>>
    BY <1>1, <2>2 DEF Mintable, Stored
  <2>3. CASE /\ intake[s].pc # "idle" /\ row' = [row EXCEPT ![k] = Captured(f)]
             /\ links' = links \cup {<<k, f.visitor>>} /\ minted' = minted
    <3>1. k \in Leads /\ f \in Forms /\ ~Born(k) /\ minted[k] = f.visitor
      BY <1>1, <2>3 DEF FormsHaveIds
    <3>2. Captured(f).life = "active"
      BY <3>1, CapturedIsRow
    <3>3. CASE l = k
      BY <1>1, <2>3, <3>1, <3>2, <3>3 DEF Born, Stored
    <3>4. CASE l # k
      BY <1>1, <2>3, <3>4 DEF Stored
    <3> QED
      BY <3>3, <3>4
  <2> QED
    BY <1>3, <2>1, <2>2, <2>3, SiteMoveShape
<1>4. ASSUME NEW b \in Bodies, CaptureLead(b)
      PROVE  <<l, v>> \in links' <=> Stored(l)' /\ minted'[l] = v
  <2>1. PICK m \in Leads : Mintable(m) /\ (row' = row \/ row' = [row EXCEPT ![m] = Captured(b)])
    BY <1>4 DEF CaptureLead
  <2>2. minted[m] = None /\ UNCHANGED <<minted, links>>
    BY <1>4, <2>1 DEF CaptureLead, Mintable
  <2> QED
    BY <1>1, <2>1, <2>2 DEF Stored
<1>5. ASSUME NEW m \in Leads, PurgeUnlinked(m), UNCHANGED <<minted, links>>
      PROVE  <<l, v>> \in links' <=> Stored(l)' /\ minted'[l] = v
  <2>1. /\ row[m].life = "trash" /\ row' = [row EXCEPT ![m] = Deleted]
        /\ \A x \in Visitors : <<m, x>> \notin links
    BY <1>5 DEF PurgeUnlinked, Purge, Update
  <2>2. l # m => row'[l] = row[l]
    BY <1>1, <2>1
  <2>3. row'[m].life = "gone"
    BY <1>1, <2>1 DEF Deleted
  <2> QED
    BY <1>1, <1>5, <2>1, <2>2, <2>3 DEF Stored
<1>6. ASSUME MergeMove, UNCHANGED <<minted, links>>
      PROVE  <<l, v>> \in links' <=> Stored(l)' /\ minted'[l] = v
  <2>1. Stored(l)' = Stored(l)
    BY <1>6, MergeMoveKeepsRows DEF IntakeInv, Stored
  <2> QED
    BY <1>2, <1>6, <2>1
<1> QED
  BY <1>2, <1>3, <1>4, <1>5, <1>6, WhoTakesIn, OfficerAsks DEF MergeMove, IntakeInv, vars

\* Intake starts sound: no form is being taken in and nothing is linked.
LEMMA IntakeStartsSound ==
  ASSUME IntakeInit
  PROVE  IntakeInv
<1>1. IInv /\ row = Seed /\ lock = [l \in Leads |-> None] /\ tx = [w \in Workers |-> Idle]
  BY InitEstablishes DEF IntakeInit, Init, TableInit
<1>2. LocksAreOfRows
  BY <1>1, NoneIsNothing DEF LocksAreOfRows, Idle
<1>3. IntakeTypeOK
  BY <1>1 DEF IntakeTypeOK, IntakeInit, IInv, Intake, AtRest
<1>4. FormsHaveIds
  BY DEF FormsHaveIds, IntakeInit, AtRest
<1>5. CapturedTogether
  BY IntakeAssumption DEF CapturedTogether, IntakeInit
<1> QED
  BY <1>1, <1>2, <1>3, <1>4, <1>5 DEF IntakeInv

\* The inductive invariant holds in every state that forms, calls, scans, merges and
\* the other writers reach together.
THEOREM IntakeInvariantHolds == IntakeSpec => []IntakeInv
<1>1. IntakeInv /\ [IntakeNext]_intakeSystem => IntakeInv'
  BY TableStaysSound, IntakeTypesStay, FormsKeepIds, LinksStayWithLeads DEF IntakeInv
<1> QED
  BY <1>1, IntakeStartsSound, PTL DEF IntakeSpec

\* Types hold in the whole of intake: forms, scans, captures and the merges an
\* officer starts from an old page.
THEOREM IntakeTypeCorrect == IntakeSpec => []IntakeTypeOK
<1>1. IntakeInv => IntakeTypeOK
  BY DEF IntakeInv
<1> QED
  BY <1>1, IntakeInvariantHolds, PTL

\* A visitor's lead is stored exactly with its link, for any forms, failures,
\* merges, trash and purges.
THEOREM CapturesAreTogether == IntakeSpec => []CapturedTogether
<1>1. IntakeInv => CapturedTogether
  BY DEF IntakeInv
<1> QED
  BY <1>1, IntakeInvariantHolds, PTL

\* No merge an officer starts from a scan decides on a row that has changed
\* since it was read, whatever is captured, converted or trashed meanwhile.
THEOREM IntakeCacheIsFresh == IntakeSpec => []CacheFresh
<1>1. IntakeInv => CacheFresh
  BY DEF IntakeInv, IInv, Holds, CacheFresh
<1> QED
  BY <1>1, IntakeInvariantHolds, PTL

-----------------------------------------------------------------------------
(* What a visitor's page shows.                                             *)

\* Links are never taken back.
LEMMA LinksGrow ==
  ASSUME IntakeInv, [IntakeNext]_intakeSystem
  PROVE  links \subseteq links'
<1>1. ASSUME NEW s \in Sites, SiteMove(s) PROVE links \subseteq links'
  BY <1>1, SiteMoveShape
<1> QED
  BY <1>1, WhoTakesIn DEF CaptureLead

\* A lead in the table stays there until it is purged from the trash.
LEMMA ActiveStaysOrIsTrashed ==
  ASSUME IntakeInv, [IntakeNext]_intakeSystem, NEW l \in Leads, row[l].life = "active"
  PROVE  row'[l].life \in {"active", "trash"}
<1>1. row \in [Leads -> Row]
  BY DEF IntakeInv, IInv, TypeOK
<1>2. CASE UNCHANGED vars
  BY <1>2 DEF vars
<1>3. CASE MergeMove
  BY <1>3, MergeMoveKeepsRows DEF IntakeInv, Stored
<1>4. ASSUME NEW k \in Leads, NEW c, Inserted(k, c) PROVE row'[l].life = "active"
  BY <1>1, <1>4 DEF Inserted, Born
<1>5. ASSUME NEW k \in Leads, Purged(k) PROVE row'[l].life = "active"
  BY <1>1, <1>5 DEF Purged, Purge, Update
<1> QED
  BY <1>2, <1>3, <1>4, <1>5, IntakeMoves

\* A lead answered for a visitor is answered until it is trashed: no merge,
\* conversion or later form takes it off the visitor's page.
THEOREM AttributionIsDurable == IntakeSpec => AttributionDurable
<1>1. IntakeInv /\ [IntakeNext]_intakeSystem =>
        \A v \in Visitors : \A l \in LeadsForVisitor(v) :
          (l \in LeadsForVisitor(v))' \/ row'[l].life = "trash"
  <2> SUFFICES ASSUME IntakeInv, [IntakeNext]_intakeSystem,
                      NEW v \in Visitors, NEW l \in LeadsForVisitor(v)
               PROVE  (l \in LeadsForVisitor(v))' \/ row'[l].life = "trash"
    OBVIOUS
  <2>1. l \in Leads /\ <<l, v>> \in links /\ row[l].life = "active"
    BY DEF LeadsForVisitor
  <2>2. <<l, v>> \in links' /\ row'[l].life \in {"active", "trash"}
    BY <2>1, LinksGrow, ActiveStaysOrIsTrashed
  <2> QED
    BY <2>1, <2>2 DEF LeadsForVisitor
<1> QED
  BY <1>1, IntakeInvariantHolds, PTL DEF IntakeSpec, AttributionDurable

-----------------------------------------------------------------------------
(* Whose leads are merged.  The keys are taken to tell lines apart and each  *)
(* caller to give contacts of one person; then no merge of a scan's groups   *)
(* brings strangers together, however old the page.                         *)

\* Lead l is there and one of its contacts is p's, or it was purged and holds none.
Names(l, p) == Born(l) /\ (row[l].life = "gone" \/ p \in PeopleOf(l))

\* Whoever has a lead's line is one of its people.
LEMMA WhoIsNamed ==
  ASSUME NEW l, NEW p
  PROVE  p \in PeopleOf(l) <=>
           \E f \in Fields : row[l].fields[f] # None /\ p = Owner[Line[row[l].fields[f]]]
BY DEF PeopleOf

\* A lead names one person at most.
OneOwner(l) == \A p, q \in PeopleOf(l) : p = q

\* Whoever the merge's ids, cursor, master and absorbed leads name, p is among them.
MergeNames(t, p) ==
  /\ \A l \in FetchIds(t) : Names(l, p)
  /\ t.pc = "chase" => Names(t.current, p)
  /\ t.master_id # None => Names(t.master_id, p)
  /\ t.absorb_live \subseteq Range(t.ids)

\* Contacts come from forms, bodies and the seed.
FieldsArrive == \A l \in Leads, f \in Fields : row[l].fields[f] \in Arriving(f) \cup {None}

\* Only leads that have a row point anywhere: a purge takes the pointer with it.
PointersOfRows == \A l \in Leads : Merged(l) => Stored(l)

\* A lead names one person, and so does the lead it is merged into; a group, and
\* a merge, has one person whom all its leads name.
StrangersInv ==
  /\ FieldsArrive
  /\ PointersOfRows
  /\ \A l \in Leads : OneOwner(l)
  /\ \A l \in Leads : Merged(l) =>
       /\ Born(row[l].merged_into)
       /\ \/ row[row[l].merged_into].life = "gone"
          \/ PeopleOf(l) \subseteq PeopleOf(row[l].merged_into)
  /\ \A g \in groups : \E p : \A l \in g.members : Names(l, p)
  /\ \A w \in Workers : \E p : MergeNames(tx[w], p)

\* Leads that share a key share a line, so an owner.
LEMMA SharingHasOneOwner ==
  ASSUME KeysTellLines, IntakeInv, StrangersInv, NEW f \in Fields, NEW l \in Leads,
         NEW k \in Sharing(f, KeyOf(f, l)), NEW m \in Sharing(f, KeyOf(f, l))
  PROVE  Names(m, Owner[Line[row[k].fields[f]]])
<1> DEFINE a == row[k].fields[f]
           b == row[m].fields[f]
<1>1. /\ k \in Leads /\ m \in Leads /\ Live(m)
      /\ KeyOf(f, k) = KeyOf(f, m) /\ KeyOf(f, k) # None
  BY DEF Sharing
<1>2. row \in [Leads -> Row] /\ a \in Contact /\ b \in Contact
  BY <1>1 DEF IntakeInv, IInv, TypeOK, Row, Contact
<1>3. StoredKey[f][None] = None
  BY DEF StoredKey, StoredEmailKey, StoredPhoneKey, Contact
<1>4. a # None /\ b # None
  BY <1>1, <1>3 DEF KeyOf
<1>5. a \in Arriving(f) /\ b \in Arriving(f)
  BY <1>1, <1>4 DEF StrangersInv, FieldsArrive
<1>6. SameLine(f, a, b)
  BY <1>1, <1>4, <1>5 DEF KeysTellLines, KeyOf
<1>7. Line[a] = Line[b]
  BY <1>6 DEF SameLine
<1>8. Owner[Line[a]] \in PeopleOf(m)
  BY <1>4, <1>7, WhoIsNamed
<1> QED
  BY <1>1, <1>8 DEF Names, Live, Born

\* Following a lead's pointer stays with whom it names.
PointersName ==
  \A l \in Leads : \A p : Merged(l) /\ Names(l, p) => Names(row[l].merged_into, p)

\* What a merge does by itself keeps to the person its batch names: its master
\* is of the batch or at the end of a chain from it, and it absorbs of the batch.
LEMMA ProgressNames ==
  ASSUME IInv, PointersName, NEW w \in Workers, NEW p, MergeNames(tx[w], p), Progress(w)
  PROVE  MergeNames(tx'[w], p)
<1> DEFINE t == tx[w]
           Goal == MergeNames(tx'[w], p)
<1>1. /\ t \in Transaction /\ tx \in [Workers -> Transaction] /\ Plan(t) /\ Holds(w)
      /\ t.ids \in Seq(Leads)
  BY DEF IInv, TypeOK, Transaction
<1>2. ASSUME NEW u, tx' = [tx EXCEPT ![w] = u], u.ids = t.ids, u.master = t.master,
             u.pc = "chase" => Names(u.current, p),
             u.master_id # None => Names(u.master_id, p),
             u.absorb_live \subseteq Range(t.ids)
      PROVE  Goal
  <2>1. tx'[w] = u /\ FetchIds(u) = FetchIds(t)
    BY <1>1, <1>2 DEF FetchIds
  <2> QED
    BY <1>2, <2>1 DEF MergeNames
<1>3. ASSUME tx' = [tx EXCEPT ![w] = Idle] PROVE Goal
  <2>1. tx'[w] = Idle
    BY <1>1, <1>3
  <2> QED
    BY <2>1 DEF MergeNames, Idle, FetchIds, Range
<1>4. ASSUME NEW l \in Leads, t.rows[l] # None, t.rows[l].merged_into # None, Names(l, p)
      PROVE  Names(t.rows[l].merged_into, p)
  BY <1>1, <1>4 DEF Holds, PointersName, Merged
<1>5. t.absorb_live \subseteq Range(t.ids) /\ (t.master_id # None => Names(t.master_id, p))
      /\ (t.pc = "chase" => Names(t.current, p)) /\ \A l \in FetchIds(t) : Names(l, p)
  BY DEF MergeNames
<1>6. ASSUME NEW m \in FetchIds(t), t.pc = "batch",
             Step(w, [t EXCEPT !.pc = "classify", !.master_id = m])
      PROVE  Goal
  <2> DEFINE u == [t EXCEPT !.pc = "classify", !.master_id = m]
  <2>1. /\ tx' = [tx EXCEPT ![w] = u] /\ u.ids = t.ids /\ u.master = t.master /\ u.pc = "classify"
        /\ u.master_id = m /\ u.absorb_live = t.absorb_live
    BY <1>1, <1>6 DEF Transaction, Step
  <2> HIDE DEF u
  <2> QED
    BY <1>2, <1>5, <2>1
<1>7. CASE ResolvePinned(w)
  BY <1>6, <1>7 DEF ResolvePinned, BatchFound, BatchRead, FetchIds
<1>8. CASE ResolveAuto(w)
  BY <1>6, <1>8 DEF ResolveAuto, BatchFound, BatchRead, LiveBatch
<1>9. CASE Redirect(w)
  <2> DEFINE u == [t EXCEPT !.pc = "chase", !.redirected_from = t.master,
                            !.current = t.rows[t.master].merged_into]
  <2>1. /\ tx' = [tx EXCEPT ![w] = u] /\ u.ids = t.ids /\ u.master = t.master
        /\ u.current = t.rows[t.master].merged_into
        /\ u.master_id = t.master_id /\ u.absorb_live = t.absorb_live
    BY <1>1, <1>9 DEF Transaction, Step, Redirect
  <2> HIDE DEF u
  <2>2. t.master \in FetchIds(t) /\ t.master \in Leads /\ t.rows[t.master] # None
        /\ t.rows[t.master].merged_into # None
    BY <1>1, <1>9 DEF Redirect, PinAbsorbed, BatchFound, FetchIds, Transaction
  <2>3. Names(u.current, p)
    BY <1>4, <1>5, <2>1, <2>2
  <2> QED
    BY <1>2, <1>5, <2>1, <2>3
<1>10. CASE ChaseHop(w)
  <2> DEFINE u == [t EXCEPT !.current = t.rows[t.current].merged_into, !.hops = Hop(t.hops)]
  <2>1. /\ tx' = [tx EXCEPT ![w] = u] /\ u.ids = t.ids /\ u.master = t.master
        /\ u.current = t.rows[t.current].merged_into
        /\ u.master_id = t.master_id /\ u.absorb_live = t.absorb_live
    BY <1>1, <1>10 DEF Transaction, Step, ChaseHop
  <2> HIDE DEF u
  <2>2. /\ t.pc = "chase" /\ t.current \in Leads /\ t.rows[t.current] # None
        /\ t.rows[t.current].merged_into # None
    BY <1>1, <1>10 DEF ChaseHop, AtCached, Plan
  <2>3. Names(u.current, p)
    BY <1>4, <1>5, <2>1, <2>2
  <2> QED
    BY <1>2, <1>5, <2>1, <2>3
<1>11. CASE ChaseFoundMaster(w)
  <2> DEFINE u == [t EXCEPT !.pc = "classify", !.master_id = t.current,
                            !.current = None, !.hops = 0]
  <2>1. /\ tx' = [tx EXCEPT ![w] = u] /\ u.ids = t.ids /\ u.master = t.master /\ u.pc = "classify"
        /\ u.master_id = t.current /\ u.absorb_live = t.absorb_live /\ t.pc = "chase"
    BY <1>1, <1>11 DEF Transaction, Step, ChaseFoundMaster, AtCached
  <2> HIDE DEF u
  <2> QED
    BY <1>2, <1>5, <2>1
<1>12. CASE ChaseFoundOwner(w)
  <2>1. PICK i \in t.open :
          LET u == [t EXCEPT !.pc = "classify", !.open = @ \ {i}, !.current = None, !.hops = 0]
          IN \/ Step(w, [u EXCEPT !.already = @ \cup {t.ids[i]}])
             \/ Step(w, [u EXCEPT !.elsewhere = @ \cup {<<t.ids[i], t.current>>}])
    BY <1>12 DEF ChaseFoundOwner
  <2> DEFINE u == [t EXCEPT !.pc = "classify", !.open = @ \ {i}, !.current = None, !.hops = 0]
             a == [u EXCEPT !.already = @ \cup {t.ids[i]}]
             e == [u EXCEPT !.elsewhere = @ \cup {<<t.ids[i], t.current>>}]
  <2>2. /\ a.ids = t.ids /\ a.master = t.master /\ a.pc = "classify"
        /\ a.master_id = t.master_id /\ a.absorb_live = t.absorb_live
        /\ e.ids = t.ids /\ e.master = t.master /\ e.pc = "classify"
        /\ e.master_id = t.master_id /\ e.absorb_live = t.absorb_live
    BY <1>1 DEF Transaction
  <2>3. tx' = [tx EXCEPT ![w] = a] \/ tx' = [tx EXCEPT ![w] = e]
    BY <2>1 DEF Step
  <2> HIDE DEF a, e
  <2> QED
    BY <1>2, <1>5, <2>2, <2>3
<1>13. ASSUME NEW i \in t.open, Step(w, [t EXCEPT !.open = @ \ {i}]), t.pc = "classify" PROVE Goal
  <2> DEFINE u == [t EXCEPT !.open = @ \ {i}]
  <2>1. /\ tx' = [tx EXCEPT ![w] = u] /\ u.ids = t.ids /\ u.master = t.master /\ u.pc = "classify"
        /\ u.master_id = t.master_id /\ u.absorb_live = t.absorb_live
    BY <1>1, <1>13 DEF Transaction, Step
  <2> HIDE DEF u
  <2> QED
    BY <1>2, <1>5, <2>1
<1>14. CASE ClassifyMaster(w)
  BY <1>3, <1>13, <1>14 DEF ClassifyMaster, Classifies, Abort
<1>15. CASE ClassifyAbsorbed(w)
  <2>1. PICK i \in t.open :
          /\ Classifies(t, i) /\ t.rows[t.ids[i]].merged_into # None
          /\ Step(w, [t EXCEPT !.pc = "chase", !.current = t.rows[t.ids[i]].merged_into])
    BY <1>15 DEF ClassifyAbsorbed
  <2> DEFINE l == t.ids[i]
             u == [t EXCEPT !.pc = "chase", !.current = t.rows[l].merged_into]
  <2>2. /\ tx' = [tx EXCEPT ![w] = u] /\ u.ids = t.ids /\ u.master = t.master
        /\ u.current = t.rows[l].merged_into
        /\ u.master_id = t.master_id /\ u.absorb_live = t.absorb_live
    BY <1>1, <2>1 DEF Transaction, Step
  <2> HIDE DEF u
  <2>3. l \in FetchIds(t) /\ l \in Leads /\ t.pc = "classify"
    BY <1>1, <2>1 DEF Plan, FetchIds, Range, Classifies
  <2>4. Names(u.current, p)
    BY <1>1, <1>4, <1>5, <2>1, <2>2, <2>3 DEF Plan
  <2> QED
    BY <1>2, <1>5, <2>2, <2>4
<1>16. CASE ClassifyLive(w)
  <2>1. PICK i \in t.open :
          /\ Classifies(t, i)
          /\ Step(w, [t EXCEPT !.open = @ \ {i}, !.absorb_live = @ \cup {t.ids[i]}])
    BY <1>16 DEF ClassifyLive
  <2> DEFINE u == [t EXCEPT !.open = @ \ {i}, !.absorb_live = @ \cup {t.ids[i]}]
  <2>2. /\ tx' = [tx EXCEPT ![w] = u] /\ u.ids = t.ids /\ u.master = t.master /\ u.pc = "classify"
        /\ u.master_id = t.master_id /\ u.absorb_live = t.absorb_live \cup {t.ids[i]}
    BY <1>1, <2>1 DEF Transaction, Step, Classifies
  <2> HIDE DEF u
  <2>3. t.ids[i] \in Range(t.ids)
    BY <1>1 DEF Plan, Range
  <2> QED
    BY <1>2, <1>5, <2>2, <2>3
<1>17. CASE Commit(w)
  <2> DEFINE u == [t EXCEPT !.pc = "publish", !.rows = Idle.rows]
  <2>1. /\ tx' = [tx EXCEPT ![w] = u] /\ u.ids = t.ids /\ u.master = t.master /\ u.pc = "publish"
        /\ u.master_id = t.master_id /\ u.absorb_live = t.absorb_live
    BY <1>1, <1>17 DEF Transaction, Commit
  <2> HIDE DEF u
  <2> QED
    BY <1>2, <1>5, <2>1
<1>18. CASE CommitNothing(w) \/ Publish(w) \/ ClassifyConverted(w)
            \/ BatchMissing(w) \/ AutoAllAbsorbed(w) \/ ChaseMissing(w) \/ ChaseTooDeep(w)
  BY <1>3, <1>18 DEF CommitNothing, Publish, ClassifyConverted, BatchMissing, AutoAllAbsorbed,
       ChaseMissing, ChaseTooDeep, Abort
<1> QED
  BY <1>7, <1>8, <1>9, <1>10, <1>11, <1>12, <1>14, <1>15, <1>16, <1>17, <1>18 DEF Progress

\* Locking a row changes whom a merge names in nothing.
LEMMA LockNames ==
  ASSUME IInv, NEW w \in Workers, NEW p, MergeNames(tx[w], p), LockBatchRow(w) \/ ChaseFetch(w)
  PROVE  MergeNames(tx'[w], p)
<1> DEFINE t == tx[w]
<1>1. t \in Transaction /\ tx \in [Workers -> Transaction]
  BY DEF IInv, TypeOK
<1>2. ASSUME NEW l \in Leads, NEW todo, LockRow(w, l, [t EXCEPT !.todo = todo])
      PROVE  MergeNames(tx'[w], p)
  <2> DEFINE a == [t EXCEPT !.todo = todo]
             u == IF Visible(l, a.org) THEN [a EXCEPT !.rows[l] = row[l]] ELSE a
  <2>1. /\ u.ids = t.ids /\ u.master = t.master /\ u.pc = t.pc /\ u.current = t.current
        /\ u.master_id = t.master_id /\ u.absorb_live = t.absorb_live
    BY <1>1 DEF Transaction
  <2>2. tx' = [tx EXCEPT ![w] = u]
    BY <1>2 DEF LockRow
  <2> HIDE DEF u
  <2>3. tx'[w] = u /\ FetchIds(u) = FetchIds(t)
    BY <1>1, <2>1, <2>2 DEF FetchIds
  <2> QED
    BY <2>1, <2>3 DEF MergeNames
<1>3. t = [t EXCEPT !.todo = t.todo]
  BY <1>1 DEF Transaction
<1>4. CASE LockBatchRow(w)
  BY <1>2, <1>4 DEF LockBatchRow
<1>5. CASE ChaseFetch(w)
  BY <1>2, <1>3, <1>5 DEF ChaseFetch
<1> QED
  BY <1>4, <1>5

\* A merge of leads that all name p names p.
LEMMA AcceptNames ==
  ASSUME IInv, NEW w \in Workers, NEW r \in Request, NEW S \in SUBSET Leads, Accept(w, r),
         Range(r.ids) \subseteq S, r.master \in S \cup {None}, NEW p, \A l \in S : Names(l, p)
  PROVE  MergeNames(tx'[w], p) /\ \A v \in Workers \ {w} : tx'[v] = tx[v]
<1> DEFINE t == [Idle EXCEPT !.pc = "batch", !.master = r.master, !.ids = r.ids, !.org = r.org]
           todo == {l \in FetchIds(t) : Visible(l, t.org)}
           open == FirstOccurrences(t.ids)
           u == [t EXCEPT !.todo = todo, !.open = open]
<1>1. tx' = [tx EXCEPT ![w] = u] /\ tx \in [Workers -> Transaction]
  BY DEF Accept, IInv, TypeOK
<1> HIDE DEF todo, open
<1>2. /\ u.ids = r.ids /\ u.master = r.master /\ u.pc = "batch"
      /\ u.master_id = None /\ u.absorb_live = {}
  BY DEF Idle
<1> HIDE DEF u
<1>3. tx'[w] = u /\ \A v \in Workers \ {w} : tx'[v] = tx[v]
  BY <1>1
<1>4. FetchIds(u) \subseteq S
  BY <1>2 DEF FetchIds
<1> QED
  BY <1>2, <1>3, <1>4 DEF MergeNames

\* A merge at rest names nobody.
LEMMA IdleNames == \A p : MergeNames(Idle, p)
BY DEF MergeNames, Idle, FetchIds, Range

-----------------------------------------------------------------------------
(* Contacts are kept, and filled from the leads absorbed.                   *)

\* A commit keeps every contact it finds and fills the master's empty ones with
\* those of leads it absorbs.
LEMMA CommitFills ==
  ASSUME IInv, NEW w \in Workers, Commit(w), NEW l \in Leads, NEW f \in Fields
  PROVE  \/ row'[l].fields[f] = row[l].fields[f]
         \/ /\ row[l].fields[f] = None /\ l = tx[w].master_id
            /\ \E d \in tx[w].absorb_live : row'[l].fields[f] = row[d].fields[f]
<1> DEFINE t == tx[w]
           m == t.master_id
           D == t.absorb_live
<1>1. /\ m \in Leads /\ D \subseteq Leads /\ \A d \in D \cup {m} : t.rows[d] = row[d]
  BY CommitWrites DEF Transaction
<1>2. PICK filled \in [Fields -> Values \cup {None}] :
        /\ \A g \in Fields : FillOrKeep(t, g, filled[g])
        /\ row' = [k \in Leads |-> IF k = m THEN [row[k] EXCEPT !.fields = filled]
                                   ELSE IF k \in D THEN [row[k] EXCEPT !.merged_into = m]
                                   ELSE row[k]]
  BY CommitWrites
<1>3. row[l] \in Row /\ row[m] \in Row
  BY <1>1 DEF IInv, TypeOK
<1>4. CASE l # m
  BY <1>2, <1>3, <1>4 DEF Row
<1>5. CASE l = m
  <2>1. row'[l].fields[f] = filled[f]
    BY <1>2, <1>3, <1>5 DEF Row
  <2>2. FillOrKeep(t, f, filled[f])
    BY <1>2
  <2>3. \/ filled[f] = row[m].fields[f]
        \/ row[m].fields[f] = None /\ \E d \in D : filled[f] = row[d].fields[f]
    BY <1>1, <2>2 DEF FillOrKeep, MostCredible
  <2> QED
    BY <1>5, <2>1, <2>3
<1> QED
  BY <1>4, <1>5

\* What any step of intake does to a lead's contact.
LEMMA ContactMoves ==
  ASSUME IntakeInv, [IntakeNext]_intakeSystem, NEW l \in Leads, NEW f \in Fields
  PROVE  \/ row'[l].fields[f] = row[l].fields[f]
         \/ \E w \in Workers :
              /\ Commit(w) /\ row[l].fields[f] = None /\ l = tx[w].master_id
              /\ \E d \in tx[w].absorb_live : row'[l].fields[f] = row[d].fields[f]
         \/ \E c \in Forms \cup Bodies : Inserted(l, c) /\ row'[l].fields[f] = c[f]
         \/ Purged(l) /\ row'[l] = Deleted /\ row'[l].fields[f] = None
<1>1. row \in [Leads -> Row] /\ IInv
  BY DEF IntakeInv, IInv, TypeOK
<1>2. CASE UNCHANGED vars
  BY <1>2 DEF vars
<1>3. CASE MergeMove
  BY <1>1, <1>3, WhoWrites, OtherWriterKeeps, CommitFills DEF MergeMove, Accept
<1>4. ASSUME NEW k \in Leads, NEW c \in Forms \cup Bodies, Inserted(k, c)
      PROVE  \/ row'[l].fields[f] = row[l].fields[f]
             \/ k = l /\ row'[l].fields[f] = c[f]
  BY <1>1, <1>4, CapturedIsRow DEF Inserted
<1>5. ASSUME NEW k \in Leads, Purged(k)
      PROVE  \/ row'[l].fields[f] = row[l].fields[f]
             \/ k = l /\ row'[l] = Deleted /\ row'[l].fields[f] = None
  BY <1>1, <1>5 DEF Purged, Purge, Update, Deleted
<1> QED
  BY <1>2, <1>3, <1>4, <1>5, IntakeMoves

\* What is there stays there.
LEMMA BornStays ==
  ASSUME IntakeInv, [IntakeNext]_intakeSystem, NEW l \in Leads, Born(l)
  PROVE  Born(l)'
<1>1. row \in [Leads -> Row]
  BY DEF IntakeInv, IInv, TypeOK
<1>2. CASE UNCHANGED vars
  BY <1>2 DEF vars, Born
<1>3. CASE MergeMove
  BY <1>3, MergeMoveKeepsBorn DEF IntakeInv
<1>4. ASSUME NEW k \in Leads, NEW c, Inserted(k, c) PROVE Born(l)'
  BY <1>1, <1>4 DEF Inserted, Born
<1>5. ASSUME NEW k \in Leads, Purged(k) PROVE Born(l)'
  BY <1>1, <1>5 DEF Purged, Purge, Update, Born, Deleted
<1> QED
  BY <1>2, <1>3, <1>4, <1>5, IntakeMoves

\* What is purged stays purged.
LEMMA GoneStays ==
  ASSUME IntakeInv, [IntakeNext]_intakeSystem, NEW l \in Leads, row[l].life = "gone"
  PROVE  row'[l].life = "gone"
<1>1. row \in [Leads -> Row]
  BY DEF IntakeInv, IInv, TypeOK
<1>2. CASE UNCHANGED vars
  BY <1>2 DEF vars
<1>3. CASE MergeMove
  BY <1>3, MergeMoveKeepsRows DEF IntakeInv, Stored
<1>4. ASSUME NEW k \in Leads, NEW c, Inserted(k, c) PROVE row'[l].life = "gone"
  BY <1>1, <1>4 DEF Inserted, Born
<1>5. ASSUME NEW k \in Leads, Purged(k) PROVE row'[l].life = "gone"
  BY <1>1, <1>5 DEF Purged, Purge, Update
<1> QED
  BY <1>2, <1>3, <1>4, <1>5, IntakeMoves

\* Once a lead names a person it does until it is purged.
LEMMA NamesStay ==
  ASSUME IntakeInv, [IntakeNext]_intakeSystem, NEW l \in Leads, NEW p, Names(l, p)
  PROVE  Names(l, p)'
<1>1. Born(l)'
  BY BornStays DEF Names
<1>2. CASE row'[l].life = "gone"
  BY <1>1, <1>2 DEF Names
<1>3. CASE row'[l].life # "gone"
  <2>1. PICK f \in Fields : row[l].fields[f] # None /\ p = Owner[Line[row[l].fields[f]]]
    BY <1>3, GoneStays, WhoIsNamed DEF Names
  <2>2. row'[l] # Deleted
    BY <1>3 DEF Deleted
  <2>3. row'[l].fields[f] = row[l].fields[f]
    BY <2>1, <2>2, ContactMoves DEF Inserted, Names
  <2>4. (p \in PeopleOf(l))'
    BY <2>1, <2>3 DEF PeopleOf
  <2> QED
    BY <1>1, <2>4 DEF Names
<1> QED
  BY <1>2, <1>3

\* Every contact in the table came with a form, a body or the seed.
LEMMA FieldsKeepArriving ==
  ASSUME IntakeInv, FieldsArrive, [IntakeNext]_intakeSystem
  PROVE  FieldsArrive'
<1> SUFFICES ASSUME NEW l \in Leads, NEW f \in Fields
             PROVE  row'[l].fields[f] \in Arriving(f) \cup {None}
  BY DEF FieldsArrive, Arriving
<1>1. ASSUME NEW w \in Workers, Commit(w) PROVE tx[w].absorb_live \subseteq Leads
  BY <1>1 DEF IntakeInv, IInv, TypeOK, Transaction
<1> QED
  BY <1>1, ContactMoves DEF FieldsArrive, Arriving

\* No contact is in the table that nobody brought.
LEMMA ContactsArrive == IntakeSpec => []FieldsArrive
<1>1. IntakeInit => FieldsArrive
  BY DEF IntakeInit, Init, TableInit, FieldsArrive, Arriving
<1>2. IntakeInv /\ FieldsArrive /\ [IntakeNext]_intakeSystem => FieldsArrive'
  BY FieldsKeepArriving
<1> QED
  BY <1>1, <1>2, IntakeInvariantHolds, PTL DEF IntakeSpec

\* Where keys tell the arriving contacts apart they tell the leads apart for
\* ever: no fill and no merge puts a contact in a column where its key says
\* something else.
THEOREM SharedKeysAreSharedLines ==
  ASSUME KeysTellLines
  PROVE  IntakeSpec => []SharedKeyIsSharedLine
<1>1. IntakeInv /\ FieldsArrive => SharedKeyIsSharedLine
  <2> SUFFICES ASSUME IntakeInv, FieldsArrive, NEW f \in Fields, NEW l \in Leads, NEW m \in Leads
               PROVE  SameLine(f, row[l].fields[f], row[m].fields[f])
                        <=> KeyOf(f, l) # None /\ KeyOf(f, l) = KeyOf(f, m)
    BY DEF SharedKeyIsSharedLine
  <2> DEFINE a == row[l].fields[f]
             b == row[m].fields[f]
  <2>1. StoredKey[f][None] = None
    BY DEF StoredKey, StoredEmailKey, StoredPhoneKey, Contact
  <2>2. CASE a = None \/ b = None
    BY <2>1, <2>2 DEF SameLine, KeyOf
  <2>3. CASE a # None /\ b # None
    <3>1. a \in Arriving(f) \ {None} /\ b \in Arriving(f) \ {None}
      BY <2>3 DEF FieldsArrive
    <3> QED
      BY <3>1 DEF KeysTellLines, KeyOf
  <2> QED
    BY <2>2, <2>3
<1> QED
  BY <1>1, IntakeInvariantHolds, ContactsArrive, PTL

-----------------------------------------------------------------------------
(* Nobody is brought together with a stranger.                              *)

\* The person a commit's leads name is the only one each of them names.
LEMMA CommitIsOnePersons ==
  ASSUME IntakeInv, StrangersInv, NEW w \in Workers, Commit(w)
  PROVE  \E p : \A l \in tx[w].absorb_live \cup {tx[w].master_id} :
           l \in Leads /\ Born(l) /\ PeopleOf(l) = {p}
<1>1. PICK p : MergeNames(tx[w], p)
  BY DEF StrangersInv
<1>2. tx[w].master_id \in Leads /\ tx[w].absorb_live \subseteq Leads /\ tx[w].master_id # None
  BY CommitWrites, NoneIsNothing DEF IntakeInv, Transaction
<1>3. \A l \in tx[w].absorb_live \cup {tx[w].master_id} : Names(l, p) /\ row[l].life # "gone"
  <2>1. \A l \in tx[w].absorb_live \cup {tx[w].master_id} : Visible(l, tx[w].org)
    BY CommitWrites DEF IntakeInv
  <2> QED
    BY <1>1, <1>2, <2>1 DEF MergeNames, FetchIds, Visible
<1>4. \A l \in tx[w].absorb_live \cup {tx[w].master_id} :
        /\ l \in Leads /\ Born(l) /\ p \in PeopleOf(l)
        /\ \A q \in PeopleOf(l) : q = p
  BY <1>2, <1>3 DEF Names, StrangersInv, OneOwner
<1>5. \A l \in tx[w].absorb_live \cup {tx[w].master_id} : PeopleOf(l) = {p}
  BY <1>4
<1> QED
  BY <1>4, <1>5

\* Whom a lead names only an insert and a purge decide: what a commit fills in is
\* the person's own.
LEMMA PeopleStay ==
  ASSUME IntakeInv, StrangersInv, [IntakeNext]_intakeSystem, NEW l \in Leads,
         \A c \in Forms \cup Bodies : ~Inserted(l, c), row'[l] # Deleted
  PROVE  PeopleOf(l)' = PeopleOf(l)
<1>1. ASSUME NEW q \in PeopleOf(l) PROVE q \in PeopleOf(l)'
  <2>1. PICK f \in Fields : row[l].fields[f] # None /\ q = Owner[Line[row[l].fields[f]]]
    BY <1>1, WhoIsNamed
  <2>2. row'[l].fields[f] = row[l].fields[f]
    BY <2>1, ContactMoves
  <2> QED
    BY <2>1, <2>2 DEF PeopleOf
<1>2. ASSUME NEW q \in PeopleOf(l)' PROVE q \in PeopleOf(l)
  <2>1. PICK f \in Fields : row'[l].fields[f] # None /\ q = Owner[Line[row'[l].fields[f]]]
    BY <1>2 DEF PeopleOf
  <2>2. CASE row'[l].fields[f] = row[l].fields[f]
    BY <2>1, <2>2, WhoIsNamed
  <2>3. ASSUME NEW w \in Workers, Commit(w), l = tx[w].master_id,
               NEW d \in tx[w].absorb_live, row'[l].fields[f] = row[d].fields[f]
        PROVE  q \in PeopleOf(l)
    <3>1. q \in PeopleOf(d)
      BY <2>1, <2>3, WhoIsNamed
    <3> QED
      BY <2>3, <3>1, CommitIsOnePersons
  <2> QED
    BY <2>2, <2>3, ContactMoves
<1> QED
  BY <1>1, <1>2

\* A lead just captured names whoever filled in the form.
LEMMA InsertedNamesOne ==
  ASSUME ArrivalsNameOnePerson, IInv, NEW l \in Leads, NEW c \in Forms \cup Bodies, Inserted(l, c)
  PROVE  OneOwner(l)' /\ ~Merged(l)'
<1>1. row'[l] = Captured(c)
  BY DEF Inserted, IInv, TypeOK
<1>2. row'[l].merged_into = None /\ \A f \in Fields : row'[l].fields[f] = c[f]
  BY <1>1, CapturedIsRow
<1>3. \A f, g \in Fields : c[f] # None /\ c[g] # None => Owner[Line[c[f]]] = Owner[Line[c[g]]]
  BY DEF ArrivalsNameOnePerson, NamesOnePerson
<1> QED
  BY <1>2, <1>3 DEF OneOwner, PeopleOf, Merged

\* How a pointer comes to be: it was there, or a commit has just set it.
LEMMA PointerMoves ==
  ASSUME IntakeInv, [IntakeNext]_intakeSystem, NEW l \in Leads, Merged(l)'
  PROVE  \/ row'[l].merged_into = row[l].merged_into
         \/ \E w \in Workers : /\ Commit(w) /\ l \in tx[w].absorb_live
                               /\ row'[l].merged_into = tx[w].master_id
<1>1. row \in [Leads -> Row] /\ IInv
  BY DEF IntakeInv, IInv, TypeOK
<1>2. CASE UNCHANGED vars
  BY <1>2 DEF vars
<1>3. CASE MergeMove
  BY <1>1, <1>3, WhoWrites, OtherWriterKeeps, CommitPoints DEF MergeMove, Accept
<1>4. ASSUME NEW k \in Leads, NEW c \in Forms \cup Bodies, Inserted(k, c)
      PROVE  row'[l].merged_into = row[l].merged_into
  BY <1>1, <1>4, CapturedIsRow DEF Inserted, Merged
<1>5. ASSUME NEW k \in Leads, Purged(k) PROVE row'[l].merged_into = row[l].merged_into
  BY <1>1, <1>5 DEF Purged, Purge, Update, Deleted, Merged
<1> QED
  BY <1>2, <1>3, <1>4, <1>5, IntakeMoves

\* Merges absorb rows they have locked, and only a purge takes a row away.
LEMMA PointersOfRowsStay == IntakeInv /\ PointersOfRows /\ [IntakeNext]_intakeSystem => PointersOfRows'
<1> SUFFICES ASSUME IntakeInv, PointersOfRows, [IntakeNext]_intakeSystem,
                    NEW l \in Leads, Merged(l)'
             PROVE  Stored(l)'
  BY DEF PointersOfRows
<1>1. row \in [Leads -> Row] /\ row'[l] # Deleted
  BY DEF IntakeInv, IInv, TypeOK, Merged, Deleted
<1>2. Stored(l)
  <2>1. ASSUME NEW w \in Workers, Commit(w), l \in tx[w].absorb_live PROVE Stored(l)
    BY <2>1, CommitWrites DEF IntakeInv, Visible, Stored
  <2> QED
    BY <2>1, PointerMoves DEF PointersOfRows, Merged
<1>3. CASE UNCHANGED vars
  BY <1>2, <1>3 DEF vars, Stored
<1>4. CASE MergeMove
  BY <1>2, <1>4, MergeMoveKeepsRows DEF IntakeInv, Stored
<1>5. ASSUME NEW k \in Leads, NEW c, Inserted(k, c) PROVE Stored(l)'
  BY <1>1, <1>2, <1>5 DEF Inserted, Born, Stored
<1>6. ASSUME NEW k \in Leads, Purged(k) PROVE Stored(l)'
  BY <1>1, <1>2, <1>6 DEF Purged, Purge, Update, Stored
<1> QED
  BY <1>3, <1>4, <1>5, <1>6, IntakeMoves

\* What a merge does in any step of intake.
LEMMA MergeMoves ==
  ASSUME IntakeInv, Requests = {}, [IntakeNext]_intakeSystem, NEW w \in Workers
  PROVE  \/ tx'[w] = tx[w]
         \/ tx'[w] = Idle
         \/ Progress(w) \/ LockBatchRow(w) \/ ChaseFetch(w)
         \/ \E g \in groups : MergePinned(w, g) \/ MergeAuto(w, g)
<1> DEFINE Goal == \/ tx'[w] = tx[w]
                   \/ tx'[w] = Idle
                   \/ Progress(w) \/ LockBatchRow(w) \/ ChaseFetch(w)
                   \/ \E g \in groups : MergePinned(w, g) \/ MergeAuto(w, g)
<1>1. tx \in [Workers -> Transaction]
  BY DEF IntakeInv, IInv, TypeOK
<1>2. ASSUME NEW v \in Workers, NEW u, tx' = [tx EXCEPT ![v] = u], v # w PROVE Goal
  BY <1>1, <1>2
<1>3. CASE UNCHANGED tx
  BY <1>3
<1>4. ASSUME NEW v \in Workers, NEW g \in groups, MergePinned(v, g) \/ MergeAuto(v, g) PROVE Goal
  BY <1>2, <1>4 DEF MergePinned, MergeAuto, Accept
<1>5. ASSUME NEW v \in Workers, DeadlockVictim(v) \/ Crash(v) PROVE Goal
  BY <1>1, <1>5 DEF DeadlockVictim, Crash, Abort
<1>6. ASSUME NEW v \in Workers, LockBatchRow(v) \/ ChaseFetch(v) PROVE Goal
  BY <1>2, <1>6 DEF LockBatchRow, ChaseFetch, LockRow
<1>7. ASSUME NEW v \in Workers, Progress(v) PROVE Goal
  BY <1>7, ProgressLeavesBatch DEF IntakeInv
<1>8. Next => UNCHANGED tx \/ \E v \in Workers :
                LockBatchRow(v) \/ ChaseFetch(v) \/ Progress(v) \/ DeadlockVictim(v) \/ Crash(v)
  BY DEF Next, OtherWriter, Quiescent, vars
<1>9. UNCHANGED vars \/ (\E l \in Leads : PurgeUnlinked(l)) \/ (\E b \in Bodies : CaptureLead(b))
        => UNCHANGED tx
  BY DEF vars, PurgeUnlinked, CaptureLead
<1>10. ASSUME NEW s \in Sites, SiteMove(s) PROVE UNCHANGED tx
  BY <1>10, SiteMoveShape
<1> QED
  BY <1>3, <1>4, <1>5, <1>6, <1>7, <1>8, <1>9, <1>10, WhoTakesIn

\* A pointer leads from a person's lead to that person's lead.
LEMMA PointersKeepNames ==
  ASSUME StrangersInv
  PROVE  PointersName
BY DEF StrangersInv, PointersOfRows, PointersName, Names, Stored

\* Every group on the page, an old one too, is of leads one person has.
LEMMA GroupsStayPersonal ==
  ASSUME KeysTellLines, IntakeInv, StrangersInv, [IntakeNext]_intakeSystem, NEW g \in groups'
  PROVE  \E p : \A l \in g.members : Names(l, p)'
<1>1. /\ g.members \subseteq Leads /\ Cardinality(g.members) >= 2
      /\ \/ g \in groups
         \/ \E f \in Fields, l \in Leads : g.members = Sharing(f, KeyOf(f, l))
  BY GroupsStayGroups DEF Group
<1>2. \E p : \A l \in g.members : Names(l, p)
  <2>1. CASE g \in groups
    BY <2>1 DEF StrangersInv
  <2>2. ASSUME NEW f \in Fields, NEW l \in Leads, g.members = Sharing(f, KeyOf(f, l))
        PROVE  \E p : \A m \in g.members : Names(m, p)
    <3>1. PICK k : k \in g.members
      BY <1>1, FS_EmptySet
    <3>2. \A m \in g.members : Names(m, Owner[Line[row[k].fields[f]]])
      BY <2>2, <3>1, SharingHasOneOwner
    <3> QED
      BY <3>2
  <2> QED
    BY <1>1, <2>1, <2>2
<1> QED
  BY <1>1, <1>2, NamesStay

\* So is every merge, from the locking of its batch to its event.
LEMMA MergesStayPersonal ==
  ASSUME IntakeInv, StrangersInv, Requests = {}, [IntakeNext]_intakeSystem, NEW w \in Workers
  PROVE  \E p : MergeNames(tx[w], p)'
<1>1. PICK q : MergeNames(tx[w], q)
  BY DEF StrangersInv
<1>2. PointersName /\ IInv
  BY PointersKeepNames DEF IntakeInv
<1>3. \E p : MergeNames(tx'[w], p)
  <2>1. CASE tx'[w] = tx[w]
    BY <1>1, <2>1
  <2>2. CASE tx'[w] = Idle
    BY <2>2, IdleNames
  <2>3. CASE Progress(w)
    BY <1>1, <1>2, <2>3, ProgressNames
  <2>4. CASE LockBatchRow(w) \/ ChaseFetch(w)
    BY <1>1, <1>2, <2>4, LockNames
  <2>5. ASSUME NEW g \in groups, MergePinned(w, g) \/ MergeAuto(w, g)
        PROVE  \E p : MergeNames(tx'[w], p)
    <3>1. PICK p : \A l \in g.members : Names(l, p)
      BY DEF StrangersInv
    <3>2. IntakeTypeOK /\ g.members \in SUBSET Leads
      BY DEF IntakeInv, IntakeTypeOK, Group
    <3>3. PICK r \in Request : /\ Accept(w, r) /\ Range(r.ids) \subseteq g.members
                               /\ r.master \in g.members \cup {None}
      BY <2>5, <3>2, OfficerAsks
    <3> QED
      BY <1>2, <3>1, <3>2, <3>3, AcceptNames
  <2> QED
    BY <2>1, <2>2, <2>3, <2>4, <2>5, MergeMoves
<1>4. PICK p : MergeNames(tx'[w], p)
  BY <1>3
<1>5. /\ tx'[w] \in Transaction /\ tx'[w].master_id \in Leads \cup {None}
      /\ tx'[w].pc = "chase" => tx'[w].current \in Leads
  BY TableStaysSound DEF IInv, TypeOK, Plan, Transaction
<1>6. FetchIds(tx'[w]) \subseteq Leads /\ FetchIds(tx[w])' = FetchIds(tx'[w])
  BY <1>5, FetchIdsAreLeads DEF FetchIds
<1> QED
  BY <1>4, <1>5, <1>6, NamesStay DEF MergeNames

\* One step of intake, whoever takes it, brings no strangers together.
LEMMA StrangersStay ==
  ASSUME KeysTellLines, ArrivalsNameOnePerson, Requests = {},
         IntakeInv, StrangersInv, [IntakeNext]_intakeSystem
  PROVE  StrangersInv'
<1>1. FieldsArrive' /\ PointersOfRows'
  BY FieldsKeepArriving, PointersOfRowsStay DEF StrangersInv
<1>2. ASSUME NEW l \in Leads PROVE OneOwner(l)'
  <2>1. ASSUME NEW c \in Forms \cup Bodies, Inserted(l, c) PROVE OneOwner(l)'
    BY <2>1, InsertedNamesOne DEF IntakeInv
  <2>2. CASE PeopleOf(l)' = PeopleOf(l)
    BY <2>2 DEF StrangersInv, OneOwner
  <2>3. CASE row'[l] = Deleted
    BY <2>3 DEF OneOwner, PeopleOf, Deleted
  <2> QED
    BY <2>1, <2>2, <2>3, PeopleStay
<1>3. ASSUME NEW l \in Leads, Merged(l)'
      PROVE  /\ Born(row[l].merged_into)'
             /\ \/ row'[row'[l].merged_into].life = "gone"
                \/ PeopleOf(l)' \subseteq PeopleOf(row[l].merged_into)'
  <2>1. PICK n \in Leads : n = row'[l].merged_into
    BY <1>3, TableStaysSound DEF IInv, TypeOK, Row, Merged
  <2>2. Born(n) /\ (row[n].life = "gone" \/ PeopleOf(l) \subseteq PeopleOf(n))
    <3>1. CASE n = row[l].merged_into
      BY <2>1, <3>1, NoneIsNothing DEF StrangersInv, Merged
    <3>2. ASSUME NEW w \in Workers, Commit(w), l \in tx[w].absorb_live, n = tx[w].master_id
          PROVE  Born(n) /\ PeopleOf(l) \subseteq PeopleOf(n)
      BY <3>2, CommitIsOnePersons
    <3> QED
      BY <1>3, <2>1, <3>1, <3>2, PointerMoves
  <2>3. \A c \in Forms \cup Bodies : ~Inserted(l, c) /\ ~Inserted(n, c)
    BY <1>3, <2>2, InsertedNamesOne DEF Inserted, IntakeInv
  <2>4. row'[l] # Deleted /\ (row'[n] = Deleted => row'[n].life = "gone")
    BY <1>3 DEF Merged, Deleted
  <2>5. Born(n)' /\ (row'[n].life = "gone" \/ PeopleOf(l)' \subseteq PeopleOf(n)')
    BY <2>2, <2>3, <2>4, PeopleStay, BornStays, GoneStays
  <2> QED
    BY <2>1, <2>5 DEF PeopleOf, Born
<1>4. ASSUME NEW g \in groups' PROVE \E p : \A l \in g.members : Names(l, p)'
  BY GroupsStayPersonal
<1>5. ASSUME NEW w \in Workers PROVE \E p : MergeNames(tx[w], p)'
  BY MergesStayPersonal
<1> QED
  BY <1>1, <1>2, <1>3, <1>4, <1>5 DEF StrangersInv

\* The seed's leads name one person each, and nothing runs yet.
LEMMA StrangersStart ==
  ASSUME ArrivalsNameOnePerson, IntakeInit
  PROVE  StrangersInv
<1>1. /\ row = Seed /\ tx = [w \in Workers |-> Idle] /\ groups = {}
      /\ \A l \in Leads : Seed[l].merged_into = None
  BY TableAssumption DEF IntakeInit, Init, TableInit
<1>2. FieldsArrive
  BY <1>1 DEF FieldsArrive, Arriving
<1>3. \A l \in Leads : OneOwner(l)
  BY <1>1 DEF OneOwner, PeopleOf, ArrivalsNameOnePerson, NamesOnePerson
<1>4. \A w \in Workers : \E p : MergeNames(tx[w], p)
  BY <1>1, IdleNames
<1> QED
  BY <1>1, <1>2, <1>3, <1>4 DEF StrangersInv, PointersOfRows, Merged

\* Leads, pages and merges stay one person's each.
LEMMA StrangersInvariantHolds ==
  ASSUME KeysTellLines, ArrivalsNameOnePerson, Requests = {}
  PROVE  IntakeSpec => []StrangersInv
<1>1. IntakeInit => StrangersInv
  BY StrangersStart
<1>2. IntakeInv /\ StrangersInv /\ [IntakeNext]_intakeSystem => StrangersInv'
  BY StrangersStay
<1> QED
  BY <1>1, <1>2, IntakeInvariantHolds, PTL DEF IntakeSpec

\* Where keys tell lines apart, callers give contacts of one person and merges
\* are the officer's, no lead is ever merged into a stranger's and none ends up
\* with contacts of two: not through an old page, not through a chain, not
\* through fields filled by one merge and matched by the next.
THEOREM StrangersNeverMeet ==
  ASSUME KeysTellLines, ArrivalsNameOnePerson, Requests = {}
  PROVE  IntakeSpec => []StrangersStayApart
<1>1. IntakeInv /\ StrangersInv => StrangersStayApart
  <2> SUFFICES ASSUME IntakeInv, StrangersInv, NEW l \in Leads
               PROVE  /\ Cardinality(PeopleOf(l)) <= 1
                      /\ Merged(l) /\ row[row[l].merged_into].life # "gone"
                           => PeopleOf(l) \subseteq PeopleOf(row[l].merged_into)
    BY DEF StrangersStayApart
  <2>1. PeopleOf(l) = {} \/ \E p : PeopleOf(l) = {p}
    <3>1. CASE PeopleOf(l) # {}
      <4>1. PICK p : p \in PeopleOf(l)
        BY <3>1
      <4>2. \A q \in PeopleOf(l) : q = p
        BY <4>1 DEF StrangersInv, OneOwner
      <4>3. PeopleOf(l) = {p}
        BY <4>1, <4>2
      <4> QED
        BY <4>3
    <3> QED
      BY <3>1
  <2>2. Cardinality(PeopleOf(l)) <= 1
    <3>1. CASE PeopleOf(l) = {}
      BY <3>1, FS_EmptySet
    <3>2. ASSUME NEW p, PeopleOf(l) = {p} PROVE Cardinality(PeopleOf(l)) <= 1
      BY <3>2, FS_Singleton
    <3> QED
      BY <2>1, <3>1, <3>2
  <2> QED
    BY <2>2 DEF StrangersInv
<1> QED
  BY <1>1, IntakeInvariantHolds, StrangersInvariantHolds, PTL

-----------------------------------------------------------------------------
(* The keys, written twice.                                                 *)

\* The digits of a text are a text.  The recursion has a value, because there is
\* no least length up to which it has none, and no least prefix whose digits are
\* not a text.
LEMMA DigitsAreText ==
  ASSUME NEW Char, NEW s \in Seq(Char)
  PROVE  Digits(s) \in Seq(Char)
<1> DEFINE Take(g, i) == IF IsDigit(s[i]) THEN Append(g[i - 1], s[i]) ELSE g[i - 1]
           Rec(g, n) == [i \in 0..n |-> IF i = 0 THEN <<>> ELSE Take(g, i)]
           Stuck == {n \in 0..Len(s) : \A g : g # Rec(g, n)}
           F == CHOOSE g : g = [i \in 0..Len(s) |->
                  IF i = 0 THEN <<>>
                  ELSE IF IsDigit(s[i]) THEN Append(g[i - 1], s[i]) ELSE g[i - 1]]
           Bad == {i \in 0..Len(s) : F[i] \notin Seq(Char)}
<1>1. Len(s) \in Nat /\ \A i \in 1..Len(s) : s[i] \in Char
  OBVIOUS
<1>2. Stuck = {}
  <2> SUFFICES ASSUME Stuck # {} PROVE FALSE
    OBVIOUS
  <2>1. PICK n \in Stuck : \A m \in Stuck : n <= m
    <3>1. Stuck \subseteq Nat
      BY <1>1
    <3> HIDE DEF Stuck
    <3> QED
      BY <3>1, LeastNumber
  <2>2. n # 0
    <3>1. LET g == [i \in 0..0 |-> <<>>] IN g = Rec(g, 0)
      OBVIOUS
    <3> QED
      BY <2>1, <3>1
  <2>3. n - 1 \in 0..Len(s) /\ n - 1 \notin Stuck /\ n \in Nat
    <3>1. n \in 0..Len(s)
      OBVIOUS
    <3> HIDE DEF Stuck
    <3> QED
      BY <1>1, <2>1, <2>2, <3>1
  <2>4. PICK g : g = Rec(g, n - 1)
    BY <2>3
  <2> DEFINE h == [i \in 0..n |-> IF i = n THEN Take(g, n) ELSE g[i]]
  <2>5. ASSUME NEW i \in 0..n PROVE h[i] = IF i = 0 THEN <<>> ELSE Take(h, i)
    <3>1. CASE i = 0
      BY <2>2, <2>3, <2>4, <3>1
    <3>2. CASE i # 0 /\ i # n
      <4>1. i \in 0..(n - 1) /\ i - 1 \in 0..n /\ i - 1 # n
        BY <2>3, <3>2
      <4>2. h[i] = g[i] /\ h[i - 1] = g[i - 1]
        BY <3>2, <4>1
      <4>3. g[i] = Take(g, i)
        BY <2>4, <3>2, <4>1
      <4> QED
        BY <3>2, <4>2, <4>3
    <3>3. CASE i = n
      <4>1. h[n] = Take(g, n) /\ h[n - 1] = g[n - 1]
        BY <2>3
      <4> QED
        BY <2>2, <3>3, <4>1
    <3> QED
      BY <3>1, <3>2, <3>3
  <2>6. h = Rec(h, n)
    <3> HIDE DEF Take
    <3> QED
      BY <2>5
  <2> QED
    BY <2>1, <2>6
<1>3. F = Rec(F, Len(s))
  <2>1. Len(s) \in 0..Len(s)
    BY <1>1
  <2>2. \E g : g = Rec(g, Len(s))
    BY <1>2, <2>1
  <2> QED
    BY <2>2
<1>4. Digits(s) = F[Len(s)]
  BY DEF Digits
<1> HIDE DEF F
<1>5. ASSUME Bad # {} PROVE FALSE
  <2>1. PICK i \in Bad : \A j \in Bad : i <= j
    <3>1. Bad \subseteq Nat
      BY <1>1
    <3> HIDE DEF Bad
    <3> QED
      BY <1>5, <3>1, LeastNumber
  <2>2. \A j \in 0..Len(s) : F[j] = IF j = 0 THEN <<>> ELSE Take(F, j)
    <3> HIDE DEF Take
    <3> QED
      BY <1>3
  <2>3. i \in 0..Len(s) /\ i # 0
    <3>1. <<>> \in Seq(Char)
      OBVIOUS
    <3> QED
      BY <2>2, <3>1
  <2>4. F[i] = Take(F, i) /\ i - 1 \in 0..Len(s)
    BY <1>1, <2>2, <2>3
  <2>5. F[i - 1] \in Seq(Char)
    BY <1>1, <2>1, <2>3, <2>4
  <2>6. F[i] \in Seq(Char)
    <3>1. i \in 1..Len(s)
      BY <1>1, <2>3
    <3>2. s[i] \in Char
      BY <1>1, <3>1
    <3>3. Append(F[i - 1], s[i]) \in Seq(Char)
      BY <2>5, <3>2
    <3>4. F[i] = Append(F[i - 1], s[i]) \/ F[i] = F[i - 1]
      BY <2>4
    <3> QED
      BY <2>5, <3>3, <3>4
  <2> QED
    BY <2>1, <2>6
<1> QED
  BY <1>1, <1>4, <1>5

\* A text starts with the first character of what it starts with.
LEMMA BeginsWithFirst ==
  ASSUME NEW Char, NEW s \in Seq(Char), NEW prefix, Len(prefix) \in Nat \ {0}, StartsWith(s, prefix)
  PROVE  s[1] = prefix[1]
<1>1. SubSeq(s, 1, Len(prefix)) = prefix /\ Len(prefix) <= Len(s)
  BY DEF StartsWith
<1>2. SubSeq(s, 1, Len(prefix))[1] = s[1]
  BY <1>1
<1> QED
  BY <1>1, <1>2

\* However a phone is spelled, the key a form is looked for by is the key the
\* column generates.
THEOREM PhoneFoldingsAgree ==
  ASSUME NEW Char, NEW c \in Seq(Char), c # None
  PROVE  SubmittedPhoneKey(c) = StoredPhoneKey(c)
<1> DEFINE d == Digits(c)
<1>1. d \in Seq(Char)
  BY DigitsAreText
<1>2. ASSUME NEW e \in Seq(Char) PROVE CountryCode \o e # <<>>
  <2>1. Len(CountryCode \o e) = 2 + Len(e) /\ Len(e) \in Nat
    BY DEF CountryCode
  <2> QED
    BY <2>1
<1>3. CASE d = <<>>
  <2>1. SubmittedPhoneKey(c) = None
    BY <1>3 DEF SubmittedPhoneKey, OrNull
  <2>2. ~StartsWith(d, CountryCode) /\ ~StartsWith(d, <<"0">>) /\ ~StartsWith(d, <<"8">>)
    BY <1>3 DEF StartsWith, CountryCode
  <2> QED
    BY <1>3, <2>1, <2>2 DEF StoredPhoneKey
<1>4. CASE d # <<>>
  <2>1. Tail(d) \in Seq(Char)
    BY <1>1, <1>4
  <2>2. /\ StartsWith(d, CountryCode) => ~StartsWith(d, <<"0">>) /\ ~StartsWith(d, <<"8">>)
        /\ StartsWith(d, <<"0">>) => ~StartsWith(d, <<"8">>)
    <3>1. StartsWith(d, CountryCode) => d[1] = "6"
      BY <1>1, BeginsWithFirst DEF CountryCode
    <3>2. \A x : StartsWith(d, <<x>>) => d[1] = x
      BY <1>1, BeginsWithFirst
    <3> QED
      BY <3>1, <3>2
  <2>3. CASE StartsWith(d, CountryCode)
    BY <1>4, <2>2, <2>3 DEF SubmittedPhoneKey, StoredPhoneKey, OrNull
  <2>4. CASE ~StartsWith(d, CountryCode) /\ StartsWith(d, <<"0">>)
    BY <1>2, <1>4, <2>1, <2>2, <2>4 DEF SubmittedPhoneKey, StoredPhoneKey, OrNull
  <2>5. CASE ~StartsWith(d, CountryCode) /\ StartsWith(d, <<"8">>)
    BY <1>1, <1>2, <1>4, <2>2, <2>5 DEF SubmittedPhoneKey, StoredPhoneKey, OrNull
  <2>6. CASE ~StartsWith(d, CountryCode) /\ ~StartsWith(d, <<"0">>) /\ ~StartsWith(d, <<"8">>)
    BY <1>4, <2>6 DEF SubmittedPhoneKey, StoredPhoneKey, OrNull
  <2> QED
    BY <2>3, <2>4, <2>5, <2>6
<1> QED
  BY <1>3, <1>4

\* Every set of positions of a text has a last one.
LEMMA LastPosition ==
  ASSUME NEW n \in Nat, NEW S \in SUBSET (1..n), S # {}
  PROVE  \E x \in S : \A y \in S : y <= x
<1> DEFINE T == {n - x : x \in S}
<1>1. T \subseteq Nat /\ T # {}
  <2>1. \A x \in S : n - x \in Nat
    OBVIOUS
  <2> QED
    BY <2>1
<1>2. PICK k \in T : \A j \in T : k <= j
  <2> HIDE DEF T
  <2> QED
    BY <1>1, LeastNumber
<1>3. PICK x \in S : k = n - x
  BY <1>2
<1>4. ASSUME NEW y \in S PROVE y <= x
  <2>1. n - x <= n - y /\ x \in Nat /\ y \in Nat
    BY <1>2, <1>3
  <2> QED
    BY <2>1
<1> QED
  BY <1>4

\* Trimming a text finds its first and last character that is kept.
LEMMA TrimmedText ==
  ASSUME NEW Char, NEW s \in Seq(Char), NEW blank
  PROVE  LET t == Trim(s, blank)
         IN t \in Seq(Char) /\ (t # <<>> => t[1] \notin blank /\ t[Len(t)] \notin blank)
<1> DEFINE kept == {i \in DOMAIN s : s[i] \notin blank}
           low == CHOOSE i \in kept : \A j \in kept : i <= j
           high == CHOOSE i \in kept : \A j \in kept : j <= i
<1>1. Len(s) \in Nat /\ DOMAIN s = 1..Len(s)
  OBVIOUS
<1>2. CASE kept = {}
  BY <1>2 DEF Trim
<1>3. CASE kept # {}
  <2>1. kept \subseteq Nat
    BY <1>1
  <2>2. \E i \in kept : \A j \in kept : i <= j
    <3> HIDE DEF kept
    <3> QED
      BY <1>3, <2>1, LeastNumber
  <2>3. \E i \in kept : \A j \in kept : j <= i
    <3>1. kept \in SUBSET (1..Len(s))
      BY <1>1
    <3> HIDE DEF kept
    <3> QED
      BY <1>1, <1>3, <3>1, LastPosition
  <2>4. Trim(s, blank) = SubSeq(s, low, high)
    BY <1>3 DEF Trim
  <2>5. low \in kept /\ high \in kept /\ low <= high
    <3> HIDE DEF kept
    <3> QED
      BY <2>2, <2>3
  <2>6. low \in 1..Len(s) /\ high \in 1..Len(s) /\ s[low] \notin blank /\ s[high] \notin blank
    BY <1>1, <2>5
  <2> HIDE DEF low, high
  <2> DEFINE t == SubSeq(s, low, high)
  <2>7. t \in Seq(Char) /\ Len(t) = high - low + 1 /\ t[1] = s[low] /\ t[Len(t)] = s[high]
    BY <1>1, <2>5, <2>6
  <2> HIDE DEF t
  <2> QED
    BY <2>4, <2>6, <2>7 DEF t
<1> QED
  BY <1>2, <1>3

\* Lower case keeps a text's length and its blanks, and lowering twice is lowering once.
LEMMA LoweredText ==
  ASSUME NEW Char, {"a", "b"} \subseteq Char, NEW s \in Seq(Char),
         NEW blank, {"a", "b", "A", "B"} \cap blank = {}
  PROVE  /\ Lower(s) \in Seq(Char) /\ Len(Lower(s)) = Len(s)
         /\ \A i \in 1..Len(s) : Lower(s)[i] \in blank <=> s[i] \in blank
         /\ Lower(Lower(s)) = Lower(s)
<1> DEFINE low(c) == IF c = "A" THEN "a" ELSE IF c = "B" THEN "b" ELSE c
<1>1. Len(s) \in Nat /\ DOMAIN s = 1..Len(s) /\ \A i \in 1..Len(s) : s[i] \in Char
  OBVIOUS
<1>2. \A c \in Char : low(c) \in Char /\ low(low(c)) = low(c) /\ (low(c) \in blank <=> c \in blank)
  OBVIOUS
<1>3. Lower(s) = [i \in 1..Len(s) |-> low(s[i])]
  BY <1>1 DEF Lower
<1> HIDE DEF low
<1>4. \A i \in 1..Len(s) : low(s[i]) \in Char
  BY <1>1, <1>2
<1>5. Lower(s) \in Seq(Char) /\ Len(Lower(s)) = Len(s) /\ DOMAIN Lower(s) = 1..Len(s)
  BY <1>1, <1>3, <1>4
<1>6. Lower(Lower(s)) = [i \in 1..Len(s) |-> low(Lower(s)[i])]
  BY <1>5 DEF Lower, low
<1>7. \A i \in 1..Len(s) : Lower(s)[i] = low(s[i]) /\ low(Lower(s)[i]) = Lower(s)[i]
  BY <1>1, <1>2, <1>3
<1>8. Lower(Lower(s)) = Lower(s)
  BY <1>3, <1>6, <1>7
<1> QED
  BY <1>1, <1>2, <1>5, <1>7, <1>8

\* A text that does not begin or end with a blank is trimmed already.
LEMMA TrimmedStays ==
  ASSUME NEW Char, NEW s \in Seq(Char), NEW blank,
         s = <<>> \/ (s[1] \notin blank /\ s[Len(s)] \notin blank)
  PROVE  Trim(s, blank) = s
<1> DEFINE kept == {i \in DOMAIN s : s[i] \notin blank}
           low == CHOOSE i \in kept : \A j \in kept : i <= j
           high == CHOOSE i \in kept : \A j \in kept : j <= i
<1>1. Len(s) \in Nat /\ DOMAIN s = 1..Len(s)
  OBVIOUS
<1>2. CASE s = <<>>
  BY <1>2 DEF Trim
<1>3. CASE s # <<>>
  <2>1. 1 \in kept /\ Len(s) \in kept /\ kept \subseteq 1..Len(s)
    BY <1>1, <1>3
  <2>2. Trim(s, blank) = SubSeq(s, low, high)
    BY <2>1 DEF Trim
  <2> HIDE DEF kept
  <2>3. low = 1
    <3>1. low \in kept /\ \A j \in kept : low <= j
      <4>1. 1 \in kept /\ \A j \in kept : 1 <= j
        BY <1>1, <2>1
      <4> QED
        BY <4>1
    <3> HIDE DEF low
    <3> QED
      BY <1>1, <2>1, <3>1
  <2>4. high = Len(s)
    <3>1. high \in kept /\ \A j \in kept : j <= high
      <4>1. Len(s) \in kept /\ \A j \in kept : j <= Len(s)
        BY <1>1, <2>1
      <4> QED
        BY <4>1
    <3> HIDE DEF high
    <3>2. high \in 1..Len(s) /\ Len(s) <= high
      BY <2>1, <3>1
    <3>3. \A n \in Nat : \A x \in 1..n : n <= x => x = n
      OBVIOUS
    <3> QED
      BY <1>1, <3>2, <3>3
  <2> HIDE DEF low, high
  <2> QED
    BY <1>1, <2>2, <2>3, <2>4
<1> QED
  BY <1>2, <1>3

\* What is trimmed of more than blanks, lowered twice and trimmed of blanks again
\* is what is trimmed of blanks and lowered once, if there were only blanks to trim.
LEMMA FoldedOnce ==
  ASSUME NEW Char, NEW s \in Seq(Char), NEW blank, {"a", "b", "A", "B"} \cap blank = {},
         NEW white, \A i \in DOMAIN s : s[i] \in white <=> s[i] \in blank
  PROVE  Trim(Lower(Lower(Trim(s, white))), blank) = Lower(Trim(s, blank))
<1> DEFINE C == Char \cup {"a", "b"}
           t == Trim(s, blank)
<1>1. {i \in DOMAIN s : s[i] \notin white} = {i \in DOMAIN s : s[i] \notin blank}
  OBVIOUS
<1>2. Trim(s, white) = t
  <2> DEFINE cut(kept) == IF kept = {} THEN <<>>
                          ELSE SubSeq(s, CHOOSE i \in kept : \A j \in kept : i <= j,
                                         CHOOSE i \in kept : \A j \in kept : j <= i)
  <2>1. \A b : Trim(s, b) = cut({i \in DOMAIN s : s[i] \notin b})
    BY DEF Trim
  <2> HIDE DEF cut
  <2> QED
    BY <1>1, <2>1
<1>3. t \in Seq(Char) /\ (t # <<>> => t[1] \notin blank /\ t[Len(t)] \notin blank)
  BY TrimmedText
<1> HIDE DEF t
<1>4. t \in Seq(C) /\ Len(t) \in Nat
  <2>1. t = [i \in 1..Len(t) |-> t[i]] /\ Len(t) \in Nat /\ \A i \in 1..Len(t) : t[i] \in C
    BY <1>3
  <2> QED
    BY <2>1
<1>5. {"a", "b"} \subseteq C
  OBVIOUS
<1> HIDE DEF C
<1>6. /\ Lower(t) \in Seq(C) /\ Len(Lower(t)) = Len(t) /\ Lower(Lower(t)) = Lower(t)
      /\ \A i \in 1..Len(t) : Lower(t)[i] \in blank <=> t[i] \in blank
  BY <1>4, <1>5, LoweredText
<1>7. Lower(t) = <<>> \/ (Lower(t)[1] \notin blank /\ Lower(t)[Len(Lower(t))] \notin blank)
  <2>1. CASE Len(t) = 0
    BY <1>6, <2>1
  <2>2. CASE Len(t) # 0
    <3>1. 1 \in 1..Len(t) /\ Len(t) \in 1..Len(t) /\ t # <<>>
      BY <1>4, <2>2
    <3> QED
      BY <1>3, <1>6, <3>1
  <2> QED
    BY <2>1, <2>2
<1>8. Trim(Lower(t), blank) = Lower(t)
  BY <1>6, <1>7, TrimmedStays
<1> QED
  BY <1>2, <1>6, <1>8 DEF t

\* What is trimmed already of blanks and more is lowered once and no further.
LEMMA TrimmedFoldsOnce ==
  ASSUME NEW Char, NEW s \in Seq(Char), NEW blank, {"a", "b", "A", "B"} \cap blank = {},
         NEW white, blank \subseteq white
  PROVE  Trim(Lower(Lower(Trim(s, white))), blank) = Lower(Trim(Trim(s, white), blank))
<1> DEFINE t == Trim(s, white)
<1>1. t \in Seq(Char) /\ (t # <<>> => t[1] \notin white /\ t[Len(t)] \notin white)
  BY TrimmedText
<1> HIDE DEF t
<1>2. Trim(t, blank) = t
  BY <1>1, TrimmedStays
<1>3. Trim(Lower(Lower(Trim(t, blank))), blank) = Lower(Trim(t, blank))
  BY <1>1, FoldedOnce
<1> QED
  BY <1>2, <1>3 DEF t

\* However an email is spelled, the key a form is looked for by is the key the
\* column generates for it trimmed of whitespace; and the one it generates for the
\* email itself, short of a tab, which only one of the two sides trims.
THEOREM EmailFoldingsAgree ==
  ASSUME NEW Char, NEW c \in Seq(Char), c # None, Trim(c, {" ", "\t"}) # None
  PROVE  /\ SubmittedEmailKey(c) = StoredEmailKey(Trim(c, {" ", "\t"}))
         /\ "\t" \notin Range(c) => SubmittedEmailKey(c) = StoredEmailKey(c)
<1>1. {"a", "b", "A", "B"} \cap {" "} = {} /\ {" "} \subseteq {" ", "\t"}
  BY Zenon
<1>2. \A white :
        {" "} \subseteq white =>
          Trim(Lower(Lower(Trim(c, white))), {" "}) = Lower(Trim(Trim(c, white), {" "}))
  BY <1>1, TrimmedFoldsOnce, Zenon
<1>3. SubmittedEmailKey(c) = StoredEmailKey(Trim(c, {" ", "\t"}))
  BY <1>1, <1>2, Zenon DEF SubmittedEmailKey, StoredEmailKey
<1>4. ASSUME "\t" \notin Range(c) PROVE SubmittedEmailKey(c) = StoredEmailKey(c)
  <2>1. \A i \in DOMAIN c : c[i] \in {" ", "\t"} <=> c[i] \in {" "}
    BY <1>4, Zenon DEF Range
  <2>2. Trim(Lower(Lower(Trim(c, {" ", "\t"}))), {" "}) = Lower(Trim(c, {" "}))
    BY <1>1, <2>1, FoldedOnce, Zenon
  <2> QED
    BY <2>2, Zenon DEF SubmittedEmailKey, StoredEmailKey
<1> QED
  BY <1>3, <1>4, Zenon

-----------------------------------------------------------------------------
(* Whom a form is matched with.                                             *)

\* The key the column would generate for a contact, an email trimmed first.
KeyOfForm(f, c) ==
  IF c = None THEN None
  ELSE IF f = "email" THEN StoredEmailKey(Trim(c, {" ", "\t"})) ELSE StoredPhoneKey(c)

\* What a form is looked for by is a key the columns could hold.
LEMMA SubmittedIsStored ==
  ASSUME NEW Char, Values \subseteq Seq(Char), None \notin Seq(Char),
         NEW f \in {"phone", "email"}, NEW c \in Contact
  PROVE  SubmittedKey[f][c] = KeyOfForm(f, c)
<1>1. CASE c = None
  BY <1>1, IntakeAssumption DEF SubmittedKey, SubmittedPhoneKey, SubmittedEmailKey, KeyOfForm
<1>2. CASE c # None
  <2>1. c \in Seq(Char)
    BY <1>2 DEF Contact
  <2>2. CASE f = "phone"
    BY <1>2, <2>1, <2>2, PhoneFoldingsAgree, IntakeAssumption DEF SubmittedKey, KeyOfForm
  <2>3. CASE f = "email"
    <3>1. \A blank : Trim(c, blank) # None
      BY <2>1, TrimmedText
    <3>2. SubmittedEmailKey(c) = StoredEmailKey(Trim(c, {" ", "\t"}))
      BY <1>2, <2>1, <3>1, EmailFoldingsAgree, Zenon
    <3>3. SubmittedKey["email"][c] = SubmittedEmailKey(c)
      BY IntakeAssumption DEF SubmittedKey
    <3> QED
      BY <1>2, <2>3, <3>2, <3>3, Zenon DEF KeyOfForm
  <2> QED
    BY <2>2, <2>3
<1> QED
  BY <1>1, <1>2

\* Only the search writes a form's match.
LEMMA WhoMatches ==
  ASSUME IntakeInv, [IntakeNext]_intakeSystem, NEW s \in Sites,
         intake[s].pc = "match", intake'[s].pc = "insert"
  PROVE  intake'[s].match = Matched(intake[s].form)
<1>1. intake \in [Sites -> Intake] /\ AtRest.pc = "idle"
  BY DEF IntakeInv, IntakeTypeOK, AtRest
<1>2. ASSUME NEW z \in Sites, NEW i, intake' = [intake EXCEPT ![z] = i] PROVE z = s /\ i.pc = "insert"
  BY <1>1, <1>2
<1>3. PICK z \in Sites : SiteMove(z)
  BY WhoTakesIn DEF CaptureLead
<1>4. CASE FindMatch(z)
  BY <1>1, <1>2, <1>4 DEF FindMatch, Intake
<1>5. CASE InsertAndLink(z)
  BY <1>2, <1>5 DEF InsertAndLink
<1>6. CASE CommitIntake(z) \/ RollbackIntake(z)
  BY <1>1, <1>2, <1>6 DEF CommitIntake, RollbackIntake
<1>7. ASSUME NEW f \in Forms, Submit(z, f) PROVE FALSE
  BY <1>2, <1>7 DEF Submit
<1> QED
  BY <1>3, <1>4, <1>5, <1>6, <1>7 DEF SiteMove

\* The match by keys alone: the newest live lead with the form's phone key, else
\* the newest with its email key, else none.
MatchByKey(f, match) ==
  LET byPhone == Sharing("phone", KeyOfForm("phone", f.phone))
      best == IF byPhone # {} THEN byPhone ELSE Sharing("email", KeyOfForm("email", f.email))
  IN IF best = {} THEN match = None
     ELSE /\ match # None /\ match.lead \in best
          /\ \A l \in best : ~Newer(KeyNow(l), KeyNow(match.lead))

\* A form is matched by the keys the columns generate and by nothing else, whatever
\* was captured, merged or trashed since it came in: the Rust folding finds exactly
\* the leads the SQL one filed.  Which people the keys stand for is not said here.
THEOREM MatchesAreByKey ==
  ASSUME NEW Char, Values \subseteq Seq(Char), None \notin Seq(Char)
  PROVE  IntakeSpec =>
           [][\A s \in Sites : intake[s].pc = "match" /\ intake'[s].pc = "insert"
                => MatchByKey(intake[s].form, intake'[s].match)]_intakeSystem
<1>1. ASSUME IntakeInv, [IntakeNext]_intakeSystem, NEW s \in Sites,
             intake[s].pc = "match", intake'[s].pc = "insert"
      PROVE  MatchByKey(intake[s].form, intake'[s].match)
  <2> DEFINE f == intake[s].form
             best == FoundFor(f)
  <2>1. f \in Form
    BY <1>1, IntakeAssumption DEF IntakeInv, FormsHaveIds
  <2>2. f.phone \in Contact /\ f.email \in Contact
    BY <2>1 DEF Form
  <2>3. /\ SubmittedKey["phone"][f.phone] = KeyOfForm("phone", f.phone)
        /\ SubmittedKey["email"][f.email] = KeyOfForm("email", f.email)
    BY <2>2, SubmittedIsStored
  <2>4. intake'[s].match = Matched(f)
    BY <1>1, WhoMatches
  <2>5. IF best = {} THEN Matched(f) = None
        ELSE /\ Matched(f) \in Match /\ Matched(f).lead \in best
             /\ \A m \in best : ~Newer(KeyNow(m), KeyNow(Matched(f).lead))
    BY <2>1, MatchIsNewest
  <2>6. None \notin Match
    BY IntakeAssumption
  <2>7. best = LET byPhone == Sharing("phone", KeyOfForm("phone", f.phone))
               IN IF byPhone # {} THEN byPhone ELSE Sharing("email", KeyOfForm("email", f.email))
    BY <2>3 DEF FoundFor
  <2> HIDE DEF f, best
  <2>8. IF best = {} THEN Matched(f) = None
        ELSE /\ Matched(f) # None /\ Matched(f).lead \in best
             /\ \A m \in best : ~Newer(KeyNow(m), KeyNow(Matched(f).lead))
    BY <2>5, <2>6
  <2>9. MatchByKey(f, Matched(f))
    BY <2>7, <2>8 DEF MatchByKey
  <2> QED
    BY <2>4, <2>9 DEF f
<1>2. IntakeInv /\ [IntakeNext]_intakeSystem =>
        \A s \in Sites : intake[s].pc = "match" /\ intake'[s].pc = "insert"
          => MatchByKey(intake[s].form, intake'[s].match)
  BY <1>1
<1> QED
  BY <1>2, IntakeInvariantHolds, PTL DEF IntakeSpec

-----------------------------------------------------------------------------
(* What merges tell the outside, while leads come and go.                    *)

\* So an insert never takes a pointer away.
LEMMA PointersAreOfRows == IntakeSpec => []PointersOfRows
<1>1. IntakeInit => PointersOfRows
  BY TableAssumption DEF IntakeInit, Init, TableInit, PointersOfRows, Merged
<1> QED
  BY <1>1, PointersOfRowsStay, IntakeInvariantHolds, PTL DEF IntakeSpec

\* A step of intake is a step of the merges, a merge that begins from the
\* officer's page, or leaves the merges alone and every pointer but a purged one.
LEMMA IntakeMerges ==
  ASSUME IntakeInv, PointersOfRows, [IntakeNext]_intakeSystem
  PROVE  \/ [Next]_vars
         \/ \E w \in Workers, r \in Request : Accept(w, r)
         \/ /\ UNCHANGED <<tx, answer, events>>
            /\ PointersKept
            /\ \A l \in Leads : row'[l].merged_into \in {row[l].merged_into, None}
<1>1. row \in [Leads -> Row]
  BY DEF IntakeInv, IInv, TypeOK
<1>2. ASSUME NEW k \in Leads, NEW c \in Forms \cup Bodies, Inserted(k, c)
      PROVE  /\ UNCHANGED <<tx, answer, events>>
             /\ PointersKept
             /\ \A l \in Leads : row'[l].merged_into \in {row[l].merged_into, None}
  <2>1. \A l \in Leads : row'[l].merged_into = row[l].merged_into
    BY <1>1, <1>2, CapturedIsRow DEF Inserted, PointersOfRows, Merged, Born, Stored
  <2>2. \A l \in Leads : row'[l].life # "gone" => row[l].life # "gone"
    BY <1>1, <1>2 DEF Inserted, Born
  <2> QED
    BY <1>2, <2>1, <2>2 DEF Inserted, PointersKept
<1>3. ASSUME NEW k \in Leads, Purged(k)
      PROVE  /\ UNCHANGED <<tx, answer, events>>
             /\ PointersKept
             /\ \A l \in Leads : row'[l].merged_into \in {row[l].merged_into, None}
  BY <1>1, <1>3 DEF Purged, Purge, Update, Deleted, PointersKept
<1> QED
  BY <1>2, <1>3, IntakeMoves DEF MergeMove

\* What the officer was answered, and what the sink was told, stays true as far as
\* the chain is still stored, whatever forms and calls bring in, and whatever is
\* trashed or purged.
THEOREM IntakeTellsTheTruth == IntakeSpec => [](AnswersStayTrue /\ EventsStayTrue /\ RepeatsAgree)
<1>1. IntakeInit => WorldIsTold
  BY InitIsTold DEF IntakeInit
<1>2. IntakeInv /\ PointersOfRows /\ WorldIsTold /\ [IntakeNext]_intakeSystem => WorldIsTold'
  BY IntakeMerges, NextIsTold, AcceptKeepsTold, SamePointersTold DEF IntakeInv
<1>3. WorldIsTold => AnswersStayTrue /\ EventsStayTrue /\ RepeatsAgree
  BY ToldIsTrue
<1> QED
  BY <1>1, <1>2, <1>3, PointersAreOfRows, IntakeInvariantHolds, PTL DEF IntakeSpec

\* Unless a process dies, every absorb of an officer's merge is announced.
THEOREM IntakeAnnouncesAbsorbs ==
  ASSUME ~MayCrash
  PROVE  IntakeSpec => []AbsorbsAnnounced
<1>1. IntakeInit => AbsorbsAnnounced
  BY InitOwesNothing DEF IntakeInit
<1>2. ASSUME IInv, AbsorbsAnnounced, NEW w \in Workers, NEW r \in Request, Accept(w, r)
      PROVE  AbsorbsAnnounced'
  <2>1. UNCHANGED <<row, events>> /\ tx[w].pc = "idle"
    BY <1>2 DEF Accept
  <2>2. \A v \in Workers : tx[v].pc = "publish" => tx'[v] = tx[v]
    BY <1>2, <2>1 DEF Accept, IInv, TypeOK
  <2> QED
    BY <1>2, <2>1, <2>2, SamePointersAnnounced
<1>3. IntakeInv /\ PointersOfRows /\ AbsorbsAnnounced /\ [IntakeNext]_intakeSystem => AbsorbsAnnounced'
  BY <1>2, IntakeMerges, DebtsArePaid, SamePointersAnnounced DEF IntakeInv
<1> QED
  BY <1>1, <1>3, PointersAreOfRows, IntakeInvariantHolds, PTL DEF IntakeSpec

\* Pointers close no cycle, whatever is inserted, trashed and purged among the leads.
THEOREM IntakePointersAreAcyclic == IntakeSpec => []Acyclic
<1>1. IntakeInit => Acyclic
  <2>1. IntakeInit => \A l \in Leads : row[l].merged_into = None /\ None \notin Leads
    BY TableAssumption DEF IntakeInit, Init, TableInit
  <2> QED
    BY <2>1 DEF Acyclic
<1>2. ASSUME Acyclic, \A l \in Leads : row'[l].merged_into \in {row[l].merged_into, None}
      PROVE  Acyclic'
  BY <1>2, NoneIsNothing DEF Acyclic
<1>3. ASSUME IInv, Acyclic, NEW w \in Workers, Commit(w) PROVE Acyclic'
  <2> SUFFICES ASSUME NEW S \in SUBSET Leads, S # {} PROVE \E l \in S : row'[l].merged_into \notin S
    BY DEF Acyclic
  <2> DEFINE m == tx[w].master_id
             D == tx[w].absorb_live
  <2>1. /\ m \in Leads /\ row[m].merged_into = None
        /\ \A d \in D : d \in Leads /\ row[d].merged_into = None
        /\ \A l \in Leads : row'[l].merged_into = IF l \in D THEN m ELSE row[l].merged_into
        /\ m \notin D
    BY <1>3, CommitPoints, CommitWrites DEF Merged
  <2>2. CASE m \in S
    BY <2>1, <2>2, NoneIsNothing
  <2>3. CASE m \notin S /\ S \cap D # {}
    BY <2>1, <2>3
  <2>4. CASE S \cap D = {}
    BY <1>3, <2>1, <2>4 DEF Acyclic
  <2> QED
    BY <2>2, <2>3, <2>4
<1>4. ASSUME IInv, Acyclic, [Next]_vars PROVE Acyclic'
  BY <1>2, <1>3, <1>4, WhoWrites, OtherWriterKeeps DEF vars
<1>5. IntakeInv /\ PointersOfRows /\ Acyclic /\ [IntakeNext]_intakeSystem => Acyclic'
  BY <1>2, <1>4, IntakeMerges DEF IntakeInv, Accept
<1> QED
  BY <1>1, <1>5, PointersAreOfRows, IntakeInvariantHolds, PTL DEF IntakeSpec
=============================================================================
