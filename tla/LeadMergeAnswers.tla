--------------------------- MODULE LeadMergeAnswers ---------------------------
(***************************************************************************)
(* What merge_leads tells the outside, for any leads, workers, requests and *)
(* limits: answers and events are true and stay true while other merges     *)
(* absorb on and leads are purged, they name nothing beyond the caller's    *)
(* fence, repeats agree, no absorb goes unannounced unless a process dies,  *)
(* and batches never deadlock among themselves.                             *)
(***************************************************************************)
EXTENDS LeadMergeRefinement

-----------------------------------------------------------------------------
\* A merge that is locking its batch holds only ids below the ones it still waits for.
LocksAscend ==
  \A w \in Workers, l \in Leads :
    tx[w].pc = "batch" /\ lock[l] = w => \A m \in tx[w].todo : l < m

\* Whatever a merge does by itself takes it out of its batch, gives nobody a
\* lock, and is not yet the publishing unless it commits.
LEMMA ProgressLeavesBatch ==
  ASSUME IInv, NEW v \in Workers, Progress(v)
  PROVE  /\ tx'[v].pc # "batch" /\ (tx'[v].pc = "publish" => Commit(v))
         /\ \A w \in Workers \ {v} : tx'[w] = tx[w]
         /\ \A w \in Workers, l \in Leads : lock'[l] = w => lock[l] = w
<1> DEFINE t == tx[v]
           Goal == /\ tx'[v].pc # "batch" /\ (tx'[v].pc = "publish" => Commit(v))
                   /\ \A w \in Workers \ {v} : tx'[w] = tx[w]
                   /\ \A w \in Workers, l \in Leads : lock'[l] = w => lock[l] = w
<1>1. t \in Transaction /\ tx \in [Workers -> Transaction] /\ Idle.pc = "idle"
  BY DEF IInv, TypeOK, Idle
<1>2. ASSUME NEW u, u.pc # "batch", u.pc = "publish" => Commit(v), tx' = [tx EXCEPT ![v] = u],
             lock' = lock \/ lock' = Unlocked(v)
      PROVE  Goal
  BY <1>1, <1>2, NoneIsNothing DEF Unlocked
<1>3. ASSUME NEW u, u.pc \notin {"batch", "publish"}, Step(v, u) PROVE Goal
  BY <1>2, <1>3 DEF Step
<1>4. ASSUME NEW code, Abort(v, code) PROVE Goal
  BY <1>1, <1>2, <1>4 DEF Abort
<1>5. CASE ResolvePinned(v) \/ Redirect(v) \/ ResolveAuto(v)
  <2>1. \A x, y : /\ [t EXCEPT !.pc = "classify", !.master_id = x].pc \notin {"batch", "publish"}
                  /\ [t EXCEPT !.pc = "chase", !.redirected_from = x, !.current = y].pc \notin {"batch", "publish"}
    BY <1>1 DEF Transaction
  <2> QED
    BY <1>3, <1>5, <2>1 DEF ResolvePinned, Redirect, ResolveAuto
<1>6. CASE ChaseHop(v) \/ ChaseFoundMaster(v)
  <2>1. t.pc = "chase"
    BY <1>6 DEF ChaseHop, ChaseFoundMaster, AtCached
  <2>2. \A x, y : /\ [t EXCEPT !.current = x, !.hops = y].pc \notin {"batch", "publish"}
                  /\ [t EXCEPT !.pc = "classify", !.master_id = x, !.current = None, !.hops = 0].pc \notin {"batch", "publish"}
    BY <1>1, <2>1 DEF Transaction
  <2> QED
    BY <1>3, <1>6, <2>2 DEF ChaseHop, ChaseFoundMaster
<1>7. CASE ChaseFoundOwner(v)
  <2> DEFINE u(i) == [t EXCEPT !.pc = "classify", !.open = @ \ {i}, !.current = None, !.hops = 0]
  <2>1. \A i, x : /\ [u(i) EXCEPT !.already = @ \cup {x}].pc \notin {"batch", "publish"}
                  /\ [u(i) EXCEPT !.elsewhere = @ \cup {x}].pc \notin {"batch", "publish"}
    BY <1>1 DEF Transaction
  <2>2. \E i : \/ Step(v, [u(i) EXCEPT !.already = @ \cup {t.ids[i]}])
               \/ Step(v, [u(i) EXCEPT !.elsewhere = @ \cup {<<t.ids[i], t.current>>}])
    BY <1>7 DEF ChaseFoundOwner
  <2> QED
    BY <1>3, <2>1, <2>2
<1>8. CASE ClassifyMaster(v) \/ ClassifyConverted(v) \/ ClassifyAbsorbed(v) \/ ClassifyLive(v)
  <2>1. t.pc = "classify"
    BY <1>8 DEF ClassifyMaster, ClassifyConverted, ClassifyAbsorbed, ClassifyLive, Classifies
  <2>2. \A i, x : /\ [t EXCEPT !.open = @ \ {i}].pc \notin {"batch", "publish"}
                  /\ [t EXCEPT !.pc = "chase", !.current = x].pc \notin {"batch", "publish"}
                  /\ [t EXCEPT !.open = @ \ {i}, !.absorb_live = @ \cup {x}].pc \notin {"batch", "publish"}
    BY <1>1, <2>1 DEF Transaction
  <2> QED
    BY <1>3, <1>4, <1>8, <2>2
       DEF ClassifyMaster, ClassifyConverted, ClassifyAbsorbed, ClassifyLive
<1>9. CASE CommitNothing(v) \/ Publish(v)
  BY <1>1, <1>2, <1>9 DEF CommitNothing, Publish
<1>10. CASE Commit(v)
  <2>1. [t EXCEPT !.pc = "publish", !.rows = Idle.rows].pc # "batch"
    BY <1>1 DEF Transaction
  <2> QED
    BY <1>2, <1>10, <2>1 DEF Commit
<1>11. CASE BatchMissing(v) \/ AutoAllAbsorbed(v) \/ ChaseMissing(v) \/ ChaseTooDeep(v)
  BY <1>4, <1>11 DEF BatchMissing, AutoAllAbsorbed, ChaseMissing, ChaseTooDeep
<1> QED
  BY <1>5, <1>6, <1>7, <1>8, <1>9, <1>10, <1>11 DEF Progress

\* Locking a row gives the lock of that row to that merge and to nobody else.
LEMMA LockRowGives ==
  ASSUME IInv, NEW v \in Workers, NEW l \in Leads, NEW t \in Transaction, LockRow(v, l, t)
  PROVE  /\ tx'[v] \in Transaction /\ tx'[v].pc = t.pc /\ tx'[v].todo = t.todo
         /\ \A w \in Workers \ {v} : tx'[w] = tx[w]
         /\ \A w \in Workers, k \in Leads : lock'[k] = w => lock[k] = w \/ (w = v /\ k = l)
<1> DEFINE u == IF Visible(l, t.org) THEN [t EXCEPT !.rows[l] = row[l]] ELSE t
<1>1. u \in Transaction /\ u.pc = t.pc /\ u.todo = t.todo
  BY DEF IInv, TypeOK, Transaction
<1>2. tx' = [tx EXCEPT ![v] = u] /\ lock' = [lock EXCEPT ![l] = v]
  BY DEF LockRow
<1> QED
  BY <1>1, <1>2 DEF IInv, TypeOK

\* Each further row of a batch has a larger id than those locked before it.
LEMMA LocksAscendStep == IInv /\ LocksAscend /\ [Next]_vars => LocksAscend'
<1> SUFFICES ASSUME IInv, LocksAscend, Next,
                    NEW w \in Workers, NEW l \in Leads, tx'[w].pc = "batch", lock'[l] = w,
                    NEW m \in tx'[w].todo
             PROVE  l < m
  BY DEF LocksAscend, vars
<1>1. tx \in [Workers -> Transaction] /\ Leads \subseteq Nat
  BY TableAssumption DEF IInv, TypeOK
<1>2. CASE tx'[w] = tx[w] /\ lock[l] = w
  BY <1>2 DEF LocksAscend
<1>3. ASSUME NEW v \in Workers, Progress(v) PROVE l < m
  <2>1. w # v
    BY <1>3, ProgressLeavesBatch
  <2> QED
    BY <1>2, <1>3, <2>1, ProgressLeavesBatch
<1>4. ASSUME NEW v \in Workers, LockBatchRow(v) PROVE l < m
  <2>1. PICK k \in Leads : /\ NextInBatch(tx[v], k)
                           /\ LockRow(v, k, [tx[v] EXCEPT !.todo = @ \ {k}])
    BY <1>4 DEF LockBatchRow
  <2>2. tx[v].pc = "batch" /\ tx[v] \in Transaction
    BY <1>1, <1>4 DEF LockBatchRow
  <2> DEFINE t == [tx[v] EXCEPT !.todo = @ \ {k}]
  <2>3. t \in Transaction /\ t.todo = tx[v].todo \ {k} /\ LockRow(v, k, t)
    BY <2>1, <2>2 DEF Transaction
  <2> HIDE DEF t
  <2>4. /\ tx'[v].todo = tx[v].todo \ {k}
        /\ w # v => tx'[w] = tx[w]
        /\ lock[l] = w \/ (w = v /\ l = k)
    BY <2>3, LockRowGives
  <2>5. CASE w # v
    BY <1>2, <2>4, <2>5
  <2>6. CASE w = v /\ lock[l] = w
    BY <2>2, <2>4, <2>6 DEF LocksAscend
  <2>7. CASE w = v /\ l = k
    <3>1. m \in tx[v].todo /\ m # l /\ l <= m /\ m \in Nat /\ l \in Nat
      BY <1>1, <2>1, <2>2, <2>4, <2>7 DEF NextInBatch, Transaction
    <3> QED
      BY <3>1
  <2> QED
    BY <2>4, <2>5, <2>6, <2>7
<1>5. ASSUME NEW v \in Workers, ChaseFetch(v) PROVE l < m
  <2>1. PICK k \in Leads : LockRow(v, k, tx[v]) /\ tx[v].pc = "chase"
    BY <1>5 DEF ChaseFetch, Chases
  <2> QED
    BY <1>1, <1>2, <2>1, LockRowGives
<1>6. ASSUME NEW v \in Workers, NEW r \in Requests, Begin(v, r) PROVE l < m
  <2>1. lock' = lock /\ tx[v].pc = "idle" /\ (w # v => tx'[w] = tx[w])
    BY <1>1, <1>6 DEF Begin, Accept
  <2>2. w = v => lock[l] # w
    BY <2>1 DEF IInv, Holds
  <2> QED
    BY <1>2, <2>1, <2>2
<1>7. ASSUME NEW v \in Workers, DeadlockVictim(v) \/ Crash(v) PROVE l < m
  <2>1. tx' = [tx EXCEPT ![v] = Idle] /\ lock' = Unlocked(v)
    BY <1>7 DEF DeadlockVictim, Crash, Abort
  <2> QED
    BY <1>1, <1>2, <2>1, UnlockedKeepsOthers DEF Idle
<1>8. CASE OtherWriter
  BY <1>2, <1>8 DEF OtherWriter, MarkQualified, ClaimConversion, SoftDelete, Restore, Purge, Update
<1>9. CASE Quiescent \/ \E v \in Workers, r \in Requests : RefuseShape(v, r)
  BY <1>2, <1>9 DEF Quiescent, RefuseShape, vars
<1> QED
  BY <1>3, <1>4, <1>5, <1>6, <1>7, <1>8, <1>9 DEF Next

\* Merges that only lock their batches never wait for one another in a cycle,
\* whatever their batches: the one of them that waits for the least id would
\* have to hold a lesser one that another of them waits for.
THEOREM BatchesNeverDeadlock == Spec => []BatchLocksAreOrdered
<1>1. Init => LocksAscend
  BY DEF Init, LocksAscend, Idle
<1>2. IInv /\ LocksAscend => BatchLocksAreOrdered
  <2> SUFFICES ASSUME IInv, LocksAscend, NEW C \in SUBSET Workers, Deadlocked(C),
                      \A w \in C : tx[w].pc # "chase"
               PROVE  FALSE
    BY DEF BatchLocksAreOrdered
  <2> DEFINE Wanted == {l \in Leads : \E w \in C : Wants(w, l)}
  <2>1. \A w \in C, l \in Leads : Wants(w, l) => tx[w].pc = "batch" /\ NextInBatch(tx[w], l)
    BY DEF Wants, Chases
  <2>2. Wanted # {} /\ Wanted \subseteq Nat
    BY TableAssumption DEF Deadlocked, WaitsOn
  <2>3. PICK l \in Wanted : \A k \in Wanted : l <= k
    BY <2>2, LeastNumber
  <2>4. PICK w \in C : Wants(w, l)
    BY <2>3
  <2>5. PICK v \in C, k \in Leads : Wants(v, k) /\ lock[k] = w
    BY DEF Deadlocked, WaitsOn
  <2>6. k \in Wanted /\ l <= k
    BY <2>3, <2>5
  <2>7. k < l
    BY <2>1, <2>3, <2>4, <2>5 DEF NextInBatch, LocksAscend
  <2> QED
    BY <2>2, <2>6, <2>7
<1> QED
  BY <1>1, <1>2, LocksAscendStep, InvariantHolds, PTL DEF Spec

-----------------------------------------------------------------------------
\* Only publishing appends an event.
LEMMA WhoPublishes ==
  ASSUME Next
  PROVE  events' = events \/ \E w \in Workers : Publish(w)
<1>1. ASSUME NEW w \in Workers, Progress(w), ~Publish(w) PROVE events' = events
  BY <1>1 DEF Progress, BatchMissing, ResolvePinned, Redirect, ResolveAuto, AutoAllAbsorbed,
       ChaseMissing, ChaseHop, ChaseTooDeep, ChaseFoundMaster, ChaseFoundOwner, ClassifyMaster,
       ClassifyConverted, ClassifyAbsorbed, ClassifyLive, CommitNothing, Commit, Abort, Step
<1>2. ASSUME NEW w \in Workers,
             \/ \E r \in Requests : RefuseShape(w, r) \/ Begin(w, r)
             \/ LockBatchRow(w) \/ ChaseFetch(w) \/ DeadlockVictim(w) \/ Crash(w)
      PROVE  events' = events
  BY <1>2 DEF RefuseShape, Begin, Accept, LockBatchRow, ChaseFetch, LockRow, DeadlockVictim, Crash, Abort
<1>3. CASE OtherWriter \/ Quiescent
  BY <1>3 DEF OtherWriter, Quiescent, vars
<1> QED
  BY <1>1, <1>2, <1>3 DEF Next

\* A merge that has committed does nothing but publish, unless it dies.
LEMMA CommittedPublishes ==
  ASSUME IInv, Next, ~MayCrash, NEW w \in Workers, tx[w].pc = "publish"
  PROVE  Publish(w) \/ tx'[w] = tx[w]
<1>1. tx \in [Workers -> Transaction]
  BY DEF IInv, TypeOK
<1>2. CASE Progress(w)
  BY <1>2 DEF Progress, BatchMissing, ResolvePinned, Redirect, ResolveAuto, AutoAllAbsorbed,
       ChaseMissing, ChaseHop, ChaseTooDeep, ChaseFoundMaster, ChaseFoundOwner, ClassifyMaster,
       ClassifyConverted, ClassifyAbsorbed, ClassifyLive, Classifies, CommitNothing, Commit,
       Classified, AtCached, BatchFound, BatchRead
<1>3. ASSUME NEW v \in Workers, v # w, Progress(v) PROVE tx'[w] = tx[w]
  BY <1>3, ProgressLeavesBatch
<1>4. ASSUME NEW v \in Workers, NEW r \in Requests, RefuseShape(v, r) \/ Begin(v, r)
      PROVE  tx'[w] = tx[w]
  BY <1>1, <1>4 DEF RefuseShape, Begin, Accept
<1>5. ASSUME NEW v \in Workers, LockBatchRow(v) \/ ChaseFetch(v) PROVE tx'[w] = tx[w]
  BY <1>1, <1>5 DEF LockBatchRow, ChaseFetch, Chases, LockRow
<1>6. ASSUME NEW v \in Workers, DeadlockVictim(v) PROVE tx'[w] = tx[w]
  <2>1. tx[v].pc \in {"batch", "chase"}
    BY <1>6 DEF DeadlockVictim, Deadlocked, WaitsOn, Wants, Chases
  <2> QED
    BY <1>1, <1>6, <2>1 DEF DeadlockVictim, Abort
<1>7. CASE OtherWriter \/ Quiescent
  BY <1>7 DEF OtherWriter, Quiescent, vars
<1> QED
  BY <1>2, <1>3, <1>4, <1>5, <1>6, <1>7 DEF Next, Crash

\* Only commits set pointers: of the other writers only a purge changes one, and
\* takes it away.
LEMMA OtherWriterSetsNone ==
  ASSUME IInv, OtherWriter
  PROVE  \A l \in Leads :
           /\ row[l].life = "gone" => row'[l] = row[l]
           /\ \/ row'[l].merged_into = row[l].merged_into
              \/ row'[l].merged_into = None /\ row'[l].life = "gone"
<1>1. PICK l \in Leads :
        \/ MarkQualified(l) \/ \E p \in Parties : ClaimConversion(l, p)
        \/ SoftDelete(l) \/ Restore(l) \/ Purge(l)
  BY DEF OtherWriter
<1>2. row \in [Leads -> Row] /\ row[l] \in Row
  BY DEF IInv, TypeOK
<1>3. CASE Purge(l)
  <2>1. row' = [row EXCEPT ![l] = Deleted] /\ row[l].life = "trash"
    BY <1>3 DEF Purge, Update
  <2>2. Deleted.merged_into = None /\ Deleted.life = "gone"
    BY DEF Deleted
  <2> QED
    BY <1>2, <2>1, <2>2
<1>4. ASSUME NEW new, row' = [row EXCEPT ![l] = new], row[l].life # "gone",
             new.merged_into = row[l].merged_into
      PROVE  \A k \in Leads : /\ row[k].life = "gone" => row'[k] = row[k]
                              /\ row'[k].merged_into = row[k].merged_into
  BY <1>2, <1>4
<1>5. CASE MarkQualified(l) \/ \E p \in Parties : ClaimConversion(l, p)
  <2>1. row[l].life # "gone"
    BY <1>5 DEF MarkQualified, ClaimConversion, Update, Qualifies, Claimable, Stored
  <2>2. \A p : /\ Qualified(l).merged_into = row[l].merged_into
              /\ ConvertedTo(l, p).merged_into = row[l].merged_into
    BY <1>2 DEF Qualified, ConvertedTo, Row
  <2> QED
    BY <1>4, <1>5, <2>1, <2>2 DEF MarkQualified, ClaimConversion, Update
<1>6. CASE SoftDelete(l) \/ Restore(l)
  <2>1. \A life : [row[l] EXCEPT !.life = life].merged_into = row[l].merged_into
    BY <1>2 DEF Row
  <2> QED
    BY <1>4, <1>6, <2>1 DEF SoftDelete, Restore, Update
<1> QED
  BY <1>1, <1>3, <1>4, <1>5, <1>6

\* A commit points the leads it absorbs, which had no pointer, at its master.
LEMMA CommitPoints ==
  ASSUME IInv, NEW w \in Workers, Commit(w)
  PROVE  /\ tx[w].master_id \in Leads /\ ~Merged(tx[w].master_id)
         /\ \A d \in tx[w].absorb_live : d \in Leads /\ ~Merged(d)
         /\ \A l \in Leads :
              /\ row'[l].merged_into = IF l \in tx[w].absorb_live THEN tx[w].master_id
                                       ELSE row[l].merged_into
              /\ row'[l].life = row[l].life
<1> DEFINE m == tx[w].master_id
           D == tx[w].absorb_live
<1>1. /\ m \in Leads /\ D \subseteq Leads /\ m \notin D
      /\ \A d \in D \cup {m} : ~Merged(d)
  BY CommitWrites DEF Transaction
<1>2. PICK filled \in [Fields -> Values \cup {None}] :
        row' = [l \in Leads |-> IF l = m THEN [row[l] EXCEPT !.fields = filled]
                                ELSE IF l \in D THEN [row[l] EXCEPT !.merged_into = m]
                                ELSE row[l]]
  BY CommitWrites
<1>3. \A l \in Leads : row[l] \in Row
  BY DEF IInv, TypeOK
<1> HIDE DEF m, D
<1>4. \A l \in Leads : /\ row'[l].merged_into = IF l \in D THEN m ELSE row[l].merged_into
                       /\ row'[l].life = row[l].life
  BY <1>1, <1>2, <1>3 DEF Row
<1> QED
  BY <1>1, <1>4 DEF m, D

\* What every writer does to pointers: one that is set stays until its lead is
\* purged, and purged leads do not come back.
PointersKept ==
  \A l \in Leads : row'[l].life # "gone" =>
    row[l].life # "gone" /\ (Merged(l) => row'[l].merged_into = row[l].merged_into)

\* Pointers are written once.
LEMMA PointersStay ==
  ASSUME IInv, [Next]_vars
  PROVE  PointersKept
<1>1. CASE row' = row
  BY <1>1 DEF PointersKept
<1>2. CASE OtherWriter
  BY <1>2, OtherWriterSetsNone DEF PointersKept
<1>3. ASSUME NEW w \in Workers, Commit(w) PROVE PointersKept
  BY <1>3, CommitPoints DEF PointersKept
<1> QED
  BY <1>1, <1>2, <1>3, WhoWrites DEF vars

\* Nothing has been absorbed at first.
LEMMA InitOwesNothing == Init => AbsorbsAnnounced
BY TableAssumption DEF Init, TableInit, AbsorbsAnnounced, Merged

\* A merge that absorbs owes its event from then on, and pays it before it rests.
LEMMA DebtsArePaid ==
  ASSUME ~MayCrash
  PROVE  IInv /\ AbsorbsAnnounced /\ [Next]_vars => AbsorbsAnnounced'
<1> SUFFICES ASSUME IInv, AbsorbsAnnounced, Next PROVE AbsorbsAnnounced'
  BY DEF AbsorbsAnnounced, Merged, vars
<1> DEFINE InEvent(l) == \E i \in DOMAIN events : /\ events[i].lead_id = row[l].merged_into
                                                  /\ l \in events[i].absorbed_ids
           Owed(w, l) == /\ tx[w].pc = "publish"
                         /\ tx[w].master_id = row[l].merged_into
                         /\ l \in tx[w].absorb_live
<1> SUFFICES ASSUME NEW l \in Leads, Merged(l)'
             PROVE  InEvent(l)' \/ \E w \in Workers : Owed(w, l)'
  BY DEF AbsorbsAnnounced
<1>1. events \in Seq(Event) /\ tx \in [Workers -> Transaction]
  BY DEF IInv, TypeOK
<1>2. ASSUME Merged(l), row'[l].merged_into = row[l].merged_into
      PROVE  InEvent(l)' \/ \E w \in Workers : Owed(w, l)'
  <2>1. CASE InEvent(l)
    <3>1. PICK i \in DOMAIN events : /\ events[i].lead_id = row[l].merged_into
                                     /\ l \in events[i].absorbed_ids
      BY <2>1
    <3>2. i \in DOMAIN events' /\ events'[i] = events[i]
      BY <1>1, WhoPublishes DEF Publish
    <3> QED
      BY <1>2, <3>1, <3>2
  <2>2. ASSUME NEW w \in Workers, Owed(w, l), tx'[w] = tx[w] PROVE Owed(w, l)'
    BY <1>2, <2>2
  <2>3. ASSUME NEW w \in Workers, Owed(w, l), Publish(w) PROVE InEvent(l)'
    <3> DEFINE e == MergedEvent(tx[w])
    <3>1. e.lead_id = row[l].merged_into /\ l \in e.absorbed_ids
      BY <2>3 DEF MergedEvent
    <3>2. events' = Append(events, e)
      BY <2>3 DEF Publish
    <3> HIDE DEF e
    <3>3. Len(events) + 1 \in DOMAIN events' /\ events'[Len(events) + 1] = e
      BY <1>1, <3>2
    <3> QED
      BY <1>2, <3>1, <3>3
  <2> QED
    BY <1>2, <2>1, <2>2, <2>3, CommittedPublishes DEF AbsorbsAnnounced
<1>3. CASE row' = row
  BY <1>2, <1>3 DEF Merged
<1>4. CASE OtherWriter
  BY <1>2, <1>4, OtherWriterSetsNone DEF Merged
<1>5. ASSUME NEW w \in Workers, Commit(w)
      PROVE  InEvent(l)' \/ \E v \in Workers : Owed(v, l)'
  <2>1. CASE l \in tx[w].absorb_live
    <3> DEFINE t == tx[w]
               u == [t EXCEPT !.pc = "publish", !.rows = Idle.rows]
    <3>1. tx'[w] = u
      BY <1>1, <1>5 DEF Commit
    <3>2. u.pc = "publish" /\ u.master_id = t.master_id /\ u.absorb_live = t.absorb_live
      BY <1>1 DEF Transaction
    <3>3. row'[l].merged_into = t.master_id
      BY <1>5, <2>1, CommitPoints
    <3> HIDE DEF u
    <3>4. Owed(w, l)'
      BY <2>1, <3>1, <3>2, <3>3
    <3> QED
      BY <3>4
  <2>2. CASE l \notin tx[w].absorb_live
    BY <1>2, <1>5, <2>2, CommitPoints DEF Merged
  <2> QED
    BY <2>1, <2>2
<1> QED
  BY <1>3, <1>4, <1>5, WhoWrites

\* Whoever sets no pointer and leaves the sink and the merges that owe something
\* alone keeps every absorb announced.
LEMMA SamePointersAnnounced ==
  ASSUME AbsorbsAnnounced, events' = events,
         \A w \in Workers : tx[w].pc = "publish" => tx'[w] = tx[w],
         \A l \in Leads : row'[l].merged_into \in {row[l].merged_into, None}
  PROVE  AbsorbsAnnounced'
BY DEF AbsorbsAnnounced, Merged

\* While no process dies, a host that listens to LeadMerged hears of every
\* absorb: each one is named by an event, or by the one its merge is about to
\* publish.
THEOREM EveryAbsorbIsAnnounced ==
  ASSUME ~MayCrash
  PROVE  Spec => []AbsorbsAnnounced
BY InitOwesNothing, DebtsArePaid, InvariantHolds, PTL DEF Spec

-----------------------------------------------------------------------------
(* Chains of pointers.                                                      *)

\* What leads somewhere leads there for good, as far as it is stored: pointers are
\* written once.
LEMMA ReachesStays ==
  ASSUME PointersKept, NEW l, NEW m, Reaches(l, m)
  PROVE  Reaches(l, m)'
<1> SUFFICES ASSUME NEW S \in SUBSET Leads, l \in S,
                    \A k \in S : row'[k].life # "gone" /\ (Merged(k)' => row'[k].merged_into \in S)
             PROVE  m \in S
  BY DEF Reaches
<1>1. \A k \in S : row[k].life # "gone" /\ (Merged(k) => row[k].merged_into \in S)
  BY DEF PointersKept, Merged
<1> QED
  BY <1>1 DEF Reaches

-----------------------------------------------------------------------------
(* What a running merge may tell its caller.                                *)

\* l's chain runs through m on the rows the merge has read.
HeldReaches(t, l, m) ==
  \A S \in SUBSET Leads :
    /\ l \in S
    /\ \A k \in S : t.rows[k] # None /\ t.rows[k].merged_into # None => t.rows[k].merged_into \in S
    => m \in S

\* Every lead is on its own chain.
LEMMA HeldItself ==
  ASSUME NEW t, NEW l
  PROVE  HeldReaches(t, l, l)
BY DEF HeldReaches

\* A chain goes on to the pointer of its last lead.
LEMMA HeldNext ==
  ASSUME NEW t, NEW l, NEW k, HeldReaches(t, l, k), t.rows[k] # None, t.rows[k].merged_into # None
  PROVE  HeldReaches(t, l, t.rows[k].merged_into)
BY DEF HeldReaches

\* A chain that does not end where it starts goes through its first pointer.
LEMMA HeldThroughFirst ==
  ASSUME NEW t, NEW l \in Leads, NEW m, HeldReaches(t, l, m), l # m,
         t.rows[l] # None, t.rows[l].merged_into # None
  PROVE  HeldReaches(t, t.rows[l].merged_into, m)
<1> SUFFICES ASSUME NEW S \in SUBSET Leads, t.rows[l].merged_into \in S,
                    \A k \in S : t.rows[k] # None /\ t.rows[k].merged_into # None
                                 => t.rows[k].merged_into \in S
             PROVE  m \in S
  BY DEF HeldReaches
<1>1. \A k \in S \cup {l} : t.rows[k] # None /\ t.rows[k].merged_into # None
                           => t.rows[k].merged_into \in S \cup {l}
  OBVIOUS
<1> QED
  BY <1>1 DEF HeldReaches

\* Reading more rows breaks no chain.
LEMMA HeldGrows ==
  ASSUME NEW t, NEW u, NEW l, NEW m, HeldReaches(t, l, m),
         \A k \in Leads : t.rows[k] # None => u.rows[k] = t.rows[k]
  PROVE  HeldReaches(u, l, m)
<1> SUFFICES ASSUME NEW S \in SUBSET Leads, l \in S,
                    \A k \in S : u.rows[k] # None /\ u.rows[k].merged_into # None
                                 => u.rows[k].merged_into \in S
             PROVE  m \in S
  BY DEF HeldReaches
<1>1. \A k \in S : t.rows[k] # None /\ t.rows[k].merged_into # None => t.rows[k].merged_into \in S
  OBVIOUS
<1> QED
  BY <1>1 DEF HeldReaches

\* What a merge has read is true of the table.
LEMMA HeldIsReal ==
  ASSUME NEW w \in Workers, Holds(w), NEW l, NEW m, HeldReaches(tx[w], l, m)
  PROVE  Reaches(l, m)
<1> SUFFICES ASSUME NEW S \in SUBSET Leads, l \in S,
                    \A k \in S : row[k].life # "gone" /\ (Merged(k) => row[k].merged_into \in S)
             PROVE  m \in S
  BY DEF Reaches
<1>1. \A k \in S : tx[w].rows[k] # None /\ tx[w].rows[k].merged_into # None
                  => tx[w].rows[k].merged_into \in S
  BY DEF Holds, Merged
<1> QED
  BY <1>1 DEF HeldReaches

\* A chain the merge has read to its end forks nowhere: whatever else its start
\* leads to, by the table, leads to that end.
LEMMA HeldDoesNotFork ==
  ASSUME IInv, NEW w \in Workers, NEW p \in Leads, NEW m \in Leads, NEW q,
         HeldReaches(tx[w], p, m), Reaches(p, q),
         tx[w].rows[p] # None, tx[w].rows[m] # None, tx[w].rows[m].merged_into = None
  PROVE  Reaches(q, m)
<1> DEFINE t == tx[w]
           S == {k \in Leads : t.rows[k] # None /\ HeldReaches(t, k, m)}
<1>1. Holds(w) /\ t \in Transaction
  BY DEF IInv, TypeOK
<1>2. ASSUME NEW k \in S PROVE row[k].life # "gone" /\ (Merged(k) => row[k].merged_into \in S)
  <2>1. k \in Leads /\ t.rows[k] = row[k] /\ row[k].life = "active" /\ row[k] \in Row
    BY <1>1 DEF Holds, Visible, IInv, TypeOK
  <2>2. ASSUME Merged(k) PROVE row[k].merged_into \in S
    <3> DEFINE j == t.rows[k].merged_into
    <3>1. k # m /\ j # None /\ j = row[k].merged_into
      BY <2>1, <2>2 DEF Merged
    <3>2. j \in Leads
      BY <2>1, <3>1 DEF Row
    <3>3. HeldReaches(t, j, m)
      BY <3>1, HeldThroughFirst
    <3> HIDE DEF j
    <3>4. t.rows[j] # None
      <4> SUFFICES ASSUME t.rows[j] = None PROVE FALSE
        OBVIOUS
      <4>1. {j} \in SUBSET Leads /\ \A i \in {j} : t.rows[i] = None
        BY <3>2
      <4>2. m \in {j}
        BY <3>3, <4>1 DEF HeldReaches
      <4> QED
        BY <4>2
    <3> QED
      BY <3>1, <3>2, <3>3, <3>4
  <2> QED
    BY <2>1, <2>2
<1>3. S \subseteq Leads /\ p \in S
  OBVIOUS
<1> HIDE DEF S
<1>4. q \in S
  BY <1>2, <1>3 DEF Reaches
<1> QED
  BY <1>1, <1>4, HeldIsReal DEF S

\* The merge has decided about l: its master, a lead to absorb, or an absorbed one.
Settled(t, l) ==
  \/ l = t.master_id \/ l \in t.absorb_live
  \/ t.rows[l] # None /\ t.rows[l].merged_into # None

\* What it has found out about absorbed ids follows from the rows it has read.
Reported(t) ==
  /\ t.master_id = None => t.already = {} /\ t.elsewhere = {}
  /\ \A l \in t.already : HeldReaches(t, l, t.master_id) /\ t.rows[l] # None
  /\ \A p \in t.elsewhere :
       HeldReaches(t, p[1], p[2]) /\ p[2] # t.master_id /\ t.rows[p[2]] # None

\* Its master, and the cursor of follow_chain, are where the chains lead.
OnChain(t) ==
  /\ t.master_id # None =>
       IF t.master = None THEN t.master_id \in Range(t.ids) ELSE HeldReaches(t, t.master, t.master_id)
  /\ t.pc = "chase" =>
       IF t.master_id = None THEN t.master # None /\ HeldReaches(t, t.master, t.current)
       ELSE \A i \in t.open : NextOpen(t, i) =>
              HeldReaches(t, t.ids[i], t.current) /\ t.rows[t.ids[i]].merged_into # None

\* No id of the batch is passed over.
Covered(t) == \A l \in Range(t.ids) : (\E i \in t.open : t.ids[i] = l) \/ Settled(t, l)

Told(t) == t.pc # "publish" => Reported(t) /\ OnChain(t) /\ Covered(t)

\* A resting worker has nothing to tell.
LEMMA IdleIsTold == Told(Idle)
BY DEF Told, Reported, OnChain, Covered, Idle, Range

\* Opening a merge puts the first occurrence of every id on its list.
LEMMA AcceptIsTold ==
  ASSUME NEW w \in Workers, NEW r \in Request, Accept(w, r)
  PROVE  \E u : tx' = [tx EXCEPT ![w] = u] /\ u.pc = "batch" /\ Told(u)
<1> DEFINE t == [Idle EXCEPT !.pc = "batch", !.master = r.master, !.ids = r.ids, !.org = r.org]
           todo == {l \in FetchIds(t) : Visible(l, t.org)}
           open == FirstOccurrences(t.ids)
           u == [t EXCEPT !.todo = todo, !.open = open]
<1>1. t.ids \in Seq(Leads) /\ t.pc = "batch" /\ t.master_id = None /\ t.already = {} /\ t.elsewhere = {}
  BY DEF Idle, Request
<1>2. tx' = [tx EXCEPT ![w] = u]
  BY DEF Accept
<1> HIDE DEF t, todo
<1>3. ASSUME NEW l \in Range(t.ids) PROVE \E i \in open : t.ids[i] = l
  <2> DEFINE P == {i \in DOMAIN t.ids : t.ids[i] = l}
  <2>1. P # {} /\ P \subseteq Nat
    BY <1>1 DEF Range
  <2>2. PICK i \in P : \A j \in P : i <= j
    BY <2>1, LeastNumber
  <2> QED
    BY <2>2 DEF FirstOccurrences
<1> HIDE DEF open
<1>4. /\ u.pc = t.pc /\ u.ids = t.ids /\ u.open = open /\ u.master_id = t.master_id
      /\ u.already = t.already /\ u.elsewhere = t.elsewhere
  BY IdleIsSound DEF Transaction, t, Idle
<1> HIDE DEF u
<1>5. Told(u)
  BY <1>1, <1>3, <1>4 DEF Told, Reported, OnChain, Covered
<1> QED
  BY <1>1, <1>2, <1>4, <1>5

\* Reading one more row changes nothing of what is known.
LEMMA LockRowIsTold ==
  ASSUME IInv, NEW w \in Workers, NEW l \in Leads, NEW t \in Transaction, LockRow(w, l, t),
         Told(t), Plan(t), t.pc # "publish", t.rows = tx[w].rows
  PROVE  \E u : tx' = [tx EXCEPT ![w] = u] /\ Told(u)
<1> DEFINE u == IF Visible(l, t.org) THEN [t EXCEPT !.rows[l] = row[l]] ELSE t
<1>1. tx' = [tx EXCEPT ![w] = u]
  BY DEF LockRow
<1>2. t.rows[l] = None
  BY NoneIsNothing DEF IInv, Holds, LockRow
<1>3. /\ u.pc = t.pc /\ u.ids = t.ids /\ u.open = t.open /\ u.master_id = t.master_id
      /\ u.master = t.master /\ u.current = t.current /\ u.absorb_live = t.absorb_live
      /\ u.already = t.already /\ u.elsewhere = t.elsewhere
      /\ \A k \in Leads : t.rows[k] # None => u.rows[k] = t.rows[k]
  BY <1>2 DEF Transaction
<1> HIDE DEF u
<1>4. t.ids \in Seq(Leads)
  BY DEF Transaction
<1>5. \A a, b : HeldReaches(t, a, b) => HeldReaches(u, a, b)
  BY <1>3, HeldGrows
<1>6. t.already \subseteq Leads /\ \A p \in t.elsewhere : p[2] \in Leads
  BY DEF Transaction
<1>7. Reported(u)
  BY <1>3, <1>5, <1>6, NoneIsNothing DEF Told, Reported
<1>8. OnChain(u)
  <2>1. \A i \in t.open : NextOpen(u, i) <=> NextOpen(t, i)
    BY <1>3 DEF NextOpen
  <2>2. ASSUME t.pc = "chase", NEW i \in t.open
        PROVE  u.rows[t.ids[i]] = t.rows[t.ids[i]]
    <3>1. i \in DOMAIN t.ids
      BY DEF Plan
    <3>2. t.ids[i] \in FetchIds(t) /\ t.ids[i] \in Leads
      BY <1>4, <3>1 DEF FetchIds, Range
    <3> QED
      BY <1>3, <2>2, <3>2 DEF Plan
  <2> QED
    BY <1>3, <1>5, <2>1, <2>2 DEF Told, OnChain
<1>9. Covered(u)
  BY <1>3, <1>4 DEF Told, Covered, Settled, Range
<1> QED
  BY <1>1, <1>3, <1>7, <1>8, <1>9 DEF Told

\* A row of the batch is locked and read.
LEMMA LockIsTold ==
  ASSUME IInv, NEW w \in Workers, Told(tx[w]), LockBatchRow(w) \/ ChaseFetch(w)
  PROVE  \E u : tx' = [tx EXCEPT ![w] = u] /\ Told(u)
<1>1. tx[w] \in Transaction /\ Plan(tx[w])
  BY DEF IInv, TypeOK
<1>2. CASE ChaseFetch(w)
  BY <1>1, <1>2, LockRowIsTold DEF ChaseFetch, Chases
<1>3. CASE LockBatchRow(w)
  <2>1. PICK l \in Leads : LockRow(w, l, [tx[w] EXCEPT !.todo = @ \ {l}])
    BY <1>3 DEF LockBatchRow
  <2> DEFINE t == [tx[w] EXCEPT !.todo = @ \ {l}]
  <2>2. /\ t \in Transaction /\ LockRow(w, l, t) /\ t.pc = "batch" /\ tx[w].pc = "batch"
        /\ t.ids = tx[w].ids /\ t.open = tx[w].open /\ t.master_id = tx[w].master_id
        /\ t.master = tx[w].master /\ t.absorb_live = tx[w].absorb_live /\ t.rows = tx[w].rows
        /\ t.already = tx[w].already /\ t.elsewhere = tx[w].elsewhere
    BY <1>1, <1>3, <2>1 DEF LockBatchRow, Transaction
  <2> HIDE DEF t
  <2>3. Told(t) /\ Plan(t)
    BY <1>1, <2>2 DEF Told, Reported, OnChain, Covered, Settled, Plan, FetchIds, HeldReaches
  <2> QED
    BY <2>2, <2>3, LockRowIsTold
<1> QED
  BY <1>2, <1>3

\* The master of a pinned merge is the pin or what its chain leads to; that of
\* an auto merge is one of its batch.
LEMMA ResolveIsTold ==
  ASSUME IInv, NEW w \in Workers, Told(tx[w]),
         ResolvePinned(w) \/ Redirect(w) \/ ResolveAuto(w)
  PROVE  \E u : tx' = [tx EXCEPT ![w] = u] /\ Told(u)
<1> DEFINE t == tx[w]
<1>1. /\ t \in Transaction /\ t.pc = "batch" /\ t.master_id = None /\ t.absorb_live = {}
      /\ \A l \in FetchIds(t) : t.rows[l] # None /\ t.rows[l] = row[l] /\ l \in Leads
      /\ t.ids \in Seq(Leads) /\ Reported(t) /\ Covered(t)
  <2>1. t \in Transaction /\ t.pc = "batch" /\ \A l \in FetchIds(t) : t.rows[l] # None
    BY DEF IInv, TypeOK, ResolvePinned, Redirect, ResolveAuto, BatchFound, BatchRead
  <2>2. Plan(t) /\ Holds(w)
    BY DEF IInv
  <2> QED
    BY <2>1, <2>2, FetchIdsAreLeads DEF Plan, Holds, Transaction, Told
<1>2. ASSUME NEW m \in Leads, tx' = [tx EXCEPT ![w] = [t EXCEPT !.pc = "classify", !.master_id = m]],
             IF t.master = None THEN m \in Range(t.ids) ELSE m = t.master
      PROVE  \E u : tx' = [tx EXCEPT ![w] = u] /\ Told(u)
  <2> DEFINE u == [t EXCEPT !.pc = "classify", !.master_id = m]
  <2>1. /\ u.pc = "classify" /\ u.ids = t.ids /\ u.open = t.open /\ u.master_id = m
        /\ u.master = t.master /\ u.absorb_live = t.absorb_live /\ u.rows = t.rows
        /\ u.already = t.already /\ u.elsewhere = t.elsewhere
    BY <1>1 DEF Transaction
  <2>2. tx' = [tx EXCEPT ![w] = u]
    BY <1>2
  <2> HIDE DEF u
  <2>3. Reported(u)
    BY <1>1, <2>1 DEF Reported
  <2>4. OnChain(u)
    BY <1>2, <2>1, HeldItself DEF OnChain
  <2>5. Covered(u)
    BY <1>1, <2>1, NoneIsNothing DEF Covered, Settled, Range
  <2> QED
    BY <2>2, <2>3, <2>4, <2>5 DEF Told
<1>3. CASE ResolvePinned(w)
  <2>1. t.master \in Leads /\ Step(w, [t EXCEPT !.pc = "classify", !.master_id = t.master])
    BY <1>1, <1>3 DEF ResolvePinned, Transaction
  <2> QED
    BY <1>2, <1>3, <2>1 DEF ResolvePinned, Step
<1>4. CASE ResolveAuto(w)
  <2>1. PICK l \in LiveBatch(t) : Step(w, [t EXCEPT !.pc = "classify", !.master_id = l])
    BY <1>4 DEF ResolveAuto
  <2>2. t.master = None /\ l \in Leads /\ l \in Range(t.ids)
    BY <1>1, <1>4 DEF ResolveAuto, LiveBatch, FetchIds
  <2> QED
    BY <1>2, <2>1, <2>2 DEF Step
<1>5. CASE Redirect(w)
  <2> DEFINE m == t.rows[t.master].merged_into
             u == [t EXCEPT !.pc = "chase", !.redirected_from = t.master, !.current = m]
  <2>1. t.master # None /\ m # None /\ tx' = [tx EXCEPT ![w] = u]
    BY <1>5 DEF Redirect, PinAbsorbed, Step
  <2>2. t.rows[t.master] # None
    BY <1>1, <2>1 DEF FetchIds
  <2> HIDE DEF m
  <2>3. /\ u.pc = "chase" /\ u.ids = t.ids /\ u.open = t.open /\ u.master_id = t.master_id
        /\ u.master = t.master /\ u.absorb_live = t.absorb_live /\ u.rows = t.rows
        /\ u.current = m /\ u.already = t.already /\ u.elsewhere = t.elsewhere
    BY <1>1 DEF Transaction
  <2> HIDE DEF u
  <2>4. HeldReaches(u, t.master, m)
    BY <1>1, <2>1, <2>2, <2>3, HeldItself, HeldNext DEF m, FetchIds
  <2>5. Reported(u) /\ OnChain(u) /\ Covered(u)
    BY <1>1, <2>1, <2>3, <2>4 DEF Reported, OnChain, Covered, Settled
  <2> QED
    BY <2>1, <2>5 DEF Told
<1> QED
  BY <1>3, <1>4, <1>5

\* Following a chain stays on it, and its end is the owner reported.
LEMMA ChaseIsTold ==
  ASSUME IInv, NEW w \in Workers, Told(tx[w]),
         ChaseHop(w) \/ ChaseFoundMaster(w) \/ ChaseFoundOwner(w)
  PROVE  \E u : tx' = [tx EXCEPT ![w] = u] /\ Told(u)
<1> DEFINE t == tx[w]
           Goal == \E u : tx' = [tx EXCEPT ![w] = u] /\ Told(u)
<1>1. /\ t \in Transaction /\ t.pc = "chase" /\ Plan(t) /\ t.rows[t.current] # None
      /\ t.ids \in Seq(Leads) /\ Reported(t) /\ OnChain(t) /\ Covered(t)
      /\ t.current \in Leads
  <2>1. t \in Transaction /\ t.pc = "chase" /\ t.rows[t.current] # None /\ Plan(t)
    BY DEF IInv, TypeOK, ChaseHop, ChaseFoundMaster, ChaseFoundOwner, AtCached
  <2> QED
    BY <2>1 DEF Plan, Transaction, Told
<1>2. CASE ChaseHop(w)
  <2> DEFINE m == t.rows[t.current].merged_into
             u == [t EXCEPT !.current = m, !.hops = Hop(t.hops)]
  <2>1. m # None /\ tx' = [tx EXCEPT ![w] = u]
    BY <1>2 DEF ChaseHop, Step
  <2> HIDE DEF m
  <2>2. /\ u.pc = "chase" /\ u.ids = t.ids /\ u.open = t.open /\ u.master_id = t.master_id
        /\ u.master = t.master /\ u.absorb_live = t.absorb_live /\ u.rows = t.rows
        /\ u.current = m /\ u.already = t.already /\ u.elsewhere = t.elsewhere
    BY <1>1 DEF Transaction
  <2> HIDE DEF u
  <2>3. \A l : HeldReaches(t, l, t.current) => HeldReaches(t, l, m)
    BY <1>1, <2>1, HeldNext DEF m
  <2>4. \A a, b : HeldReaches(u, a, b) <=> HeldReaches(t, a, b)
    BY <2>2 DEF HeldReaches
  <2>5. \A i \in t.open : NextOpen(u, i) <=> NextOpen(t, i)
    BY <2>2 DEF NextOpen
  <2>6. Reported(u) /\ OnChain(u) /\ Covered(u)
    BY <1>1, <2>2, <2>3, <2>4, <2>5 DEF Reported, OnChain, Covered, Settled
  <2> QED
    BY <2>1, <2>6 DEF Told
<1>3. CASE ChaseFoundMaster(w)
  <2> DEFINE u == [t EXCEPT !.pc = "classify", !.master_id = t.current,
                            !.current = None, !.hops = 0]
  <2>1. t.master_id = None /\ tx' = [tx EXCEPT ![w] = u]
    BY <1>3 DEF ChaseFoundMaster, Step
  <2>2. /\ u.pc = "classify" /\ u.ids = t.ids /\ u.open = t.open /\ u.master_id = t.current
        /\ u.master = t.master /\ u.absorb_live = t.absorb_live /\ u.rows = t.rows
        /\ u.already = t.already /\ u.elsewhere = t.elsewhere
    BY <1>1 DEF Transaction
  <2> HIDE DEF u
  <2>3. Reported(u) /\ OnChain(u)
    BY <1>1, <2>1, <2>2 DEF Reported, OnChain, HeldReaches
  <2>4. Covered(u)
    BY <1>1, <2>1, <2>2, NoneIsNothing DEF Covered, Settled, Range
  <2> QED
    BY <2>1, <2>3, <2>4 DEF Told
<1>4. CASE ChaseFoundOwner(w)
  <2>1. PICK i \in t.open :
          /\ NextOpen(t, i)
          /\ LET u == [t EXCEPT !.pc = "classify", !.open = @ \ {i}, !.current = None, !.hops = 0]
             IN IF OwnedByMaster(t)
                THEN Step(w, [u EXCEPT !.already = @ \cup {t.ids[i]}])
                ELSE Step(w, [u EXCEPT !.elsewhere = @ \cup {<<t.ids[i], t.current>>}])
    BY <1>4 DEF ChaseFoundOwner
  <2>2. t.master_id # None /\ HeldReaches(t, t.ids[i], t.current)
          /\ t.rows[t.ids[i]].merged_into # None /\ t.rows[t.ids[i]] # None
    <3>1. t.master_id # None /\ t.ids[i] \in FetchIds(t)
      BY <1>1, <1>4 DEF ChaseFoundOwner, Plan, FetchIds, Range
    <3> QED
      BY <1>1, <2>1, <3>1 DEF OnChain, Plan
  <2> DEFINE u == [t EXCEPT !.pc = "classify", !.open = @ \ {i}, !.current = None, !.hops = 0]
  <2>3. /\ u.pc = "classify" /\ u.ids = t.ids /\ u.open = t.open \ {i} /\ u.master_id = t.master_id
        /\ u.master = t.master /\ u.absorb_live = t.absorb_live /\ u.rows = t.rows
        /\ u.already = t.already /\ u.elsewhere = t.elsewhere /\ u \in Transaction
    BY <1>1 DEF Transaction
  <2>4. \/ t.current = t.master_id /\ Step(w, [u EXCEPT !.already = @ \cup {t.ids[i]}])
        \/ t.current # t.master_id /\ Step(w, [u EXCEPT !.elsewhere = @ \cup {<<t.ids[i], t.current>>}])
    BY <2>1 DEF OwnedByMaster
  <2> HIDE DEF u
  <2>5. ASSUME NEW v, Step(w, v),
               v.pc = u.pc, v.ids = u.ids, v.open = u.open, v.master_id = u.master_id,
               v.master = u.master, v.absorb_live = u.absorb_live, v.rows = u.rows,
               Reported(v)
        PROVE  Goal
    <3>1. OnChain(v)
      BY <1>1, <2>3, <2>5 DEF OnChain, HeldReaches
    <3>2. Covered(v)
      BY <1>1, <2>2, <2>3, <2>5 DEF Covered, Settled
    <3> QED
      BY <2>5, <3>1, <3>2 DEF Told, Step
  <2>6. CASE t.current = t.master_id /\ Step(w, [u EXCEPT !.already = @ \cup {t.ids[i]}])
    <3> DEFINE v == [u EXCEPT !.already = @ \cup {t.ids[i]}]
    <3>1. /\ v.pc = u.pc /\ v.ids = u.ids /\ v.open = u.open /\ v.master_id = u.master_id
          /\ v.master = u.master /\ v.absorb_live = u.absorb_live /\ v.rows = u.rows
          /\ v.already = t.already \cup {t.ids[i]} /\ v.elsewhere = t.elsewhere /\ Step(w, v)
      BY <2>3, <2>6 DEF Transaction
    <3> HIDE DEF v
    <3>2. \A a, b : HeldReaches(v, a, b) <=> HeldReaches(t, a, b)
      BY <2>3, <3>1 DEF HeldReaches
    <3>3. Reported(v)
      BY <1>1, <2>2, <2>3, <2>6, <3>1, <3>2 DEF Reported
    <3> QED
      BY <2>5, <3>1, <3>3
  <2>7. CASE t.current # t.master_id
             /\ Step(w, [u EXCEPT !.elsewhere = @ \cup {<<t.ids[i], t.current>>}])
    <3> DEFINE v == [u EXCEPT !.elsewhere = @ \cup {<<t.ids[i], t.current>>}]
    <3>1. /\ v.pc = u.pc /\ v.ids = u.ids /\ v.open = u.open /\ v.master_id = u.master_id
          /\ v.master = u.master /\ v.absorb_live = u.absorb_live /\ v.rows = u.rows
          /\ v.already = t.already /\ v.elsewhere = t.elsewhere \cup {<<t.ids[i], t.current>>}
          /\ Step(w, v)
      BY <2>3, <2>7 DEF Transaction
    <3> HIDE DEF v
    <3>2. \A a, b : HeldReaches(v, a, b) <=> HeldReaches(t, a, b)
      BY <2>3, <3>1 DEF HeldReaches
    <3>3. Reported(v)
      BY <1>1, <2>2, <2>3, <2>7, <3>1, <3>2 DEF Reported
    <3> QED
      BY <2>5, <3>1, <3>3
  <2> QED
    BY <2>4, <2>6, <2>7
<1> QED
  BY <1>2, <1>3, <1>4

\* Classifying an id settles it, or starts on its chain.
LEMMA ClassifyIsTold ==
  ASSUME IInv, NEW w \in Workers, Told(tx[w]),
         NEW i \in tx[w].open, Classifies(tx[w], i),
         NEW u, Step(w, u),
         \/ tx[w].ids[i] = tx[w].master_id /\ u = [tx[w] EXCEPT !.open = @ \ {i}]
         \/ /\ tx[w].rows[tx[w].ids[i]].merged_into # None
            /\ u = [tx[w] EXCEPT !.pc = "chase", !.current = tx[w].rows[tx[w].ids[i]].merged_into]
         \/ u = [tx[w] EXCEPT !.open = @ \ {i}, !.absorb_live = @ \cup {tx[w].ids[i]}]
  PROVE  tx' = [tx EXCEPT ![w] = u] /\ Told(u)
<1> DEFINE t == tx[w]
           l == t.ids[i]
<1>1. /\ t \in Transaction /\ t.pc = "classify" /\ Plan(t) /\ Holds(w)
      /\ Reported(t) /\ OnChain(t) /\ Covered(t)
  BY DEF IInv, TypeOK, Classifies, Told
<1>2. t.master_id \in Leads /\ t.master_id # None /\ t.open \subseteq Nat
  BY <1>1, NoneIsNothing DEF Plan, Transaction
<1>3. t.rows[l] # None
  <2>1. l \in FetchIds(t)
    BY <1>1 DEF Plan, Transaction, FetchIds, Range
  <2> QED
    BY <1>1, <2>1 DEF Plan
<1>4. CASE l = t.master_id /\ u = [t EXCEPT !.open = @ \ {i}]
  <2>1. /\ u.pc = "classify" /\ u.ids = t.ids /\ u.open = t.open \ {i}
        /\ u.master_id = t.master_id /\ u.master = t.master /\ u.absorb_live = t.absorb_live
        /\ u.rows = t.rows /\ u.already = t.already /\ u.elsewhere = t.elsewhere
    BY <1>1, <1>4 DEF Transaction
  <2> QED
    BY <1>1, <1>4, <2>1 DEF Told, Reported, OnChain, Covered, Settled, HeldReaches, Step
<1>5. CASE t.rows[l].merged_into # None
           /\ u = [t EXCEPT !.pc = "chase", !.current = t.rows[l].merged_into]
  <2>1. /\ u.pc = "chase" /\ u.ids = t.ids /\ u.open = t.open /\ u.current = t.rows[l].merged_into
        /\ u.master_id = t.master_id /\ u.master = t.master /\ u.absorb_live = t.absorb_live
        /\ u.rows = t.rows /\ u.already = t.already /\ u.elsewhere = t.elsewhere
    BY <1>1, <1>3, <1>5 DEF Transaction
  <2> HIDE DEF l
  <2>2. HeldReaches(t, l, l)
    BY HeldItself
  <2>3. HeldReaches(t, l, u.current)
    BY <1>3, <1>5, <2>1, <2>2, HeldNext
  <2>4. \A a, b : HeldReaches(u, a, b) <=> HeldReaches(t, a, b)
    BY <2>1 DEF HeldReaches
  <2>5. \A j \in t.open : NextOpen(u, j) => j = i
    BY <1>2, <2>1 DEF NextOpen, Classifies
  <2>6. Reported(u) /\ Covered(u)
    BY <1>1, <2>1, <2>4 DEF Reported, Covered, Settled
  <2>7. IF u.master = None THEN u.master_id \in Range(u.ids) ELSE HeldReaches(u, u.master, u.master_id)
    BY <1>1, <1>2, <2>1, <2>4 DEF OnChain
  <2>8. \A j \in u.open : NextOpen(u, j) =>
          HeldReaches(u, u.ids[j], u.current) /\ u.rows[u.ids[j]].merged_into # None
    BY <1>5, <2>1, <2>3, <2>4, <2>5 DEF l
  <2>9. OnChain(u)
    BY <1>2, <2>1, <2>7, <2>8 DEF OnChain
  <2> QED
    BY <2>6, <2>9 DEF Told, Step
<1>6. CASE u = [t EXCEPT !.open = @ \ {i}, !.absorb_live = @ \cup {l}]
  <2>1. /\ u.pc = "classify" /\ u.ids = t.ids /\ u.open = t.open \ {i}
        /\ u.master_id = t.master_id /\ u.master = t.master
        /\ u.absorb_live = t.absorb_live \cup {l}
        /\ u.rows = t.rows /\ u.already = t.already /\ u.elsewhere = t.elsewhere
    BY <1>1, <1>6 DEF Transaction
  <2>2. \A a, b : HeldReaches(u, a, b) <=> HeldReaches(t, a, b)
    BY <2>1 DEF HeldReaches
  <2>3. Reported(u) /\ OnChain(u) /\ Covered(u)
    BY <1>1, <2>1, <2>2 DEF Reported, OnChain, Covered, Settled
  <2> QED
    BY <2>3 DEF Told, Step
<1> QED
  BY <1>4, <1>5, <1>6

\* Classifying in each of its cases, the refusals included.
LEMMA ClassifyAnyIsTold ==
  ASSUME IInv, NEW w \in Workers, Told(tx[w]),
         ClassifyMaster(w) \/ ClassifyConverted(w) \/ ClassifyAbsorbed(w) \/ ClassifyLive(w)
  PROVE  \E u : tx' = [tx EXCEPT ![w] = u] /\ Told(u)
<1> DEFINE t == tx[w]
           Goal == \E u : tx' = [tx EXCEPT ![w] = u] /\ Told(u)
<1>1. ASSUME NEW code, Abort(w, code) PROVE Goal
  BY <1>1, IdleIsTold DEF Abort
<1>2. CASE ClassifyMaster(w)
  <2>1. PICK i \in t.open : /\ Classifies(t, i) /\ t.ids[i] = t.master_id
                            /\ IF t.master # None THEN Abort(w, "absorb_self")
                               ELSE Step(w, [t EXCEPT !.open = @ \ {i}])
    BY <1>2 DEF ClassifyMaster
  <2> QED
    BY <1>1, <2>1, ClassifyIsTold
<1>3. CASE ClassifyConverted(w)
  BY <1>1, <1>3 DEF ClassifyConverted
<1>4. CASE ClassifyAbsorbed(w)
  BY <1>4, ClassifyIsTold DEF ClassifyAbsorbed
<1>5. CASE ClassifyLive(w)
  BY <1>5, ClassifyIsTold DEF ClassifyLive
<1> QED
  BY <1>2, <1>3, <1>4, <1>5

\* After every step, what the running merges have found out follows from what they
\* have read: it speaks of no other row, so nobody else can spoil it.
LEMMA MovesAreTold ==
  ASSUME IInv, Next, \A v \in Workers : Told(tx[v]), NEW w \in Workers
  PROVE  Told(tx'[w])
<1> DEFINE Moves(v) == \E u : tx' = [tx EXCEPT ![v] = u] /\ Told(u)
<1>1. ASSUME NEW v \in Workers, Moves(v) PROVE Told(tx'[w])
  <2>1. PICK u : tx' = [tx EXCEPT ![v] = u] /\ Told(u)
    BY <1>1
  <2>2. tx'[w] = IF w = v THEN u ELSE tx[w]
    BY <2>1 DEF IInv, TypeOK
  <2> QED
    BY <2>1, <2>2
<1>2. ASSUME NEW v \in Workers, NEW code, Abort(v, code) PROVE Moves(v)
  BY <1>2, IdleIsTold DEF Abort
<1>3. ASSUME NEW v \in Workers, Commit(v) PROVE Moves(v)
  <2> DEFINE u == [tx[v] EXCEPT !.pc = "publish", !.rows = Idle.rows]
  <2>1. u.pc = "publish" /\ tx' = [tx EXCEPT ![v] = u]
    BY <1>3 DEF Commit, IInv, TypeOK, Transaction
  <2> QED
    BY <2>1 DEF Told
<1>4. ASSUME NEW v \in Workers, CommitNothing(v) \/ Publish(v) PROVE Moves(v)
  BY <1>4, IdleIsTold DEF CommitNothing, Publish
<1>5. ASSUME NEW v \in Workers,
             BatchMissing(v) \/ AutoAllAbsorbed(v) \/ ChaseMissing(v) \/ ChaseTooDeep(v)
      PROVE  Moves(v)
  BY <1>2, <1>5 DEF BatchMissing, AutoAllAbsorbed, ChaseMissing, ChaseTooDeep
<1>6. ASSUME NEW v \in Workers, Progress(v) PROVE Moves(v)
  BY <1>3, <1>4, <1>5, <1>6, ResolveIsTold, ChaseIsTold, ClassifyAnyIsTold DEF Progress
<1>7. ASSUME NEW v \in Workers, DeadlockVictim(v) \/ Crash(v) PROVE Moves(v)
  BY <1>2, <1>7 DEF DeadlockVictim, Crash
<1>8. ASSUME UNCHANGED tx PROVE Told(tx'[w])
  BY <1>8
<1> QED
  BY <1>1, <1>6, <1>7, <1>8, AcceptIsTold, LockIsTold, MergeAssumption
     DEF Next, Begin, RefuseShape, OtherWriter, Quiescent, vars

-----------------------------------------------------------------------------
(* What callers and the sink have been told.                                *)

Merging == {tx[w] : w \in Workers}

\* The outcomes callers hold, and those of committed merges about to publish.
Outcomes == {answer[w] : w \in {v \in Workers : answer[v].code = "ok"}}
              \cup {Success(tx[w]) : w \in {v \in Workers : tx[v].pc = "publish"}}

\* The leads no auto merge can choose any more.
Spent == {l \in Leads : Merged(l) \/ row[l].life = "gone"}

\* The leads an outcome names.
Named(o) == {o.master_id} \cup o.absorbed_ids \cup {p[2] : p \in o.elsewhere}

\* An outcome is true of the table: absorbed ids lead to the master and the
\* others past it, all within the fence; an auto merge took in its whole batch,
\* a pinned merge ended on the chain of its pin.
TrueOutcome(o) ==
  /\ o.master_id \in Leads
  /\ \A l \in o.absorbed_ids : Reaches(l, o.master_id)
  /\ \A p \in o.elsewhere : Reaches(p[1], p[2]) /\ p[2] # o.master_id
  /\ \A l \in Named(o) : InScope(l, o.to.org)
  /\ IF o.to.master = None
     THEN /\ o.master_id \in Range(o.to.ids)
          /\ Range(o.to.ids) \subseteq Spent \cup {o.master_id}
     ELSE o.to.master \in Leads /\ Reaches(o.to.master, o.master_id)

TrueEvent(e) == \A l \in e.absorbed_ids : Reaches(l, e.lead_id)

\* Equal merges end on one master if they chose it and on one chain if it was pinned.
SameMaster(o, p) ==
  o.to = p.to => IF o.to.master = None THEN o.master_id = p.master_id
                 ELSE Reaches(o.master_id, p.master_id) \/ Reaches(p.master_id, o.master_id)

WorldIsTold ==
  /\ \A t \in Merging : Told(t)
  /\ \A o \in Outcomes : TrueOutcome(o)
  /\ \A o, p \in Outcomes : SameMaster(o, p)
  /\ \A e \in Range(events) : TrueEvent(e)

\* What is said once stays true.
LEMMA OutcomeStays ==
  ASSUME PointersKept, NEW o
  PROVE  /\ TrueOutcome(o) => TrueOutcome(o)'
         /\ TrueEvent(o) => TrueEvent(o)'
         /\ \A p : SameMaster(o, p) => SameMaster(o, p)'
<1>1. \A l, m : Reaches(l, m) => Reaches(l, m)'
  BY ReachesStays
<1>2. Spent \subseteq Spent'
  BY DEF PointersKept, Spent, Merged
<1>3. \A p : SameMaster(o, p) => SameMaster(o, p)'
  BY <1>1 DEF SameMaster
<1> QED
  BY <1>1, <1>2, <1>3 DEF TrueOutcome, TrueEvent, Named, InScope

\* A merge that ends well in this step tells the truth about the table after
\* it: the leads it absorbs point at its master now.
LEMMA EndingIsTrue ==
  ASSUME IInv, NEW w \in Workers, Told(tx[w]), CommitNothing(w) \/ Commit(w),
         NEW o, o = Success(tx[w])
  PROVE  TrueOutcome(o)'
<1> DEFINE t == tx[w]
<1>1. /\ t \in Transaction /\ Plan(t) /\ Holds(w) /\ t.pc = "classify" /\ t.open = {}
      /\ Reported(t) /\ OnChain(t) /\ Covered(t)
  BY DEF IInv, TypeOK, CommitNothing, Commit, Classified, Told
<1>2. /\ o.master_id = t.master_id /\ o.elsewhere = t.elsewhere
      /\ o.absorbed_ids = t.already \cup t.absorb_live
      /\ o.to.master = t.master /\ o.to.ids = t.ids /\ o.to.org = t.org
  BY DEF Success
<1>3. t.master_id \in Leads /\ t.master_id # None /\ t.absorb_live \subseteq Leads
        /\ Range(t.ids) \subseteq Leads
  BY <1>1, NoneIsNothing DEF Plan, Transaction, Range
<1>4. \A l \in t.absorb_live : row'[l].merged_into = t.master_id
  BY <1>3, CommitPoints DEF CommitNothing
<1>5. Next
  BY DEF Next, Progress
<1>6. \A l, m : HeldReaches(t, l, m) => Reaches(l, m)'
  BY <1>1, <1>5, HeldIsReal, PointersStay, ReachesStays
<1>7. ASSUME NEW l \in t.absorb_live PROVE Reaches(l, o.master_id)'
  BY <1>2, <1>3, <1>4 DEF Reaches, Merged
<1>8. \A l \in o.absorbed_ids : Reaches(l, o.master_id)'
  BY <1>1, <1>2, <1>6, <1>7 DEF Reported
<1>9. \A p \in o.elsewhere : Reaches(p[1], p[2])' /\ p[2] # o.master_id
  BY <1>1, <1>2, <1>6 DEF Reported
<1>10. ASSUME NEW l \in Range(t.ids), l # t.master_id PROVE l \in Spent'
  <2>1. CASE l \in t.absorb_live
    BY <1>3, <1>4, <2>1 DEF Spent, Merged
  <2>2. CASE t.rows[l] # None /\ t.rows[l].merged_into # None
    <3>1. Merged(l)
      BY <1>1, <1>3, <2>2 DEF Holds, Merged
    <3> QED
      BY <1>3, <1>5, <3>1, PointersStay DEF PointersKept, Spent, Merged
  <2> QED
    BY <1>1, <1>10, <2>1, <2>2 DEF Covered, Settled
<1>11. IF t.master = None THEN t.master_id \in Range(t.ids)
       ELSE t.master \in Leads /\ HeldReaches(t, t.master, t.master_id)
  BY <1>1, <1>3 DEF OnChain, Transaction
<1>12. ASSUME NEW l \in Named(o) PROVE InScope(l, o.to.org)
  <2>1. t.rows[l] # None /\ l \in Leads
    BY <1>1, <1>2, <1>3 DEF Named, Reported, Plan, Transaction
  <2> QED
    BY <1>1, <1>2, <2>1 DEF Holds, Visible
<1>13. \A l \in Named(o)' : InScope(l, o.to.org)'
  BY <1>12 DEF Named, InScope
<1> QED
  BY <1>2, <1>3, <1>6, <1>8, <1>9, <1>10, <1>11, <1>13 DEF TrueOutcome

\* Outcomes come from merges that end well, and from nowhere else.
LEMMA WhereOutcomesComeFrom ==
  ASSUME IInv, Next, NEW o \in Outcomes'
  PROVE  \/ o \in Outcomes
         \/ \E w \in Workers : (CommitNothing(w) \/ Commit(w)) /\ o = Success(tx[w])
<1> DEFINE Goal == \/ o \in Outcomes
                   \/ \E w \in Workers : (CommitNothing(w) \/ Commit(w)) /\ o = Success(tx[w])
<1>1. tx \in [Workers -> Transaction] /\ answer \in [Workers -> Answer]
  BY DEF IInv, TypeOK
<1>2. PICK w \in Workers : \/ answer'[w].code = "ok" /\ o = answer'[w]
                           \/ tx'[w].pc = "publish" /\ o = Success(tx'[w])
  BY DEF Outcomes, Success
<1>3. CASE answer'[w].code = "ok" /\ o = answer'[w]
  <2>1. CASE answer'[w] = answer[w]
    BY <1>3, <2>1 DEF Outcomes
  <2>2. ASSUME NEW v \in Workers, NEW code, code # "ok",
               answer' = [answer EXCEPT ![v] = Refusal(code)]
        PROVE  answer'[w] = answer[w]
    BY <1>1, <1>3, <2>2 DEF Refusal
  <2>3. ASSUME NEW v \in Workers, CommitNothing(v) PROVE Goal
    BY <1>1, <1>3, <2>1, <2>3 DEF CommitNothing
  <2>4. ASSUME NEW v \in Workers, Publish(v) PROVE Goal
    <3>1. CASE v = w
      BY <1>1, <1>3, <2>4, <3>1 DEF Publish, Outcomes
    <3>2. CASE v # w
      BY <1>1, <2>1, <2>4, <3>2 DEF Publish
    <3> QED
      BY <3>1, <3>2
  <2>5. ASSUME NEW v \in Workers, Progress(v), ~CommitNothing(v), ~Publish(v)
        PROVE  answer'[w] = answer[w]
    BY <2>2, <2>5
       DEF Progress, BatchMissing, ResolvePinned, Redirect, ResolveAuto, AutoAllAbsorbed,
           ChaseMissing, ChaseHop, ChaseTooDeep, ChaseFoundMaster, ChaseFoundOwner,
           ClassifyMaster, ClassifyConverted, ClassifyAbsorbed, ClassifyLive, Commit, Abort, Step
  <2>6. ASSUME NEW v \in Workers, NEW r \in Requests, RefuseShape(v, r)
        PROVE  answer'[w] = answer[w]
    BY <2>2, <2>6 DEF RefuseShape, ShapeError
  <2>7. ASSUME NEW v \in Workers, NEW r \in Requests,
               Begin(v, r) \/ LockBatchRow(v) \/ ChaseFetch(v)
        PROVE  answer'[w] = answer[w]
    BY <2>7 DEF Begin, Accept, LockBatchRow, ChaseFetch, LockRow
  <2>8. ASSUME NEW v \in Workers, LockBatchRow(v) \/ ChaseFetch(v) \/ DeadlockVictim(v) \/ Crash(v)
        PROVE  answer'[w] = answer[w]
    BY <2>2, <2>8 DEF LockBatchRow, ChaseFetch, LockRow, DeadlockVictim, Crash, Abort
  <2>9. CASE OtherWriter \/ Quiescent
    BY <2>1, <2>9 DEF OtherWriter, Quiescent, vars
  <2> QED
    BY <2>1, <2>3, <2>4, <2>5, <2>6, <2>7, <2>8, <2>9 DEF Next
<1>4. CASE tx'[w].pc = "publish" /\ o = Success(tx'[w])
  <2>1. CASE tx'[w] = tx[w]
    BY <1>4, <2>1 DEF Outcomes
  <2>2. ASSUME NEW v \in Workers, Progress(v) PROVE Goal
    <3>1. CASE v # w
      BY <2>1, <2>2, <3>1, ProgressLeavesBatch
    <3>2. CASE v = w
      <4>1. Commit(w)
        BY <1>4, <2>2, <3>2, ProgressLeavesBatch
      <4> DEFINE t == tx[w]
                 u == [t EXCEPT !.pc = "publish", !.rows = Idle.rows]
      <4>2. tx'[w] = u
        BY <1>1, <4>1 DEF Commit
      <4>3. Success(u) = Success(t)
        BY <1>1 DEF Success, Transaction
      <4> QED
        BY <1>4, <4>1, <4>2, <4>3
    <3> QED
      BY <3>1, <3>2
  <2>3. ASSUME NEW v \in Workers, NEW r \in Requests, Begin(v, r) PROVE tx'[w] = tx[w]
    <3> DEFINE t == [Idle EXCEPT !.pc = "batch", !.master = r.master, !.ids = r.ids, !.org = r.org]
               todo == {l \in FetchIds(t) : Visible(l, t.org)}
               open == FirstOccurrences(t.ids)
               u == [t EXCEPT !.todo = todo, !.open = open]
    <3>1. tx' = [tx EXCEPT ![v] = u]
      BY <2>3 DEF Begin, Accept
    <3> HIDE DEF todo, open
    <3>2. u.pc = "batch"
      BY DEF Idle
    <3> HIDE DEF u
    <3> QED
      BY <1>1, <1>4, <3>1, <3>2
  <2>4. ASSUME NEW v \in Workers, NEW l \in Leads, NEW t \in Transaction, LockRow(v, l, t),
               t.pc # "publish"
        PROVE  tx'[w] = tx[w]
    BY <1>4, <2>4, LockRowGives
  <2>5. ASSUME NEW v \in Workers, LockBatchRow(v) PROVE tx'[w] = tx[w]
    <3>1. PICK l \in Leads : LockRow(v, l, [tx[v] EXCEPT !.todo = @ \ {l}])
      BY <2>5 DEF LockBatchRow
    <3> DEFINE t == [tx[v] EXCEPT !.todo = @ \ {l}]
    <3>2. LockRow(v, l, t)
      BY <3>1
    <3>3. tx[v].pc = "batch" /\ tx[v] \in Transaction
      BY <1>1, <2>5 DEF LockBatchRow
    <3>4. t \in Transaction /\ t.pc = "batch"
      BY <3>3 DEF Transaction
    <3> HIDE DEF t
    <3> QED
      BY <2>4, <3>2, <3>4
  <2>6. ASSUME NEW v \in Workers, ChaseFetch(v) PROVE tx'[w] = tx[w]
    BY <1>1, <2>4, <2>6 DEF ChaseFetch, Chases
  <2>7. ASSUME NEW v \in Workers, DeadlockVictim(v) \/ Crash(v) PROVE tx'[w] = tx[w]
    BY <1>1, <1>4, <2>7 DEF DeadlockVictim, Crash, Abort, Idle
  <2>8. CASE OtherWriter \/ Quiescent \/ \E v \in Workers, r \in Requests : RefuseShape(v, r)
    BY <2>1, <2>8 DEF OtherWriter, Quiescent, RefuseShape, vars
  <2> QED
    BY <2>1, <2>2, <2>3, <2>5, <2>6, <2>7, <2>8 DEF Next
<1> QED
  BY <1>2, <1>3, <1>4

\* One merge ends at a time.
LEMMA EndsOnce ==
  ASSUME IInv, NEW w \in Workers, CommitNothing(w) \/ Commit(w),
         NEW v \in Workers, CommitNothing(v) \/ Commit(v)
  PROVE  v = w
<1>1. tx[w].pc = "classify" /\ Progress(v) /\ Progress(w)
  BY DEF CommitNothing, Commit, Classified, Progress
<1>2. tx'[w].pc # "classify"
  <2>1. tx[w] \in Transaction /\ tx \in [Workers -> Transaction]
    BY DEF IInv, TypeOK
  <2> DEFINE u == [tx[w] EXCEPT !.pc = "publish", !.rows = Idle.rows]
  <2>2. u.pc = "publish" /\ Idle.pc = "idle"
    BY <2>1 DEF Transaction, Idle
  <2>3. tx' = [tx EXCEPT ![w] = u] \/ tx' = [tx EXCEPT ![w] = Idle]
    BY DEF CommitNothing, Commit
  <2> QED
    BY <2>1, <2>2, <2>3
<1> QED
  BY <1>1, <1>2, ProgressLeavesBatch

\* A new outcome agrees with what was said before: its master had no pointer
\* until now, so an equal auto merge, which left one lead without, its own master,
\* can only have left this one; and a pin's chain, read to its end, does not fork.
LEMMA EndingAgrees ==
  ASSUME IInv, NEW w \in Workers, Told(tx[w]), CommitNothing(w) \/ Commit(w),
         NEW o, o = Success(tx[w]), NEW p, TrueOutcome(p)
  PROVE  SameMaster(o, p)' /\ SameMaster(p, o)'
<1> DEFINE t == tx[w]
<1>1. Plan(t) /\ Holds(w) /\ t.pc = "classify" /\ OnChain(t) /\ t \in Transaction
  BY DEF IInv, TypeOK, CommitNothing, Commit, Classified, Told
<1>2. o.master_id = t.master_id /\ o.to.master = t.master /\ o.to.ids = t.ids
  BY DEF Success
<1>3. /\ t.master_id \in Leads /\ t.master_id # None /\ ~Merged(t.master_id)
      /\ row[t.master_id].life = "active"
      /\ t.rows[t.master_id] # None /\ t.rows[t.master_id].merged_into = None
  BY <1>1, NoneIsNothing DEF Plan, Holds, Merged, Visible
<1>4. Next
  BY DEF Next, Progress
<1>5. ASSUME o.to = p.to, o.to.master = None PROVE o.master_id = p.master_id
  <2>1. o.master_id \in Range(p.to.ids)
    BY <1>1, <1>2, <1>3, <1>5 DEF OnChain
  <2> QED
    BY <1>2, <1>3, <1>5, <2>1 DEF TrueOutcome, Spent
<1>6. ASSUME o.to = p.to, o.to.master # None PROVE Reaches(p.master_id, o.master_id)'
  <2>1. t.master \in Leads /\ t.rows[t.master] # None /\ HeldReaches(t, t.master, t.master_id)
    BY <1>1, <1>2, <1>3, <1>6 DEF OnChain, Plan, FetchIds, Transaction
  <2>2. Reaches(t.master, p.master_id)
    BY <1>2, <1>6 DEF TrueOutcome
  <2>3. Reaches(p.master_id, t.master_id)
    BY <1>3, <2>1, <2>2, HeldDoesNotFork
  <2> QED
    BY <1>2, <1>4, <2>3, PointersStay, ReachesStays
<1> QED
  BY <1>5, <1>6 DEF SameMaster

\* Only publishing says something to the sink, and what it says is the outcome.
LEMMA EventsAreOutcomes ==
  ASSUME IInv, Next, NEW e \in Range(events')
  PROVE  \/ e \in Range(events)
         \/ \E o \in Outcomes : e.lead_id = o.master_id /\ e.absorbed_ids = o.absorbed_ids
<1>1. CASE events' = events
  BY <1>1
<1>2. ASSUME NEW w \in Workers, Publish(w)
      PROVE  \/ e \in Range(events)
             \/ \E o \in Outcomes : e.lead_id = o.master_id /\ e.absorbed_ids = o.absorbed_ids
  <2> DEFINE o == Success(tx[w])
             m == MergedEvent(tx[w])
  <2>1. o \in Outcomes /\ m.lead_id = o.master_id /\ m.absorbed_ids = o.absorbed_ids
    BY <1>2 DEF Outcomes, Publish, MergedEvent, Success
  <2>2. events' = Append(events, m) /\ events \in Seq(Event)
    BY <1>2 DEF Publish, IInv, TypeOK
  <2> HIDE DEF o, m
  <2>3. e = m \/ e \in Range(events)
    BY <2>2 DEF Range
  <2> QED
    BY <2>1, <2>3
<1> QED
  BY <1>1, <1>2, WhoPublishes

\* Nothing has been said yet.
LEMMA InitIsTold == Init => WorldIsTold
<1> SUFFICES ASSUME Init PROVE WorldIsTold
  OBVIOUS
<1>1. \A w \in Workers : tx[w] = Idle /\ answer[w] = Refusal("none")
  BY DEF Init
<1>2. Outcomes = {}
  BY <1>1 DEF Outcomes, Idle, Refusal
<1>3. Range(events) = {}
  BY DEF Init, Range
<1> QED
  BY <1>1, <1>2, <1>3, IdleIsTold DEF WorldIsTold, Merging

\* What a merge has found out is about rows it has read, in any state.
LEMMA ToldStays ==
  ASSUME NEW t, Told(t)
  PROVE  Told(t)'
BY DEF Told, Reported, OnChain, NextOpen, Covered, Settled, HeldReaches

\* Whoever keeps the pointers, and leaves the merges alone, leaves it true.
LEMMA SamePointersTold ==
  ASSUME WorldIsTold, UNCHANGED <<tx, answer, events>>, PointersKept
  PROVE  WorldIsTold'
<1>1. Merging' = Merging /\ Outcomes' = Outcomes /\ Range(events') = Range(events)
  BY DEF Merging, Outcomes, Success, Range
<1> QED
  BY <1>1, ToldStays, OutcomeStays DEF WorldIsTold

\* Every step keeps what is known and said true.
LEMMA NextIsTold == IInv /\ WorldIsTold /\ [Next]_vars => WorldIsTold'
<1> SUFFICES ASSUME IInv, WorldIsTold, [Next]_vars PROVE WorldIsTold'
  OBVIOUS
<1>0. PointersKept
  BY PointersStay
<1>1. CASE UNCHANGED vars
  BY <1>0, <1>1, SamePointersTold DEF vars
<1>2. CASE Next
  <2>0. \A v \in Workers : Told(tx[v])
    BY DEF WorldIsTold, Merging
  <2>1. ASSUME NEW t \in Merging' PROVE Told(t)'
    <3>1. Told(t)
      BY <1>2, <2>0, <2>1, MovesAreTold DEF Merging
    <3> QED
      BY <3>1, ToldStays
  <2>2. ASSUME NEW o \in Outcomes' PROVE TrueOutcome(o)'
    <3>1. CASE o \in Outcomes
      BY <1>0, <3>1, OutcomeStays DEF WorldIsTold
    <3>2. ASSUME NEW w \in Workers, CommitNothing(w) \/ Commit(w), o = Success(tx[w])
          PROVE  TrueOutcome(o)'
      BY <2>0, <3>2, EndingIsTrue
    <3> QED
      BY <1>2, <3>1, <3>2, WhereOutcomesComeFrom
  <2>3. ASSUME NEW o \in Outcomes', NEW p \in Outcomes' PROVE SameMaster(o, p)'
    <3>1. CASE o \in Outcomes /\ p \in Outcomes
      BY <1>0, <3>1, OutcomeStays DEF WorldIsTold
    <3>2. ASSUME NEW w \in Workers, CommitNothing(w) \/ Commit(w), NEW a, NEW b \in Outcomes,
                 a = Success(tx[w])
          PROVE  SameMaster(a, b)' /\ SameMaster(b, a)'
      BY <2>0, <3>2, EndingAgrees DEF WorldIsTold
    <3>3. ASSUME NEW w \in Workers, CommitNothing(w) \/ Commit(w), o = Success(tx[w]),
                 NEW v \in Workers, CommitNothing(v) \/ Commit(v), p = Success(tx[v])
          PROVE  SameMaster(o, p)'
      <4>1. v = w
        BY <3>3, EndsOnce
      <4>2. o = p
        BY <3>3, <4>1
      <4>3. Reaches(o.master_id, o.master_id)'
        BY DEF Reaches
      <4> QED
        BY <4>2, <4>3 DEF SameMaster
    <3> QED
      BY <1>2, <3>1, <3>2, <3>3, WhereOutcomesComeFrom
  <2>4. ASSUME NEW e \in Range(events') PROVE TrueEvent(e)'
    <3>1. CASE e \in Range(events)
      BY <1>0, <3>1, OutcomeStays DEF WorldIsTold
    <3>2. ASSUME NEW o \in Outcomes, e.lead_id = o.master_id, e.absorbed_ids = o.absorbed_ids
          PROVE  TrueEvent(e)'
      <4>1. TrueEvent(e)
        BY <3>2 DEF WorldIsTold, TrueOutcome, TrueEvent
      <4> QED
        BY <1>0, <4>1, OutcomeStays
    <3> QED
      BY <1>2, <3>1, <3>2, EventsAreOutcomes
  <2> QED
    BY <2>1, <2>2, <2>3, <2>4 DEF WorldIsTold
<1> QED
  BY <1>1, <1>2

\* So does a merge that begins, whatever it is asked to merge.
LEMMA AcceptKeepsTold ==
  ASSUME IInv, WorldIsTold, NEW w \in Workers, NEW r \in Request, Accept(w, r)
  PROVE  WorldIsTold'
<1>1. PICK u : tx' = [tx EXCEPT ![w] = u] /\ u.pc = "batch" /\ Told(u)
  BY AcceptIsTold
<1>2. UNCHANGED <<row, answer, events>>
  BY DEF Accept
<1>3. \A v \in Workers : tx'[v] = IF v = w THEN u ELSE tx[v]
  BY <1>1 DEF IInv, TypeOK
<1>4. PointersKept
  BY <1>2 DEF PointersKept
<1>5. Outcomes' \subseteq Outcomes
  BY <1>1, <1>2, <1>3 DEF Outcomes, Success
<1>6. \A t \in Merging' : Told(t)'
  BY <1>1, <1>3, ToldStays DEF Merging, WorldIsTold
<1> QED
  BY <1>2, <1>4, <1>5, <1>6, OutcomeStays DEF WorldIsTold

\* In every reachable state what merges know and have said is true.
LEMMA WorldStaysTold == Spec => []WorldIsTold
BY InitIsTold, NextIsTold, InvariantHolds, PTL DEF Spec

\* What is true of all outcomes and events is true of answers and of the sink.
LEMMA ToldIsTrue ==
  ASSUME WorldIsTold
  PROVE  AnswersStayTrue /\ EventsStayTrue /\ RepeatsAgree /\ FenceHolds
<1>1. \A w \in Workers : answer[w].code = "ok" => answer[w] \in Outcomes
  BY DEF Outcomes
<1>2. AnswersStayTrue /\ EventsStayTrue
  BY <1>1 DEF WorldIsTold, TrueOutcome, AnswersStayTrue, TrueEvent, EventsStayTrue, Range
<1>3. RepeatsAgree
  BY <1>1 DEF WorldIsTold, SameMaster, RepeatsAgree
<1>4. FenceHolds
  BY <1>1 DEF WorldIsTold, TrueOutcome, Named, InScope, FenceHolds
<1> QED
  BY <1>2, <1>3, <1>4

\* What a caller was told stays true, whatever merges and purges run then and
\* later: the absorbed ids lead to the reported master, the others to the owner
\* named, unless their chain was broken by a lead purged on the way.
THEOREM AnswersAreTrue == Spec => []AnswersStayTrue
BY ToldIsTrue, WorldStaysTold, PTL

\* Every event published is true of the table for good, as far as the chains are
\* still stored, so a host that re-points on it never re-points to the wrong person.
THEOREM EventsAreTrue == Spec => []EventsStayTrue
BY ToldIsTrue, WorldStaysTold, PTL

\* Equal merges that both succeed agree, however they interleave with anything:
\* auto merges on the master, pinned ones on the chain.
THEOREM MergesRepeatSafely == Spec => []RepeatsAgree
BY ToldIsTrue, WorldStaysTold, PTL

\* A fenced merge never names a lead of another org, not even when a pointer set
\* by an unfenced one crosses into it: follow_chain reads through the fence too.
THEOREM FenceIsKept == Spec => []FenceHolds
BY ToldIsTrue, WorldStaysTold, PTL
=============================================================================
