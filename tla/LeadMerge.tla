------------------------------ MODULE LeadMerge ------------------------------
(***************************************************************************)
(* merge_leads: soft-absorb duplicate leads into a master, run by several   *)
(* workers at once, each inside one READ COMMITTED transaction.             *)
(*                                                                         *)
(* A merge checks the shape of its batch, opens a transaction, locks the    *)
(* batch row by row in id order, resolves the master, classifies each id    *)
(* (following absorb pointers where it must, locking the rows it meets),    *)
(* and only then writes, commits and publishes.  tx[w] is the local state   *)
(* of worker w's merge; row and lock are the shared table.                  *)
(***************************************************************************)
EXTENDS LeadTable, Sequences, FiniteSets, Functions

CONSTANTS
  Requests,            \* the merges callers may ask for
  MAX_PINNED_ABSORBS,  \* a pinned merge absorbs 1 .. this many
  MAX_AUTO_BATCH,      \* an auto merge names 2 .. this many
  CHAIN_FOLLOW_LIMIT,  \* rows follow_chain looks at before giving up
  MaxRequests,         \* bound: merges accepted in one behaviour
  Environment,         \* which of the other writers run beside the merges
  MayCrash             \* whether a worker can be cancelled or die

\* master is None for an auto merge; org is None for an unfenced caller.
Request == [master : Leads \cup {None}, ids : Seq(Leads), org : Orgs \cup {None}]

ASSUME MergeAssumption ==
  /\ Requests \subseteq Request
  /\ {MAX_PINNED_ABSORBS, MAX_AUTO_BATCH, CHAIN_FOLLOW_LIMIT, MaxRequests} \subseteq Nat
  /\ Environment \subseteq {"qualify", "convert", "delete", "restore", "purge"}
  /\ MayCrash \in BOOLEAN

VARIABLES
  tx,      \* the merge each worker is running
  answer,  \* the last answer each worker gave its caller
  events,  \* LeadMerged events in the order they were published
  left     \* merges that may still be asked for

vars == <<row, lock, tx, answer, events, left>>

Transaction ==
  [pc : {"idle", "batch", "chase", "classify", "publish"},
   master : Leads \cup {None},               \* the caller's pin
   ids : Seq(Leads),                         \* the caller's list, as given
   org : Orgs \cup {None},
   todo : SUBSET Leads,                      \* rows of the batch still to lock
   rows : [Leads -> Row \cup {None}],        \* `rows`, the cache of read rows
   master_id : Leads \cup {None},            \* the resolved master
   redirected_from : Leads \cup {None},
   current : Leads \cup {None},              \* follow_chain's cursor
   hops : Nat,                               \* and its iteration
   open : SUBSET Nat,                        \* positions of ids to classify
   absorb_live : SUBSET Leads,
   already : SUBSET Leads,                   \* absorbed into this master before
   elsewhere : SUBSET (Leads \X Leads)]      \* already_absorbed_elsewhere

Idle ==
  [pc |-> "idle", master |-> None, ids |-> <<>>, org |-> None, todo |-> {},
   rows |-> [l \in Leads |-> None], master_id |-> None, redirected_from |-> None,
   current |-> None, hops |-> 0, open |-> {}, absorb_live |-> {}, already |-> {},
   elsewhere |-> {}]

Codes == {"none", "ok", "invalid_batch", "absorb_self", "absorb_converted",
          "not_found", "chain_too_deep", "internal_error", "lost"}

Answer == [code : Codes, to : Request \cup {None}, master_id : Leads \cup {None},
           redirected_from : Leads \cup {None}, absorbed_ids : SUBSET Leads,
           elsewhere : SUBSET (Leads \X Leads)]

Event == [lead_id : Leads, absorbed_ids : SUBSET Leads]

Refusal(code) == [code |-> code, to |-> None, master_id |-> None, redirected_from |-> None,
                  absorbed_ids |-> {}, elsewhere |-> {}]

-----------------------------------------------------------------------------
\* The batch shape, checked before anything is read and on the list as given.
ShapeError(r) ==
  IF r.master # None
  THEN IF Len(r.ids) \notin 1..MAX_PINNED_ABSORBS THEN "invalid_batch"
       ELSE IF r.master \in Range(r.ids) THEN "absorb_self" ELSE "none"
  ELSE IF Len(r.ids) \notin 2..MAX_AUTO_BATCH THEN "invalid_batch" ELSE "none"

\* The rows a merge reads first: the list and the pinned master.
FetchIds(t) == Range(t.ids) \cup ({t.master} \ {None})

\* Classification visits each distinct id once, where it first occurs.
FirstOccurrences(ids) ==
  {i \in DOMAIN ids : \A j \in DOMAIN ids : ids[j] = ids[i] => i <= j}

Key(t, l) == [status |-> t.rows[l].status, party |-> t.rows[l].party,
              created_at |-> CreatedAt[l], id |-> l]

\* l heads S in the confidence order, on the rows the merge has read.
MostCredible(t, l, S) ==
  l \in S /\ \A m \in S \ {l} : RanksAbove(Key(t, l), Key(t, m))

\* Mutation of FillOrKeep: a duplicate's value overwrites the master's.
FillOver(t, f, v) ==
  LET offers == {l \in t.absorb_live : t.rows[l].fields[f] # None}
  IN IF offers = {} THEN v = t.rows[t.master_id].fields[f]
     ELSE \E l \in offers : MostCredible(t, l, offers) /\ v = t.rows[l].fields[f]

\* The master's own value wins; a null one takes the first value found walking
\* the leads to absorb in confidence order, and stays null if there is none.
FillOrKeep(t, f, v) ==
  LET own == t.rows[t.master_id].fields[f]
      offers == {l \in t.absorb_live : t.rows[l].fields[f] # None}
  IN IF own # None \/ offers = {} THEN v = own
     ELSE \E l \in offers : MostCredible(t, l, offers) /\ v = t.rows[l].fields[f]

-----------------------------------------------------------------------------
\* What a worker holds, what it waits for, and how it lets go.
\* Mutation of Unlocked: the connection goes back to the pool, its transaction open.
KeepsLocks(w) == lock

Unlocked(w) == [l \in Leads |-> IF lock[l] = w THEN None ELSE lock[l]]

\* Mutation of NextInBatch: the locking read without its ORDER BY id.
AnyInBatch(t, l) == l \in t.todo

NextInBatch(t, l) == l \in t.todo /\ \A m \in t.todo : l <= m

\* follow_chain is about to read l from the table because no row of it is cached.
Chases(t, l) ==
  /\ t.pc = "chase" /\ t.hops < CHAIN_FOLLOW_LIMIT
  /\ t.current = l /\ t.rows[l] = None
  /\ Visible(l, t.org)

Wants(w, l) == \/ tx[w].pc = "batch" /\ NextInBatch(tx[w], l)
               \/ Chases(tx[w], l)

WaitsOn(v, w) == v # w /\ \E l \in Leads : Wants(v, l) /\ lock[l] = w

\* The workers of C wait on one another and on nobody else.
Deadlocked(C) ==
  C # {} /\ \A w \in C : (\E v \in C : WaitsOn(w, v)) /\ (\E v \in C : WaitsOn(v, w))

\* The transaction ends without a trace and the caller gets an error.
Abort(w, code) ==
  /\ tx' = [tx EXCEPT ![w] = Idle]
  /\ lock' = Unlocked(w)
  /\ answer' = [answer EXCEPT ![w] = Refusal(code)]
  /\ UNCHANGED <<row, events, left>>

\* A step that touches nothing but the worker's own variables.
Step(w, t) == tx' = [tx EXCEPT ![w] = t] /\ UNCHANGED <<row, lock, answer, events, left>>

\* Mutation of LockRow: the read without FOR UPDATE.
ReadRow(w, l, t) ==
  /\ tx' = [tx EXCEPT ![w] =
       IF Visible(l, t.org) THEN [t EXCEPT !.rows[l] = row[l]] ELSE t]
  /\ UNCHANGED <<row, lock, answer, events, left>>

\* A row comes back locked.  If it stopped matching the WHERE clause while the
\* statement waited for it, the lock stays but the row is left out.
LockRow(w, l, t) ==
  /\ lock[l] = None
  /\ lock' = [lock EXCEPT ![l] = w]
  /\ tx' = [tx EXCEPT ![w] =
       IF Visible(l, t.org) THEN [t EXCEPT !.rows[l] = row[l]] ELSE t]
  /\ UNCHANGED <<row, answer, events, left>>

-----------------------------------------------------------------------------
\* A batch of the wrong shape is refused before the table is touched.
RefuseShape(w, r) ==
  /\ tx[w].pc = "idle" /\ left > 0
  /\ ShapeError(r) # "none"
  /\ answer' = [answer EXCEPT ![w] = Refusal(ShapeError(r))]
  /\ left' = left - 1
  /\ UNCHANGED <<row, lock, tx, events>>

\* The transaction opens and the locking read takes its snapshot: only rows
\* visible now will be locked.
Accept(w, r) ==
  /\ tx[w].pc = "idle"
  /\ ShapeError(r) = "none"
  /\ LET t == [Idle EXCEPT !.pc = "batch", !.master = r.master, !.ids = r.ids, !.org = r.org]
     IN tx' = [tx EXCEPT ![w] = [t EXCEPT !.todo = {l \in FetchIds(t) : Visible(l, t.org)},
                                          !.open = FirstOccurrences(t.ids)]]
  /\ UNCHANGED <<row, lock, answer, events>>

\* One of the merges the bound allows.
Begin(w, r) == left > 0 /\ left' = left - 1 /\ Accept(w, r)

\* ORDER BY id FOR UPDATE: the lowest row not locked yet, once it is free.
LockBatchRow(w) ==
  /\ tx[w].pc = "batch"
  /\ \E l \in Leads : NextInBatch(tx[w], l)
                        /\ LockRow(w, l, [tx[w] EXCEPT !.todo = @ \ {l}])

-----------------------------------------------------------------------------
BatchRead(t) == t.pc = "batch" /\ t.todo = {}
BatchFound(t) == BatchRead(t) /\ \A l \in FetchIds(t) : t.rows[l] # None

\* Every named id must have come back, the pinned master included.
BatchMissing(w) ==
  /\ BatchRead(tx[w]) /\ ~BatchFound(tx[w])
  /\ Abort(w, "not_found")

\* Mutation of PinAbsorbed: the pin is the master, absorbed or not.
PinTrusted(t) == FALSE

PinAbsorbed(t) == t.rows[t.master].merged_into # None

ResolvePinned(w) ==
  LET t == tx[w] IN
  /\ BatchFound(t) /\ t.master # None /\ ~PinAbsorbed(t)
  /\ Step(w, [t EXCEPT !.pc = "classify", !.master_id = t.master])

\* The pinned lead was itself absorbed: follow its chain to the master.
Redirect(w) ==
  LET t == tx[w] IN
  /\ BatchFound(t) /\ t.master # None /\ PinAbsorbed(t)
  /\ Step(w, [t EXCEPT !.pc = "chase", !.redirected_from = t.master,
                       !.current = t.rows[t.master].merged_into])

\* Mutation of LiveBatch: absorbed leads stay candidates for the master.
WholeBatch(t) == FetchIds(t)

LiveBatch(t) == {l \in FetchIds(t) : t.rows[l].merged_into = None}

ResolveAuto(w) ==
  LET t == tx[w] IN
  /\ BatchFound(t) /\ t.master = None
  /\ \E l \in LiveBatch(t) :
       /\ MostCredible(t, l, LiveBatch(t))
       /\ Step(w, [t EXCEPT !.pc = "classify", !.master_id = l])

AutoAllAbsorbed(w) ==
  /\ BatchFound(tx[w]) /\ tx[w].master = None /\ LiveBatch(tx[w]) = {}
  /\ Abort(w, "not_found")

-----------------------------------------------------------------------------
\* follow_chain: read (and lock) the row under the cursor unless it is cached.
ChaseFetch(w) ==
  \E l \in Leads : Chases(tx[w], l) /\ LockRow(w, l, tx[w])

ChaseMissing(w) ==
  /\ tx[w].pc = "chase" /\ tx[w].hops < CHAIN_FOLLOW_LIMIT
  /\ tx[w].rows[tx[w].current] = None
  /\ ~Visible(tx[w].current, tx[w].org)
  /\ Abort(w, "not_found")

AtCached(t) ==
  t.pc = "chase" /\ t.hops < CHAIN_FOLLOW_LIMIT /\ t.rows[t.current] # None

\* Mutation of Hop: the chain is followed without counting.
UncountedHop(hops) == hops

Hop(hops) == hops + 1

ChaseHop(w) ==
  LET t == tx[w] IN
  /\ AtCached(t) /\ t.rows[t.current].merged_into # None
  /\ Step(w, [t EXCEPT !.current = t.rows[t.current].merged_into, !.hops = Hop(t.hops)])

ChaseTooDeep(w) ==
  /\ tx[w].pc = "chase" /\ tx[w].hops = CHAIN_FOLLOW_LIMIT
  /\ Abort(w, "chain_too_deep")

\* The end of the chain, when it was the pinned master's.
ChaseFoundMaster(w) ==
  LET t == tx[w] IN
  /\ AtCached(t) /\ t.rows[t.current].merged_into = None
  /\ t.master_id = None
  /\ Step(w, [t EXCEPT !.pc = "classify", !.master_id = t.current,
                       !.current = None, !.hops = 0])

\* The position being classified: the first one open.
NextOpen(t, i) == i \in t.open /\ \A j \in t.open : i <= j

\* Mutation of OwnedByMaster: whoever owns the id, it counts as ours.
OwnedByAny(t) == TRUE

OwnedByMaster(t) == t.current = t.master_id

\* The end of the chain of an id to absorb: it already belongs to somebody.
ChaseFoundOwner(w) ==
  LET t == tx[w] IN
  /\ AtCached(t) /\ t.rows[t.current].merged_into = None
  /\ t.master_id # None
  /\ \E i \in t.open :
       /\ NextOpen(t, i)
       /\ LET u == [t EXCEPT !.pc = "classify", !.open = @ \ {i},
                             !.current = None, !.hops = 0]
          IN IF OwnedByMaster(t)
             THEN Step(w, [u EXCEPT !.already = @ \cup {t.ids[i]}])
             ELSE Step(w, [u EXCEPT !.elsewhere = @ \cup {<<t.ids[i], t.current>>}])

-----------------------------------------------------------------------------
\* Mutations of Absorbable: the converted check forgotten, or inverted.
AbsorbableAlways(t, l) == TRUE
AbsorbableConverted(t, l) == t.rows[l].status = "converted"

Absorbable(t, l) == t.rows[l].status # "converted"

Classifies(t, i) == t.pc = "classify" /\ NextOpen(t, i)

\* A pinned merge that names the master it was redirected to is refused; an
\* auto merge always names its own master and passes over it.
ClassifyMaster(w) ==
  LET t == tx[w] IN
  \E i \in t.open :
    /\ Classifies(t, i) /\ t.ids[i] = t.master_id
    /\ IF t.master # None THEN Abort(w, "absorb_self")
       ELSE Step(w, [t EXCEPT !.open = @ \ {i}])

ClassifyConverted(w) ==
  LET t == tx[w] IN
  \E i \in t.open :
    /\ Classifies(t, i) /\ t.ids[i] # t.master_id
    /\ ~Absorbable(t, t.ids[i])
    /\ Abort(w, "absorb_converted")

ClassifyAbsorbed(w) ==
  LET t == tx[w] IN
  \E i \in t.open :
    /\ Classifies(t, i) /\ t.ids[i] # t.master_id
    /\ Absorbable(t, t.ids[i]) /\ t.rows[t.ids[i]].merged_into # None
    /\ Step(w, [t EXCEPT !.pc = "chase", !.current = t.rows[t.ids[i]].merged_into])

ClassifyLive(w) ==
  LET t == tx[w] IN
  \E i \in t.open :
    /\ Classifies(t, i) /\ t.ids[i] # t.master_id
    /\ Absorbable(t, t.ids[i]) /\ t.rows[t.ids[i]].merged_into = None
    /\ Step(w, [t EXCEPT !.open = @ \ {i}, !.absorb_live = @ \cup {t.ids[i]}])

-----------------------------------------------------------------------------
Classified(t) == t.pc = "classify" /\ t.open = {}

Success(t) == [code |-> "ok",
               to |-> [master |-> t.master, ids |-> t.ids, org |-> t.org],
               master_id |-> t.master_id,
               redirected_from |-> t.redirected_from,
               absorbed_ids |-> t.already \cup t.absorb_live,
               elsewhere |-> t.elsewhere]

\* Nothing to absorb: the transaction commits without a write or an event.
CommitNothing(w) ==
  /\ Classified(tx[w]) /\ tx[w].absorb_live = {}
  /\ tx' = [tx EXCEPT ![w] = Idle]
  /\ lock' = Unlocked(w)
  /\ answer' = [answer EXCEPT ![w] = Success(tx[w])]
  /\ UNCHANGED <<row, events, left>>

\* fill_master_fields writes every column from what was read, absorb_lead sets
\* each pointer if it is still null, and the commit releases every lock.
Commit(w) ==
  LET t == tx[w] IN
  /\ Classified(t) /\ t.absorb_live # {}
  /\ \E filled \in [Fields -> Values \cup {None}] :
       /\ \A f \in Fields : FillOrKeep(t, f, filled[f])
       /\ row' = [l \in Leads |->
            IF l = t.master_id THEN [row[l] EXCEPT !.fields = filled]
            ELSE IF l \in t.absorb_live /\ ~Merged(l)
                 THEN [row[l] EXCEPT !.merged_into = t.master_id] ELSE row[l]]
  /\ lock' = Unlocked(w)
  /\ tx' = [tx EXCEPT ![w] = [t EXCEPT !.pc = "publish", !.rows = Idle.rows]]
  /\ UNCHANGED <<answer, events, left>>

\* Mutations of MergedEvent: it names the pin instead of the resolved master,
\* or only the leads an earlier merge had absorbed.
PinnedEvent(t) == [lead_id |-> t.master, absorbed_ids |-> t.already \cup t.absorb_live]
RepeatedEvent(t) == [lead_id |-> t.master_id, absorbed_ids |-> t.already]

MergedEvent(t) == [lead_id |-> t.master_id, absorbed_ids |-> t.already \cup t.absorb_live]

\* LeadMerged goes out after the commit, then the caller gets the outcome.
Publish(w) ==
  LET t == tx[w] IN
  /\ t.pc = "publish"
  /\ events' = Append(events, MergedEvent(t))
  /\ answer' = [answer EXCEPT ![w] = Success(t)]
  /\ tx' = [tx EXCEPT ![w] = Idle]
  /\ UNCHANGED <<row, lock, left>>

-----------------------------------------------------------------------------
\* PostgreSQL breaks a cycle of waits by failing one statement in it.
DeadlockVictim(w) ==
  /\ \E C \in SUBSET Workers : w \in C /\ Deadlocked(C)
  /\ Abort(w, "internal_error")

\* The process dies, or the caller hangs up and the handler is dropped: an open
\* transaction rolls back, a committed one stays without its event.
Crash(w) ==
  /\ MayCrash /\ tx[w].pc # "idle"
  /\ Abort(w, "lost")

\* The other writers of the table.
OtherWriter ==
  /\ \E l \in Leads :
       \/ "qualify" \in Environment /\ MarkQualified(l)
       \/ "convert" \in Environment /\ \E p \in Parties : ClaimConversion(l, p)
       \/ "delete" \in Environment /\ SoftDelete(l)
       \/ "restore" \in Environment /\ Restore(l)
       \/ "purge" \in Environment /\ Purge(l)
  /\ UNCHANGED <<tx, answer, events, left>>

Init ==
  /\ TableInit
  /\ tx = [w \in Workers |-> Idle]
  /\ answer = [w \in Workers |-> Refusal("none")]
  /\ events = <<>>
  /\ left = MaxRequests

\* What a worker does by itself once it has accepted a merge.
Progress(w) ==
  \/ BatchMissing(w) \/ ResolvePinned(w) \/ Redirect(w) \/ ResolveAuto(w)
  \/ AutoAllAbsorbed(w) \/ ChaseMissing(w) \/ ChaseHop(w) \/ ChaseTooDeep(w)
  \/ ChaseFoundMaster(w) \/ ChaseFoundOwner(w) \/ ClassifyMaster(w)
  \/ ClassifyConverted(w) \/ ClassifyAbsorbed(w) \/ ClassifyLive(w)
  \/ CommitNothing(w) \/ Commit(w) \/ Publish(w)

\* Every merge the bound allows has been answered.
Quiescent ==
  /\ left = 0 /\ \A w \in Workers : tx[w].pc = "idle"
  /\ UNCHANGED vars

Next ==
  \/ \E w \in Workers :
       \/ \E r \in Requests : RefuseShape(w, r) \/ Begin(w, r)
       \/ LockBatchRow(w) \/ ChaseFetch(w) \/ Progress(w)
       \/ DeadlockVictim(w) \/ Crash(w)
  \/ OtherWriter
  \/ Quiescent

Spec == Init /\ [][Next]_vars

\* A started merge keeps running, PostgreSQL's deadlock detector fires, and a
\* row's waiters are queued, so a merge is not passed over for ever.
Fairness ==
  \A w \in Workers :
    /\ WF_vars(Progress(w)) /\ WF_vars(DeadlockVictim(w))
    /\ SF_vars(LockBatchRow(w)) /\ SF_vars(ChaseFetch(w))

FairSpec == Spec /\ Fairness

-----------------------------------------------------------------------------
TypeOK ==
  /\ row \in [Leads -> Row]
  /\ lock \in [Leads -> Sessions \cup {None}]
  /\ tx \in [Workers -> Transaction]
  /\ answer \in [Workers -> Answer]
  /\ events \in Seq(Event)
  /\ left \in Nat

\* Nothing a merge decides on can change before it commits: every row it has
\* read is still locked by it and still reads the same.
CacheFresh ==
  \A w \in Workers, l \in Leads :
    tx[w].rows[l] # None => lock[l] = w /\ tx[w].rows[l] = row[l]

\* Absorb pointers never form a cycle, whatever merges run at once: every set
\* of leads has one that does not point into the set.
Acyclic ==
  \A S \in SUBSET Leads : S # {} => \E l \in S : row[l].merged_into \notin S

\* l's chain of pointers runs through m, or breaks off before it at a lead that
\* was purged: with no purges it runs through m.
Reaches(l, m) ==
  \A S \in SUBSET Leads :
    /\ l \in S
    /\ \A k \in S : row[k].life # "gone" /\ (Merged(k) => row[k].merged_into \in S)
    => m \in S

\* What a caller was told stays true: each id reported as absorbed leads to the
\* reported master, and each one reported elsewhere to the owner named, as far as
\* the chain is still stored.
AnswersStayTrue ==
  \A w \in Workers : answer[w].code = "ok" =>
    /\ \A l \in answer[w].absorbed_ids : Reaches(l, answer[w].master_id)
    /\ \A p \in answer[w].elsewhere : Reaches(p[1], p[2]) /\ p[2] # answer[w].master_id

\* Every lead a published event names leads to the event's master, so a host
\* that re-points on the event never re-points to the wrong person.
EventsStayTrue ==
  \A i \in DOMAIN events :
    \A l \in events[i].absorbed_ids : Reaches(l, events[i].lead_id)

\* Every absorb is announced: an absorbed lead is named by an event of its
\* master, or by the one its merge is about to publish.
AbsorbsAnnounced ==
  \A l \in Leads : Merged(l) =>
    \/ \E i \in DOMAIN events : /\ events[i].lead_id = row[l].merged_into
                               /\ l \in events[i].absorbed_ids
    \/ \E w \in Workers : /\ tx[w].pc = "publish"
                          /\ tx[w].master_id = row[l].merged_into
                          /\ l \in tx[w].absorb_live

\* Asking again is safe: the same auto merge never picks a second master, and
\* the same pinned merge ends on the same chain, however the two interleave.
RepeatsAgree ==
  \A w, v \in Workers :
    LET a == answer[w]
        b == answer[v]
    IN a.code = "ok" /\ b.code = "ok" /\ a.to = b.to =>
         IF a.to.master = None THEN a.master_id = b.master_id
         ELSE Reaches(a.master_id, b.master_id) \/ Reaches(b.master_id, a.master_id)

\* Locks belong to open transactions: one that committed, rolled back, lost a
\* deadlock or died keeps none.
LocksAreHeld ==
  \A l \in Leads, w \in Workers : lock[l] = w => tx[w].pc \notin {"idle", "publish"}

\* Merges that are still locking their batches never deadlock with one another:
\* a cycle of waits always has a merge in it that is following a chain.
BatchLocksAreOrdered ==
  \A C \in SUBSET Workers : Deadlocked(C) => \E w \in C : tx[w].pc = "chase"

\* A fenced caller is told of leads of its own org only, although follow_chain
\* reads rows nobody named and an unfenced caller may have linked two orgs.
FenceHolds ==
  \A w \in Workers :
    LET a == answer[w] IN
    a.code = "ok" /\ a.to.org # None =>
      \A l \in {a.master_id} \cup a.absorbed_ids \cup {p[2] : p \in a.elsewhere} :
        OrgOf[l] = a.to.org

\* A merge, with all its steps, is one step of the abstract specification: the
\* committed table only ever changes as AbsorbForest says.
Forest == INSTANCE AbsorbForest WITH
            parent <- [l \in Leads |-> row[l].merged_into],
            converted <- {l \in Leads : row[l].status = "converted"},
            fields <- [l \in Leads |-> row[l].fields],
            gone <- {l \in Leads : row[l].life = "gone"}

ImplementsForest == Forest!ForestSpec

\* Pointers are written once and no committed value is lost but with its lead,
\* under any interleaving.
NothingLost == Forest!NothingLost

\* Every accepted merge is answered.
MergesAnswered == \A w \in Workers : tx[w].pc # "idle" ~> tx[w].pc = "idle"
=============================================================================
