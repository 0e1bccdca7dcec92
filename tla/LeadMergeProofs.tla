--------------------------- MODULE LeadMergeProofs ---------------------------
(***************************************************************************)
(* merge_leads keeps its promises for any leads, workers, orgs, requests    *)
(* and limits.  The inductive invariant says what a transaction may rely on *)
(* between two statements: the rows it has read are locked and unchanged    *)
(* (Holds), and what it plans to write is justified by those rows (Plan).   *)
(* First, the order it picks its master by: "the most credible lead" names  *)
(* exactly one lead of any batch, so the suggestion, the auto pick and the  *)
(* field fill cannot disagree.                                              *)
(***************************************************************************)
EXTENDS LeadMerge, FiniteSetTheorems, WellFoundedInduction, TLAPS

(* The confidence order.                                                    *)

\* Every set of ids or positions has a least one.
LEMMA LeastNumber ==
  ASSUME NEW S, S \subseteq Nat, S # {}
  PROVE  \E x \in S : \A y \in S : x <= y
<1>1. PICK x \in S : \A y \in S : <<y, x>> \notin OpToRel(<, Nat)
  BY NatLessThanWellFounded, WFMin
<1>2. \A y \in S : ~ (y < x)
  BY <1>1 DEF OpToRel
<1> QED
  BY <1>2

\* A finite set has a first element under a relation that is transitive and
\* total on it: without one, the set and every set left when an element is
\* taken out would have to have smaller counterexamples.
LEMMA FiniteHasFirst ==
  ASSUME NEW R, NEW S, IsFiniteSet(S), S # {},
         \A x, y, z \in S : <<x, y>> \in R /\ <<y, z>> \in R => <<x, z>> \in R,
         \A x, y \in S : x # y => <<x, y>> \in R \/ <<y, x>> \in R
  PROVE  \E x \in S : \A y \in S \ {x} : <<x, y>> \in R
<1> DEFINE Bad == {T \in SUBSET S : T # {} /\ \A x \in T : \E y \in T \ {x} : <<x, y>> \notin R}
           Sizes == {Cardinality(T) : T \in Bad}
<1> SUFFICES ASSUME Bad # {} PROVE FALSE
  OBVIOUS
<1>1. \A T \in SUBSET S : IsFiniteSet(T) /\ Cardinality(T) \in Nat
  BY FS_Subset, FS_CardinalityType
<1>2. Sizes \subseteq Nat /\ Sizes # {}
  BY <1>1
<1>3. PICK n \in Sizes : \A k \in Sizes : n <= k
  BY <1>2, LeastNumber
<1>4. PICK T \in Bad : \A U \in Bad : Cardinality(T) <= Cardinality(U)
  <2>1. PICK T \in Bad : n = Cardinality(T)
    BY <1>3
  <2>2. \A U \in Bad : Cardinality(T) <= Cardinality(U)
    BY <1>3, <2>1
  <2> QED
    BY <2>2
<1>5. PICK t \in T : TRUE
  OBVIOUS
<1> DEFINE U == T \ {t}
<1>6. U \notin Bad
  <2>1. Cardinality(U) = Cardinality(T) - 1 /\ Cardinality(T) \in Nat
    BY <1>1, <1>5, FS_RemoveElement
  <2> HIDE DEF Bad, U
  <2> QED
    BY <1>4, <2>1
<1>7. U # {} /\ U \subseteq S
  BY <1>5
<1>8. PICK x \in U : \A y \in U \ {x} : <<x, y>> \in R
  BY <1>6, <1>7
<1>9. <<x, t>> \notin R
  BY <1>8
<1>10. <<t, x>> \in R
  BY <1>5, <1>8, <1>9
<1>11. \A y \in T \ {t} : <<t, y>> \in R
  BY <1>8, <1>10
<1> QED
  BY <1>5, <1>11

\* Every status has a rank, so ranks compare as numbers.
LEMMA StatusRankIsNat ==
  ASSUME NEW s \in Statuses
  PROVE  StatusRank(s) \in Nat
BY DEF StatusRank, Statuses

\* No lead ranks above itself (confidence_cmp answers Equal on equal keys).
THEOREM RanksAboveIrreflexive ==
  ASSUME NEW a \in ConfidenceKey
  PROVE  ~RanksAbove(a, a)
<1>1. StatusRank(a.status) \in Nat
  BY StatusRankIsNat DEF ConfidenceKey
<1>2. ~Newer(a, a)
  BY NoneIsAbsent DEF Newer, ConfidenceKey
<1> QED
  BY <1>1, <1>2 DEF RanksAbove, ConfidenceKey

\* Creation times order transitively, an absent one counting as oldest.
LEMMA NewerTransitive ==
  ASSUME NEW a \in ConfidenceKey, NEW b \in ConfidenceKey, NEW c \in ConfidenceKey,
         Newer(a, b), Newer(b, c)
  PROVE  Newer(a, c)
BY NoneIsAbsent DEF Newer, ConfidenceKey

\* Ranking above is transitive: sorting by confidence_cmp is well defined.
THEOREM RanksAboveTransitive ==
  ASSUME NEW a \in ConfidenceKey, NEW b \in ConfidenceKey, NEW c \in ConfidenceKey,
         RanksAbove(a, b), RanksAbove(b, c)
  PROVE  RanksAbove(a, c)
<1> DEFINE ra == StatusRank(a.status)
           rb == StatusRank(b.status)
           rc == StatusRank(c.status)
<1>1. ra \in Nat /\ rb \in Nat /\ rc \in Nat
  BY StatusRankIsNat DEF ConfidenceKey
<1>2. ra >= rb /\ rb >= rc
  BY <1>1 DEF RanksAbove
<1>3. CASE ra > rb \/ rb > rc
  BY <1>1, <1>2, <1>3 DEF RanksAbove
<1>4. CASE ra = rb /\ rb = rc
  <2>1. CASE Anchored(a) /\ ~Anchored(c)
    BY <1>4, <2>1 DEF RanksAbove
  <2>2. CASE ~(Anchored(a) /\ ~Anchored(c))
    <3>1. Anchored(a) = Anchored(b) /\ Anchored(b) = Anchored(c)
      BY <1>1, <1>4, <2>2 DEF RanksAbove, Anchored
    <3>2. /\ Newer(a, b) \/ (a.created_at = b.created_at /\ a.id < b.id)
          /\ Newer(b, c) \/ (b.created_at = c.created_at /\ b.id < c.id)
      BY <1>1, <1>4, <3>1 DEF RanksAbove
    <3>3. Newer(a, c) \/ (a.created_at = c.created_at /\ a.id < c.id)
      <4>1. CASE Newer(a, b) /\ Newer(b, c)
        BY <4>1, NewerTransitive
      <4>2. CASE ~(Newer(a, b) /\ Newer(b, c))
        BY <3>2, <4>2 DEF Newer, ConfidenceKey
      <4> QED
        BY <4>1, <4>2
    <3> QED
      BY <1>4, <3>1, <3>3 DEF RanksAbove
  <2> QED
    BY <2>1, <2>2
<1> QED
  BY <1>1, <1>2, <1>3, <1>4

\* Of two different leads one ranks above the other: ties always break.
THEOREM RanksAboveTotal ==
  ASSUME NEW a \in ConfidenceKey, NEW b \in ConfidenceKey, a.id # b.id
  PROVE  RanksAbove(a, b) \/ RanksAbove(b, a)
<1>1. StatusRank(a.status) \in Nat /\ StatusRank(b.status) \in Nat
  BY StatusRankIsNat DEF ConfidenceKey
<1>2. Newer(a, b) \/ Newer(b, a) \/ a.created_at = b.created_at
  BY NoneIsAbsent DEF Newer, ConfidenceKey
<1>3. a.id < b.id \/ b.id < a.id
  BY DEF ConfidenceKey
<1>4. (Anchored(a) /\ ~Anchored(b)) \/ (Anchored(b) /\ ~Anchored(a))
        \/ Anchored(a) = Anchored(b)
  BY DEF Anchored
<1> QED
  BY <1>1, <1>2, <1>3, <1>4 DEF RanksAbove

\* Of any leads at all, exactly one is the most credible: the auto pick and the
\* suggested master exist and nobody else can pick another.
THEOREM OneMostCredible ==
  ASSUME NEW K \in SUBSET ConfidenceKey, IsFiniteSet(K), K # {},
         \A a, b \in K : a # b => a.id # b.id
  PROVE  \E a \in K : /\ \A b \in K \ {a} : RanksAbove(a, b)
                      /\ \A c \in K : (\A b \in K \ {c} : RanksAbove(c, b)) => c = a
<1> DEFINE R == {p \in K \X K : RanksAbove(p[1], p[2])}
<1>1. \A a, b \in K : <<a, b>> \in R <=> RanksAbove(a, b)
  OBVIOUS
<1>2. \A a, b, c \in K : RanksAbove(a, b) /\ RanksAbove(b, c) => RanksAbove(a, c)
  BY RanksAboveTransitive
<1>3. \A a, b \in K : a # b => RanksAbove(a, b) \/ RanksAbove(b, a)
  BY RanksAboveTotal
<1> HIDE DEF R
<1>4. PICK a \in K : \A b \in K \ {a} : <<a, b>> \in R
  BY <1>1, <1>2, <1>3, FiniteHasFirst
<1>5. \A c \in K : (\A b \in K \ {c} : RanksAbove(c, b)) => c = a
  BY <1>1, <1>2, <1>4, RanksAboveIrreflexive
<1> QED
  BY <1>1, <1>4, <1>5

-----------------------------------------------------------------------------
(* What a merge may rely on.                                               *)

\* What worker w's locks buy it.  Only an open transaction holds locks.
Holds(w) ==
  /\ \A l \in Leads : tx[w].rows[l] # None =>
       lock[l] = w /\ tx[w].rows[l] = row[l] /\ Visible(l, tx[w].org)
  /\ tx[w].pc \in {"idle", "publish"} => \A l \in Leads : lock[l] # w

\* What the local state of a merge says is true of the rows it has read.
Plan(t) ==
  /\ t.open \subseteq DOMAIN t.ids
  /\ t.pc = "batch" => t.master_id = None /\ t.absorb_live = {}
  /\ t.pc \in {"chase", "classify"} => \A l \in FetchIds(t) : t.rows[l] # None
  /\ t.pc = "chase" => t.current \in Leads
  /\ t.pc \in {"classify", "publish"} => t.master_id \in Leads
  /\ t.pc # "publish" /\ t.master_id # None =>
       t.rows[t.master_id] # None /\ t.rows[t.master_id].merged_into = None
  /\ t.pc # "publish" => \A d \in t.absorb_live :
       /\ t.master_id # None /\ d # t.master_id
       /\ t.rows[d] # None
       /\ t.rows[d].merged_into = None /\ t.rows[d].status # "converted"

IInv == TypeOK /\ \A w \in Workers : Holds(w) /\ Plan(tx[w])

-----------------------------------------------------------------------------
\* The absent value is nobody's id and no row.
LEMMA NoneIsNothing ==
  /\ None \notin Leads /\ None \notin Workers /\ None \notin Row
  /\ None \notin Orgs /\ None \notin Values /\ None \notin Parties
  /\ Workers \subseteq Sessions /\ None \notin Sessions
BY TableAssumption, NoneIsAbsent

\* The resting state of a worker is well formed and plans nothing.
LEMMA IdleIsSound == Idle \in Transaction /\ Plan(Idle)
<1>1. Idle \in Transaction
  BY DEF Idle, Transaction
<1>2. Plan(Idle)
  BY DEF Idle, Plan
<1> QED
  BY <1>1, <1>2

\* The rows a merge fetches are leads.
LEMMA FetchIdsAreLeads ==
  ASSUME NEW t \in Transaction
  PROVE  FetchIds(t) \subseteq Leads
BY DEF FetchIds, Transaction, Range

\* Every refusal is an answer.
LEMMA RefusalIsAnswer ==
  ASSUME NEW code \in Codes
  PROVE  Refusal(code) \in Answer
BY DEF Refusal, Answer

\* Every success is an answer.
LEMMA SuccessIsAnswer ==
  ASSUME NEW t \in Transaction
  PROVE  Success(t) \in Answer
BY DEF Success, Answer, Transaction, Request, Codes

-----------------------------------------------------------------------------
(* The shapes a step of a worker can have, each preserving the invariant.   *)

\* A step on the worker's own variables, inside its transaction.
LEMMA StepPreserves ==
  ASSUME IInv, NEW w \in Workers, NEW t \in Transaction, Step(w, t),
         Plan(t), t.rows = tx[w].rows, t.org = tx[w].org,
         t.pc \notin {"idle", "publish"}
  PROVE  IInv'
<1>1. TypeOK'
  BY DEF IInv, TypeOK, Step
<1>2. ASSUME NEW v \in Workers
      PROVE  Holds(v)' /\ Plan(tx[v])'
  <2>1. tx'[v] = IF v = w THEN t ELSE tx[v]
    BY DEF IInv, TypeOK, Step
  <2>2. Holds(v)'
    BY <2>1 DEF IInv, Holds, Step, Visible, InScope
  <2>3. Plan(tx'[v])
    BY <2>1 DEF IInv
  <2>4. Plan(tx[v])' <=> Plan(tx'[v])
    BY DEF Plan, FetchIds
  <2> QED
    BY <2>2, <2>3, <2>4
<1> QED
  BY <1>1, <1>2 DEF IInv

\* A row is locked, and cached when it is still there.
LEMMA LockRowPreserves ==
  ASSUME IInv, NEW w \in Workers, NEW l \in Leads, NEW t \in Transaction,
         LockRow(w, l, t),
         Plan(t), t.rows = tx[w].rows, t.org = tx[w].org,
         t.pc \in {"batch", "chase"}
  PROVE  IInv'
<1> DEFINE u == IF Visible(l, t.org) THEN [t EXCEPT !.rows[l] = row[l]] ELSE t
<1>1. u \in Transaction /\ u.pc = t.pc /\ u.org = t.org
  BY DEF IInv, TypeOK, Transaction
<1>2. \A k \in Leads : u.rows[k] = t.rows[k] \/ (k = l /\ u.rows[k] = row[l] /\ Visible(l, u.org))
  BY DEF Transaction, Visible
<1>3. t.rows[l] = None
  BY NoneIsNothing DEF IInv, Holds, LockRow
<1>4. Plan(u)
  <2>1. \A k \in Leads : t.rows[k] # None => u.rows[k] = t.rows[k]
    BY <1>2, <1>3
  <2>2. /\ u.open = t.open /\ u.ids = t.ids /\ u.master = t.master /\ u.current = t.current
        /\ u.master_id = t.master_id /\ u.absorb_live = t.absorb_live
    BY DEF Transaction
  <2>3. FetchIds(u) = FetchIds(t) /\ FetchIds(t) \subseteq Leads
    BY <2>2, FetchIdsAreLeads DEF FetchIds
  <2>4. t.absorb_live \subseteq Leads /\ t.master_id \in Leads \cup {None}
    BY DEF Transaction
  <2> QED
    BY <1>1, <2>1, <2>2, <2>3, <2>4 DEF Plan
<1>5. tx' = [tx EXCEPT ![w] = u] /\ lock' = [lock EXCEPT ![l] = w] /\ lock[l] = None
        /\ row' = row
  BY DEF LockRow
<1>6. TypeOK'
  <2>1. tx' \in [Workers -> Transaction]
    BY <1>1, <1>5 DEF IInv, TypeOK
  <2>2. lock' \in [Leads -> Sessions \cup {None}]
    BY <1>5, NoneIsNothing DEF IInv, TypeOK
  <2> QED
    BY <1>5, <2>1, <2>2 DEF IInv, TypeOK, LockRow
<1>7. ASSUME NEW v \in Workers
      PROVE  Holds(v)' /\ Plan(tx[v])'
  <2>1. tx'[v] = IF v = w THEN u ELSE tx[v]
    BY <1>5 DEF IInv, TypeOK
  <2>2. \A k \in Leads : lock'[k] = IF k = l THEN w ELSE lock[k]
    BY <1>5 DEF IInv, TypeOK
  <2>3. ASSUME v = w PROVE Holds(v)'
    <3>1. tx'[v] = u /\ u.org = tx[w].org /\ u.pc \notin {"idle", "publish"}
      BY <1>1, <2>1, <2>3
    <3>2. \A k \in Leads : tx[w].rows[k] # None =>
            lock[k] = w /\ tx[w].rows[k] = row[k] /\ Visible(k, tx[w].org)
      BY DEF IInv, Holds
    <3>3. ASSUME NEW k \in Leads, u.rows[k] # None
          PROVE  lock'[k] = w /\ u.rows[k] = row'[k] /\ Visible(k, u.org)
      <4>1. CASE u.rows[k] = t.rows[k]
        BY <1>5, <2>2, <3>1, <3>2, <3>3, <4>1
      <4>2. CASE k = l /\ u.rows[k] = row[l] /\ Visible(l, u.org)
        BY <1>5, <2>2, <4>2
      <4> QED
        BY <1>2, <4>1, <4>2
    <3> QED
      BY <2>3, <3>1, <1>5, <3>3 DEF Holds, Visible, InScope
  <2>4. ASSUME v # w PROVE Holds(v)'
    BY <1>5, <2>1, <2>2, <2>4, NoneIsNothing DEF IInv, Holds, Visible, InScope
  <2>5. Plan(tx'[v])
    BY <1>4, <2>1 DEF IInv
  <2>6. Plan(tx[v])' <=> Plan(tx'[v])
    BY DEF Plan, FetchIds
  <2> QED
    BY <2>3, <2>4, <2>5, <2>6
<1> QED
  BY <1>6, <1>7 DEF IInv

\* The locks of others survive one worker letting go of its own.
LEMMA UnlockedKeepsOthers ==
  ASSUME IInv, NEW w \in Workers, lock' = Unlocked(w)
  PROVE  /\ lock' \in [Leads -> Sessions \cup {None}]
         /\ \A l \in Leads : lock'[l] # w
         /\ \A v \in Workers \ {w}, l \in Leads : lock'[l] = v <=> lock[l] = v
BY NoneIsNothing DEF IInv, TypeOK, Unlocked

\* The transaction ends with the table as it is: a refusal, a rollback, a
\* commit of nothing.
LEMMA EndPreserves ==
  ASSUME IInv, NEW w \in Workers, tx' = [tx EXCEPT ![w] = Idle],
         lock' = Unlocked(w), row' = row,
         answer' \in [Workers -> Answer], events' \in Seq(Event), left' \in Nat
  PROVE  IInv'
<1>1. TypeOK'
  BY IdleIsSound, UnlockedKeepsOthers DEF IInv, TypeOK
<1>2. ASSUME NEW v \in Workers
      PROVE  Holds(v)' /\ Plan(tx[v])'
  <2>1. tx'[v] = IF v = w THEN Idle ELSE tx[v]
    BY DEF IInv, TypeOK
  <2>2. ASSUME v = w PROVE Holds(v)'
    <3>1. \A l \in Leads : Idle.rows[l] = None
      BY DEF Idle
    <3> QED
      BY <2>1, <2>2, <3>1, UnlockedKeepsOthers DEF Holds
  <2>3. ASSUME v # w PROVE Holds(v)'
    BY <2>1, <2>3, UnlockedKeepsOthers DEF IInv, Holds, Visible, InScope
  <2>4. Plan(tx'[v])
    BY <2>1, IdleIsSound DEF IInv
  <2>5. Plan(tx[v])' <=> Plan(tx'[v])
    BY DEF Plan, FetchIds
  <2> QED
    BY <2>2, <2>3, <2>4, <2>5
<1> QED
  BY <1>1, <1>2 DEF IInv

\* An abort is such an end.
LEMMA AbortPreserves ==
  ASSUME IInv, NEW w \in Workers, NEW code \in Codes, Abort(w, code)
  PROVE  IInv'
<1>1. answer' \in [Workers -> Answer] /\ events' \in Seq(Event) /\ left' \in Nat
  BY RefusalIsAnswer DEF IInv, TypeOK, Abort
<1> QED
  BY <1>1, EndPreserves DEF Abort

\* Another writer changes a row no transaction holds.
LEMMA UpdatePreserves ==
  ASSUME IInv, NEW l \in Leads, NEW new \in Row, NEW guard, Update(l, guard, new),
         UNCHANGED <<tx, answer, events, left>>
  PROVE  IInv'
<1>1. TypeOK'
  BY DEF IInv, TypeOK, Update
<1>2. ASSUME NEW v \in Workers
      PROVE  Holds(v)' /\ Plan(tx[v])'
  <2>1. \A k \in Leads : row'[k] = IF k = l THEN new ELSE row[k]
    BY DEF IInv, TypeOK, Update
  <2>2. Holds(v)'
    BY <2>1, NoneIsNothing DEF IInv, Holds, Visible, InScope, Update
  <2>3. Plan(tx[v])'
    BY DEF IInv, Plan, FetchIds
  <2> QED
    BY <2>2, <2>3
<1> QED
  BY <1>1, <1>2 DEF IInv

-----------------------------------------------------------------------------
(* One lemma per operation: what its step does is one of those shapes.      *)

\* Opening a merge leaves the table and everybody's locks alone.
LEMMA AcceptPreserves ==
  ASSUME IInv, NEW w \in Workers, NEW r \in Request, Accept(w, r), left' \in Nat
  PROVE  IInv'
<1> DEFINE t == [Idle EXCEPT !.pc = "batch", !.master = r.master, !.ids = r.ids, !.org = r.org]
           u == [t EXCEPT !.todo = {l \in FetchIds(t) : Visible(l, t.org)},
                          !.open = FirstOccurrences(t.ids)]
<1>2. t \in Transaction
  BY IdleIsSound DEF Transaction, Request
<1> DEFINE todo == {l \in FetchIds(t) : Visible(l, t.org)}
           open == FirstOccurrences(t.ids)
<1>3. t.pc = "batch" /\ t.rows = Idle.rows /\ t.master_id = None /\ t.absorb_live = {}
  BY IdleIsSound DEF Idle
<1> HIDE DEF t
<1>4. todo \subseteq Leads /\ open \subseteq DOMAIN t.ids /\ DOMAIN t.ids \subseteq Nat
  <2>1. todo \subseteq Leads
    BY <1>2, FetchIdsAreLeads
  <2>2. t.ids \in Seq(Leads)
    BY <1>2 DEF Transaction
  <2>3. DOMAIN t.ids \subseteq Nat
    BY <2>2
  <2> QED
    BY <2>1, <2>3 DEF FirstOccurrences
<1>5. /\ u \in Transaction
      /\ u.pc = "batch" /\ u.open \subseteq DOMAIN u.ids /\ u.rows = Idle.rows
      /\ u.master_id = None /\ u.absorb_live = {}
  <2> HIDE DEF todo, open
  <2>1. u = [t EXCEPT !.todo = todo, !.open = open]
    BY DEF todo, open
  <2> HIDE DEF u
  <2> QED
    BY <1>2, <1>3, <1>4, <2>1 DEF Transaction
<1>6. Plan(u)
  BY <1>5 DEF Plan
<1>7. tx' = [tx EXCEPT ![w] = u] /\ UNCHANGED <<row, lock, answer, events>>
  BY DEF Accept, t
<1>8. TypeOK'
  BY <1>5, <1>7 DEF IInv, TypeOK
<1>9. ASSUME NEW v \in Workers
      PROVE  Holds(v)' /\ Plan(tx[v])'
  <2>1. tx'[v] = IF v = w THEN u ELSE tx[v]
    BY <1>7 DEF IInv, TypeOK
  <2>2. \A l \in Leads : u.rows[l] = None
    BY <1>5 DEF Idle
  <2>3. Holds(v)'
    BY <1>5, <1>7, <2>1, <2>2 DEF IInv, Holds, Visible, InScope
  <2>4. Plan(tx'[v])
    BY <1>6, <2>1 DEF IInv
  <2>5. Plan(tx[v])' <=> Plan(tx'[v])
    BY DEF Plan, FetchIds
  <2> QED
    BY <2>3, <2>4, <2>5
<1> QED
  BY <1>8, <1>9 DEF IInv

\* A row of the batch is locked.
LEMMA LockBatchRowPreserves ==
  ASSUME IInv, NEW w \in Workers, LockBatchRow(w)
  PROVE  IInv'
<1>1. PICK l \in Leads : LockRow(w, l, [tx[w] EXCEPT !.todo = @ \ {l}])
  BY DEF LockBatchRow
<1> DEFINE t == [tx[w] EXCEPT !.todo = @ \ {l}]
<1>2. tx[w] \in Transaction /\ Plan(tx[w]) /\ tx[w].pc = "batch"
  BY DEF IInv, TypeOK, LockBatchRow
<1>3. t \in Transaction /\ t.rows = tx[w].rows /\ t.org = tx[w].org /\ t.pc = "batch"
  BY <1>2 DEF Transaction
<1>4. Plan(t)
  BY <1>2 DEF Plan, FetchIds, Transaction
<1> QED
  BY <1>1, <1>3, <1>4, LockRowPreserves

\* A row of a chain is locked.
LEMMA ChaseFetchPreserves ==
  ASSUME IInv, NEW w \in Workers, ChaseFetch(w)
  PROVE  IInv'
BY LockRowPreserves DEF ChaseFetch, Chases, IInv, TypeOK

\* Resolving the master, by its three ways.
LEMMA ResolvePreserves ==
  ASSUME IInv, NEW w \in Workers,
         ResolvePinned(w) \/ Redirect(w) \/ ResolveAuto(w)
  PROVE  IInv'
<1> DEFINE t == tx[w]
<1>1. /\ t \in Transaction /\ Plan(t) /\ t.pc = "batch"
      /\ \A l \in FetchIds(t) : t.rows[l] # None
      /\ t.master_id = None /\ t.absorb_live = {}
  BY DEF IInv, TypeOK, ResolvePinned, Redirect, ResolveAuto, BatchFound, BatchRead, Plan
<1>2. \A l \in FetchIds(t) : l \in Leads /\ t.rows[l] \in Row
  BY <1>1, FetchIdsAreLeads DEF Transaction
<1>3. ASSUME NEW m \in FetchIds(t), t.rows[m].merged_into = None,
             Step(w, [t EXCEPT !.pc = "classify", !.master_id = m])
      PROVE  IInv'
  <2> DEFINE u == [t EXCEPT !.pc = "classify", !.master_id = m]
  <2>1. u \in Transaction /\ u.rows = t.rows /\ u.org = t.org /\ u.pc = "classify"
    BY <1>1, <1>2 DEF Transaction
  <2>2. u.open = t.open /\ u.ids = t.ids /\ u.master_id = m /\ u.absorb_live = {}
          /\ FetchIds(u) = FetchIds(t)
    BY <1>1 DEF Transaction, FetchIds
  <2>3. Plan(u)
    BY <1>1, <1>2, <1>3, <2>1, <2>2 DEF Plan
  <2> QED
    BY <1>3, <2>1, <2>3, StepPreserves
<1>4. CASE ResolvePinned(w)
  BY <1>3, <1>4 DEF ResolvePinned, PinAbsorbed, FetchIds
<1>5. CASE ResolveAuto(w)
  BY <1>3, <1>5 DEF ResolveAuto, LiveBatch
<1>6. CASE Redirect(w)
  <2> DEFINE u == [t EXCEPT !.pc = "chase", !.redirected_from = t.master,
                            !.current = t.rows[t.master].merged_into]
  <2>1. t.rows[t.master].merged_into \in Leads /\ t.master \in Leads \cup {None}
    BY <1>1, <1>2, <1>6 DEF Redirect, PinAbsorbed, FetchIds, Row, Transaction
  <2>2. u \in Transaction /\ u.rows = t.rows /\ u.org = t.org /\ u.pc = "chase"
    BY <1>1, <2>1 DEF Transaction
  <2>3. u.open = t.open /\ u.ids = t.ids /\ u.master_id = None /\ u.absorb_live = {}
          /\ FetchIds(u) = FetchIds(t) /\ u.current \in Leads
    BY <1>1, <2>1 DEF Transaction, FetchIds
  <2>4. Plan(u)
    BY <1>1, <2>2, <2>3 DEF Plan
  <2> QED
    BY <1>6, <2>2, <2>4, StepPreserves DEF Redirect
<1> QED
  BY <1>4, <1>5, <1>6

\* Following a chain one hop, or to its end.
LEMMA ChasePreserves ==
  ASSUME IInv, NEW w \in Workers,
         ChaseHop(w) \/ ChaseFoundMaster(w) \/ ChaseFoundOwner(w)
  PROVE  IInv'
<1> DEFINE t == tx[w]
<1>1. /\ t \in Transaction /\ Plan(t) /\ t.pc = "chase" /\ t.rows[t.current] # None
  BY DEF IInv, TypeOK, ChaseHop, ChaseFoundMaster, ChaseFoundOwner, AtCached
<1>2. t.current \in Leads /\ t.rows[t.current] \in Row
  BY <1>1 DEF Plan, Transaction
<1>3. CASE ChaseHop(w)
  <2> DEFINE m == t.rows[t.current].merged_into
             u == [t EXCEPT !.current = m, !.hops = Hop(t.hops)]
  <2>1. m \in Leads
    BY <1>2, <1>3 DEF ChaseHop, Row
  <2>2. Step(w, u)
    BY <1>3 DEF ChaseHop
  <2> HIDE DEF m
  <2>3. /\ u \in Transaction /\ u.rows = t.rows /\ u.org = t.org /\ u.pc = "chase"
        /\ u.current = m /\ u.open = t.open /\ u.ids = t.ids /\ u.master = t.master
        /\ u.master_id = t.master_id /\ u.absorb_live = t.absorb_live
    <3> HIDE DEF t
    <3>1. Hop(t.hops) \in Nat
      BY <1>1 DEF Transaction, Hop
    <3> QED
      BY <1>1, <2>1, <3>1 DEF Transaction
  <2>4. Plan(u)
    BY <1>1, <2>1, <2>3 DEF Plan, FetchIds
  <2> QED
    BY <2>2, <2>3, <2>4, StepPreserves
<1>4. CASE ChaseFoundMaster(w)
  <2> DEFINE u == [t EXCEPT !.pc = "classify", !.master_id = t.current,
                            !.current = None, !.hops = 0]
  <2>1. u \in Transaction /\ u.rows = t.rows /\ u.org = t.org /\ u.pc = "classify"
    BY <1>1, <1>2 DEF Transaction
  <2>2. /\ u.open = t.open /\ u.ids = t.ids /\ u.absorb_live = {} /\ u.master_id = t.current
        /\ FetchIds(u) = FetchIds(t)
    BY <1>1, <1>4 DEF Transaction, FetchIds, Plan, ChaseFoundMaster
  <2>3. Plan(u)
    BY <1>1, <1>2, <1>4, <2>1, <2>2 DEF Plan, ChaseFoundMaster
  <2> QED
    BY <1>4, <2>1, <2>3, StepPreserves DEF ChaseFoundMaster
<1>5. CASE ChaseFoundOwner(w)
  <2>1. PICK i \in t.open :
          LET u == [t EXCEPT !.pc = "classify", !.open = @ \ {i}, !.current = None, !.hops = 0]
          IN IF OwnedByMaster(t)
             THEN Step(w, [u EXCEPT !.already = @ \cup {t.ids[i]}])
             ELSE Step(w, [u EXCEPT !.elsewhere = @ \cup {<<t.ids[i], t.current>>}])
    BY <1>5 DEF ChaseFoundOwner
  <2>2. t.ids[i] \in Leads
    BY <1>1 DEF Plan, Transaction
  <2> DEFINE u == [t EXCEPT !.pc = "classify", !.open = @ \ {i}, !.current = None, !.hops = 0]
  <2>3. u \in Transaction /\ u.rows = t.rows /\ u.org = t.org /\ u.pc = "classify"
    BY <1>1 DEF Transaction
  <2>4. Plan(u)
    BY <1>1, <1>5 DEF Plan, FetchIds, Transaction, ChaseFoundOwner
  <2> HIDE DEF u
  <2>5. ASSUME NEW already \in SUBSET Leads, NEW elsewhere \in SUBSET (Leads \X Leads),
               NEW v, v = [u EXCEPT !.already = already] \/ v = [u EXCEPT !.elsewhere = elsewhere],
               Step(w, v)
        PROVE  IInv'
    <3>1. v \in Transaction /\ v.rows = t.rows /\ v.org = t.org /\ v.pc = "classify"
      BY <2>3, <2>5 DEF Transaction
    <3>2. Plan(v)
      BY <2>3, <2>4, <2>5 DEF Plan, FetchIds, Transaction
    <3> QED
      BY <2>5, <3>1, <3>2, StepPreserves
  <2>6. u.already \cup {t.ids[i]} \in SUBSET Leads
          /\ u.elsewhere \cup {<<t.ids[i], t.current>>} \in SUBSET (Leads \X Leads)
    BY <1>2, <2>2, <2>3 DEF Transaction
  <2>7. \/ Step(w, [u EXCEPT !.already = u.already \cup {t.ids[i]}])
        \/ Step(w, [u EXCEPT !.elsewhere = u.elsewhere \cup {<<t.ids[i], t.current>>}])
    BY <2>1 DEF u
  <2> QED
    BY <2>5, <2>6, <2>7
<1> QED
  BY <1>3, <1>4, <1>5

\* Classifying one id, when the merge goes on.
LEMMA ClassifyPreserves ==
  ASSUME IInv, NEW w \in Workers, NEW i \in tx[w].open, Classifies(tx[w], i),
         NEW u \in {[tx[w] EXCEPT !.open = @ \ {i}],
                    [tx[w] EXCEPT !.pc = "chase", !.current = tx[w].rows[tx[w].ids[i]].merged_into],
                    [tx[w] EXCEPT !.open = @ \ {i}, !.absorb_live = @ \cup {tx[w].ids[i]}]},
         u.pc = "chase" => tx[w].rows[tx[w].ids[i]].merged_into # None,
         u.absorb_live # tx[w].absorb_live =>
            /\ tx[w].ids[i] # tx[w].master_id
            /\ tx[w].rows[tx[w].ids[i]].merged_into = None
            /\ tx[w].rows[tx[w].ids[i]].status # "converted",
         Step(w, u)
  PROVE  IInv'
<1> DEFINE t == tx[w]
           l == t.ids[i]
<1>1. t \in Transaction /\ Plan(t) /\ t.pc = "classify"
  BY DEF IInv, TypeOK, Classifies
<1>2. l \in Leads /\ l \in FetchIds(t)
  BY <1>1 DEF Plan, Transaction, FetchIds, Range
<1>3. t.rows[l] \in Row
  BY <1>1, <1>2 DEF Plan, Transaction
<1>4. CASE u = [t EXCEPT !.open = @ \ {i}]
  <2>1. u \in Transaction /\ u.rows = t.rows /\ u.org = t.org /\ u.pc = "classify"
    BY <1>1, <1>4 DEF Transaction
  <2>2. Plan(u)
    BY <1>1, <1>4 DEF Plan, FetchIds, Transaction
  <2> QED
    BY <2>1, <2>2, StepPreserves
<1>5. CASE u = [t EXCEPT !.pc = "chase", !.current = t.rows[l].merged_into]
  <2>1. u.pc = "chase"
    BY <1>1, <1>5 DEF Transaction
  <2>2. t.rows[l].merged_into \in Leads
    BY <1>3, <2>1 DEF Row
  <2>3. u \in Transaction /\ u.rows = t.rows /\ u.org = t.org
    BY <1>1, <1>5, <2>2 DEF Transaction
  <2>4. Plan(u)
    BY <1>1, <1>5, <2>2 DEF Plan, FetchIds, Transaction
  <2> QED
    BY <2>1, <2>3, <2>4, StepPreserves
<1>6. CASE u = [t EXCEPT !.open = @ \ {i}, !.absorb_live = @ \cup {l}]
  <2>1. u \in Transaction /\ u.rows = t.rows /\ u.org = t.org /\ u.pc = "classify"
    BY <1>1, <1>2, <1>6 DEF Transaction
  <2>2. /\ u.open \subseteq t.open /\ u.ids = t.ids /\ u.master = t.master
        /\ u.master_id = t.master_id /\ u.absorb_live = t.absorb_live \cup {l}
    BY <1>1, <1>6 DEF Transaction
  <2>3. \A d \in u.absorb_live : d \in t.absorb_live \/ (d = l /\ l # t.master_id /\ t.rows[l] # None
            /\ t.rows[l].merged_into = None /\ t.rows[l].status # "converted")
    BY <1>1, <1>2, <2>2 DEF Plan
  <2>4. Plan(u)
    BY <1>1, <2>1, <2>2, <2>3, NoneIsNothing DEF Plan, FetchIds
  <2> QED
    BY <2>1, <2>4, StepPreserves
<1> QED
  BY <1>4, <1>5, <1>6

\* Classifying one id, in each of its cases.
LEMMA ClassifyAnyPreserves ==
  ASSUME IInv, NEW w \in Workers,
         ClassifyMaster(w) \/ ClassifyConverted(w) \/ ClassifyAbsorbed(w) \/ ClassifyLive(w)
  PROVE  IInv'
<1> DEFINE t == tx[w]
<1>1. t \in Transaction
  BY DEF IInv, TypeOK
<1>2. CASE ClassifyMaster(w)
  <2>1. PICK i \in t.open : /\ Classifies(t, i)
                            /\ IF t.master # None THEN Abort(w, "absorb_self")
                               ELSE Step(w, [t EXCEPT !.open = @ \ {i}])
    BY <1>2 DEF ClassifyMaster
  <2>2. CASE t.master # None
    BY <2>1, <2>2, AbortPreserves DEF Codes
  <2>3. CASE t.master = None
    <3> DEFINE u == [t EXCEPT !.open = @ \ {i}]
    <3>1. u.pc # "chase" /\ u.absorb_live = t.absorb_live
      BY <1>1, <2>1 DEF Transaction, Classifies
    <3> QED
      BY <2>1, <2>3, <3>1, ClassifyPreserves
  <2> QED
    BY <2>2, <2>3
<1>3. CASE ClassifyConverted(w)
  BY <1>3, AbortPreserves DEF ClassifyConverted, Codes
<1>4. CASE ClassifyAbsorbed(w)
  <2>1. PICK i \in t.open :
          /\ Classifies(t, i) /\ t.rows[t.ids[i]].merged_into # None
          /\ Step(w, [t EXCEPT !.pc = "chase", !.current = t.rows[t.ids[i]].merged_into])
    BY <1>4 DEF ClassifyAbsorbed
  <2> DEFINE u == [t EXCEPT !.pc = "chase", !.current = t.rows[t.ids[i]].merged_into]
  <2>2. u.absorb_live = t.absorb_live
    BY <1>1 DEF Transaction
  <2> QED
    BY <2>1, <2>2, ClassifyPreserves
<1>5. CASE ClassifyLive(w)
  <2>1. PICK i \in t.open :
          /\ Classifies(t, i) /\ t.ids[i] # t.master_id
          /\ t.rows[t.ids[i]].status # "converted" /\ t.rows[t.ids[i]].merged_into = None
          /\ Step(w, [t EXCEPT !.open = @ \ {i}, !.absorb_live = @ \cup {t.ids[i]}])
    BY <1>5 DEF ClassifyLive, Absorbable
  <2> DEFINE u == [t EXCEPT !.open = @ \ {i}, !.absorb_live = @ \cup {t.ids[i]}]
  <2>2. u.pc = "classify"
    BY <1>1, <2>1 DEF Transaction, Classifies
  <2> QED
    BY <2>1, <2>2, ClassifyPreserves
<1> QED
  BY <1>2, <1>3, <1>4, <1>5

\* Ending the merge: nothing to absorb, or the event of what was absorbed.
LEMMA AnswerPreserves ==
  ASSUME IInv, NEW w \in Workers, CommitNothing(w) \/ Publish(w)
  PROVE  IInv'
<1> DEFINE t == tx[w]
<1>1. t \in Transaction /\ Holds(w) /\ Plan(t)
  BY DEF IInv, TypeOK
<1>2. Success(t) \in Answer
  BY <1>1, SuccessIsAnswer
<1>3. tx' = [tx EXCEPT ![w] = Idle] /\ row' = row /\ left' \in Nat
        /\ answer' \in [Workers -> Answer]
  BY <1>2 DEF CommitNothing, Publish, IInv, TypeOK
<1>4. CASE CommitNothing(w)
  BY <1>3, <1>4, EndPreserves DEF CommitNothing, IInv, TypeOK
<1>5. CASE Publish(w)
  <2>1. MergedEvent(t) \in Event
    BY <1>1, <1>5 DEF Plan, Publish, MergedEvent, Event, Transaction
  <2>2. events' \in Seq(Event)
    BY <1>5, <2>1 DEF Publish, IInv, TypeOK
  <2>3. \A l \in Leads : lock[l] # w
    BY <1>1, <1>5 DEF Holds, Publish
  <2>4. lock' = Unlocked(w)
    BY <1>5, <2>3 DEF Publish, Unlocked, IInv, TypeOK
  <2> QED
    BY <1>3, <2>2, <2>4, EndPreserves
<1> QED
  BY <1>4, <1>5

\* What a commit writes: only rows its own transaction has locked.
LEMMA CommitWrites ==
  ASSUME IInv, NEW w \in Workers, Commit(w)
  PROVE  LET t == tx[w] IN
         /\ t \in Transaction /\ Classified(t) /\ t.master_id \in Leads
         /\ t.absorb_live # {} /\ t.master_id \notin t.absorb_live
         /\ \A d \in t.absorb_live \cup {t.master_id} :
              lock[d] = w /\ t.rows[d] = row[d] /\ ~Merged(d) /\ Visible(d, t.org)
         /\ \A d \in t.absorb_live : row[d].status # "converted"
         /\ \E filled \in [Fields -> Values \cup {None}] :
              /\ \A f \in Fields : FillOrKeep(t, f, filled[f])
              /\ row' = [l \in Leads |->
                   IF l = t.master_id THEN [row[l] EXCEPT !.fields = filled]
                   ELSE IF l \in t.absorb_live THEN [row[l] EXCEPT !.merged_into = t.master_id]
                   ELSE row[l]]
<1> DEFINE t == tx[w]
<1>1. /\ t \in Transaction /\ Holds(w) /\ Plan(t) /\ Classified(t) /\ t.absorb_live # {}
      /\ t.pc = "classify"
  BY DEF IInv, TypeOK, Commit, Classified
<1>2. t.master_id \in Leads /\ t.absorb_live \subseteq Leads /\ t.master_id # None
  BY <1>1, NoneIsNothing DEF Plan, Transaction
<1>3. t.master_id \notin t.absorb_live
  BY <1>1 DEF Plan
<1>4. \A d \in t.absorb_live \cup {t.master_id} :
        lock[d] = w /\ t.rows[d] = row[d] /\ ~Merged(d) /\ Visible(d, t.org)
  BY <1>1, <1>2 DEF Plan, Holds, Merged
<1>5. \A d \in t.absorb_live : row[d].status # "converted"
  BY <1>1, <1>2, <1>4 DEF Plan
<1>6. PICK filled \in [Fields -> Values \cup {None}] :
        /\ \A f \in Fields : FillOrKeep(t, f, filled[f])
        /\ row' = [l \in Leads |->
             IF l = t.master_id THEN [row[l] EXCEPT !.fields = filled]
             ELSE IF l \in t.absorb_live /\ ~Merged(l)
                  THEN [row[l] EXCEPT !.merged_into = t.master_id] ELSE row[l]]
  BY DEF Commit
<1>7. row' = [l \in Leads |->
        IF l = t.master_id THEN [row[l] EXCEPT !.fields = filled]
        ELSE IF l \in t.absorb_live THEN [row[l] EXCEPT !.merged_into = t.master_id]
        ELSE row[l]]
  BY <1>4, <1>6
<1> QED
  BY <1>1, <1>2, <1>3, <1>4, <1>5, <1>6, <1>7

\* A commit leaves what the other merges have read alone.
LEMMA CommitPreserves ==
  ASSUME IInv, NEW w \in Workers, Commit(w)
  PROVE  IInv'
<1> DEFINE t == tx[w]
           m == t.master_id
           D == t.absorb_live
           u == [t EXCEPT !.pc = "publish", !.rows = Idle.rows]
<1>1. /\ t \in Transaction /\ m \in Leads /\ D \subseteq Leads /\ Plan(t)
      /\ \A d \in D \cup {m} : lock[d] = w
  BY CommitWrites DEF IInv, Transaction
<1>2. PICK filled \in [Fields -> Values \cup {None}] :
        row' = [l \in Leads |-> IF l = m THEN [row[l] EXCEPT !.fields = filled]
                                ELSE IF l \in D THEN [row[l] EXCEPT !.merged_into = m]
                                ELSE row[l]]
  BY CommitWrites
<1>3. tx' = [tx EXCEPT ![w] = u] /\ lock' = Unlocked(w) /\ UNCHANGED <<answer, events, left>>
  BY DEF Commit
<1> HIDE DEF m, D
<1>4. u \in Transaction /\ u.pc = "publish" /\ u.rows = Idle.rows
  BY <1>1, IdleIsSound DEF Transaction
<1>5. Plan(u)
  BY <1>1, <1>4 DEF Plan, Transaction, m
<1>6. TypeOK'
  <2>1. row' \in [Leads -> Row]
    <3>1. \A l \in Leads : /\ row[l] \in Row
                           /\ [row[l] EXCEPT !.fields = filled] \in Row
                           /\ [row[l] EXCEPT !.merged_into = m] \in Row
      <4>1. \A l \in Leads : row[l] \in Row
        BY DEF IInv, TypeOK
      <4> QED
        BY <1>1, <1>2, <4>1 DEF Row
    <3> QED
      BY <1>2, <3>1
  <2> QED
    BY <1>3, <1>4, <2>1, UnlockedKeepsOthers DEF IInv, TypeOK
<1>7. ASSUME NEW v \in Workers
      PROVE  Holds(v)' /\ Plan(tx[v])'
  <2>1. tx'[v] = IF v = w THEN u ELSE tx[v]
    BY <1>3 DEF IInv, TypeOK
  <2>2. ASSUME v = w PROVE Holds(v)'
    <3>1. \A l \in Leads : u.rows[l] = None
      BY <1>4 DEF Idle
    <3> QED
      BY <1>3, <2>1, <2>2, <3>1, UnlockedKeepsOthers DEF Holds
  <2>3. ASSUME v # w PROVE Holds(v)'
    <3>1. \A l \in Leads : lock[l] = v => lock'[l] = v /\ row'[l] = row[l]
      BY <1>1, <1>2, <1>3, <2>3, UnlockedKeepsOthers
    <3>2. \A l \in Leads : lock'[l] = v => lock[l] = v
      BY <1>3, <2>3, UnlockedKeepsOthers
    <3> QED
      BY <2>1, <2>3, <3>1, <3>2 DEF IInv, Holds, Visible, InScope
  <2>4. Plan(tx'[v])
    BY <1>5, <2>1 DEF IInv
  <2>5. Plan(tx[v])' <=> Plan(tx'[v])
    BY DEF Plan, FetchIds
  <2> QED
    BY <2>2, <2>3, <2>4, <2>5
<1> QED
  BY <1>6, <1>7 DEF IInv

\* What a purge leaves is a row.
LEMMA DeletedIsRow == Deleted \in Row
BY DEF Deleted, Row, Statuses

\* Every other writer updates one row, to a row.
LEMMA OtherWriterPreserves ==
  ASSUME IInv, OtherWriter
  PROVE  IInv'
<1>1. PICK l \in Leads :
        \/ MarkQualified(l) \/ \E p \in Parties : ClaimConversion(l, p)
        \/ SoftDelete(l) \/ Restore(l) \/ Purge(l)
  BY DEF OtherWriter
<1>2. row[l] \in Row /\ UNCHANGED <<tx, answer, events, left>>
  BY DEF IInv, TypeOK, OtherWriter
<1>3. CASE MarkQualified(l)
  <2>1. [row[l] EXCEPT !.status = "qualified"] \in Row
    BY <1>2 DEF Row, Statuses
  <2> QED
    BY <1>2, <1>3, <2>1, UpdatePreserves DEF MarkQualified, Qualified
<1>4. ASSUME NEW p \in Parties, ClaimConversion(l, p) PROVE IInv'
  <2>1. [row[l] EXCEPT !.party = p, !.status = "converted"] \in Row
    BY <1>2 DEF Row, Statuses
  <2> QED
    BY <1>2, <1>4, <2>1, UpdatePreserves DEF ClaimConversion, ConvertedTo
<1>5. ASSUME NEW life \in {"active", "trash"}, NEW guard,
             Update(l, guard, [row[l] EXCEPT !.life = life])
      PROVE  IInv'
  <2>1. [row[l] EXCEPT !.life = life] \in Row
    BY <1>2 DEF Row
  <2> QED
    BY <1>2, <1>5, <2>1, UpdatePreserves
<1>6. CASE SoftDelete(l)
  BY <1>5, <1>6 DEF SoftDelete
<1>7. CASE Restore(l)
  BY <1>5, <1>7 DEF Restore
<1>8. CASE Purge(l)
  BY <1>2, <1>8, DeletedIsRow, UpdatePreserves DEF Purge
<1> QED
  BY <1>1, <1>3, <1>4, <1>6, <1>7, <1>8

\* The table starts unlocked and nobody is merging.
LEMMA InitEstablishes == Init => IInv
<1> SUFFICES ASSUME Init PROVE IInv
  OBVIOUS
<1>1. Refusal("none") \in Answer /\ <<>> \in Seq(Event) /\ MaxRequests \in Nat
  BY RefusalIsAnswer, MergeAssumption DEF Codes
<1>2. TypeOK
  BY <1>1, IdleIsSound, TableAssumption DEF TypeOK, Init, TableInit
<1>3. ASSUME NEW w \in Workers PROVE Holds(w) /\ Plan(tx[w])
  <2>1. tx[w] = Idle /\ \A l \in Leads : lock[l] = None
    BY DEF Init, TableInit
  <2>2. \A l \in Leads : Idle.rows[l] = None
    BY DEF Idle
  <2> QED
    BY <2>1, <2>2, IdleIsSound, NoneIsNothing DEF Holds
<1> QED
  BY <1>2, <1>3 DEF IInv

\* Every step keeps the invariant.
LEMMA NextPreserves == IInv /\ [Next]_vars => IInv'
<1> SUFFICES ASSUME IInv, [Next]_vars PROVE IInv'
  OBVIOUS
<1>1. ASSUME NEW w \in Workers, NEW r \in Requests, RefuseShape(w, r) PROVE IInv'
  <2>1. Refusal(ShapeError(r)) \in Answer
    BY RefusalIsAnswer DEF ShapeError, Codes
  <2>2. answer' \in [Workers -> Answer] /\ left' \in Nat
    BY <1>1, <2>1 DEF RefuseShape, IInv, TypeOK
  <2> QED
    BY <1>1, <2>2 DEF RefuseShape, IInv, TypeOK, Holds, Plan, FetchIds, Visible, InScope
<1>2. ASSUME NEW w \in Workers, NEW r \in Requests, Begin(w, r) PROVE IInv'
  <2>1. left' \in Nat /\ r \in Request
    BY <1>2, MergeAssumption DEF Begin, IInv, TypeOK
  <2> QED
    BY <1>2, <2>1, AcceptPreserves DEF Begin
<1>3. ASSUME NEW w \in Workers, Progress(w) PROVE IInv'
  <2>1. CASE \E code \in Codes : Abort(w, code)
    BY <2>1, AbortPreserves
  <2>2. CASE ResolvePinned(w) \/ Redirect(w) \/ ResolveAuto(w)
    BY <2>2, ResolvePreserves
  <2>3. CASE ChaseHop(w) \/ ChaseFoundMaster(w) \/ ChaseFoundOwner(w)
    BY <2>3, ChasePreserves
  <2>4. CASE ClassifyMaster(w) \/ ClassifyConverted(w) \/ ClassifyAbsorbed(w) \/ ClassifyLive(w)
    BY <2>4, ClassifyAnyPreserves
  <2>5. CASE CommitNothing(w) \/ Publish(w)
    BY <2>5, AnswerPreserves
  <2>6. CASE Commit(w)
    BY <2>6, CommitPreserves
  <2>7. BatchMissing(w) \/ AutoAllAbsorbed(w) \/ ChaseMissing(w) \/ ChaseTooDeep(w)
          => \E code \in Codes : Abort(w, code)
    BY DEF BatchMissing, AutoAllAbsorbed, ChaseMissing, ChaseTooDeep, Codes
  <2> QED
    BY <1>3, <2>1, <2>2, <2>3, <2>4, <2>5, <2>6, <2>7 DEF Progress
<1>4. ASSUME NEW w \in Workers, LockBatchRow(w) \/ ChaseFetch(w) PROVE IInv'
  BY <1>4, LockBatchRowPreserves, ChaseFetchPreserves
<1>5. ASSUME NEW w \in Workers, DeadlockVictim(w) \/ Crash(w) PROVE IInv'
  BY <1>5, AbortPreserves DEF DeadlockVictim, Crash, Codes
<1>6. CASE OtherWriter
  BY <1>6, OtherWriterPreserves
<1>7. CASE UNCHANGED vars
  BY <1>7 DEF vars, IInv, TypeOK, Holds, Plan, FetchIds, Visible, InScope
<1> QED
  BY <1>1, <1>2, <1>3, <1>4, <1>5, <1>6, <1>7 DEF Next, Quiescent

\* The invariant holds in every reachable state.
THEOREM InvariantHolds == Spec => []IInv
BY InitEstablishes, NextPreserves, PTL DEF Spec

\* Every variable keeps its type: merge_leads never leaves the states its
\* local variables and the table columns allow.
THEOREM TypeCorrect == Spec => []TypeOK
<1>1. IInv => TypeOK
  BY DEF IInv
<1> QED
  BY <1>1, InvariantHolds, PTL

\* What a merge read is locked by it and unchanged until it commits: no
\* decision of merge_leads is taken on a stale row.
THEOREM CacheIsFresh == Spec => []CacheFresh
<1>1. IInv => CacheFresh
  BY DEF IInv, Holds, CacheFresh
<1> QED
  BY <1>1, InvariantHolds, PTL

\* No lock outlives its transaction, however it ended.
THEOREM NoLockIsLeaked == Spec => []LocksAreHeld
<1>1. IInv => LocksAreHeld
  BY DEF IInv, Holds, LocksAreHeld
<1> QED
  BY <1>1, InvariantHolds, PTL
=============================================================================
