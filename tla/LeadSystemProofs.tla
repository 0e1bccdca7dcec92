--------------------------- MODULE LeadSystemProofs ---------------------------
(***************************************************************************)
(* Merges and the verbs of the composing service keep each other's promises *)
(* on one table, for any leads, sessions, parties and bounds.  Neither side *)
(* writes a row the other has locked, so the invariant of the merges goes   *)
(* through the verbs' steps and the invariant of the verbs through theirs.  *)
(* What merges tell the outside is as true as it is without the verbs.      *)
(***************************************************************************)
EXTENDS LeadSystem, LeadMergeAnswers

\* The history says what the table says, of every lead still in it.
Remembered ==
  /\ anchor \in [Leads -> Parties \cup {None}]
  /\ \A l \in Leads : row[l].life # "gone" => anchor[l] = row[l].party

\* What every writer does to parties: one that is set stays until its lead is purged.
PartiesKept ==
  \A l \in Leads : row'[l].life # "gone" =>
    row[l].life # "gone" /\ (row[l].party # None => row'[l].party = row[l].party)

\* What handler h relies on at u.  A lead's party is set once, so one that was
\* read or published is the lead's for good; a row that was not claimable never is
\* again; a row about to be written is held.
Sound(h, u) ==
  /\ u.pc # "idle" => u.lead \in Leads
  /\ u.pc \in {"claim", "claimed", "publish"} => u.party \in Parties
  /\ u.pc = "publish" => anchor[u.lead] = u.party
  /\ u.pc \in {"open", "opened"} => u.party \in {None, anchor[u.lead]}
  /\ u.pc = "reread" => ~Claimable(u.lead)
  /\ u.pc = "claimed" => lock[u.lead] = h /\ Claimable(u.lead)
  /\ \A l \in Leads : lock[l] = h => u.pc \in {"claimed", "opened"} /\ u.lead = l

HostInv == HostTypeOK /\ Remembered /\ DealsFollow /\ \A h \in Hosts : Sound(h, host[h])

SInv == IInv /\ HostInv

-----------------------------------------------------------------------------
\* Handlers and workers are different sessions.
LEMMA HostsAreOthers ==
  /\ Hosts \subseteq Sessions /\ Hosts \cap Workers = {} /\ None \notin Hosts
BY ConversionAssumption, NoneIsNothing

\* Remembering keeps the history, and every party in it.
LEMMA RemembersOn ==
  ASSUME Remembered, Remember, PartiesKept, row' \in [Leads -> Row]
  PROVE  Remembered' /\ \A l \in Leads : anchor[l] # None => anchor'[l] = anchor[l]
<1>1. \A l \in Leads :
        anchor'[l] = IF row'[l].life = "gone" THEN anchor[l] ELSE row'[l].party
  BY DEF Remember
<1>2. \A l \in Leads : row'[l].party \in Parties \cup {None}
  BY DEF Row
<1>3. anchor' \in [Leads -> Parties \cup {None}]
  BY <1>2 DEF Remember, Remembered
<1> QED
  BY <1>1, <1>3 DEF Remembered, PartiesKept

\* A step that gives at most one lead a party, or purges it, resolves at most
\* that lead.
LEMMA OneResolves ==
  ASSUME Remembered, Remember, NEW l \in Leads,
         \A k \in Leads \ {l} : row'[k].party = row[k].party /\ row'[k].life = row[k].life,
         row'[l].life # "gone" =>
           /\ row[l].life # "gone"
           /\ row'[l].party = row[l].party \/ (row[l].party = None /\ row'[l].party \in Parties)
  PROVE  anchor' = anchor \/ \E p \in Parties :
                               anchor[l] = None /\ anchor' = [anchor EXCEPT ![l] = p]
<1>1. anchor' = [k \in Leads |-> IF row'[k].life = "gone" THEN anchor[k] ELSE row'[k].party]
  BY DEF Remember
<1>2. anchor \in [Leads -> Parties \cup {None}]
  BY DEF Remembered
<1>3. \A k \in Leads \ {l} : (IF row'[k].life = "gone" THEN anchor[k] ELSE row'[k].party) = anchor[k]
  BY DEF Remembered
<1>4. CASE row'[l].life = "gone" \/ row'[l].party = row[l].party
  <2>1. \A k \in Leads : (IF row'[k].life = "gone" THEN anchor[k] ELSE row'[k].party) = anchor[k]
    BY <1>3, <1>4 DEF Remembered
  <2> QED
    BY <1>1, <1>2, <2>1
<1>5. CASE row'[l].life # "gone" /\ row[l].party = None /\ row'[l].party \in Parties
  <2>1. anchor[l] = None
    BY <1>5 DEF Remembered
  <2>2. anchor' = [anchor EXCEPT ![l] = row'[l].party]
    BY <1>1, <1>2, <1>3, <1>5
  <2> QED
    BY <1>5, <2>1, <2>2
<1> QED
  BY <1>4, <1>5

-----------------------------------------------------------------------------
(* The merges' side, seen by a handler.                                      *)

\* What a step of the merges or of another writer does to the table.
LEMMA MergeStepShape ==
  ASSUME IInv, [Next]_vars
  PROVE  \/ row' = row /\ lock' = lock
         \/ row' = row /\ \E w \in Workers : lock' = Unlocked(w)
         \/ row' = row /\ \E w \in Workers, l \in Leads :
                            lock[l] = None /\ lock' = [lock EXCEPT ![l] = w]
         \/ \E w \in Workers : Commit(w)
         \/ OtherWriter
<1>1. ASSUME NEW w \in Workers, Progress(w)
      PROVE  \/ row' = row /\ lock' = lock
             \/ row' = row /\ lock' = Unlocked(w)
             \/ Commit(w)
  <2>1. CASE BatchMissing(w) \/ AutoAllAbsorbed(w) \/ ChaseMissing(w) \/ ChaseTooDeep(w)
    BY <2>1 DEF BatchMissing, AutoAllAbsorbed, ChaseMissing, ChaseTooDeep, Abort
  <2>2. CASE ResolvePinned(w) \/ Redirect(w) \/ ResolveAuto(w)
               \/ ChaseHop(w) \/ ChaseFoundMaster(w) \/ ChaseFoundOwner(w)
    BY <2>2 DEF ResolvePinned, Redirect, ResolveAuto, ChaseHop, ChaseFoundMaster,
                ChaseFoundOwner, Step
  <2>3. CASE ClassifyMaster(w) \/ ClassifyConverted(w) \/ ClassifyAbsorbed(w) \/ ClassifyLive(w)
    BY <2>3 DEF ClassifyMaster, ClassifyConverted, ClassifyAbsorbed, ClassifyLive, Step, Abort
  <2>4. CASE CommitNothing(w) \/ Publish(w)
    BY <2>4 DEF CommitNothing, Publish
  <2> QED
    BY <1>1, <2>1, <2>2, <2>3, <2>4 DEF Progress
<1>2. ASSUME NEW w \in Workers, LockBatchRow(w) \/ ChaseFetch(w)
      PROVE  row' = row /\ \E l \in Leads : lock[l] = None /\ lock' = [lock EXCEPT ![l] = w]
  BY <1>2 DEF LockBatchRow, ChaseFetch, LockRow
<1>3. ASSUME NEW w \in Workers, DeadlockVictim(w) \/ Crash(w)
      PROVE  row' = row /\ lock' = Unlocked(w)
  BY <1>3 DEF DeadlockVictim, Crash, Abort
<1>4. ASSUME NEW w \in Workers, NEW r \in Requests, RefuseShape(w, r) \/ Begin(w, r)
      PROVE  row' = row /\ lock' = lock
  BY <1>4 DEF RefuseShape, Begin, Accept
<1>5. CASE Quiescent \/ UNCHANGED vars
  BY <1>5 DEF Quiescent, vars
<1> QED
  BY <1>1, <1>2, <1>3, <1>4, <1>5 DEF Next

\* A write of another writer changes at most the party of a lead that has none,
\* unless it purges the lead.
LEMMA OtherWriterShape ==
  ASSUME IInv, OtherWriter
  PROVE  \E l \in Leads :
           /\ lock[l] = None /\ lock' = lock
           /\ \A k \in Leads \ {l} : row'[k] = row[k]
           /\ row'[l].life # "gone" => \/ row'[l].party = row[l].party
                                       \/ row[l].party = None /\ row'[l].party \in Parties
           /\ row[l].life \in {"unborn", "gone"} => row'[l].life = row[l].life
<1>1. PICK l \in Leads :
        \/ MarkQualified(l) \/ \E p \in Parties : ClaimConversion(l, p)
        \/ SoftDelete(l) \/ Restore(l) \/ Purge(l)
  BY DEF OtherWriter
<1>2. row \in [Leads -> Row] /\ row[l] \in Row
  BY DEF IInv, TypeOK
<1>3. CASE MarkQualified(l)
  BY <1>2, <1>3 DEF MarkQualified, Qualified, Update, Row
<1>4. ASSUME NEW p \in Parties, ClaimConversion(l, p)
      PROVE  /\ lock[l] = None /\ lock' = lock
             /\ \A k \in Leads \ {l} : row'[k] = row[k]
             /\ row[l].party = None /\ row'[l].party \in Parties /\ row'[l].life = row[l].life
  BY <1>2, <1>4 DEF ClaimConversion, Claimable, ConvertedTo, Update, Row
<1>5. CASE SoftDelete(l) \/ Restore(l)
  BY <1>2, <1>5 DEF SoftDelete, Restore, Update, Row
<1>6. CASE Purge(l)
  BY <1>2, <1>6 DEF Purge, Update, Deleted
<1> QED
  BY <1>1, <1>3, <1>4, <1>5, <1>6

\* A merge's commit writes only rows it has locked, and no party.
LEMMA CommitShape ==
  ASSUME IInv, NEW w \in Workers, Commit(w)
  PROVE  /\ lock' = Unlocked(w)
         /\ \A l \in Leads : row'[l].party = row[l].party /\ row'[l].life = row[l].life
         /\ \A l \in Leads : row'[l] # row[l] => lock[l] = w
<1> DEFINE t == tx[w]
<1>1. PICK filled \in [Fields -> Values \cup {None}] :
        row' = [l \in Leads |->
                  IF l = t.master_id THEN [row[l] EXCEPT !.fields = filled]
                  ELSE IF l \in t.absorb_live THEN [row[l] EXCEPT !.merged_into = t.master_id]
                  ELSE row[l]]
  BY CommitWrites
<1>2. \A d \in t.absorb_live \cup {t.master_id} : lock[d] = w
  BY CommitWrites
<1> DEFINE m == t.master_id
           D == t.absorb_live
<1> HIDE DEF m, D
<1>3. row' = [l \in Leads |-> IF l = m THEN [row[l] EXCEPT !.fields = filled]
                              ELSE IF l \in D THEN [row[l] EXCEPT !.merged_into = m]
                              ELSE row[l]]
  BY <1>1 DEF m, D
<1>4. \A d \in D \cup {m} : lock[d] = w
  BY <1>2 DEF m, D
<1>5. \A l \in Leads : row[l] \in Row
  BY DEF IInv, TypeOK
<1>6. \A l \in Leads : row'[l].party = row[l].party /\ row'[l].life = row[l].life
  BY <1>3, <1>5 DEF Row
<1> QED
  BY <1>3, <1>4, <1>6 DEF Commit

\* Merges and other writers leave a handler's rows and locks alone, and every
\* party that is set until its lead is purged.
LEMMA MergesLeaveHosts ==
  ASSUME IInv, [Next]_vars
  PROVE  /\ \A l \in Leads, h \in Hosts : lock'[l] = h <=> lock[l] = h
         /\ \A l \in Leads, h \in Hosts : lock[l] = h => row'[l] = row[l]
         /\ PartiesKept
         /\ \A l \in Leads : ~Claimable(l) => ~Claimable(l)'
<1>1. lock \in [Leads -> Sessions \cup {None}] /\ row \in [Leads -> Row]
  BY DEF IInv, TypeOK
<1>2. ASSUME NEW w \in Workers, lock' = Unlocked(w)
      PROVE  \A l \in Leads, h \in Hosts : lock'[l] = h <=> lock[l] = h
  BY <1>2, HostsAreOthers DEF Unlocked
<1>3. CASE row' = row /\ lock' = lock
  BY <1>3 DEF Claimable, Stored, PartiesKept
<1>4. CASE row' = row /\ \E w \in Workers : lock' = Unlocked(w)
  BY <1>2, <1>4 DEF Claimable, Stored, PartiesKept
<1>5. CASE row' = row /\ \E w \in Workers, l \in Leads :
                           lock[l] = None /\ lock' = [lock EXCEPT ![l] = w]
  BY <1>1, <1>5, HostsAreOthers DEF Claimable, Stored, PartiesKept
<1>6. CASE \E w \in Workers : Commit(w)
  BY <1>2, <1>6, CommitShape, HostsAreOthers DEF Claimable, Stored, PartiesKept
<1>7. CASE OtherWriter
  <2>1. \A l \in Leads : row[l] \in Row
    BY <1>1
  <2>2. \A l \in Leads : Stored(l) \/ row[l].life \in {"unborn", "gone"}
    BY <2>1 DEF Stored, Row
  <2> QED
    BY <1>7, <2>2, OtherWriterShape, HostsAreOthers, NoneIsNothing DEF Claimable, Stored, PartiesKept
<1> QED
  BY <1>3, <1>4, <1>5, <1>6, <1>7, MergeStepShape

\* What merges and other writers do keeps what the handlers rely on.
LEMMA MergesKeepHostInv ==
  ASSUME SInv, [Next]_vars, UNCHANGED hostVars, Remember
  PROVE  HostInv'
<1>1. /\ host' = host /\ deals' = deals /\ told' = told /\ verbs' = verbs
      /\ HostInv /\ IInv
  BY DEF hostVars, SInv
<1>2. HostTypeOK'
  BY <1>1 DEF HostInv, HostTypeOK
<1>3. Remembered' /\ \A l \in Leads : anchor[l] # None => anchor'[l] = anchor[l]
  <2>1. row' \in [Leads -> Row]
    BY <1>1, NextPreserves DEF IInv, TypeOK
  <2> QED
    BY <1>1, <2>1, MergesLeaveHosts, RemembersOn DEF HostInv
<1>4. DealsFollow'
  BY <1>1, <1>3 DEF HostInv, HostTypeOK, DealsFollow
<1>5. ASSUME NEW h \in Hosts PROVE Sound(h, host[h])'
  <2>1. Sound(h, host[h])
    BY <1>1 DEF HostInv
  <2>2. host[h].pc = "claimed" => Claimable(host[h].lead)'
    BY <1>1, <2>1, MergesLeaveHosts DEF Sound, Claimable, Stored
  <2>3. host[h].pc = "reread" => ~Claimable(host[h].lead)'
    BY <1>1, <2>1, MergesLeaveHosts DEF Sound
  <2>4. host[h].pc = "publish" => anchor'[host[h].lead] = host[h].party
    BY <1>3, <2>1, NoneIsNothing DEF Sound
  <2> QED
    BY <1>1, <1>3, <2>1, <2>2, <2>3, <2>4, MergesLeaveHosts DEF Sound
<1> QED
  BY <1>2, <1>3, <1>4, <1>5 DEF HostInv
-----------------------------------------------------------------------------
(* The handlers' side, seen by the merges.                                   *)

\* A step of one handler moves no lock but between nobody and itself, writes no
\* row but under its own lock, and so keeps what every merge relies on.
LEMMA HostKeepsMerges ==
  ASSUME IInv, NEW h \in Hosts, UNCHANGED mergeVars, row' \in [Leads -> Row],
         lock' = lock
         \/ lock' = [l \in Leads |-> IF lock[l] = h THEN None ELSE lock[l]]
         \/ \E l \in Leads : lock[l] = None /\ lock' = [lock EXCEPT ![l] = h],
         \A l \in Leads : row'[l] # row[l] => lock[l] = h
  PROVE  IInv'
<1>1. /\ tx' = tx /\ answer' = answer /\ events' = events /\ left' = left
      /\ lock \in [Leads -> Sessions \cup {None}] /\ h \in Sessions /\ h \notin Workers
  BY HostsAreOthers DEF mergeVars, IInv, TypeOK
<1>2. TypeOK'
  BY <1>1 DEF IInv, TypeOK
<1>3. \A l \in Leads, w \in Workers : lock'[l] = w <=> lock[l] = w
  BY <1>1, NoneIsNothing
<1>4. ASSUME NEW w \in Workers
      PROVE  Holds(w)' /\ Plan(tx[w])'
  <2>1. Holds(w)'
    BY <1>1, <1>3 DEF IInv, Holds, Visible, InScope
  <2>2. Plan(tx[w])'
    BY <1>1 DEF IInv, Plan, FetchIds
  <2> QED
    BY <2>1, <2>2
<1> QED
  BY <1>2, <1>4 DEF IInv

\* What the two verbs make of a row is a row, with the party they say.
LEMMA VerbsMakeRows ==
  ASSUME NEW l \in Leads, row[l] \in Row, NEW p \in Parties
  PROVE  /\ ConvertedTo(l, p) \in Row /\ ConvertedTo(l, p).party = p
         /\ ConvertedTo(l, p).life = row[l].life
         /\ Qualified(l) \in Row /\ Qualified(l).party = row[l].party
         /\ Qualified(l).life = row[l].life
BY DEF ConvertedTo, Qualified, Row, Statuses

\* What a step of a handler does to the table.
LEMMA HostStepShape ==
  ASSUME SInv, NEW h \in Hosts,
         \/ \E l \in Leads : Ask(h, l, "read") \/ Ask(h, l, "look")
         \/ HostProgress(h) \/ Claim(h) \/ OpenDeal(h) \/ HostCrash(h)
  PROVE  /\ row' \in [Leads -> Row]
         /\ \/ lock' = lock
            \/ lock' = [l \in Leads |-> IF lock[l] = h THEN None ELSE lock[l]]
            \/ \E l \in Leads : lock[l] = None /\ lock' = [lock EXCEPT ![l] = h]
         /\ \A l \in Leads : row'[l] # row[l] => lock[l] = h
         /\ PartiesKept
         /\ \A l \in Leads : ~Claimable(l) => ~Claimable(l)'
<1>1. row \in [Leads -> Row] /\ HostInv
  BY DEF SInv, IInv, TypeOK
<1> DEFINE l == host[h].lead
<1>2. CASE CommitClaim(h)
  <2>1. l \in Leads /\ lock[l] = h /\ row[l].party = None /\ host[h].party \in Parties
          /\ row[l].life # "gone"
    BY <1>1, <1>2 DEF CommitClaim, HostInv, Sound, Claimable, Stored
  <2> DEFINE p == host[h].party
             new == ConvertedTo(l, p)
  <2>2. new \in Row /\ new.party = p /\ new.life = row[l].life /\ p \in Parties
    BY <1>1, <2>1, VerbsMakeRows
  <2>3. row' = [row EXCEPT ![l] = new]
    BY <1>2 DEF CommitClaim
  <2>4. lock' = [k \in Leads |-> IF lock[k] = h THEN None ELSE lock[k]]
    BY <1>2 DEF CommitClaim, HostReleases
  <2> HIDE DEF new, p, l
  <2>5. \A k \in Leads : row'[k] = IF k = l THEN new ELSE row[k]
    BY <1>1, <2>1, <2>3
  <2>6. \A k \in Leads : ~Claimable(k) => ~Claimable(k)'
    BY <2>2, <2>5, NoneIsNothing DEF Claimable, Stored
  <2>7. PartiesKept
    BY <2>1, <2>2, <2>5 DEF PartiesKept
  <2> QED
    BY <1>1, <2>1, <2>2, <2>3, <2>4, <2>5, <2>6, <2>7
<1>3. CASE CommitDeal(h)
  <2>1. l \in Leads
    BY <1>1, <1>3 DEF CommitDeal, HostInv, Sound
  <2>2. /\ Qualified(l) \in Row /\ Qualified(l).party = row[l].party
        /\ Qualified(l).life = row[l].life
    BY <1>1, <2>1 DEF Qualified, Row, Statuses
  <2> QED
    BY <1>1, <1>3, <2>1, <2>2 DEF CommitDeal, HostReleases, Claimable, Stored, PartiesKept
<1>4. CASE Claim(h) \/ OpenDeal(h)
  <2>1. l \in Leads
    BY <1>1, <1>4 DEF Claim, OpenDeal, HostInv, Sound
  <2> QED
    BY <1>1, <1>4, <2>1 DEF Claim, OpenDeal, HostLocks, Claimable, Stored, PartiesKept
<1>5. CASE HostCrash(h)
  BY <1>1, <1>5 DEF HostCrash, HostReleases, Claimable, Stored, PartiesKept
<1>6. CASE \/ \E k \in Leads : Ask(h, k, "read") \/ Ask(h, k, "look")
           \/ FindForConvert(h) \/ MintCustomer(h) \/ Announce(h) \/ Reread(h) \/ FindForQualify(h)
  BY <1>1, <1>6 DEF Ask, FindForConvert, MintCustomer, Announce, Reread, FindForQualify, Claimable, Stored, PartiesKept
<1> QED
  BY <1>2, <1>3, <1>4, <1>5, <1>6 DEF HostProgress

\* One handler moves: the others keep theirs, and the one that moved has to show
\* that what it relies on next is so.
LEMMA HandlerMoves ==
  ASSUME SInv, NEW h \in Hosts, NEW u \in Handler, host' = [host EXCEPT ![h] = u],
         Sound(h, u)',
         lock' = lock
         \/ lock' = [l \in Leads |-> IF lock[l] = h THEN None ELSE lock[l]]
         \/ \E l \in Leads : lock[l] = None /\ lock' = [lock EXCEPT ![l] = h],
         \A l \in Leads : row'[l] # row[l] => lock[l] = h,
         Remembered', \A l \in Leads : anchor[l] # None => anchor'[l] = anchor[l],
         \A l \in Leads : ~Claimable(l) => ~Claimable(l)',
         deals' \subseteq [lead : Leads, party : Parties \cup {None}], DealsFollow',
         told' \subseteq Leads \X Parties, verbs' \in 0..MaxVerbs
  PROVE  HostInv'
<1>1. lock \in [Leads -> Sessions \cup {None}] /\ HostInv /\ None \notin Hosts
  BY HostsAreOthers DEF SInv, IInv, TypeOK
<1>2. \A v \in Hosts : host'[v] = IF v = h THEN u ELSE host[v]
  BY <1>1 DEF HostInv, HostTypeOK
<1>3. HostTypeOK'
  BY <1>1 DEF HostInv, HostTypeOK
<1>4. ASSUME NEW v \in Hosts, v # h
      PROVE  Sound(v, host[v])'
  <2>1. host'[v] = host[v] /\ Sound(v, host[v])
    BY <1>1, <1>2, <1>4 DEF HostInv
  <2>2. \A l \in Leads : lock'[l] = v <=> lock[l] = v
    BY <1>1, <1>4
  <2>3. \A l \in Leads : lock[l] = v => row'[l] = row[l]
    BY <1>4
  <2> DEFINE s == host[v]
  <2>4. s \in Handler
    BY <1>1 DEF HostInv, HostTypeOK
  <2>5. s.pc = "claimed" => Claimable(s.lead)'
    <3>1. s.pc = "claimed" => s.lead \in Leads /\ lock[s.lead] = v /\ Claimable(s.lead)
      BY <2>1 DEF Sound
    <3> QED
      BY <2>1, <2>3, <3>1 DEF Claimable, Stored
  <2>6. s.pc = "publish" => anchor'[s.lead] = s.party
    BY <2>1, NoneIsNothing DEF Sound
  <2>7. s.pc \in {"open", "opened"} => s.party \in {None, anchor'[s.lead]}
    BY <2>1 DEF Sound
  <2>8. s.pc = "reread" => ~Claimable(s.lead)'
    BY <2>1 DEF Sound
  <2> QED
    BY <2>1, <2>2, <2>5, <2>6, <2>7, <2>8 DEF Sound
<1>5. \A v \in Hosts : Sound(v, host[v])'
  <2>1. host'[h] = u
    BY <1>2
  <2>2. Sound(h, host[h])'
    BY <2>1 DEF Sound, Claimable, Stored
  <2> QED
    BY <1>4, <2>2
<1> QED
  BY <1>3, <1>5 DEF HostInv

-----------------------------------------------------------------------------
(* One lemma per kind of step of a handler.                                  *)

\* At rest a handler relies on nothing but holding no lock.
LEMMA RestingIsHandler == Resting \in Handler
BY DEF Resting, Handler

\* A handler that goes on has its next place, the same lead and a party.
LEMMA HandlerContinues ==
  ASSUME NEW h \in Hosts, host \in [Hosts -> Handler],
         NEW pc \in {"mint", "claim", "claimed", "reread", "publish", "open", "opened"},
         NEW p \in Parties \cup {None}, Continue(h, pc, p)
  PROVE  \E u \in Handler : /\ host' = [host EXCEPT ![h] = u]
                            /\ u.pc = pc /\ u.lead = host[h].lead /\ u.party = p
<1> DEFINE u == [host[h] EXCEPT !.pc = pc, !.party = p]
<1>1. u \in Handler /\ u.pc = pc /\ u.lead = host[h].lead /\ u.party = p
  BY DEF Handler
<1>2. host' = [host EXCEPT ![h] = u]
  BY DEF Continue
<1> QED
  BY <1>1, <1>2

\* A handler that has only read keeps no lock, wherever its reads take it.
LEMMA ReadingSteps ==
  ASSUME SInv, NEW h \in Hosts,
         \/ \E l \in Leads : Ask(h, l, "read") \/ Ask(h, l, "look")
         \/ FindForConvert(h) \/ MintCustomer(h) \/ FindForQualify(h)
         \/ Announce(h) \/ Reread(h),
         Remember
  PROVE  HostInv'
<1> DEFINE l == host[h].lead
<1>1. /\ HostInv /\ host[h] \in Handler /\ Sound(h, host[h]) /\ row \in [Leads -> Row]
      /\ host \in [Hosts -> Handler]
  BY DEF SInv, IInv, TypeOK, HostInv, HostTypeOK
<1>2. row' = row /\ lock' = lock /\ deals' = deals /\ verbs' \in 0..MaxVerbs
  BY <1>1, ConversionAssumption
     DEF Ask, FindForConvert, MintCustomer, FindForQualify, Announce, Reread, HostInv, HostTypeOK
<1>3. \A k \in Leads : lock[k] # h
  BY <1>1 DEF Ask, FindForConvert, MintCustomer, FindForQualify, Announce, Reread, Sound
<1>4. /\ Remembered' /\ \A k \in Leads : anchor[k] # None => anchor'[k] = anchor[k]
      /\ deals' \subseteq [lead : Leads, party : Parties \cup {None}] /\ DealsFollow'
  <2>1. PartiesKept
    BY <1>2 DEF PartiesKept
  <2>2. Remembered' /\ \A k \in Leads : anchor[k] # None => anchor'[k] = anchor[k]
    BY <1>1, <1>2, <2>1, RemembersOn DEF HostInv
  <2> QED
    BY <1>1, <1>2, <2>2 DEF HostInv, HostTypeOK, DealsFollow
<1>5. told' \subseteq Leads \X Parties
  <2>1. told \subseteq Leads \X Parties
    BY <1>1 DEF HostInv, HostTypeOK
  <2>2. ASSUME told' # told PROVE \E p \in Parties : l \in Leads /\ told' = told \cup {<<l, p>>}
    <3>1. CASE FindForConvert(h)
      BY <1>1, <2>2, <3>1 DEF FindForConvert, Say, Sound, Row
    <3>2. CASE Announce(h)
      BY <1>1, <2>2, <3>2 DEF Announce, Say, Sound
    <3>3. CASE Reread(h)
      <4>1. l \in Leads /\ ~Claimable(l)
        BY <1>1, <3>3 DEF Reread, Sound
      <4>2. row[l].party \in Parties /\ told' = told \cup {<<l, row[l].party>>}
        BY <1>1, <2>2, <3>3, <4>1 DEF Reread, Say, WinnersParty, Claimable, Row
      <4> QED
        BY <4>1, <4>2
    <3> QED
      BY <2>2, <3>1, <3>2, <3>3 DEF Ask, MintCustomer, FindForQualify
  <2> QED
    BY <2>1, <2>2
<1>6. PICK u \in Handler : host' = [host EXCEPT ![h] = u] /\ Sound(h, u)
  <2> USE <1>1, <1>3
  <2>1. Resting \in Handler /\ Sound(h, Resting)
    BY RestingIsHandler DEF Resting, Sound
  <2>2. CASE Finish(h)
    BY <2>1, <2>2 DEF Finish
  <2>3. ASSUME NEW k \in Leads, NEW pc \in {"read", "look"}, Ask(h, k, pc)
        PROVE  \E u \in Handler : host' = [host EXCEPT ![h] = u] /\ Sound(h, u)
    <3>1. [pc |-> pc, lead |-> k, party |-> None] \in Handler
            /\ Sound(h, [pc |-> pc, lead |-> k, party |-> None])
      BY DEF Handler, Sound
    <3> QED
      BY <2>3, <3>1 DEF Ask
  <2>4. ASSUME NEW pc \in {"mint", "claim", "open"}, NEW p \in Parties \cup {None},
               host[h].pc # "idle", Continue(h, pc, p),
               pc = "claim" => p \in Parties,
               pc = "open" => p \in {None, anchor[l]}
        PROVE  \E u \in Handler : host' = [host EXCEPT ![h] = u] /\ Sound(h, u)
    <3>1. PICK u \in Handler : /\ host' = [host EXCEPT ![h] = u]
                               /\ u.pc = pc /\ u.lead = l /\ u.party = p
      BY <2>4, HandlerContinues
    <3>2. Sound(h, u)
      BY <2>4, <3>1 DEF Sound
    <3> QED
      BY <3>1, <3>2
  <2>5. CASE FindForConvert(h)
    BY <2>2, <2>4, <2>5 DEF FindForConvert
  <2>6. CASE MintCustomer(h)
    BY <2>2, <2>4, <2>6 DEF MintCustomer
  <2>7. CASE FindForQualify(h)
    <3>1. l \in Leads
      BY <2>7 DEF FindForQualify, Sound
    <3>2. row[l].party \in Parties \cup {None} /\ (Visible(l, None) => row[l].party = anchor[l])
      BY <1>1, <3>1 DEF Row, Visible, HostInv, Remembered
    <3> QED
      BY <2>2, <2>4, <2>7, <3>2 DEF FindForQualify
  <2>8. CASE Announce(h) \/ Reread(h)
    BY <2>2, <2>8 DEF Announce, Reread
  <2> QED
    BY <2>3, <2>5, <2>6, <2>7, <2>8
<1>7. Sound(h, u)'
  BY <1>2, <1>4, <1>6, NoneIsNothing DEF Sound, Claimable, Stored
<1>8. \A k \in Leads : ~Claimable(k) => ~Claimable(k)'
  BY <1>2 DEF Claimable, Stored
<1> QED
  BY <1>2, <1>4, <1>5, <1>6, <1>7, <1>8, HandlerMoves

\* A handler that writes takes the lock, commits or dies: it relies on what its
\* lock keeps, and lets go of every lock when it is done.
LEMMA WritingSteps ==
  ASSUME SInv, NEW h \in Hosts,
         Claim(h) \/ OpenDeal(h) \/ CommitClaim(h) \/ CommitDeal(h) \/ HostCrash(h),
         Remember
  PROVE  HostInv'
<1> DEFINE l == host[h].lead
           p == host[h].party
<1>1. /\ HostInv /\ host[h] \in Handler /\ Sound(h, host[h]) /\ row \in [Leads -> Row]
      /\ host \in [Hosts -> Handler] /\ lock \in [Leads -> Sessions \cup {None}]
      /\ None \notin Hosts
  BY HostsAreOthers DEF SInv, IInv, TypeOK, HostInv, HostTypeOK
<1>2. told' = told /\ verbs' = verbs
  BY DEF Claim, OpenDeal, CommitClaim, CommitDeal, HostCrash
<1>3. /\ \/ lock' = lock
         \/ lock' = [k \in Leads |-> IF lock[k] = h THEN None ELSE lock[k]]
         \/ \E k \in Leads : lock[k] = None /\ lock' = [lock EXCEPT ![k] = h]
      /\ \A k \in Leads : row'[k] # row[k] => lock[k] = h
      /\ Remembered' /\ \A k \in Leads : anchor[k] # None => anchor'[k] = anchor[k]
      /\ \A k \in Leads : ~Claimable(k) => ~Claimable(k)'
  BY <1>1, HostStepShape, RemembersOn DEF HostProgress, HostInv
<1>4. told' \subseteq Leads \X Parties /\ verbs' \in 0..MaxVerbs
  BY <1>1, <1>2 DEF HostInv, HostTypeOK
<1>5. deals \subseteq [lead : Leads, party : Parties \cup {None}] /\ DealsFollow
  BY <1>1 DEF HostInv, HostTypeOK
<1>6. \A d \in deals : d.party \in {None, anchor'[d.lead]}
  BY <1>3, <1>5 DEF DealsFollow
<1>7. ASSUME NEW u \in Handler, host' = [host EXCEPT ![h] = u], Sound(h, u)',
             deals' \subseteq [lead : Leads, party : Parties \cup {None}], DealsFollow'
      PROVE  HostInv'
  BY <1>3, <1>4, <1>7, HandlerMoves
<1>8. ASSUME Finish(h), HostReleases(h),
             deals' \subseteq [lead : Leads, party : Parties \cup {None}], DealsFollow'
      PROVE  HostInv'
  <2>1. \A k \in Leads : lock'[k] # h
    BY <1>1, <1>8 DEF HostReleases
  <2>2. Sound(h, Resting)'
    BY <2>1 DEF Sound, Resting
  <2> QED
    BY <1>7, <1>8, <2>2, RestingIsHandler DEF Finish
<1>9. CASE HostCrash(h)
  <2>1. deals' = deals
    BY <1>9 DEF HostCrash
  <2> QED
    BY <1>5, <1>6, <1>8, <1>9, <2>1 DEF HostCrash, DealsFollow
<1>10. CASE CommitDeal(h)
  <2>1. l \in Leads /\ p \in {None, anchor[l]} /\ p \in Parties \cup {None}
    BY <1>1, <1>10 DEF CommitDeal, Sound, Handler
  <2>2. deals' = deals \cup {[lead |-> l, party |-> p]}
    BY <1>10 DEF CommitDeal
  <2>3. p \in {None, anchor'[l]}
    BY <1>3, <2>1
  <2> HIDE DEF l, p
  <2>4. \A d \in deals' : d.party \in {None, anchor'[d.lead]}
    BY <1>6, <2>2, <2>3
  <2>5. deals' \subseteq [lead : Leads, party : Parties \cup {None}]
    BY <1>5, <2>1, <2>2
  <2> QED
    BY <1>8, <1>10, <2>4, <2>5 DEF CommitDeal, DealsFollow
<1>11. CASE CommitClaim(h)
  <2>1. l \in Leads /\ lock[l] = h /\ row[l].party = None /\ p \in Parties /\ row[l].life # "gone"
    BY <1>1, <1>11 DEF CommitClaim, Sound, Claimable, Stored
  <2> DEFINE new == ConvertedTo(l, p)
  <2>2. new.party = p /\ new.life # "gone"
    BY <1>1, <2>1, VerbsMakeRows
  <2>3. row' = [row EXCEPT ![l] = new] /\ deals' = BackFilled(l, p) /\ HostReleases(h)
          /\ Continue(h, "publish", p)
    BY <1>11 DEF CommitClaim
  <2>4. PICK u \in Handler : /\ host' = [host EXCEPT ![h] = u]
                             /\ u.pc = "publish" /\ u.lead = l /\ u.party = p
    BY <1>1, <2>1, <2>3, HandlerContinues
  <2> HIDE DEF new, l, p
  <2>5. anchor'[l] = p
    <3>1. row'[l] = new
      BY <1>1, <2>1, <2>3
    <3> QED
      BY <1>3, <2>1, <2>2, <3>1 DEF Remembered
  <2>6. \A k \in Leads : lock'[k] # h
    BY <1>1, <2>3 DEF HostReleases
  <2>7. Sound(h, u)'
    BY <2>1, <2>4, <2>5, <2>6 DEF Sound
  <2>8. ASSUME NEW e \in deals'
        PROVE  e \in [lead : Leads, party : Parties \cup {None}]
                 /\ e.party \in {None, anchor'[e.lead]}
    <3>1. PICK d \in deals :
            e = [lead |-> d.lead, party |-> IF d.lead = l /\ d.party = None THEN p ELSE d.party]
      BY <2>3, <2>8 DEF BackFilled
    <3> QED
      BY <1>5, <1>6, <2>1, <2>5, <3>1
  <2> QED
    BY <1>7, <2>4, <2>7, <2>8 DEF DealsFollow
<1>12. CASE Claim(h) \/ OpenDeal(h)
  <2>1. deals' = deals /\ row' = row
    BY <1>12 DEF Claim, OpenDeal
  <2>2. l \in Leads /\ \A k \in Leads : lock[k] # h
    BY <1>1, <1>12 DEF Claim, OpenDeal, Sound
  <2>3. PICK pc \in {"claimed", "reread", "opened"} :
          /\ Continue(h, pc, p)
          /\ pc = "claimed" => Claimable(l) /\ lock' = [lock EXCEPT ![l] = h] /\ p \in Parties
          /\ pc = "reread" => lock' = lock /\ ~Claimable(l)
          /\ pc = "opened" => /\ p \in {None, anchor[l]}
                              /\ lock' = lock \/ lock' = [lock EXCEPT ![l] = h]
    <3>1. CASE Claim(h) /\ Claimable(l)
      BY <1>1, <3>1 DEF Claim, HostLocks, Sound
    <3>2. CASE Claim(h) /\ ~Claimable(l)
      BY <3>2 DEF Claim, HostLocks
    <3>3. CASE OpenDeal(h)
      BY <1>1, <3>3 DEF OpenDeal, HostLocks, Sound
    <3> QED
      BY <1>12, <3>1, <3>2, <3>3
  <2>4. p \in Parties \cup {None}
    BY <1>1 DEF Handler
  <2>5. PICK u \in Handler : /\ host' = [host EXCEPT ![h] = u]
                             /\ u.pc = pc /\ u.lead = l /\ u.party = p
    BY <1>1, <2>3, <2>4, HandlerContinues DEF Handler
  <2> HIDE DEF l, p
  <2>6. Sound(h, u)'
    BY <1>1, <1>3, <2>1, <2>2, <2>3, <2>5 DEF Sound, Claimable, Stored
  <2> QED
    BY <1>5, <1>6, <1>7, <2>1, <2>5, <2>6 DEF DealsFollow
<1> QED
  BY <1>9, <1>10, <1>11, <1>12

-----------------------------------------------------------------------------
\* At first nobody holds a lock, asks for a verb or has been told anything.
LEMMA SystemInitEstablishes == SystemInit => SInv
<1> SUFFICES ASSUME SystemInit PROVE SInv
  OBVIOUS
<1>1. IInv
  BY InitEstablishes DEF SystemInit
<1>2. HostTypeOK /\ DealsFollow /\ Remembered
  <2>1. \A l \in Leads : row[l].party \in Parties \cup {None}
    BY TableAssumption DEF SystemInit, Init, TableInit, Row
  <2> QED
    BY <2>1, RestingIsHandler, ConversionAssumption
       DEF SystemInit, ConversionInit, HostTypeOK, DealsFollow, Remembered
<1>3. ASSUME NEW h \in Hosts PROVE Sound(h, host[h])
  BY HostsAreOthers DEF SystemInit, ConversionInit, Init, TableInit, Sound, Resting
<1> QED
  BY <1>1, <1>2, <1>3 DEF SInv, HostInv

\* Every step remembers, one that changes nothing too.
LEMMA StepsRemember == SInv /\ [SystemNext]_systemVars => Remember
<1> SUFFICES ASSUME SInv, UNCHANGED systemVars PROVE Remember
  BY DEF SystemNext
<1>1. anchor \in [Leads -> Parties \cup {None}]
        /\ \A l \in Leads : (IF row'[l].life = "gone" THEN anchor[l] ELSE row'[l].party) = anchor[l]
  BY DEF SInv, HostInv, Remembered, systemVars, vars
<1> QED
  BY <1>1 DEF Remember, systemVars

\* Every step of either side keeps both invariants.
LEMMA SystemKeeps == SInv /\ [SystemNext]_systemVars => SInv'
<1> SUFFICES ASSUME SInv, [SystemNext]_systemVars PROVE SInv'
  OBVIOUS
<1>0. Remember
  BY StepsRemember
<1>1. CASE [Next]_vars /\ UNCHANGED hostVars
  BY <1>0, <1>1, NextPreserves, MergesKeepHostInv DEF SInv
<1>2. ASSUME NEW h \in Hosts, UNCHANGED mergeVars,
             \/ \E l \in Leads : Ask(h, l, "read") \/ Ask(h, l, "look")
             \/ HostProgress(h) \/ Claim(h) \/ OpenDeal(h) \/ HostCrash(h)
      PROVE  SInv'
  <2>1. IInv'
    BY <1>2, HostKeepsMerges, HostStepShape DEF SInv
  <2>2. HostInv'
    BY <1>0, <1>2, ReadingSteps, WritingSteps DEF HostProgress
  <2> QED
    BY <2>1, <2>2 DEF SInv
<1> QED
  BY <1>1, <1>2 DEF SystemNext, HostNext, systemVars

\* Both invariants hold in every state merges and verbs reach together.
THEOREM SystemInvariantHolds == SystemSpec => []SInv
BY SystemInitEstablishes, SystemKeeps, PTL DEF SystemSpec

\* Every variable of the composed system keeps its type.
THEOREM SystemTypeCorrect == SystemSpec => []SystemTypeOK
<1>1. SInv => SystemTypeOK
  BY DEF SInv, IInv, HostInv, Remembered, SystemTypeOK
<1> QED
  BY <1>1, SystemInvariantHolds, PTL

\* What a merge read stays locked and unchanged beside the verbs: no conversion
\* or qualification commits between a merge's read and its writes.
THEOREM SystemCacheIsFresh == SystemSpec => []CacheFresh
<1>1. SInv => CacheFresh
  BY DEF SInv, IInv, Holds, CacheFresh
<1> QED
  BY <1>1, SystemInvariantHolds, PTL

\* A handler's claim holds until it commits: claim_conversion's compare-and-set
\* is not undone by a merge, a delete or another handler.
THEOREM ClaimsAreHeld == SystemSpec => []ClaimsHold
<1>1. SInv => ClaimsHold
  BY DEF SInv, HostInv, Sound, ClaimsHold
<1> QED
  BY <1>1, SystemInvariantHolds, PTL

\* An opportunity has its lead's party or none, however stale the read it was
\* opened from.
THEOREM DealsFollowLeads == SystemSpec => []DealsFollow
<1>1. SInv => DealsFollow
  BY DEF SInv, HostInv
<1> QED
  BY <1>1, SystemInvariantHolds, PTL

-----------------------------------------------------------------------------
(* Merges and verbs together implement ConvertOnce.                          *)

\* Merges and other writers set no party but one that was not set.
LEMMA MergesResolve ==
  ASSUME SInv, [Next]_vars, Remember
  PROVE  anchor' = anchor \/ \E l \in Leads, p \in Parties :
                               anchor[l] = None /\ anchor' = [anchor EXCEPT ![l] = p]
<1>1. Remembered /\ IInv
  BY DEF SInv, HostInv
<1>2. CASE OtherWriter
  <2>1. PICK l \in Leads :
          /\ \A k \in Leads \ {l} : row'[k] = row[k]
          /\ row'[l].life # "gone" => \/ row'[l].party = row[l].party
                                      \/ row[l].party = None /\ row'[l].party \in Parties
          /\ row[l].life = "gone" => row'[l].life = "gone"
    BY <1>1, <1>2, OtherWriterShape
  <2> QED
    BY <1>1, <2>1, OneResolves
<1>3. CASE \A k \in Leads : row'[k].party = row[k].party /\ row'[k].life = row[k].life
  <2>1. anchor' = [k \in Leads |-> IF row'[k].life = "gone" THEN anchor[k] ELSE row'[k].party]
    BY DEF Remember
  <2>2. \A k \in Leads : (IF row'[k].life = "gone" THEN anchor[k] ELSE row'[k].party) = anchor[k]
    BY <1>1, <1>3 DEF Remembered
  <2> QED
    BY <1>1, <2>1, <2>2 DEF Remembered
<1> QED
  BY <1>1, <1>2, <1>3, MergeStepShape, CommitShape

\* Nobody is told of a lead before it has its party, and then only that one.
LEMMA VerbsTell ==
  ASSUME SInv, NEW h \in Hosts, told' # told,
         \/ \E l \in Leads : Ask(h, l, "read") \/ Ask(h, l, "look")
         \/ HostProgress(h) \/ Claim(h) \/ OpenDeal(h) \/ HostCrash(h)
  PROVE  /\ row' = row
         /\ \E l \in Leads : anchor[l] # None /\ told' = told \cup {<<l, anchor[l]>>}
<1> DEFINE l == host[h].lead
<1>1. Sound(h, host[h]) /\ \A k \in Leads : row[k].life # "gone" => anchor[k] = row[k].party
  BY DEF SInv, HostInv, Remembered
<1>2. CASE FindForConvert(h)
  BY <1>1, <1>2 DEF FindForConvert, Say, Sound, Visible
<1>3. CASE Announce(h)
  BY <1>1, <1>3, NoneIsNothing DEF Announce, Say, Sound
<1>4. CASE Reread(h)
  BY <1>1, <1>4 DEF Reread, Say, WinnersParty, Sound, Claimable, Stored
<1> QED
  BY <1>2, <1>3, <1>4
     DEF HostProgress, Ask, MintCustomer, CommitClaim, FindForQualify, CommitDeal, Claim, OpenDeal,
         HostCrash

\* A step of a handler that tells nothing resolves one lead, or none.
LEMMA VerbsResolve ==
  ASSUME SInv, Remember, NEW h \in Hosts,
         \/ \E l \in Leads : Ask(h, l, "read") \/ Ask(h, l, "look")
         \/ HostProgress(h) \/ Claim(h) \/ OpenDeal(h) \/ HostCrash(h)
  PROVE  anchor' = anchor \/ \E l \in Leads, p \in Parties :
                               anchor[l] = None /\ anchor' = [anchor EXCEPT ![l] = p]
<1> DEFINE l == host[h].lead
           p == host[h].party
<1>1. Sound(h, host[h]) /\ row \in [Leads -> Row] /\ Remembered
  BY DEF SInv, HostInv, IInv, TypeOK
<1>2. CASE CommitClaim(h)
  <2>1. l \in Leads /\ row[l].party = None /\ p \in Parties /\ row[l].life # "gone"
    BY <1>1, <1>2 DEF CommitClaim, Sound, Claimable, Stored
  <2> DEFINE new == ConvertedTo(l, p)
  <2>2. new.party = p /\ row' = [row EXCEPT ![l] = new]
    BY <1>1, <1>2, <2>1, VerbsMakeRows DEF CommitClaim
  <2> HIDE DEF new, l, p
  <2>3. \A k \in Leads : row'[k] = IF k = l THEN new ELSE row[k]
    BY <1>1, <2>1, <2>2
  <2> QED
    BY <1>1, <2>1, <2>2, <2>3, OneResolves
<1>3. CASE CommitDeal(h)
  <2>1. l \in Leads
    BY <1>1, <1>3 DEF CommitDeal, Sound
  <2> DEFINE new == Qualified(l)
  <2>2. /\ new.party = row[l].party /\ new.life = row[l].life
        /\ row' = row \/ row' = [row EXCEPT ![l] = new]
    BY <1>1, <1>3, <2>1 DEF CommitDeal, Qualified, Row
  <2> HIDE DEF new, l
  <2>3. \A k \in Leads : row'[k] = row[k] \/ (k = l /\ row'[k] = new)
    BY <1>1, <2>1, <2>2
  <2> QED
    BY <1>1, <2>1, <2>2, <2>3, OneResolves
<1>4. CASE row' = row
  <2>1. \A k \in Leads : (IF row'[k].life = "gone" THEN anchor[k] ELSE row'[k].party) = anchor[k]
    BY <1>1, <1>4 DEF Remembered
  <2> QED
    BY <1>1, <2>1 DEF Remember, Remembered
<1> QED
  BY <1>2, <1>3, <1>4
     DEF HostProgress, Ask, FindForConvert, MintCustomer, Announce, Reread, FindForQualify, Claim,
         OpenDeal, HostCrash

\* A lead is resolved to one party and everybody is told that one, whatever
\* merges, deletes, claims, crashes and late answers interleave.
THEOREM SystemKeepsPromise == SystemSpec => KeepsPromise
<1>1. SystemInit => Promise!PromiseInit
  BY SystemInitEstablishes
     DEF SInv, HostInv, Remembered, SystemInit, ConversionInit, Promise!PromiseInit
<1>2. ASSUME SInv, [SystemNext]_systemVars
      PROVE  [Promise!PromiseNext]_Promise!promise
  <2>1. \/ [Next]_vars /\ told' = told
        \/ \E h \in Hosts :
             \/ \E l \in Leads : Ask(h, l, "read") \/ Ask(h, l, "look")
             \/ HostProgress(h) \/ Claim(h) \/ OpenDeal(h) \/ HostCrash(h)
    BY <1>2 DEF SystemNext, HostNext, systemVars, hostVars
  <2>2. Remember /\ Remembered
    BY <1>2, StepsRemember DEF SInv, HostInv
  <2>3. CASE told' # told
    <3>1. PICK l \in Leads : anchor[l] # None /\ told' = told \cup {<<l, anchor[l]>>}
      BY <1>2, <2>1, <2>3, VerbsTell
    <3>2. row' = row
      BY <1>2, <2>1, <2>3, VerbsTell
    <3>3. \A k \in Leads : (IF row'[k].life = "gone" THEN anchor[k] ELSE row'[k].party) = anchor[k]
      BY <2>2, <3>2 DEF Remembered
    <3>4. anchor' = anchor
      BY <2>2, <3>3 DEF Remember, Remembered
    <3> QED
      BY <3>1, <3>4 DEF Promise!PromiseNext, Promise!Tell
  <2>4. CASE told' = told
    <3>1. anchor' = anchor \/ \E l \in Leads, p \in Parties :
                                 anchor[l] = None /\ anchor' = [anchor EXCEPT ![l] = p]
      BY <1>2, <2>1, <2>2, MergesResolve, VerbsResolve
    <3> QED
      BY <2>4, <3>1 DEF Promise!PromiseNext, Promise!Resolve, Promise!promise
  <2> QED
    BY <2>3, <2>4
<1> QED
  BY <1>1, <1>2, SystemInvariantHolds, PTL DEF SystemSpec, KeepsPromise, Promise!PromiseSpec

-----------------------------------------------------------------------------
(* The forest, although hosts write beside the merges.                       *)

\* An update that a handler is about to commit is of a row it may still qualify.
DealsQualify ==
  \A h \in Hosts : host[h].pc = "opened" /\ lock[host[h].lead] = h => Qualifies(host[h].lead)

\* Nobody converts a lead under the handler that is qualifying it.
LEMMA DealsQualifyStep == SInv /\ DealsQualify /\ [SystemNext]_systemVars => DealsQualify'
<1> SUFFICES ASSUME SInv, DealsQualify, [SystemNext]_systemVars,
                    NEW v \in Hosts, host'[v].pc = "opened", lock'[host'[v].lead] = v
             PROVE  Qualifies(host[v].lead)'
  BY DEF DealsQualify, Qualifies, Stored
<1> DEFINE l == host[v].lead
<1>1. host \in [Hosts -> Handler] /\ Sound(v, host[v]) /\ lock \in [Leads -> Sessions \cup {None}]
  BY DEF SInv, HostInv, HostTypeOK, IInv, TypeOK
<1>2. ASSUME host'[v] = host[v], lock[l] = v, row'[l] = row[l]
      PROVE  Qualifies(host[v].lead)'
  BY <1>2 DEF DealsQualify, Qualifies, Stored
<1>3. CASE [Next]_vars /\ UNCHANGED hostVars
  <2>1. host'[v] = host[v] /\ l \in Leads
    BY <1>1, <1>3 DEF hostVars, Sound
  <2> QED
    BY <1>2, <1>3, <2>1, MergesLeaveHosts DEF SInv
<1>4. ASSUME NEW h \in Hosts,
             \/ \E k \in Leads : Ask(h, k, "read") \/ Ask(h, k, "look")
             \/ HostProgress(h) \/ Claim(h) \/ OpenDeal(h) \/ HostCrash(h)
      PROVE  Qualifies(host[v].lead)'
  <2>1. CASE h # v
    <3>1. host'[v] = host[v] /\ l \in Leads
      BY <1>1, <1>4, <2>1
         DEF HostProgress, Ask, FindForConvert, MintCustomer, CommitClaim, Announce, Reread,
             FindForQualify, CommitDeal, Claim, OpenDeal, HostCrash, Continue, Finish, Sound
    <3>2. \A k \in Leads : /\ lock'[k] = v => lock[k] = v
                           /\ row'[k] # row[k] => lock[k] = h
      BY <1>1, <1>4, <2>1, HostsAreOthers, HostStepShape
    <3> QED
      BY <1>2, <2>1, <3>1, <3>2
  <2>2. CASE h = v /\ OpenDeal(v)
    <3>1. host[v].pc = "open" /\ row' = row /\ host'[v].lead = l /\ l \in Leads
      BY <1>1, <2>2 DEF OpenDeal, Continue, Sound, Handler
    <3>2. lock[l] # v
      BY <1>1, <3>1 DEF Sound
    <3>3. Qualifies(l)
      BY <3>1, <3>2, <2>2 DEF OpenDeal, HostLocks
    <3> QED
      BY <3>1, <3>3 DEF Qualifies, Stored
  <2>3. CASE h = v /\ ~OpenDeal(v)
    <3>1. host[v] \in Handler
      BY <1>1
    <3>2. \A pc, p : [host[v] EXCEPT !.pc = pc, !.party = p].pc = pc
      BY <3>1 DEF Handler
    <3>3. \/ \E pc \in {"mint", "claim", "claimed", "reread", "publish", "open"} : \E p : Continue(v, pc, p)
          \/ \E pc \in {"read", "look"} : \E k :
               host' = [host EXCEPT ![v] = [pc |-> pc, lead |-> k, party |-> None]]
          \/ Finish(v)
      <4>1. CASE HostProgress(v)
        BY <4>1 DEF HostProgress, FindForConvert, MintCustomer, CommitClaim, Announce, Reread,
             FindForQualify, CommitDeal
      <4>2. CASE Claim(v)
        BY <4>2 DEF Claim
      <4>3. CASE HostCrash(v) \/ \E k \in Leads : Ask(v, k, "read") \/ Ask(v, k, "look")
        BY <4>3 DEF HostCrash, Ask
      <4> QED
        BY <1>4, <2>3, <4>1, <4>2, <4>3
    <3>4. ASSUME NEW u, host' = [host EXCEPT ![v] = u], u.pc # "opened"
          PROVE  host'[v].pc # "opened"
      BY <1>1, <3>4
    <3>5. host'[v].pc # "opened"
      <4>1. ASSUME NEW pc \in {"mint", "claim", "claimed", "reread", "publish", "open"}, NEW p,
                   Continue(v, pc, p)
            PROVE  host'[v].pc # "opened"
        <5> DEFINE u == [host[v] EXCEPT !.pc = pc, !.party = p]
        <5>1. u.pc # "opened" /\ host' = [host EXCEPT ![v] = u]
          BY <3>2, <4>1 DEF Continue
        <5> QED
          BY <3>4, <5>1
      <4>2. ASSUME NEW pc \in {"read", "look"}, NEW k,
                   host' = [host EXCEPT ![v] = [pc |-> pc, lead |-> k, party |-> None]]
            PROVE  host'[v].pc # "opened"
        <5>1. [pc |-> pc, lead |-> k, party |-> None].pc # "opened"
          BY <4>2
        <5> QED
          BY <3>4, <4>2, <5>1
      <4>3. CASE Finish(v)
        <5>1. Resting.pc # "opened" /\ host' = [host EXCEPT ![v] = Resting]
          BY <4>3 DEF Finish, Resting
        <5> QED
          BY <3>4, <5>1
      <4> QED
        BY <3>3, <4>1, <4>2, <4>3
    <3> QED
      BY <3>5
  <2> QED
    BY <1>4, <2>1, <2>2, <2>3
<1> QED
  BY <1>3, <1>4 DEF SystemNext, HostNext, systemVars

\* A verb converts a lead or changes nothing the forest sees.
LEMMA VerbsConvert ==
  ASSUME SInv, DealsQualify, NEW h \in Hosts,
         \/ \E l \in Leads : Ask(h, l, "read") \/ Ask(h, l, "look")
         \/ HostProgress(h) \/ Claim(h) \/ OpenDeal(h) \/ HostCrash(h)
  PROVE  (\E l \in Leads : Forest!Convert(l)) \/ UNCHANGED Forest!forest
<1> DEFINE l == host[h].lead
           p == host[h].party
<1>1. Sound(h, host[h]) /\ row \in [Leads -> Row]
  BY DEF SInv, HostInv, IInv, TypeOK
<1>2. ASSUME NEW k \in Leads, NEW new, row' = [row EXCEPT ![k] = new],
             new.merged_into = row[k].merged_into, new.fields = row[k].fields,
             new.life = row[k].life
      PROVE  /\ [j \in Leads |-> row'[j].merged_into] = [j \in Leads |-> row[j].merged_into]
             /\ [j \in Leads |-> row'[j].fields] = [j \in Leads |-> row[j].fields]
             /\ {j \in Leads : row'[j].life = "gone"} = {j \in Leads : row[j].life = "gone"}
             /\ \A j \in Leads : row'[j] = IF j = k THEN new ELSE row[j]
  <2>1. \A j \in Leads : row'[j] = IF j = k THEN new ELSE row[j]
    BY <1>1, <1>2
  <2>2. \A j \in Leads : row'[j].merged_into = row[j].merged_into /\ row'[j].fields = row[j].fields
    BY <1>2, <2>1
  <2>3. \A j \in Leads : row'[j].life = row[j].life
    BY <1>2, <2>1
  <2>4. {j \in Leads : row'[j].life = "gone"} = {j \in Leads : row[j].life = "gone"}
    BY <2>3
  <2> QED
    BY <2>1, <2>2, <2>4, Zenon
<1>3. CASE CommitClaim(h)
  <2>1. l \in Leads /\ row[l] \in Row /\ row[l].life # "gone"
    BY <1>1, <1>3 DEF CommitClaim, Sound, Claimable, Stored
  <2> DEFINE new == ConvertedTo(l, p)
  <2>2. /\ row' = [row EXCEPT ![l] = new]
        /\ new.merged_into = row[l].merged_into /\ new.fields = row[l].fields
        /\ new.status = "converted" /\ new.life = row[l].life
    BY <1>3, <2>1 DEF CommitClaim, ConvertedTo, Row
  <2> HIDE DEF new, l
  <2>3. \A j \in Leads : row'[j].status = "converted" <=> (row[j].status = "converted" \/ j = l)
    <3>1. \A j \in Leads : row'[j] = IF j = l THEN new ELSE row[j]
      BY <1>1, <2>1, <2>2
    <3> QED
      BY <2>2, <3>1
  <2>4. {j \in Leads : row'[j].status = "converted"}
          = {j \in Leads : row[j].status = "converted"} \cup {l}
    BY <2>1, <2>3
  <2> QED
    BY <1>2, <2>1, <2>2, <2>4 DEF Forest!Convert
<1>4. CASE row' = row
  BY <1>4 DEF Forest!forest
<1>5. CASE CommitDeal(h) /\ lock[l] = h
  <2>1. l \in Leads /\ row[l] \in Row /\ row[l].status # "converted"
    BY <1>1, <1>5 DEF CommitDeal, Sound, DealsQualify, Qualifies
  <2> DEFINE new == Qualified(l)
  <2>2. /\ row' = [row EXCEPT ![l] = new]
        /\ new.merged_into = row[l].merged_into /\ new.fields = row[l].fields
        /\ new.status = "qualified" /\ new.life = row[l].life
    BY <1>5, <2>1 DEF CommitDeal, Qualified, Row
  <2> HIDE DEF new, l
  <2>3. {j \in Leads : row'[j].status = "converted"} = {j \in Leads : row[j].status = "converted"}
    BY <1>2, <2>1, <2>2
  <2> QED
    BY <1>2, <2>1, <2>2, <2>3 DEF Forest!forest
<1> QED
  BY <1>3, <1>4, <1>5
     DEF HostProgress, Ask, FindForConvert, MintCustomer, Announce, Reread, FindForQualify,
         CommitDeal, Claim, OpenDeal, HostCrash

\* The table is a forest that only merges grow, with the composing service
\* qualifying and converting leads beside them.
THEOREM SystemRefinesForest == SystemSpec => ImplementsForest
<1>1. SystemInit => Forest!ForestInit /\ DealsQualify
  BY InitIsForest DEF SystemInit, ConversionInit, DealsQualify, Resting
<1>2. SInv /\ DealsQualify /\ [SystemNext]_systemVars => [Forest!ForestNext]_(Forest!forest)
  BY StepIsForest, VerbsConvert
     DEF SInv, SystemNext, HostNext, systemVars, Forest!ForestNext
<1> QED
  BY <1>1, <1>2, DealsQualifyStep, SystemInvariantHolds, PTL
     DEF SystemSpec, ImplementsForest, Forest!ForestSpec

\* So no conversion in between closes a cycle of pointers or loses a value.
THEOREM SystemForestIsSound == SystemSpec => []Acyclic /\ NothingLost
BY SystemRefinesForest, ForestHasNoCycle, ForestKeepsAll

-----------------------------------------------------------------------------
(* What merges tell the outside, with verbs beside them.                     *)

\* A verb moves no pointer and no merge.
LEMMA VerbsLeavePointers ==
  ASSUME SInv, DealsQualify, HostNext
  PROVE  PointersKept /\ \A l \in Leads : row'[l].merged_into = row[l].merged_into
<1>1. /\ [l \in Leads |-> row'[l].merged_into] = [l \in Leads |-> row[l].merged_into]
      /\ {l \in Leads : row'[l].life = "gone"} = {l \in Leads : row[l].life = "gone"}
  BY VerbsConvert DEF HostNext, Forest!Convert, Forest!forest
<1>2. ASSUME NEW l \in Leads PROVE row'[l].merged_into = row[l].merged_into
  <2>1. [k \in Leads |-> row'[k].merged_into][l] = [k \in Leads |-> row[k].merged_into][l]
    BY <1>1
  <2> QED
    BY <2>1
<1>3. \A l \in Leads : row'[l].life = "gone" <=> row[l].life = "gone"
  BY <1>1
<1> QED
  BY <1>2, <1>3 DEF PointersKept

\* Answers and events stay true, and repeats agree, while hosts qualify and
\* convert the very leads that are being merged.
THEOREM SystemTellsTheTruth == SystemSpec => [](AnswersStayTrue /\ EventsStayTrue /\ RepeatsAgree)
<1>1. SystemInit => WorldIsTold /\ DealsQualify
  BY InitIsTold DEF SystemInit, ConversionInit, DealsQualify, Resting
<1>2. SInv /\ DealsQualify /\ WorldIsTold /\ [SystemNext]_systemVars => WorldIsTold'
  BY NextIsTold, VerbsLeavePointers, SamePointersTold DEF SInv, SystemNext, systemVars, mergeVars
<1>3. WorldIsTold => AnswersStayTrue /\ EventsStayTrue /\ RepeatsAgree
  BY ToldIsTrue
<1> QED
  BY <1>1, <1>2, <1>3, DealsQualifyStep, SystemInvariantHolds, PTL DEF SystemSpec

\* Unless a merging process dies, every absorb is announced, though hosts crash.
THEOREM SystemAnnouncesAbsorbs ==
  ASSUME ~MayCrash
  PROVE  SystemSpec => []AbsorbsAnnounced
<1>1. SystemInit => AbsorbsAnnounced /\ DealsQualify
  BY InitOwesNothing DEF SystemInit, ConversionInit, DealsQualify, Resting
<1>2. SInv /\ DealsQualify /\ AbsorbsAnnounced /\ [SystemNext]_systemVars => AbsorbsAnnounced'
  <2> SUFFICES ASSUME SInv, DealsQualify, AbsorbsAnnounced, [SystemNext]_systemVars
               PROVE  AbsorbsAnnounced'
    OBVIOUS
  <2>1. CASE [Next]_vars
    BY <2>1, DebtsArePaid DEF SInv
  <2>2. CASE HostNext /\ UNCHANGED mergeVars
    BY <2>2, VerbsLeavePointers, SamePointersAnnounced DEF mergeVars
  <2> QED
    BY <2>1, <2>2 DEF SystemNext, systemVars
<1> QED
  BY <1>1, <1>2, DealsQualifyStep, SystemInvariantHolds, PTL DEF SystemSpec
=============================================================================
