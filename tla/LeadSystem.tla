------------------------------ MODULE LeadSystem ------------------------------
(***************************************************************************)
(* Merges and the composing service's qualify and convert transactions on   *)
(* one table: they meet in its row locks and nowhere else.                  *)
(***************************************************************************)
EXTENDS LeadMerge, LeadConversion

VARIABLE
  anchor   \* history: the party of each lead, kept when the row is purged

mergeVars == <<tx, answer, events, left>>
systemVars == <<vars, hostVars, anchor>>

SystemInit == Init /\ ConversionInit /\ anchor = [l \in Leads |-> row[l].party]

\* A purge takes the party with the row, and not from whoever was told it.
Remember ==
  anchor' = [l \in Leads |-> IF row'[l].life = "gone" THEN anchor[l] ELSE row'[l].party]

SystemNext ==
  /\ \/ Next /\ UNCHANGED hostVars
     \/ HostNext /\ UNCHANGED mergeVars
  /\ Remember

SystemSpec == SystemInit /\ [][SystemNext]_systemVars

\* What each process does by itself once it has accepted a request; at any moment
\* at most one of these is possible for it, apart from losing a deadlock.
MergeStep(w) == LockBatchRow(w) \/ ChaseFetch(w) \/ Progress(w) \/ DeadlockVictim(w)
HostStep(h) == Claim(h) \/ OpenDeal(h) \/ HostProgress(h)

\* A request that was accepted keeps running, the party port answers, and a
\* waiter for a row lock is queued, so it is not passed over for ever.
FairSystem ==
  /\ SystemSpec
  /\ \A w \in Workers : SF_systemVars(MergeStep(w) /\ UNCHANGED hostVars /\ Remember)
  /\ \A h \in Hosts : SF_systemVars(HostStep(h) /\ UNCHANGED mergeVars /\ Remember)

-----------------------------------------------------------------------------
SystemTypeOK == TypeOK /\ HostTypeOK /\ anchor \in [Leads -> Parties \cup {None}]

\* An opportunity never follows a party other than its lead's: it has the
\* lead's party or, opened from a stale read, none.
DealsFollow == \A d \in deals : d.party \in {None, anchor[d.lead]}

\* Every answer and event about a conversion is a step of ConvertOnce.
Promise == INSTANCE ConvertOnce

KeepsPromise == Promise!PromiseSpec
=============================================================================
