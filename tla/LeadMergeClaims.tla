--------------------------- MODULE LeadMergeClaims ---------------------------
(***************************************************************************)
(* Statements the repository makes about merging that the code does not     *)
(* keep.  Each is checked by a run of its own, which finds it violated.     *)
(***************************************************************************)
EXTENDS LeadMerge

\* "ORDER BY id gives every concurrent merge the same lock order, so
\* overlapping batches serialize instead of deadlocking" (fetch_for_merge).
\* follow_chain locks rows outside that order.
NoDeadlock == \A C \in SUBSET Workers : ~Deadlocked(C)

\* "Chains are acyclic by construction ..., so this cap is unreachable defense"
\* (CHAIN_FOLLOW_LIMIT).  A master can be absorbed later and pointers are never
\* shortened, so legal merges build chains of any length.
ChainLimitUnreachable == \A w \in Workers : answer[w].code # "chain_too_deep"

\* "Converted leads: may be a master, NEVER a dupe" (lead-dedup-merge.md).
\* claim_conversion does not look at merged_into_lead_id.
ConvertedNeverADupe == \A l \in Leads : row[l].status = "converted" => ~Merged(l)

\* "An id already absorbed into a DIFFERENT master changes nothing and comes back in
\* alreadyAbsorbedElsewhere under its real master" (lead-dedup-merge.md).  A batch
\* that names a lead and a lead absorbed into it absorbs the owner it reports.
RealMasterReported ==
  [][\A w \in Workers : answer'[w] # answer[w] =>
       \A p \in answer'[w].elsewhere : row'[p[2]].merged_into = None]_vars
=============================================================================
