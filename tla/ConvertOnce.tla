----------------------------- MODULE ConvertOnce -----------------------------
(***************************************************************************)
(* What converting leads promises: a lead resolves to a party once, and     *)
(* whoever is told its party, by an answer or by an event, however often    *)
(* and however late, is told that one.  Module LeadConversion implements it.*)
(***************************************************************************)
CONSTANTS Leads, Parties,
  None   \* no party yet

VARIABLES
  anchor,  \* the party each lead resolved to, or None
  told     \* the pairs <<lead, party>> somebody was told

promise == <<anchor, told>>

Resolve(l, p) ==
  /\ anchor[l] = None
  /\ anchor' = [anchor EXCEPT ![l] = p]
  /\ UNCHANGED told

Tell(l) ==
  /\ anchor[l] # None
  /\ told' = told \cup {<<l, anchor[l]>>}
  /\ UNCHANGED anchor

PromiseInit ==
  /\ anchor \in [Leads -> Parties \cup {None}]
  /\ told = {}

PromiseNext ==
  \/ \E l \in Leads, p \in Parties : Resolve(l, p)
  \/ \E l \in Leads : Tell(l)

PromiseSpec == PromiseInit /\ [][PromiseNext]_promise

-----------------------------------------------------------------------------
PromiseTypeOK ==
  /\ anchor \in [Leads -> Parties \cup {None}]
  /\ told \subseteq Leads \X Parties

\* Nobody is ever told two parties of one lead, nor one that is not its party.
ToldAgree == \A l \in Leads, p \in Parties : <<l, p>> \in told => anchor[l] = p

\* A lead that resolved stays with the party it resolved to.
AnchorIsFinal ==
  [][\A l \in Leads : anchor[l] # None => anchor'[l] = anchor[l]]_promise
=============================================================================
