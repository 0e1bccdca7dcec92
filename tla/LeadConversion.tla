---------------------------- MODULE LeadConversion ----------------------------
(***************************************************************************)
(* Qualifying a lead into an opportunity and converting it to a party's     *)
(* Customer.  The composing service runs the two verbs; this module owns    *)
(* the SQL they are made of, the port that mints the Customer and the       *)
(* events.  Each verb reads the lead outside any transaction, then writes   *)
(* in one: what it read may be stale by then, and the compare-and-set of    *)
(* claim_conversion is what keeps a lead to one party.                      *)
(***************************************************************************)
EXTENDS LeadTable

CONSTANTS
  Hosts,       \* handlers of the composing service, each running one verb
  MaxVerbs,    \* bound: verbs asked for in one behaviour
  HostsCrash   \* whether a handler can die or be dropped

ASSUME ConversionAssumption ==
  /\ Hosts \subseteq Sessions \ Workers
  /\ MaxVerbs \in Nat
  /\ HostsCrash \in BOOLEAN

VARIABLES
  host,    \* the verb each handler is running
  deals,   \* the opportunities: the lead each came from and its party, if any
  told,    \* every <<lead, party>> an answer or a LeadConverted event named
  verbs    \* verbs that may still be asked for

hostVars == <<host, deals, told, verbs>>

Handler ==
  [pc : {"idle", "read", "mint", "claim", "claimed", "reread", "publish",
         "look", "open", "opened"},
   lead : Leads \cup {None},
   party : Parties \cup {None}]   \* the one read, minted or claimed

Resting == [pc |-> "idle", lead |-> None, party |-> None]

ConversionInit ==
  /\ host = [h \in Hosts |-> Resting]
  /\ deals = {} /\ told = {}
  /\ verbs = MaxVerbs

Continue(h, pc, party) ==
  host' = [host EXCEPT ![h] = [@ EXCEPT !.pc = pc, !.party = party]]

Finish(h) == host' = [host EXCEPT ![h] = Resting]

Say(l, p) == told' = told \cup {<<l, p>>}

\* Mutation of HostReleases: the connection goes back with its transaction open.
HostKeeps(h) == UNCHANGED lock

HostReleases(h) == lock' = [l \in Leads |-> IF lock[l] = h THEN None ELSE lock[l]]

\* Mutation of HostLocks: the row is decided on before the update, and not held.
HostChecks(h, l, matches) == UNCHANGED lock

\* A statement that updates l: it leaves a row its WHERE clause does not match
\* alone, and waits for the lock on one it does.
HostLocks(h, l, matches) ==
  IF matches THEN lock[l] = None /\ lock' = [lock EXCEPT ![l] = h] ELSE UNCHANGED lock

Ask(h, l, pc) ==
  /\ host[h].pc = "idle" /\ verbs > 0
  /\ host' = [host EXCEPT ![h] = [pc |-> pc, lead |-> l, party |-> None]]
  /\ verbs' = verbs - 1
  /\ UNCHANGED <<row, lock, deals, told>>

-----------------------------------------------------------------------------
\* find_for_convert: a lead in the trash or out of the table is not found, and
\* one that has its party already is answered with it, nothing minted.
FindForConvert(h) ==
  LET l == host[h].lead IN
  /\ host[h].pc = "read"
  /\ IF ~Visible(l, None) THEN Finish(h) /\ UNCHANGED told
     ELSE IF row[l].party # None THEN Finish(h) /\ Say(l, row[l].party)
     ELSE Continue(h, "mint", None) /\ UNCHANGED told
  /\ UNCHANGED <<row, lock, deals, verbs>>

\* PartyPort::mint_customer: a new Customer, an existing one, or a refusal.
MintCustomer(h) ==
  /\ host[h].pc = "mint"
  /\ Finish(h) \/ \E p \in Parties : Continue(h, "claim", p)
  /\ UNCHANGED <<row, lock, deals, told, verbs>>

\* claim_conversion in the host's transaction: one row, or none when another
\* conversion won or the row is gone.
Claim(h) ==
  LET l == host[h].lead IN
  /\ host[h].pc = "claim"
  /\ HostLocks(h, l, Claimable(l))
  /\ Continue(h, IF Claimable(l) THEN "claimed" ELSE "reread", host[h].party)
  /\ UNCHANGED <<row, deals, told, verbs>>

\* Mutation of BackFilled: the lead's own opportunities are left without it.
BackFilledOthers(l, p) ==
  {[lead |-> d.lead, party |-> IF d.lead # l /\ d.party = None THEN p ELSE d.party] : d \in deals}

\* The lead's opportunities that have no party are given this one.
BackFilled(l, p) ==
  {[lead |-> d.lead, party |-> IF d.lead = l /\ d.party = None THEN p ELSE d.party] : d \in deals}

\* The claim and the back-fill of the lead's opportunities commit as one.
CommitClaim(h) ==
  LET l == host[h].lead
      p == host[h].party
  IN /\ host[h].pc = "claimed"
     /\ row' = [row EXCEPT ![l] = ConvertedTo(l, p)]
     /\ deals' = BackFilled(l, p)
     /\ HostReleases(h)
     /\ Continue(h, "publish", p)
     /\ UNCHANGED <<told, verbs>>

\* LeadConverted goes out and the caller is answered.
Announce(h) ==
  /\ host[h].pc = "publish"
  /\ Say(host[h].lead, host[h].party)
  /\ Finish(h)
  /\ UNCHANGED <<row, lock, deals, verbs>>

\* Mutation of WinnersParty: the loser answers the Customer it minted itself.
MintedParty(h) == host[h].party

WinnersParty(h) == row[host[h].lead].party

\* fetch_party_id, after the losing transaction rolled back: the winner's
\* party, from the trash too, and an error if the row is gone.
Reread(h) ==
  /\ host[h].pc = "reread"
  /\ IF Stored(host[h].lead) THEN Say(host[h].lead, WinnersParty(h)) ELSE UNCHANGED told
  /\ Finish(h)
  /\ UNCHANGED <<row, lock, deals, verbs>>

-----------------------------------------------------------------------------
\* find_for_qualify: the party the opportunity will inherit is read now.
FindForQualify(h) ==
  LET l == host[h].lead IN
  /\ host[h].pc = "look"
  /\ IF Visible(l, None) THEN Continue(h, "open", row[l].party) ELSE Finish(h)
  /\ UNCHANGED <<row, lock, deals, told, verbs>>

\* mark_qualified in the transaction that creates the opportunity: it says
\* nothing of how many rows it changed.
OpenDeal(h) ==
  LET l == host[h].lead IN
  /\ host[h].pc = "open"
  /\ HostLocks(h, l, Qualifies(l))
  /\ Continue(h, "opened", host[h].party)
  /\ UNCHANGED <<row, deals, told, verbs>>

\* The opportunity carries the party that was read, and LeadQualified no party.
CommitDeal(h) ==
  LET l == host[h].lead IN
  /\ host[h].pc = "opened"
  /\ row' = IF lock[l] = h THEN [row EXCEPT ![l] = Qualified(l)] ELSE row
  /\ deals' = deals \cup {[lead |-> l, party |-> host[h].party]}
  /\ HostReleases(h)
  /\ Finish(h)
  /\ UNCHANGED <<told, verbs>>

\* The handler dies or is dropped: its open transaction rolls back, and a
\* Customer it minted stays behind.
HostCrash(h) ==
  /\ HostsCrash /\ host[h].pc # "idle"
  /\ HostReleases(h) /\ Finish(h)
  /\ UNCHANGED <<row, deals, told, verbs>>

-----------------------------------------------------------------------------
HostProgress(h) ==
  \/ FindForConvert(h) \/ MintCustomer(h) \/ CommitClaim(h) \/ Announce(h) \/ Reread(h)
  \/ FindForQualify(h) \/ CommitDeal(h)

HostNext ==
  \E h \in Hosts :
    \/ \E l \in Leads : Ask(h, l, "read") \/ Ask(h, l, "look")
    \/ HostProgress(h) \/ Claim(h) \/ OpenDeal(h) \/ HostCrash(h)

-----------------------------------------------------------------------------
HostTypeOK ==
  /\ host \in [Hosts -> Handler]
  /\ deals \subseteq [lead : Leads, party : Parties \cup {None}]
  /\ told \subseteq Leads \X Parties
  /\ verbs \in 0..MaxVerbs

\* Handlers that write hold the row they decided on, and it still says what
\* they decided on: nobody converts or qualifies a row under them.
ClaimsHold ==
  \A h \in Hosts :
    /\ host[h].pc = "claimed" => lock[host[h].lead] = h /\ Claimable(host[h].lead)
    /\ \A l \in Leads : lock[l] = h => host[h].pc \in {"claimed", "opened"} /\ host[h].lead = l

\* What is not idle becomes idle again: every verb is answered.
VerbsAnswered == \A h \in Hosts : host[h].pc # "idle" ~> host[h].pc = "idle"
=============================================================================
