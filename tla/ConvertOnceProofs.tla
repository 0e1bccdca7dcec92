--------------------------- MODULE ConvertOnceProofs ---------------------------
(***************************************************************************)
(* What ConvertOnce promises, for any leads and parties.                    *)
(***************************************************************************)
EXTENDS ConvertOnce, TLAPS

\* Whoever was told of a lead was told its anchor, and no lead is told of before
\* it has one: that is what keeps a later resolution away from it.
Told ==
  /\ PromiseTypeOK
  /\ \A l \in Leads, p \in Parties : <<l, p>> \in told => anchor[l] = p /\ p # None

\* Nobody has been told anything at first.
LEMMA ToldAtFirst == PromiseInit => Told
BY DEF PromiseInit, Told, PromiseTypeOK

\* A resolution touches a lead nobody was told of, and a telling names the anchor.
LEMMA ToldKept == Told /\ [PromiseNext]_promise => Told'
<1> SUFFICES ASSUME Told, [PromiseNext]_promise PROVE Told'
  OBVIOUS
<1>1. ASSUME NEW l \in Leads, NEW p \in Parties, Resolve(l, p) PROVE Told'
  BY <1>1 DEF Resolve, Told, PromiseTypeOK
<1>2. ASSUME NEW l \in Leads, Tell(l) PROVE Told'
  <2>1. anchor[l] \in Parties
    BY <1>2 DEF Tell, Told, PromiseTypeOK
  <2> QED
    BY <1>2, <2>1 DEF Tell, Told, PromiseTypeOK
<1>3. CASE UNCHANGED promise
  BY <1>3 DEF promise, Told, PromiseTypeOK
<1> QED
  BY <1>1, <1>2, <1>3 DEF PromiseNext

\* Nobody is told two parties of one lead, however often conversions are asked
\* for and however late an answer or a LeadConverted event arrives.
THEOREM ToldOneParty == PromiseSpec => []ToldAgree
<1>1. Told => ToldAgree
  BY DEF Told, ToldAgree
<1> QED
  BY <1>1, ToldAtFirst, ToldKept, PTL DEF PromiseSpec

\* The party a lead resolved to is final.
THEOREM ResolvedForGood == PromiseSpec => AnchorIsFinal
<1>1. ASSUME Told, [PromiseNext]_promise
      PROVE  [\A l \in Leads : anchor[l] # None => anchor'[l] = anchor[l]]_promise
  <2>1. ASSUME NEW l \in Leads, NEW p \in Parties, Resolve(l, p)
        PROVE  \A k \in Leads : anchor[k] # None => anchor'[k] = anchor[k]
    BY <1>1, <2>1 DEF Resolve, Told, PromiseTypeOK
  <2>2. ASSUME NEW l \in Leads, Tell(l)
        PROVE  \A k \in Leads : anchor[k] # None => anchor'[k] = anchor[k]
    BY <2>2 DEF Tell
  <2> QED
    BY <1>1, <2>1, <2>2 DEF PromiseNext
<1> QED
  BY <1>1, ToldAtFirst, ToldKept, PTL DEF PromiseSpec, AnchorIsFinal
=============================================================================
