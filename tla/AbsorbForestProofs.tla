-------------------------- MODULE AbsorbForestProofs --------------------------
(***************************************************************************)
(* What the abstract specification of merging guarantees, for any leads.    *)
(***************************************************************************)
EXTENDS AbsorbForest, TLAPS

\* The abstract state keeps its shape.
LEMMA ForestTyping == ForestSpec => []ForestTypeOK
<1>1. ForestInit => ForestTypeOK
  BY DEF ForestInit, ForestTypeOK
<1>2. ForestTypeOK /\ [ForestNext]_forest => ForestTypeOK'
  BY DEF ForestTypeOK, ForestNext, forest, Absorb, Convert, Remove
<1> QED
  BY <1>1, <1>2, PTL DEF ForestSpec

\* Absorbing live leads into a live master closes no cycle: a set that holds
\* the master has it as its way out, and one that does not has the dupe.
LEMMA AbsorbKeepsAcyclic ==
  ASSUME None \notin Leads, ForestTypeOK, ForestAcyclic,
         NEW m \in Leads, NEW D \in SUBSET Leads, NEW filled, Absorb(m, D, filled)
  PROVE  ForestAcyclic'
<1> SUFFICES ASSUME NEW S \in SUBSET Leads, S # {}
             PROVE  \E l \in S : parent'[l] \notin S
  BY DEF ForestAcyclic
<1>1. \A l \in Leads : parent'[l] = IF l \in D THEN m ELSE parent[l]
  BY DEF Absorb
<1>2. CASE m \in S
  <2>1. parent'[m] = None
    BY <1>1 DEF Absorb, Live
  <2> QED
    BY <1>2, <2>1
<1>3. CASE m \notin S /\ S \cap D # {}
  BY <1>1, <1>3
<1>4. CASE S \cap D = {}
  <2>1. PICK l \in S : parent[l] \notin S
    BY DEF ForestAcyclic
  <2> QED
    BY <1>1, <1>4, <2>1
<1> QED
  BY <1>2, <1>3, <1>4

\* The absorb pointers form a forest in every reachable state.
THEOREM ForestIsAcyclic ==
  ASSUME None \notin Leads
  PROVE  ForestSpec => []ForestAcyclic
<1>1. ForestInit => ForestAcyclic
  BY DEF ForestInit, ForestAcyclic
<1>2. ForestTypeOK /\ ForestAcyclic /\ [ForestNext]_forest => ForestAcyclic'
  <2> SUFFICES ASSUME ForestTypeOK, ForestAcyclic, [ForestNext]_forest
               PROVE  ForestAcyclic'
    OBVIOUS
  <2>1. ASSUME NEW m \in Leads, NEW D \in SUBSET Leads, NEW filled, Absorb(m, D, filled)
        PROVE  ForestAcyclic'
    BY <2>1, AbsorbKeepsAcyclic
  <2>2. ASSUME NEW l \in Leads, Convert(l)
        PROVE  ForestAcyclic'
    BY <2>2 DEF Convert, ForestAcyclic
  <2>3. ASSUME NEW l \in Leads, Remove(l)
        PROVE  ForestAcyclic'
    <3>1. \A k \in Leads : parent'[k] \in {parent[k], None}
      BY <2>3 DEF Remove, ForestTypeOK
    <3> QED
      BY <3>1 DEF ForestAcyclic
  <2>4. CASE UNCHANGED forest
    BY <2>4 DEF forest, ForestAcyclic
  <2> QED
    BY <2>1, <2>2, <2>3, <2>4 DEF ForestNext
<1> QED
  BY <1>1, <1>2, ForestTyping, PTL DEF ForestSpec

\* Pointers are written once and values stay, as long as their lead does.
THEOREM ForestLosesNothing == ForestSpec => NothingLost
<1> DEFINE Kept == /\ gone \subseteq gone'
                   /\ \A l \in Leads \ gone' :
                        /\ parent[l] # None => parent'[l] = parent[l]
                        /\ \A f \in Fields : fields[l][f] # None => fields'[l][f] = fields[l][f]
<1>1. ForestTypeOK /\ ForestNext => Kept
  <2> SUFFICES ASSUME ForestTypeOK, ForestNext PROVE Kept
    OBVIOUS
  <2>1. ASSUME NEW m \in Leads, NEW D \in SUBSET Leads,
               NEW filled \in [Fields -> Values \cup {None}], Absorb(m, D, filled)
        PROVE  Kept
    BY <2>1 DEF Absorb, Inherits, Live, ForestTypeOK
  <2>2. ASSUME NEW l \in Leads, Convert(l)
        PROVE  Kept
    BY <2>2 DEF Convert
  <2>3. ASSUME NEW l \in Leads, Remove(l)
        PROVE  Kept
    BY <2>3 DEF Remove, ForestTypeOK
  <2> QED
    BY <2>1, <2>2, <2>3 DEF ForestNext
<1>2. ForestTypeOK /\ [ForestNext]_forest => [Kept]_forest
  BY <1>1
<1> QED
  BY <1>2, ForestTyping, PTL DEF ForestSpec, NothingLost
=============================================================================
