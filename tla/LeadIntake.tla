------------------------------ MODULE LeadIntake ------------------------------
(***************************************************************************)
(* How leads come in and how their duplicates go.  Website forms arrive in  *)
(* the website module's transaction: match, insert, link, commit.  The      *)
(* capture verb inserts with one statement.  Nothing at intake merges; an   *)
(* officer scans for leads that share a key and merges what the scan showed, *)
(* which other intakes, conversions and deletions may have changed by then. *)
(***************************************************************************)
EXTENDS LeadMerge, SequencesExt

INSTANCE MatchKeys

CONSTANTS
  Sites,     \* connections of the website module's intake engine
  Visitors,  \* website visitors
  Forms,     \* the website forms visitors submit
  Bodies,    \* the bodies sent to the capture verb
  Queries,   \* the parameters of duplicate scans
  Label,     \* what a source's spelling is in lower case
  Line,      \* the phone or mailbox a contact reaches, however it is spelled
  Owner      \* the person a phone or mailbox belongs to

Contact == Values \cup {None}
Form == [phone : Contact, email : Contact, visitor : Visitors]
Body == [phone : Contact, email : Contact, source : DOMAIN Label \cup {None}]
Match == [lead : Leads, on : {"phone", "email"}, divergence : BOOLEAN]

\* The audit trigger stamps every row that is inserted, so no creation time is
\* missing.  The purge is PurgeUnlinked here, so the unguarded one is left out.
ASSUME IntakeAssumption ==
  /\ IsFiniteSet(Leads) /\ CreatedAt \in [Leads -> Nat]
  /\ "purge" \notin Environment
  /\ None \notin Sites \cup Visitors \cup DOMAIN Label \cup Form \cup Match
  /\ Fields = {"phone", "email"} /\ "whatsapp" \in DOMAIN Label
  /\ Forms \subseteq Form /\ Bodies \subseteq Body
  /\ Queries \subseteq [min_group_size : Int, limit : Int]

VARIABLES
  intake,  \* the form each site is taking in
  minted,  \* the visitor whose form each id was minted for, or None
  links,   \* lead_website_visitors: <<lead, visitor>>
  groups,  \* the groups of the officer's last scan that are still to be merged
  reply    \* the last answer of the capture verb

intakeVars == <<intake, minted, links, groups, reply>>
intakeSystem == <<vars, intakeVars>>

Group == [kind : Fields, members : SUBSET Leads, converted : SUBSET Leads, suggested : Leads]
Intake == [pc : {"idle", "match", "insert", "commit"}, lead : Leads \cup {None},
           form : Form \cup {None}, match : Match \cup {None}]

AtRest == [pc |-> "idle", lead |-> None, form |-> None, match |-> None]

-----------------------------------------------------------------------------
\* Not in the trash and not absorbed: what matches and scans look at.
Live(l) == row[l].life = "active" /\ ~Merged(l)

\* The generated columns, and the keys a form is matched by, of every contact.
StoredKey == [f \in Fields |-> [c \in Contact |->
                IF f = "email" THEN StoredEmailKey(c) ELSE StoredPhoneKey(c)]]
SubmittedKey == [f \in Fields |-> [c \in Contact |->
                   IF f = "email" THEN SubmittedEmailKey(c) ELSE SubmittedPhoneKey(c)]]

KeyOf(f, l) == StoredKey[f][row[l].fields[f]]

KeyNow(l) == [status |-> row[l].status, party |-> row[l].party,
              created_at |-> CreatedAt[l], id |-> l]

Sharing(f, k) == {l \in Leads : Live(l) /\ k # None /\ KeyOf(f, l) = k}

\* LEAD_INSERT_SQL: a new lead with its contacts.
Captured(contacts) ==
  [life |-> "active", status |-> "new", party |-> None, merged_into |-> None,
   fields |-> [f \in Fields |-> contacts[f]]]

\* Ids are minted in the order of their creation times, each of them once.
Mintable(l) ==
  LET fresh == {m \in Leads : /\ row[m].life = "unborn" /\ minted[m] = None
                              /\ \A s \in Sites : intake[s].lead # m}
  IN l \in fresh /\ \A m \in fresh : CreatedAt[l] <= CreatedAt[m]

-----------------------------------------------------------------------------
\* The website opens its transaction and mints the lead's id.
Submit(s, f) ==
  /\ intake[s].pc = "idle"
  /\ \E l \in Leads :
       /\ Mintable(l)
       /\ intake' = [intake EXCEPT ![s] = [AtRest EXCEPT !.pc = "match", !.lead = l, !.form = f]]
       /\ minted' = [minted EXCEPT ![l] = f.visitor]
  /\ UNCHANGED <<vars, links, groups, reply>>

\* find_capture_match: a phone match outranks an email match, the newest wins.
Matched(f) ==
  LET phone == SubmittedKey["phone"][f.phone]
      byPhone == Sharing("phone", phone)
      found == IF byPhone # {} THEN byPhone ELSE Sharing("email", SubmittedKey["email"][f.email])
  IN IF found = {} THEN None
     ELSE LET l == CHOOSE l \in found : \A m \in found \ {l} :
                     \/ Newer(KeyNow(l), KeyNow(m))
                     \/ CreatedAt[l] = CreatedAt[m] /\ l < m
          IN [lead |-> l, on |-> IF byPhone # {} THEN "phone" ELSE "email",
              divergence |-> phone # None /\ KeyOf("phone", l) \notin {None, phone}]

FindMatch(s) ==
  /\ intake[s].pc = "match"
  /\ intake' = [intake EXCEPT ![s] = [@ EXCEPT !.pc = "insert", !.match = Matched(intake[s].form)]]
  /\ UNCHANGED <<vars, minted, links, groups, reply>>

\* insert_lead_on_conn and link_website_visitor_on_conn: nobody else sees the
\* two rows before the commit.
InsertAndLink(s) ==
  /\ intake[s].pc = "insert"
  /\ intake' = [intake EXCEPT ![s].pc = "commit"]
  /\ UNCHANGED <<vars, minted, links, groups, reply>>

\* Mutation of Linked: a divergent match drops the link, as upstream did.
UpstreamLinked(i) ==
  IF i.match # None /\ i.match.divergence THEN links ELSE links \cup {<<i.lead, i.form.visitor>>}

\* The unique pair swallows a second link.
Linked(i) == links \cup {<<i.lead, i.form.visitor>>}

CommitIntake(s) ==
  LET i == intake[s] IN
  /\ i.pc = "commit"
  /\ row' = [row EXCEPT ![i.lead] = Captured(i.form)]
  /\ links' = Linked(i)
  /\ intake' = [intake EXCEPT ![s] = AtRest]
  /\ UNCHANGED <<lock, tx, answer, events, left, minted, groups, reply>>

\* A statement fails or the site dies: its savepoint takes all three back.
RollbackIntake(s) ==
  /\ intake[s].pc # "idle"
  /\ intake' = [intake EXCEPT ![s] = AtRest]
  /\ UNCHANGED <<vars, minted, links, groups, reply>>

-----------------------------------------------------------------------------
\* The vocabulary of lead_source.
Sources == {"whatsapp", "instagram", "referral", "website", "livechat", "walk_in", "other"}

\* An absent source is whatsapp; FromStr lowers what it is given.
SourceOf(b) == IF b.source = None THEN "whatsapp" ELSE b.source
Parses(b) == Label[SourceOf(b)] \in Sources

\* The statement casts the spelling as it was given, and labels are exact.
Casts(b) == SourceOf(b) \in Sources

CaptureCode(b) ==
  IF (b.phone = None /\ b.email = None) \/ ~Parses(b) THEN "invalid_input"
  ELSE IF ~Casts(b) THEN "internal_error" ELSE "created"

CaptureLead(b) ==
  /\ \E l \in Leads :
       /\ Mintable(l)
       /\ row' = IF CaptureCode(b) = "created" THEN [row EXCEPT ![l] = Captured(b)] ELSE row
  /\ reply' = CaptureCode(b)
  /\ UNCHANGED <<lock, tx, answer, events, left, intake, minted, links, groups>>

-----------------------------------------------------------------------------
\* Mutation of Populated: no threshold.
PopulatedAny(S, min) == S # {}

\* HAVING count(*) >= min_group_size.
Populated(S, min) == Cardinality(S) >= min

SuggestedMaster(S) == CHOOSE l \in S : \A m \in S \ {l} : RanksAbove(KeyNow(l), KeyNow(m))

GroupOf(f, S) ==
  [kind |-> f, members |-> S, suggested |-> SuggestedMaster(S),
   converted |-> {l \in S : row[l].status = "converted"}]

\* Every group of live leads that share a key, one per kind and key.
Candidates(min) ==
  UNION {{GroupOf(f, S) : S \in {S \in {Sharing(f, KeyOf(f, l)) : l \in Leads} : Populated(S, min)}} :
           f \in Fields}

\* The LIMIT keeps the largest groups.
Page(found, limit, page) ==
  /\ page \subseteq found
  /\ Cardinality(page) = IF Cardinality(found) < limit THEN Cardinality(found) ELSE limit
  /\ \A g \in page, h \in found \ page : Cardinality(g.members) >= Cardinality(h.members)

\* The officer scans again once the last scan's groups are done with.  Parameters
\* out of range are refused.
Scan(q) ==
  /\ q.min_group_size >= 2 /\ q.limit \in 1..500
  /\ groups = {}
  /\ \E found \in {Candidates(q.min_group_size)} :
       \E page \in SUBSET found : Page(found, q.limit, page) /\ groups' = page
  /\ UNCHANGED <<vars, intake, minted, links, reply>>

\* What the scan showed as absorbable into the suggested master.  The officer's
\* merges are not among those MaxRequests bounds: there is always another one.
Others(g) == g.members \ ({g.suggested} \cup g.converted)

MergePinned(w, g) ==
  /\ g \in groups /\ Others(g) # {}
  /\ Accept(w, [master |-> g.suggested, ids |-> SetToSeq(Others(g)), org |-> None])
  /\ groups' = groups \ {g}
  /\ UNCHANGED <<left, intake, minted, links, reply>>

MergeAuto(w, g) ==
  /\ g \in groups /\ Others(g) = g.members \ {g.suggested}
  /\ Accept(w, [master |-> None, ids |-> SetToSeq(g.members), org |-> None])
  /\ groups' = groups \ {g}
  /\ UNCHANGED <<left, intake, minted, links, reply>>

\* Two converted leads cannot be merged: the officer passes the group over.
Dismiss(g) ==
  /\ g \in groups /\ Others(g) = {}
  /\ groups' = groups \ {g}
  /\ UNCHANGED <<vars, intake, minted, links, reply>>

-----------------------------------------------------------------------------
\* Purging a lead with a link fails on the link's foreign key, which has no
\* ON DELETE CASCADE.
PurgeUnlinked(l) ==
  /\ \A v \in Visitors : <<l, v>> \notin links
  /\ Purge(l)
  /\ UNCHANGED <<tx, answer, events, left, intakeVars>>

IntakeInit ==
  /\ Init
  /\ intake = [s \in Sites |-> AtRest]
  /\ minted = [l \in Leads |-> None]
  /\ links = {} /\ groups = {} /\ reply = "none"

SiteStep(s) == FindMatch(s) \/ InsertAndLink(s) \/ CommitIntake(s)

Officer == \E g \in groups : Dismiss(g) \/ \E w \in Workers : MergePinned(w, g) \/ MergeAuto(w, g)

IntakeNext ==
  \/ \E s \in Sites : SiteStep(s) \/ RollbackIntake(s) \/ \E f \in Forms : Submit(s, f)
  \/ \E b \in Bodies : CaptureLead(b)
  \/ \E q \in Queries : Scan(q)
  \/ Officer
  \/ \E l \in Leads : PurgeUnlinked(l)
  \/ Next /\ UNCHANGED intakeVars

IntakeSpec == IntakeInit /\ [][IntakeNext]_intakeSystem

\* What goes on by itself: the sites' transactions and the merges.
Running ==
  \/ \E s \in Sites : SiteStep(s)
  \/ /\ UNCHANGED intakeVars
     /\ \E w \in Workers : LockBatchRow(w) \/ ChaseFetch(w) \/ Progress(w) \/ DeadlockVictim(w)

\* Sites and merges finish what they began, and the officer works off every group of
\* a scan and keeps asking for the default page, however often for others between.
FairIntake ==
  /\ IntakeSpec
  /\ WF_intakeSystem(Running)
  /\ SF_intakeSystem(Scan([min_group_size |-> 2, limit |-> 50]))
  /\ WF_intakeSystem(Officer)

-----------------------------------------------------------------------------
IntakeTypeOK ==
  /\ TypeOK
  /\ intake \in [Sites -> Intake]
  /\ minted \in [Leads -> Visitors \cup {None}]
  /\ links \subseteq Leads \X Visitors
  /\ groups \subseteq {g \in Group : Cardinality(g.members) >= 2 /\ g.suggested \in g.members}
  /\ reply \in {"none", "created", "invalid_input", "internal_error"}

\* No visitor's lead is stored without the link, whatever its match said, and no
\* link is left behind by a lead that was purged or never came to be.
CapturedTogether ==
  \A l \in Leads, v \in Visitors : <<l, v>> \in links <=> Stored(l) /\ minted[l] = v

\* Two contacts are the same line when they reach the same phone or mailbox.
SameLine(f, a, b) == a # None /\ b # None /\ Line[a] = Line[b]

PeopleOf(l) == {Owner[Line[row[l].fields[f]]] : f \in {f \in Fields : row[l].fields[f] # None}}

\* The contacts that can ever stand in column f.
Arriving(f) == {Seed[l].fields[f] : l \in Leads} \cup {c[f] : c \in Forms \cup Bodies}

\* The stored keys tell the lines apart: two contacts have the same key exactly
\* when they reach the same phone or mailbox, however each is spelled.
KeysTellLines ==
  \A f \in Fields : \A a, b \in Arriving(f) \ {None} :
    SameLine(f, a, b) <=> StoredKey[f][a] = StoredKey[f][b] /\ StoredKey[f][a] # None

\* The scan's groups are people's: two leads share a key in a column exactly when
\* they hold the same line there, whoever captured, filled or merged them.
SharedKeyIsSharedLine ==
  \A f \in Fields, l, m \in Leads :
    SameLine(f, row[l].fields[f], row[m].fields[f]) <=> KeyOf(f, l) # None /\ KeyOf(f, l) = KeyOf(f, m)

\* Whoever fills in a form or calls gives contacts of one person.
NamesOnePerson(c) ==
  \A f, g \in Fields : c[f] # None /\ c[g] # None => Owner[Line[c[f]]] = Owner[Line[c[g]]]

ArrivalsNameOnePerson ==
  /\ \A c \in Forms \cup Bodies : NamesOnePerson(c)
  /\ \A l \in Leads : NamesOnePerson(Seed[l].fields)

\* Nobody is merged into a stranger: forms and bodies name one person each, and
\* so does every lead with all the leads absorbed into it, whatever the officer
\* merged from whichever old page.  A purged lead names nobody any more.
StrangersStayApart ==
  \A l \in Leads : /\ Cardinality(PeopleOf(l)) <= 1
                   /\ Merged(l) /\ row[row[l].merged_into].life # "gone"
                        => PeopleOf(l) \subseteq PeopleOf(row[l].merged_into)

\* The match a form gets is the live lead on the same phone line, else the one
\* with the same mailbox, the newest of them, however either contact is spelled.
RightMatch(f, match) ==
  LET on(kind, contact) == {l \in Leads : Live(l) /\ SameLine(kind, row[l].fields[kind], contact)}
      best == IF on("phone", f.phone) # {} THEN on("phone", f.phone) ELSE on("email", f.email)
  IN IF best = {} THEN match = None
     ELSE /\ match # None /\ match.lead \in best
          /\ \A l \in best : ~Newer(KeyNow(l), KeyNow(match.lead))

MatchFindsThePerson ==
  [][\A s \in Sites : intake[s].pc = "match" /\ intake'[s].pc = "insert"
       => RightMatch(intake[s].form, intake'[s].match)]_intakeSystem

\* Mutation of LeadsForVisitor: absorbed leads are no longer answered.
LiveLeadsForVisitor(v) == {l \in Leads : <<l, v>> \in links /\ Live(l)}

\* leads_for_visitor: the link and the lead's deleted_at, nothing of the visitor.
LeadsForVisitor(v) == {l \in Leads : <<l, v>> \in links /\ row[l].life = "active"}

\* The link is the durable attribution record: a lead answered for a visitor is
\* answered until it is trashed, through conversions and merges.
AttributionDurable ==
  [][\A v \in Visitors : \A l \in LeadsForVisitor(v) :
       (l \in LeadsForVisitor(v))' \/ row'[l].life = "trash"]_intakeSystem

\* A pair still to be merged: live leads on one line, not both of them converted.
DuplicatePair(l, m) ==
  /\ l # m /\ Live(l) /\ Live(m)
  /\ \E f \in Fields : SameLine(f, row[l].fields[f], row[m].fields[f])
  /\ ~(row[l].status = "converted" /\ row[m].status = "converted")

\* Two captures that miss each other leave a duplicate behind, but no duplicate
\* stays for ever: scans show it and merges, retried when they fail on an old
\* page, absorb it.
DuplicatesDrain == <>[](\A l, m \in Leads : ~DuplicatePair(l, m))
=============================================================================
