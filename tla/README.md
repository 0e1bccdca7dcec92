# backbone-lead: a TLA+ model of lead capture, merge and conversion

`backbone-lead` is a Rust library over PostgreSQL. A host service mounts its
routes, hands it connections, and does what crosses modules. Leads come in
through website forms and a capture verb, are matched by normalised keys, are
merged when they are duplicates, and are qualified and converted into a
customer. All of it happens in one table, by many requests at once, each in READ
COMMITTED transactions kept apart only by row locks and WHERE clauses.

## 1. Inventory

| Part | Code | State | Operations | What is hard | Modelled in |
|---|---|---|---|---|---|
| Confidence order | `lead_merge.rs` (`confidence_cmp`) | none | compare two leads | a strict total order, or two merges pick two masters | `LeadOrder` |
| Merge verb | `lead_merge.rs` (`merge_leads`, `follow_chain`) | a transaction and a cache of rows per request | pinned merge, auto merge | concurrent merges, locks outside the batch order, the event after the commit | `LeadMerge` |
| Leads table and SQL | `lead_repository.rs` | `lead.leads` | every statement on it | check-then-act, compare-and-set | `LeadTable` and the modules over it |
| Conversion and qualification | the same file, `lead_ports.rs`; run by the host | party and status | qualify, convert | decisions read outside the transaction, losing the claim, dying between mint and claim | `LeadConversion` |
| Duplicate scan | `duplicate_candidate_groups`, `find_duplicate_key_groups` | none | read | stale when used | `LeadIntake` |
| Match keys | generated columns of `20260824120000_…`, `find_capture_match_on_conn` | derived | fold phone, whatsapp, email, org | two implementations that must agree | `MatchKeys` (not org) |
| Website visitor spine | `lead_website_visitor_repository.rs` | `lead.lead_website_visitors` | match, insert, link, reverse read | two captures at once, partial failure | `LeadIntake` |
| Capture verb | `lead_write_service.rs`, `guarded_routes.rs` | none | validate, insert | the checked value is not the bound one | `LeadIntake` |
| Generated CRUD | `lead_handler.rs`, `lead_service.rs`, `lead.rs`, `lead_dto.rs` | any column of a row | create, PUT, PATCH, trash, restore, purge, empty trash | no lock between load and save; rules on changed columns only | `LeadTable`, `LeadCrud` |
| Events | `lead_conversion_events.rs` | the sink | publish | lost or late | `LeadMerge`, `LeadConversion` |
| Request pool, tenancy migrations, seeders, exports, builders | the rest | none that lives | – | – | section 7 |

The parts meet in the table: merges, the host's qualify and convert
transactions, website intakes, the capture verb and the generated surface write
`lead.leads`. A merge talks to the host twice, by the event after the commit and
by the answer; a conversion talks to the party port before its transaction.

What makes each part correct: the order is strict and total; a merge is atomic,
decides only on rows it has locked, keeps the pointers a forest, loses no value,
tells its caller and its sink the truth and repeats safely; a lead resolves to
one party and everybody is told that one; a captured lead is stored with its
attribution, and a form is matched with the person it comes from; a scan leads
to merges that bring no strangers together and drain the duplicates; an edit
brings no value in that a declared rule refuses. `PROJECT.json` lists the
hazards, each at its line.

## 2. Modules

| Module | Models |
|---|---|
| `LeadOrder` | `status_rank`, `confidence_cmp` |
| `LeadTable` | the table, its row locks, the single-statement writers |
| `LeadMerge` | `merge_leads` and `follow_chain`, several workers at once |
| `LeadConversion` | the host's qualify and convert verbs around this module's SQL, port and events |
| `LeadSystem` | merges and verbs on one table |
| `MatchKeys` | the keys, in SQL and in Rust |
| `LeadIntake` | website intakes, capture verb, scan, and an officer who merges what it shows |
| `LeadCrud` | the unguarded generated surface beside merges |
| `AbsorbForest` | abstract: what merging promises; `LeadMerge` implements it |
| `ConvertOnce` | abstract: what converting promises; `LeadConversion` implements it |
| `LeadMergeClaims`, `LeadIntakeClaims` | statements of the repository the code does not keep |
| `MCLeadMerge`, `MCLeadSystem`, `MCLeadIntake`, `MCLeadCrud` | instances for TLC |
| `AbsorbForestProofs`, `LeadMergeProofs`, `LeadMergeRefinement`, `LeadMergeAnswers`, `ConvertOnceProofs`, `LeadSystemProofs`, `LeadCrudProofs`, `LeadIntakeProofs` | theorems and proofs |

The operators commented "Mutation of X" are X with a plausible bug. No action
uses them: put in the place of X, each makes TLC refute the properties
`PROJECT.json` names for it, which shows that the property watches the code.

### LeadMerge

`tx[w]` is the local state of worker `w`'s call of `merge_leads`; its `pc` says
between which two awaits the call is.

| `pc` | where the code is | actions |
|---|---|---|
| `idle` | no call | `RefuseShape`, `Begin` |
| `batch` | inside the first `fetch_for_merge`, and master resolution after it | `LockBatchRow`, `BatchMissing`, `ResolvePinned`, `Redirect`, `ResolveAuto`, `AutoAllAbsorbed` |
| `chase` | inside `follow_chain` | `ChaseFetch`, `ChaseMissing`, `ChaseHop`, `ChaseTooDeep`, `ChaseFoundMaster`, `ChaseFoundOwner` |
| `classify` | the loop over the ids, then fill, absorb and commit | `ClassifyMaster`, `ClassifyConverted`, `ClassifyAbsorbed`, `ClassifyLive`, `CommitNothing`, `Commit` |
| `publish` | after the commit, before the event and the answer | `Publish` |

The `SELECT … ORDER BY id FOR UPDATE` is one action per row, so other
transactions interleave with it; its snapshot is taken by `Begin` (`todo`), and
a row that stopped matching while the statement waited is locked but not
returned, as PostgreSQL does. Writes and commit are one action, because the rows
written are locked and nobody reads uncommitted ones; `CacheFresh` is what
justifies that, and it is checked and proved, not assumed. `rows` is the code's
`HashMap` cache; `open` stands for the loop over the deduplicated list;
`already` and `absorb_live` together are `absorbed_ids`.

One transaction is one step for everybody else: that PostgreSQL undoes the fill
and the absorbs together when one of them fails is taken for granted.

A purge is the DELETE of the code (`LeadTable.Deleted`): the row goes with its
values, its party and its own pointer; the pointers to it stay, since
`merged_into_lead_id` has no foreign key. What a merge said of a chain can then
only be followed as far as the chain is still stored. `Reaches(l, m)` says that
l's chain runs through m or breaks off before it at a purged lead; without
purges it is plain reachability. `follow_chain` answers 404 at such a break.

Abstractions: ids are numbers (their order is what `ORDER BY id` uses); the
eleven nullable columns are a set `Fields`; `merged_at`, `fields_filled`, names
and messages are left out; `absorbed_ids` is a set. PostgreSQL itself (row locks,
UPDATE's re-check, the deadlock detector) and cancellation are external.

### LeadConversion and LeadSystem

`host[h]` is a handler of the composing service. The order of its calls is the
one the comments of `lead_repository.rs` and `lead_ports.rs` prescribe, and is
marked external; the statements are this repository's.

| `pc` | the handler | actions |
|---|---|---|
| `read` | reads the lead for conversion, outside any transaction | `FindForConvert` |
| `mint` | asks the party port | `MintCustomer`: refused, a new Customer or an old one |
| `claim` | waits for the row | `Claim`: one row, or none |
| `claimed` | back-fills the lead's opportunities and commits | `CommitClaim` |
| `publish` | event and answer | `Announce` |
| `reread` | lost the claim and rolled back | `Reread` |
| `look`, `open`, `opened` | the qualify verb | `FindForQualify`, `OpenDeal`, `CommitDeal` |

`told` collects every pair of a lead and a party that an answer or an event
named; `deals` are the opportunities, which this repository does not store and
its comments describe. `HostLocks` is an UPDATE inside a longer transaction: it
re-checks its WHERE clause once the lock is free and keeps the lock to the
commit, while merges wait for it. `LeadSystem` is the interleaving of both
sides; they share `row` and `lock` and nothing else. Its variable `anchor` is
history: the party of each lead, kept when the row is purged, because those who
were told it still know it.

### LeadIntake and MatchKeys

A website intake (`intake[s]`) is match, insert, link and commit on the
connection of the website module; nobody sees the two rows before the commit, so
they are written by `CommitIntake`, and `RollbackIntake` stands for a failed
statement or a death at any point before. `CaptureLead` is the capture verb, one
statement. `Scan` stores the page an officer was shown in `groups`; `MergePinned`
and `MergeAuto` ask for merges of groups of that page, whatever has happened
since, by `LeadMerge`'s own `Accept`; the merge then runs as in `LeadMerge`. They
are not counted by `MaxRequests`: an officer can always ask again.
`PurgeUnlinked` is the generated purge under the link's foreign key.

Here a contact is a sequence of characters, because the properties are about its
normalisation. `MatchKeys` has the SQL expression and the Rust code of each key
side by side. They disagree on an email stored with whitespace other than blanks
at its edges: `trim` takes a tab off the submitted one, `btrim` leaves it on the
stored one, and the same email sent again finds nobody. The definitions say so
and the instance has no such email, so `MatchFindsThePerson` speaks of contacts
with blanks, signs, either case and every phone prefix; what holds of every
contact is proved (section 5).
`Line` and `Owner`, which number or mailbox a spelling reaches and whose it is,
are ghosts: only the properties read them. `Digits` is the digit filter both
sides begin with (`regexp_replace` there, `is_ascii_digit` here). `minted` is one too, but for the
freshness of ids. Fields are `phone` and `email`: `whatsapp` is folded like
`phone` and grouped like it.

### LeadCrud

A PUT or a PATCH is `Load`, then `Save`, with the row rules checked on the copy
in between; the framework's service around them is external, and where its
source does not settle what a PATCH writes (the row as loaded, or the columns
named only) both are in the model. `Updated` is `apply_update`, `Patched` is
`apply_patch` with its silent skip of values that do not parse. `Breaking` stands
for the values the declared rules refuse.

## 3. Runs

| Run | Instance | Asks |
|---|---|---|
| `merge` | 3 leads, 2 workers, 3 merges out of 7, qualify and convert beside them; 380 000 states | types, cache, forest, answers, events, repeats, lock order, refinement |
| `merge_chains` | 4 leads in 2 orgs, 1 worker, 4 merges, follow limit 1, trash, restore, purge; 314 000 states | the org fence and the answers over chains with missing rows and the depth refusal |
| `merge_crash` | 3 leads, 2 workers, 3 merges, a crash or cancellation before any step, fairness; 9 000 states | locks after a death, the forest after deaths, every accepted merge answered |
| `conversion` | 2 leads, 2 hosts, 2 verbs, 2 parties, 1 worker, 1 merge either way, crashes of the hosts, trash and purge; 180 000 states | one party per lead for everybody told, opportunities follow, writes on held rows only, the forest, every verb answered |
| `intake` | 3 leads (one converted at the start), 2 sites, 1 capture body, 1 worker, any number of the officer's merges, conversions, trash and purge; 389 000 states | link and lead together, no strangers merged, equal keys are equal lines, the right match, durable attribution, duplicates drain |
| `generic_surface` | 3 leads (one unborn, one with an old rule break), 2 editors, 2 edits, 1 worker, 2 merges, follow limit 3; 266 000 states | the cache beside unguarded edits, rules over copies and fills, merges answered over pointer cycles |
| `claim_no_deadlock` | as `merge`, no other writer | refuted: batch lock order excludes deadlocks |
| `claim_chain_cap` | 4 leads, 1 worker, limit 2 | refuted: the follow limit is unreachable |
| `claim_converted_never_dupe` | 1 merge, conversions | refuted: a converted lead is never a dupe |
| `claim_one_event_per_merge` | 1 merge, crashes | refuted: one event per real merge |
| `claim_real_master` | 2 merges, no other writer | refuted: an id absorbed elsewhere is reported under its real master |
| `claim_international` | a body with a +81 number | refuted: foreign numbers pass through digit-only |

**Bounds.** Three leads are the least with a chain of two, a redirect, an id
absorbed elsewhere and a cycle of three to avoid; four give the follow limit
something to cut and the second org a lead. Two leads are enough for
`conversion`: what it asks is about one lead and whoever writes it, and the
second is what it is merged with. Two workers, two hosts and two editors give
every conflict over a row, since a lock has one holder. Two parties give the
loser of a claim something wrong to say; two verbs are the race, or a retry after
a crash. Three merges give the longest interaction the code has a case for:
absorb, absorb the master, then meet the chain again. Two sites give the race of
two captures and three leads a duplicate beside a stranger or an old customer. Two
edits give a save of a copy another edit or a merge has overtaken, and close a
cycle. `MAX_PINNED_ABSORBS` and `MAX_AUTO_BATCH` are small where both sides of
the comparison are requested, and otherwise no batch the instance can ask for is
longer than they allow. `CHAIN_FOLLOW_LIMIT` is 16, out of reach, where
depth is not the question. In `intake` `MaxRequests` is 0: every merge is the
officer's. `MaxRequests`, `MaxVerbs` and `MaxEdits` bound a
behaviour; `Quiescent` is the stuttering end, so deadlock stays checked. Workers
are symmetric in `merge` only, which has no liveness property.

**Fairness.** In `merge_crash`: `WF` on what a call does by itself (an async task
that is ready is polled), `WF` on `DeadlockVictim` (PostgreSQL's detector runs
after `deadlock_timeout`), `SF` on the two lock acquisitions (row-lock waiters
queue). In `conversion` and `generic_surface` the same is said per process:
`SF` on the steps of a worker or of a handler, at most one of which is possible
at a time; a step that is possible again and again is only ever put off by a lock
another holds. The party port is taken to answer. In `intake`, `WF` on the sites
and merges together and on the officer, who works off what a scan showed, and `SF`
on his scan of the default page: with `WF` the scans of one group he may also ask
for would show him the same unmergeable group for ever. `DuplicatesDrain` is a
promise about an officer who does his work, the code has no such loop. It says
that from some time on no duplicate is left that could be merged, with nothing
excused: a merge verb that kept failing would be asked for ever and refute it.
New duplicates end with the ids of the instance. Crashes, forms, captures, edits,
conversions, trash and purge are never fair.

## 4. What the refuted claims show

* **Deadlock.** `fetch_for_merge` says the common order makes overlapping batches
  serialise. `follow_chain` locks further rows while the batch is held, against
  the order; two merges can wait for each other and one caller gets a 500.
* **Depth.** A master can be absorbed later and pointers are never shortened, so
  seventeen legal merges make a chain that the limit of sixteen refuses.
* **Converted dupe.** `claim_conversion` does not look at `merged_into_lead_id`.
* **Lost event.** Nothing in the transaction records that an event is owed.
* **Foreign numbers.** The plus sign is dropped before the prefix is tested, so
  +81… gets the key of an Indonesian number that starts 81.
* **Real master.** The owner of an id absorbed elsewhere is looked up before the
  batch's live leads are absorbed. A batch that names a lead and a lead absorbed
  into it reports the second under the first, which the same commit absorbs.
  `AnswersStayTrue` says what holds instead: the id leads on through that owner.

Two disagreements have no run of their own. The source of a capture is lowered
by `from_str` and not by the bind, so `"WhatsApp"` passes the check that is there
to prevent a 500 and ends in one (`CaptureCode`; one call, one outcome). The
foldings of an email disagree on a tab (`EmailFoldingsAgree` says exactly where).

## 5. Proofs

All theorems hold for every value of the constants that satisfies the named
assumptions of the modules: ids are numbers, the absent value is none of the
others, the seed has nothing merged, requests are well formed, hosts and workers
are different sessions. TLC evaluates the assumptions on every run.

* `AbsorbForestProofs`: the abstract merge keeps the pointers a forest
  (a set that holds the master leaves through it, one that holds an absorbed
  lead and not the master leaves through that lead) and loses nothing but with
  the lead that is deleted.
* `LeadMergeProofs`: first the confidence order, which is irreflexive,
  transitive and total, so any finite batch has exactly one head
  (`OneMostCredible`): what the scan suggests, the automatic merge picks and the
  field fill prefers among the same rows is one lead. Then `InvariantHolds`, the inductive invariant
  `IInv == TypeOK /\ \A w : Holds(w) /\ Plan(tx[w])`. `CacheFresh` is not
  inductive alone: a commit writes rows and a finished call lets go of locks, so
  one needs that what a commit writes its own transaction has locked, which in
  turn needs that a master and the leads to absorb come from the cache (`Plan`)
  and that a committed call holds nothing (`Holds`). Every action has one of five
  shapes (a local step, a lock, an end, another writer's update, a commit), each
  a lemma. `TypeCorrect`, `CacheIsFresh` and `NoLockIsLeaked` follow.
* `LeadMergeRefinement`: `RefinesForest`, each commit being one `Absorb` of the
  abstract specification because its cache is fresh, and each purge a `Remove`.
  `PointersAreAcyclic` and `NothingIsLost` are then the abstract theorems read on
  the table.
* `LeadMergeAnswers`: what merges tell the outside. `WorldIsTold` is inductive on
  top of `IInv`: what a running merge has found out is true (`Told`: the ids it
  reports lead where it says, its master and the cursor of `follow_chain` lie on
  the chains, no id of the batch is passed over), so is every outcome, held by a
  caller or about to be published, and every event, and outcomes of equal auto
  merges name one master. Truth lasts because pointers are written once
  and go only with their row, which breaks the chain there and bends it nowhere
  (`ReachesStays`). A new outcome agrees with an old one because its master has
  no pointer, and the old merge left one lead of that list without. Pinned
  repeats agree because chains do not fork (`HeldDoesNotFork`). So
  `AnswersAreTrue`, `EventsAreTrue`, `MergesRepeatSafely`. `FenceIsKept` needs no
  assumption on who calls: unfenced callers may have linked leads across orgs,
  and a fenced one is still told of leads of its own org only, because every row
  `follow_chain` reads for it passes the fence.
  `EveryAbsorbIsAnnounced` assumes `~MayCrash`; the refuted claim shows that it
  must. `BatchesNeverDeadlock`: a merge locking its batch holds only ids below
  those it waits for (`LocksAscend`), so the merge of a cycle that waits for the
  least id would hold a lesser one another waits for.
* `ConvertOnceProofs`: nobody is told two parties of one lead (`ToldOneParty`),
  and a resolved lead stays so (`ResolvedForGood`). Inductive: what was told is
  the anchor and not null, so a later resolution cannot touch a lead somebody
  was told of.
* `LeadSystemProofs`: the inductive invariant `SInv == IInv /\ HostInv`. Each
  side's half goes through the other side's steps because neither writes a row
  the other has locked. `HostInv` says, for each handler, what it relies on
  (`Sound`): a party once read or published is the lead's for good; a claimed
  row is held and still claimable; and a loser about to re-read has a row that is
  not claimable any more, and a row that is not never is again. Without the last,
  a `Reread` could answer a lead without a party. `SystemTypeCorrect`,
  `SystemCacheIsFresh`, `ClaimsAreHeld` and `DealsFollowLeads` follow, and
  `SystemKeepsPromise`: every step of the whole system is a `Resolve`, a `Tell`
  or a stutter of `ConvertOnce`. `SystemRefinesForest` carries the forest over to
  the composition; it needs that a lead whose qualification is about to commit
  has not converted meanwhile (`DealsQualify`).
  `SystemForestIsSound`, `SystemTellsTheTruth` and `SystemAnnouncesAbsorbs` carry
  over what is proved of merges alone: a verb moves no pointer and no merge
  (`VerbsLeavePointers`), and what merges know and have said is about pointers.
* `LeadCrudProofs`: `CrudInv`, which adds to `IInv` that rows and the copies in
  editors' hands break no rule with a value the seed did not hold.
  `CrudTypeCorrect`, `CrudCacheIsFresh`, `NoRuleIsNewlyBroken`. The unguarded
  surface keeps the merges' invariant; it does not keep the forest, and the
  refinement is not claimed there.
* `LeadIntakeProofs`, in three parts.
  *Captures and merges beside each other*: `IntakeInv`, which adds to `IInv` that
  a batch waits only for leads that have a row (`LocksAreOfRows`: otherwise an
  insert could bring a row into a batch whose snapshot was taken before it), that a
  form in the works has an id nobody else has and that has no row yet
  (`FormsHaveIds`), and `CapturedTogether` itself. `IntakeTypeCorrect`,
  `CapturesAreTogether`, `IntakeCacheIsFresh` and `AttributionIsDurable` follow.
  `IntakeTellsTheTruth`, `IntakeAnnouncesAbsorbs` and `IntakePointersAreAcyclic`
  need one thing more, that only ids with a row point anywhere
  (`PointersOfRows`), or an insert would cut a chain somebody was told of. The
  first says of answers what `Reaches` says: a lead purged between an answer's id
  and its master ends the chain there.
  *Keys and people*: `SharedKeysAreSharedLines` and `StrangersNeverMeet`, from
  `StrangersInv`: every contact of a row came in with a form, a body or the seed
  (`FieldsArrive`: fills copy and invent nothing); every lead names at most one
  person, and whom a lead names, its master names; a group of the officer's page
  is one person's, for as long as he keeps the page; so is everything a running merge
  has read or may still read (`MergeNames`). The last is what goes
  through a chain: `follow_chain` leaves the batch, and reaches only leads that
  name whom the batch names because every pointer written before kept to that.
  *Foldings*, on texts of any length (of the model's characters: blank and tab are
  its whitespace, `A` and `B` its upper case). `PhoneFoldingsAgree`: the Rust and
  the SQL folding of a phone are one function. `EmailFoldingsAgree`: the Rust
  folding of an email is the SQL folding of the email trimmed of whitespace, and
  of the email itself when it holds no tab. With them `MatchesAreByKey`: the match
  is the newest live lead with the form's phone key, else with the key of its
  trimmed email, else none. It assumes nothing of contacts and keys, and says
  nothing of whom a key stands for; that part of `MatchFindsThePerson` is only
  model-checked.

What the theorems of the second part assume, and why:

* `KeysTellLines`: among the contacts that arrive, two have one key exactly when
  they reach one phone or mailbox. The code does not make this so: the refuted
  `claim_international` is a pair of numbers for which it fails, and two strangers
  are then a group. The theorems say that nothing else brings strangers together.
* `ArrivalsNameOnePerson`: nobody gives another person's phone with his own
  mailbox. No program could tell.
* `Requests = {}`: merges are those of the officer's page (`MergePinned`,
  `MergeAuto`). A caller of the API may name any two leads, and gets them merged.

All of them hold in the instance of the run `intake` (the second is an
assumption of `MCLeadIntake`, which TLC evaluates), where merges do happen, so
none is empty. `Digits` is a recursive function; that it exists and returns
text, for a text of any length, is shown without an induction theorem, from the
least position at which it would not (`DigitsAreText`).

Only model-checked: `MatchFindsThePerson`, and liveness under fairness
(`MergesAnswered`, `VerbsAnswered`, `DuplicatesDrain`), which is out of the
prover's reach together with ENABLED and the library's induction theorems. Every other property of a passing run is a
theorem for the specification of that run. No module declares a RECURSIVE operator.

## 6. What could be added

The forest refined by the intake (its `parent` is proved acyclic there, but an
insert is a step `AbsorbForest` has no name for); what still holds of answers
beside the unguarded surface, which may re-point a lead; a host that consumes
the events and re-points its own records, once its code is at hand.

## 7. Not modelled

* The org key, which folds names, and the second contact channel `whatsapp` in
  `LeadIntake`: the same mechanism over another column.
* The LIMIT and the order of `leads_for_visitor`, and `website_id`: one website.
* Bulk create, upsert and the list reads of the generated surface: their code is
  in the framework.
* The request pool: a task-local lookup without state. It is fixed for a call,
  so one database of the model stands for each.
* The tenancy migrations: one-shot DDL that runs alone.
* Seeders, exports, builders, response DTOs, logging, wording and HTTP
  extraction: data definitions and formatting.
