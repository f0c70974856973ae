# A verification of memoramum

memoramum is a governed memory service for agents: callers *remember* statements, layered policy decides
whether and where they may be kept and in which tier they enter, recall hands them out to those who may
see them, people review what is doubtful, and nightly jobs merge, promote, archive and expire.
Everything lives in one PostgreSQL database; there is no other shared state. This directory holds
TLA+ modules that model that behaviour, TLC configurations that check them on small instances, and
TLAPS proofs of the properties that matter most for instances of every size.

Each handler of `MemoryService` runs in one database transaction. The system is looked at from
four sides, because one model of all would be too large to check:

- *what becomes of a memory* (`Memoramum`): every handler and job as one atomic step over one store,
  with policy verdicts and access as inputs;
- *who may write and name what, where* (`Governance`): the same requests, seen through scopes,
  relations, policies and freezes that change in between;
- *who gets to read what* (`Recall`): `Governance`, with the read taken apart into statements and the
  membership sync beside it;
- *what overlaps* (`Transactions`, `EventChain`, `Extraction`): handlers, the hash chain of the event
  log and the extraction worker with their statements or transactions interleaved.

## 1. Inventory

Paths are under `src/src/memoramum/`.

| Component | State | Operations | Where it is modelled |
|---|---|---|---|
| Memory store and schema (`service.py`, `migrations/`) | `memories`, `memory_provenance`, `memory_derivations`, the queues | promote, archive, tombstone, supersede, confirm, closure | `MemoryStore` |
| Lifecycle rules (`lifecycle.py`) | none | `must_hold`, `promotion_due`, floor, independent evidence | `Lifecycle` (partly) |
| Write path (`service.py`) | rows, `contradiction_queue` | `remember`, `_enact_write`, `_reobserve`, recall bookkeeping, `reinforce` | `WritePath`; the decision about a write in `Governance` |
| Triage and review (`service.py`) | the same | `review_staged`, `resolve_contradiction` | `WritePath` |
| Asks, scope promotion, forgetting, break-glass (`service.py`) | `pending_actions`, `agent_freezes` | `promote`, `forget`, `confirm_pending`, `set_agent_freeze` | `Asks` (what they do to a memory), `Governance` (who may, and what is decided again) |
| Policy engine (`policy.py`) | none | evaluate, routes, gates of promotion and of reading, retention | `Policy` (partly) |
| Policy administration (`service.py`) | `policies`, `agent_freezes` | `_layers`, `put_policy` | `PolicyStore`, `Transactions` |
| Scopes, access, enrollment (`scopes.py`) | `scopes`, `scope_relations` | `user_can_see`, `readable`, `writable`, `resolve_chain`, `set_relation` | `Access` |
| Module scopes (`scopes.py`) | `module_paths` | `modules_touched`, `set_module_paths` | `Access` |
| Membership sync (`service.py`, `scopes.py`) | `membership_sync` | heartbeat, staleness bound | `Recall` |
| Retrieval (`service.py`, `retrieval.py`) | none | `recall`, `context_block`: chain, degradation, gates, filter | `Recall` (partly) |
| PII pipeline (`pii.py`) | tokens | block, tokenize, at write, promotion and hygiene | `Governance` (whose name stays), `Asks` (rewriting), partly |
| Consolidator (`consolidator.py`) | rows, events it counts | dedupe, contradiction review, status promotion, reflect, sweep, hygiene | `Consolidator` |
| Incident response, erasure (`service.py`, `erasure.py`) | `quarantine_queue`, rows | lineage quarantine, its review, erasure of a subject | `Incident` |
| Handlers as transactions (`service.py`, `db.py`) | row locks, keys, advisory locks | eight handlers, statement by statement | `Transactions` (partly) |
| Event log (`events.py`) | `memory_events`, advisory locks | `append`, `verify_chain` | `EventChain`, `AuditLog` |
| Extraction worker (`extraction.py`) | `episodes`, `extraction_state` | `due_scopes`, `_run_scope` | `Extraction` |
| REST, MCP, observability, embedding, configuration | none of their own | delegate to the service | not modelled |

How they interact: everything meets in the tables. A write is classified, put before the layers of
policy, routed to a target scope, checked against enrollment and sight there, and scanned for names;
only then does it meet the store. A write that contradicts an older row opens an item on it; triage,
review and two nightly jobs close items; promotion and supersession read them. Consolidation and
scope promotion derive rows from rows; quarantine and erasure walk those derivations. An ask keeps an
id, a target and a verdict while the row, the enrollment and the policies go on changing. A read
puts its answer together from several statements, and nothing is cached between two reads. A
reflection run reads in one transaction and writes its drafts in later ones. Every state change
appends an event; in subject scopes that takes a lock, which is also what keeps two handlers apart.

What is hard to test here: doors into `active` that were written at different times; items and asks
that outlive the state they were opened in; permissions that are revoked between two statements, or
between a question and its answer; lineage that has to stay walkable whichever way rows are woven
together; jobs and handlers whose order nobody chose; overlapping transactions under READ COMMITTED;
workers that overlap or die between two transactions. `PROJECT.json` lists the hazards one by one,
each at its line.

What makes the components correct:

- *write path, triage, asks*: what is active was earned, an untrusted statement cannot displace a
  trusted one, a held challenger waits for its review, one live copy of a fact per scope;
- *policy, access*: nothing leaves a private scope, a veto holds whatever else is allowed, an agent
  writes only where it is enrolled when the write happens, names are visible only to those in sight;
- *reads*: a revocation that precedes a read is honoured by it, and stale membership closes private
  scopes;
- *store*: lineage is acyclic, and history always leads to a successor;
- *consolidator*: no laundering of trust, nothing read under quarantine, everything that is due
  comes to an end;
- *incident tools*: containment and erasure reach everything derived, and nothing erased returns;
- *transactions*: no double insert where a lock forbids it, one answer to one question, every request
  ends;
- *event log*: chains never fork and only grow at their end;
- *extraction*: no episode is skipped, and work ends.

## 2. The modules

```
MemoryStore <- Lifecycle <- WritePath <- Asks ---------------------.
                                   \<- Consolidator <- Incident --- Memoramum <- Properties <- MCMemoramum
                                                                                     \<- StoreProofs <- MemoramumProofs <- ActionProofs

Policy --.
Access --- PolicyStore <- Governance <- MCGovernance
                                 \<- GovernanceProofs <----\
                                 \<- Recall <- MCRecall     \
                                          \<---------------- RecallProofs

AuditLog <~ (refined by) EventChain <----- MCDatabase             Extraction <- MCExtraction
                        \   Transactions <-/    \                           \<- ExtractionProofs
                         \<- EventChainProofs    \<- TransactionProofs (of Transactions)
```

| Module | Models |
|---|---|
| `MemoryStore` | One row per memory id. It joins the columns the rules read, the derivations, the events that are counted (`useful`, `reobserved`, `confirmed`, `used`, `proposed`) and the open items (`held`: the row it contradicts, `doubts`: items without a challenger, `quarantine`). The private helpers of the service are operators from table to table, so a handler is a composition and a later step of it reads what an earlier one wrote. |
| `Lifecycle` | The pure rules: `MustHold`, `PromotionDue`, `Independent`, `FloorApplies`. |
| `WritePath` | `EnactWrite`: duplicate check along the scope chain, re-observation, insertion, hold or supersession, confirmation by an approved ask. Delivery, reinforcement, triage, resolution. |
| `Asks` | Parked calls and what an approval enacts later; scope promotion with the rewriting of content; forgetting; freezes. |
| `Consolidator` | The jobs, each one transaction over all rows; `Elapse`, the passing of days. Reflection distils drafts in one step and proposes each in another. |
| `Incident` | `Quarantine`, the two outcomes of its review, `EraseSubject` with the re-generation of consolidated memories. |
| `Memoramum` | Initial states, `Next`, `Spec`, and the sub-specifications that run one part of the system at a time. |
| `Properties` | What the service promises about a memory. |
| `Policy` | `policy.py` as functions of a stack of layers: matching, strictest-wins evaluation, routes, periods, sensitivity floors, promotion gates, read gates, retention, the two built-in layers. |
| `Access` | `scopes.py`: the tree, relation tuples, who sees, reads and writes what, where a flow looks, the module a path belongs to; and the operations that change these tables. |
| `PolicyStore` | What a document must be to be stored (`WellFormed`), the documents in force, the layers of an evaluation, `put_policy`, break-glass. |
| `Governance` | `remember`, `promote` and the answers to asks as far as policy, access and the PII pipeline decide them. A memory here has a scope, an author, the names that stand in clear, a tier, a period and a sensitivity, and no life after that. |
| `Recall` | A read as `Begin`, one `Check` per scope and question, `CheckStaleness`, `ReadGates`, `Deliver`; the surface people leave and join, and the sync that copies it one tuple at a time; ticks. Everything in `Governance` may happen between two statements. |
| `Transactions` | `remember`, approve and decline, `put_policy` over one fact and one ask; `reinforce`, `review_staged`, `promote_staged` and `forget` over one staged memory. Statements under READ COMMITTED: visibility, row locks, key waits, advisory locks, rollbacks, deadlocks. |
| `EventChain` | `append` statement by statement inside concurrent READ COMMITTED transactions: advisory lock, read of the head, insert; commits, rollbacks, deadlocks. A hash commits to all before it, so a row keeps the seq whose hash it took. |
| `AuditLog` | The abstract promise: per scope one history that is only extended at its end. |
| `Extraction` | Ingesters, workers and erasures, one step per transaction. |

What the abstraction does, and why it loses nothing the properties tell apart:

*Of a memory's life*

- A handler, and a job of the consolidator, is one step of `Memoramum`: it is about sequences of calls and what they leave
  behind, not about two transactions that overlap. The code mostly reads rows without locks and writes them by
  id, so this is an abstraction. What overlap does is in `Transactions`, statement by statement, for the
  handlers where it matters: duplicates, answers to an ask, versions, and the status of a memory that is used,
  judged, promoted and erased at once. `NoTwins` and `DeadStays` in particular say nothing of overlap: outside of chained scopes twins
  arise, and an erased row can be revived (section 6).
- Content is a fact up to normalization, so duplicates are exact. Strength, confidence, embeddings
  and ranking are left out: where they decide (which rows fade, which survivor is the strongest,
  what the clusters of a reflection are), any choice is possible.
- The contradiction judge is an oracle: it may report any recallable neighbour that conflicts, or
  miss it. In `Memoramum` the policy verdict is a parameter of the call (`allow`, `stage`), or parks
  it (`ask`); a denied call changes nothing, and access checks are taken as passed. `Governance`
  is about just those.
- Time is a class per row (`age`), which `Elapse` advances oldest first. An item is queued with its
  challenger, so the row's class is the item's too. Expiry, retention and the history window may be due for any
  row in the right status; they are never forced to be.
- All explicit asks without an episode share one directive episode (the code inserts one per call,
  with the same kind of source and the caller as its author).
- No code path writes status `invariant`; a pinned row is there from the start (`Pins`).
- `promote_reobservations` has its default, 1; `promote_tenure_days`, off by default, is left out.
  Anomaly flags of hygiene are events nobody reads back.
- A draft may find its sources erased, superseded or quarantined, since other steps come between.

*Of policy and access*

- A document is the layer it parses to, chosen from `Documents`. Whether a path fits a glob is a
  relation (`Fits`); of globs only their lengths are compared. The scope tree is a constant, which
  scopes exist is not.
- The scan is its outcome: the entities and the persons of an item. Redaction of addresses and the
  numbering of tokens are left out; whose name stays in clear is what `NamesNeedSight` is about.
- A request that raises is a step that does not happen. Where the code provisions a subject scope
  or a notebook before it denies, so does `Remember`.
- An ask holds what the payload holds: the flow an approval rebuilds names no paths, no project and
  no participants.
- Reads look at `tier`, trust, sensitivity and categories only; ranking and budgets choose among what
  passes, so the model hands out all of it.

*Of overlap*

- A read's checks are two per scope, in any order, since each is a statement of its own. `now()` is the
  start of the transaction, so a read compares ages as of its `Begin`.
- `Transactions` has one fact, one ask, one staged memory and one slot of policy: two handlers
  that touch different ones do not meet. A waiting statement is one that is not `Free`. PostgreSQL re-checks
  a waiting UPDATE against the row as it is then; every UPDATE modelled has `id = ...` alone as its
  condition, so it goes through.
- In `Extraction` each episode holds one candidate; any scope with unprocessed episodes may be due
  (the lull depends on `occurred_at`, which clients supply), in any order; transactions have distinct start stamps.

Each property is stated in words where it is defined.

## 3. Runs

| Run | Asks | Instance |
|---|---|---|
| `MCWrite` | Is what is active uncontested, and does nothing staged displace it? (`HeldWaits`, `ContestOpen`, `NoTwins`, `TwoVoices`, `NoAssassination`, `PinsStand`) | three rows, a channel in a workspace, five candidates that say two conflicting things, optionally a pinned fact, reviewers |
| `MCMerge` | Do dedupe and reflection launder, read quarantined rows, or fail to settle? (`WeakestInput`, `QuarantineNotRead`, `DedupeSettles`, `HistoryResolves`) | three rows, so that two copies meet and a successor is made of them |
| `MCSweep` | Does everything nightly come to an end, and not too early? (`HeldCloses`, `StagedSettles`, `EarnedRises`, `FloorHeld`) | two rows, two age classes: before and past each timer |
| `MCIncident` | Do quarantine and erasure reach every derivation? (`QuarantineReaches`, `ErasureReaches`) | four rows: two sources, and two further derivations or a re-generation |
| `MCWhole` | Is what is active earned, and does what is dead stay dead, with all parts running, when a row changes, is contested or erased while an ask about it waits? (`TypeOK`, `Lineage`, `ActiveIsEarned`, `DeadStays`) | two rows, two scopes of which one rewrites content, one ask, one draft, one doubt, optionally a pinned fact: every group of actions of `Next` but quarantine and what needs a third row |
| `MCGovernance` | Do privacy, vetoes, enrollment and names hold while the rules change between question and answer? (`GovernanceTypeOK`, `PrivateStays`, `VetoesHold`, `EnrolledOnly`, `NamesNeedSight`) | ten scopes of every family, two people, one agent and the service itself, six kinds of statements, two documents, two rows, one ask, two administrative changes: 145,752 states |
| `MCRecall` | Does a read outlive a revocation, or a stale sync? (`Entitled`, `StaleBounded`) | a private channel of a synced surface, one row, one reader, a sync that takes up to a tick, a read up to a tick, a bound of one: 162,000 states |
| `MCDatabase` | Can handlers that overlap store twice, lose a version, revive what is erased, fork a chain, or block? (`TwinsNeedAnAnswer`, `StoredOnce`, `VersionsUnbroken`, `UseNeverRevives`, `SessionsEnd`, `ChainIntact`, `ImplementsAuditLog`, `AppendsEnd`) | three sessions with any three of eight kinds of requests, or three transactions that append four events to two chains: 76,808 states |
| `MCExtraction` | Is an episode skipped, or work repeated for ever? (`ExtractionTypeOK`, `NothingLost`, `ErasureSpills`, `NeverWaits`, `ComesToRest`) | three episodes that arrive one after another in one scope, two workers, one crash, one change of enrollment: 799,032 states |

All of these pass. Three more runs (`FailsClosed`, `LateCommit`, `Revival`) show where a document says one thing and the
code does another; they are in section 6.

The bounds: `MaxMem` rows ever inserted, `MaxDoubts` and `MaxQuarantine` open items on one row,
`MaxAge` age classes, `MaxAsks` parked calls, `MaxDrafts` drafts of a run, `MaxEvents` calls of
append, `MaxCrashes` and `MaxTurns` in extraction, `MaxEdits` administrative changes in a run of
`MCGovernance` or `MCRecall`, `CycleTime` and `ReadTime` ticks of a sync and of a read. `useful`
saturates at the threshold it is compared with, ages at `Cap`, above which no comparison tells them
apart.

Why they are enough: the invariants of the store relate a row to at most one other row by one link (a
challenger, a successor, a source), so two rows show a violation and the third gives it a third party;
`MCIncident` takes four because a closure has to be walked over more than one derivation.
`MCGovernance` needs one ask (a question and its answer), a second row (a copy) and two changes (one
between question and answer, one before). A read meets a revocation, a policy change and a sync
at any of its statements; one row and one reader show it, as rows do not affect each other. A double insert
or a cycle of waits takes two sessions, and the third is a bystander or holds the lock between them. The
two halves of `MCDatabase` share nothing, so the run explores either and not their product, and sessions,
which are alike, take their requests in one order (`InOrder`). For the invariants that are proved the
bounds do not matter. The store stops when its ids are used up, an ask may wait for
ever, and a log or an extraction that is done is done, so deadlock is not checked in these runs; that
nothing blocks is `SessionsEnd` and `AppendsEnd`.

Fairness, and why the code justifies it:

- `FairSweepSpec`: days pass (`Elapse`), and the scheduled nightly run gets to contradiction review,
  status promotion, and a sweep when something is idle. No caller and no reviewer is assumed to do
  anything, and nothing but idleness is forced to be due. The weak form is enough because each of
  these conditions stays true until it is acted upon or another step resolves it.
- `TxFairness`, and `Fairness` of `EventChain`: a handler that does not wait goes on to its end;
  PostgreSQL looks for deadlocks and aborts a waiter. Nobody is assumed to begin a transaction, nor to
  retry one. `SessionsEnd` and `AppendsEnd` need the detector: handlers do take locks in different
  orders.
- `Extraction!FairSpec`: the job is scheduled, a run goes on until it ends or dies, and past the cap
  every scope of the backlog is due. Neither ingesters nor erasures are fair.

Governance and reads have no liveness property: nobody owes an answer to an ask, and a read may fail.

For every property of these runs there is an operator, beside the one it changes and marked `Mutant:`, that
makes a plausible mistake (a dropped guard, an off-by-one, a forgotten link or reset): with it in place
TLC finds the property violated.

## 4. Proofs

TLAPS checks the following for every value of the constants that satisfies the named assumptions.
Every safety invariant and every action property of the passing runs is among them, and so is the refinement of the log.

| Theorem | Says |
|---|---|
| `MemoramumProofs!Inductive` | the invariant the next five rest on |
| `MemoramumProofs!TypeCorrect` | `Spec => []TypeOK` |
| `MemoramumProofs!LineageRunsOneWay` | sources and contradicted rows are older, successors newer |
| `MemoramumProofs!HistoryAlwaysResolves` | what came to be deprecated names its successor |
| `MemoramumProofs!HeldAlwaysWaits` | what entered staged is not active while it is held |
| `MemoramumProofs!ActiveIsAlwaysEarned` | what entered staged and is active was re-observed, useful or confirmed |
| `ActionProofs!ReferencesHold` | rows name only rows that exist, and an open contradiction is undecided |
| `ActionProofs!ContestAlwaysOpen` | `ContestOpen` |
| `ActionProofs!DeadStaysInTurn` | with handlers one after another, no erased row is live again |
| `ActionProofs!PinsAlwaysStand`, `NeverAssassinated` | what may supersede a pinned, and an active, memory |
| `ActionProofs!FloorAlwaysHeld` | nothing from an outsider is active before the floor |
| `ActionProofs!WeakestAlways` | what is consolidated is no better than its weakest input |
| `ActionProofs!QuarantineNeverRead` | merges and reflections leave quarantined rows alone |
| `ActionProofs!DedupeAlwaysSettles` | one run of dedupe leaves nothing to merge |
| `ActionProofs!QuarantineAlwaysReaches`, `ErasureAlwaysReaches` | both reach every derivation, however long the way to it |
| `ActionProofs!PartsOfTheWhole` | the specifications of the smaller runs imply `Spec` |
| `ActionProofs!NeverTwins`, `AlwaysTwoVoices` | `NoTwins` and `TwoVoices` of the write path alone |
| `GovernanceProofs!GovernanceInductive` | the invariant behind the next three |
| `GovernanceProofs!PrivateAlwaysStays` | nothing is moved or copied out of a private or external scope |
| `GovernanceProofs!EnrolledAlwaysOnly` | what is stored is stored where its agent is enrolled and its user sees, at that moment |
| `GovernanceProofs!NamesAlwaysNeedSight` | a name in clear is in sight, a subject, or the speaker |
| `GovernanceProofs!VetoesAlwaysHold` | what a frozen agent wrote and asked, and what is kept about who wants nothing kept, does not grow |
| `GovernanceProofs!NarrowerOnlyTightens` | layers below a stack only tighten what it decides |
| `GovernanceProofs!GovernanceTypes` | `Spec => []GovernanceTypeOK` |
| `RecallProofs!AlwaysEntitled` | a read hands out nothing its reader could at no time of it see |
| `RecallProofs!StaleAlwaysBounded` | who left a synced scope reads of it no longer than the bounds say |
| `TransactionProofs!TransactionsInductive` | the invariant behind the next three |
| `TransactionProofs!TwinsAlwaysNeedAnAnswer` | in a chained scope no two concurrent `remember`s store one fact twice |
| `TransactionProofs!AlwaysStoredOnce` | an ask answered many times is stored once |
| `TransactionProofs!VersionsAlwaysUnbroken` | policy versions have neither gaps nor doubles |
| `TransactionProofs!UsesNeverRevive` | no use of a memory revives what was erased |
| `EventChainProofs!ChainInductive` | the invariant behind the next two |
| `EventChainProofs!ChainAlwaysIntact` | `verify_chain` succeeds on every scope at every moment |
| `EventChainProofs!ChainImplementsLog` | `EventChain` implements `AuditLog` |
| `ExtractionProofs!ExtractionTypes` | `Spec => []ExtractionTypeOK` |
| `ExtractionProofs!ErasureReachesLearning` | what is learned from an erased author was in a worker's memory at the erasure |
| `ExtractionProofs!NoneUnread`, `OneIngesterLosesNothing` | no episode lies unread behind the watermark while those of a scope arrive in turn |

The runs of the store check parts of `Spec`, which imply it (`PartsOfTheWhole`). `MCGovernance` and `MCRecall` take the steps of
`Spec` and `RecallSpec`, up to `MaxEdits` administrative ones.

*Store, the rows.* The inductive invariant is `IInv == TypeOK /\ Sound(mem)`, where `Sound` says of every row
that it is sound by itself: `SoundRow` is the conjunction of the four invariants for that row. They
are proved together because they need each other: an accepted challenger supersedes the row it
contradicts, and the link runs the right way only because the contradicted row is older (`Lineage`);
a held row may be promoted by no path because every path tests or clears the item (`HeldWaits`). Since
`SoundRow` speaks of one row, a handler that composes row updates preserves `Sound` because each update does. `StoreProofs`
has one lemma per update and one per whole-table job (`SupersedeSound`, `EnactedSound`,
`MergedSound`, `SweptSound`, `ErasedSound`, ...); `MemoramumProofs` has one lemma per action, one per
group of actions of `Next`, and the temporal step. The jobs that insert several rows at once need a
count: `SuccessorOf` hands the leaders ids above all allocated ones (`SuccessorRange`).

*Store, the steps.* `ActionProofs` shows once what any step may do to a row. `Turns` says that each row is
altered without touching its lineage, replaced by a successor, displaced by a challenger that won, or
inserted. Every update is a turn, turns compose where the handlers compose, and so every
action takes turns. The action properties follow from `Turns` and from
`LInv`, which adds to `IInv` that the references between rows hold (`Linked`: sources, successors and held rows
exist; `Open`: a contradiction that is open is undecided). `PinsStand` shows the use of the relation: of the turns that
deprecate a row, only a challenger that wins may take a pinned one, and its `held` names that row.
That quarantine and erasure reach far enough rests on `DerivedClosure` being the least closed set (`ClosureHolds`,
`ClosureLeast`): what derives from the erased author after the step lies in the closure taken before it, since
rows re-generated in the step derive from what is outside of it. No induction over derivations is needed.
`DedupeSettles` needs that a merged group leaves one row that is recallable, and that the successors of two groups differ.

*The write path alone.* `NoTwins` and `TwoVoices` are not invariants of `Spec`: promotion moves copies together. For
`WriteSpec` a smaller relation is enough: every step keeps the statement and the scope of each live row and lets evidence
grow (`Keeps`), but for at most one row that arrives (`Arrives`), which the duplicate check let through. The
check looks along the chain of the flow, and finds a twin in the target itself because the target is on
it (`TargetAssumption`). `TwoVoices` is strengthened to `Voiced`: staged rows have
evidence. That is so where every statement names an episode, which is the theorem's hypothesis; a row without any counts its
first observation as independent (`service.py:2058`).

*Governance, the memories.* Three action properties follow from what one step may do to the table of memories:
`GoodStep` says that it leaves it alone, adds one row that was allowed where it lands
(`AddsOne`), or moves one row that was not confined (`MovesOne`). Each handler is shown to take good
steps. The one fact about earlier states this needs is in `GInv`: an open question to promote does not start in a
confined scope, because the gate denies those before any layer is heard (`ConfinedDenied`), and the
answer is void when the memory has left the scope it was asked in. So it is the check of the source
scope at approval, together with the gate at the question, that keeps private content in
(`ApprovePromotionGood`). Nothing is assumed about the tree beyond its typing, nor about documents.

*Governance, the vetoes.* `VetoesHold` compares counts over a step. `Booked` classifies the steps: nothing new is stored
or asked; or something is, by an agent that is not frozen about people who have not refused (`Free`); or a
question is closed and its row stored. In the last case the ledger of its agent, and of those it is about, loses one
question and gains at most one row (`Ledger`). That what is booked is free is about policy: a layer that opens with
a refusal makes the whole stack deny (`RefusalDecides`), since its first strategy is the first that
matches, and a denial outweighs whatever else is heard; the layers of an evaluation hold the
preferences of everyone the statement is about (`LayersSource`); and the gate of a promotion cannot turn a denial into anything else
(`PromotedFree`). This needs that documents are well formed, as `parse_document` sees to.

*Governance, the types.* A period is the least, and a floor the greatest, of finitely or infinitely many, so the proofs need that the
extremes exist (`LeastOf`, `GreatestRank`); a write lands in a scope that may exist because routes go to subject scopes, to touched
modules, to a project found on the walk upward, or to the notebook of the caller (`TargetsTyped`).

*Policy.* `NarrowerOnlyTightens` compares a stack with the same stack and more layers below. The verdict tightens
once some layer speaks; if none does, the denial by default gives way to what the new layers say (section 6).

*Reads.* For `Entitled` the invariant says of each state of a read what its scopes and gates were checked
against: what is still in the chain and no longer open was answered since the read began, so it is not `barred`.
`StaleBounded` relates clocks: while a person who left is still a member by the tuples, the sync
has not seen it, so the last sync, or the snapshot of the cycle that runs, is older than the leaving; a
cycle lasts no longer than `CycleTime`. That nobody else grants membership of a synced scope is
`SyncAssumption`.

*Transactions.* `NoTwoRemembers` is not inductive. `TInv` adds why the order of statements suffices: a `remember` that
has decided holds the lock of its scope (`RememberLocks`), locks exclude each other (`OneLatch`), and
one that looked and found nothing has the committed rows exactly as it saw them
(`LookedHolds`); for answers the row of the ask plays the part of the lock: who has answered and not ended
holds it (`ApprovalHolds`), so by the time a second answer looks for a duplicate the first has committed
(`ApprovalFirst`). `LookFinds` connects the count a SELECT returns with the rows there are. Steps that touch neither
rows nor locks are dealt with at once (`QuietKeeps`). `VersionsUnbroken` has an invariant of its own: the numbers that are
committed are an interval, and the unique key leaves at most one open insert at its end. `UseNeverRevives` rests on the
memory's row lock, which a use takes before it reads the status it acts on.

*Chain.* `ChainIntact` alone is not inductive: it does not speak of rows that are not committed yet. `ChainInv` adds that locks exclude
each other, that a scope's uncommitted rows belong to the transaction that holds its lock and lie
behind all committed ones, and that a head that has been read is still the last row. So an insert
extends the chain, a commit makes a tail visible, and an abort removes a tail. For the refinement the history of a scope is
the sequence of its committed rows by rank; a commit appends the tail of the one transaction that has rows there, and
every other step is a stutter.

*Extraction.* `NothingLost` needs that an episode the watermark has passed is handled or in
the batch of nobody but those that will save it again, and that none is stamped behind a mark that is about to be
saved. The latter is where `OneAtATime` comes in: while the episodes of a scope arrive one after the other, none is
uncommitted when a later one is read. `LateCommit` shows that without it the property fails.

Assumptions used, by part:

- store: `BoundAssumption`, `FactAssumption`, `ScopeAssumption`, `EpisodeAssumption`,
  `CandidateAssumption`, `ChainAssumption`, `FloorAssumption`, `JobAssumption`, `AskBoundAssumption`,
  `TokenAssumption`, `PinAssumption`; and `TargetAssumption`, that a target is on its own chain, to which
  `service.py:382` adds it where it is missing;
- governance: `ForeverAssumption`, `DefaultFloorAssumption`, `TreeAssumption`, `GovernanceBounds`, `TableAssumption` (typing);
  `CallerAssumption`, in which the kind of a principal goes with its name; `DocumentAssumption`, that
  documents are what `parse_document` lets through; `WalkAssumption`, that the walk upward from a scope begins there and
  ends. The last stands for the recursion in `Access!Path`, which is induction over data;
- reads: `TimeAssumption`, `SyncAssumption`, `ReaderAssumption` (the service itself is held to no membership);
- transactions: `RequestAssumption`, `SessionAssumption`; chain: `EventBound`, `ScopeNames`; extraction: `ScopesKnown`,
  `ExtractionBounds`, `NamesFree`.

TLC evaluates them in every run. They are typing, ranges and what the code checks or maintains; none restricts what callers do.

Model-checked only: the liveness properties (`HeldCloses`, `StagedSettles`, `EarnedRises`,
`AppendsEnd`, `SessionsEnd`, `NeverWaits`, `ComesToRest`), which need fairness and `ENABLED`. What recursive
definitions compute is not proved: `Path` enters the proofs through `WalkAssumption` only; where a least element or a count is needed, through the well-foundedness
of the naturals and the theorems on finite sets.

## 5. Not modelled

- *REST, MCP, observability, embedding, configuration*: the facades delegate one call each and keep no
  state; observability reads only; embeddings are numeric; configuration appears as constants.
- *Parts of what is modelled*: score weights and the mode of a retention
  override; ranking, legs, token budgets and as-of queries of retrieval; detection by regular expressions and
  the numbering of tokens; the attestation an erasure returns; `simulate_policy`, which writes nothing;
  `promote_tenure_days`, off by default.
- *Reads outside `recall` and `context_block`*: listings of review queues, of history and of events take
  one statement each behind the same predicates.
- *A database error while a read loads its policy* (`service.py:1700`). The code means to go on under the
  built-in baseline; but after an error the transaction is aborted and the next statement fails, so the
  read fails. The tests raise the error without a database behind it. In the model a failed read is
  `Finish`.
- *Statement-level interleavings of the other handlers*: a nightly job that overlaps an erasure beyond
  the row they share, `resolve_contradiction`, quarantine and erasure of a subject. They would be further
  request kinds of `Transactions`.

## 6. Where documents and code disagree

Shown by a run that TLC finds violated:

- `FailsClosed`: a read measures the staleness of the flow's own surface only (`service.py:1693`). An IDE session
  whose project is a private repository is handed that repository although the surface it belongs
  to was last synced beyond the bound; `docs/07-operations.md:90` says that beyond the bound
  "private-trust-class scopes fail closed". A surface never synced counts as fresh.
- `LateCommit`: an episode is stamped when its transaction starts and seen when it commits. One that
  commits after a later-stamped one was processed lies behind the watermark for good
  (`extraction.py:151`); the module promises to "never wait past the cap".

- `Revival`: `promote_staged` reads the staged rows without a lock and sets `active` by id (`consolidator.py:266`); the
  confirmation of `review_staged` (`service.py:855`) and the acceptance of a staged challenger (`service.py:940`) do
  the same. A memory whose erasure commits in between is active again, without its content;
  `docs/03-lifecycle.md:35` says of a tombstoned memory "content gone, marker remains", retrievable "Never". The run
  finds the nightly promotion; of the requests that `Transactions` models, `review_staged` alone also
  takes a memory out of its tombstone (`UseNeverRevives`, proved).

Seen while modelling, and modelled as the code has them:

*A memory's life*

- Approving a parked forget writes `archived` over a row tombstoned meanwhile (`service.py:760`), and
  resolving a contradiction deprecates one; `docs/03-lifecycle.md:35` keeps the marker. The content stays
  gone, and the row is not live again (`DeadStays`).
- `promote_staged` promotes rows under an open quarantine (`consolidator.py:266`); the comment at
  `consolidator.py:118` says they are frozen out of every job.
- A trusted challenger held by a pinned row enters `active` and is recalled beside it, though the
  comment at `service.py:498` says the challenger stays staged. `HeldWaits` therefore speaks of what
  entered staged.
- The TTL sweep archives invariants too (`consolidator.py:356`), which `docs/03-lifecycle.md:32`
  exempts from decay.
- A challenger archived while it was held and accepted then stays archived, while the row it
  contradicted is deprecated (`service.py:966`): the fact is gone from recall.
- The promoted form of a memory does not carry `invalid_at` (`service.py:1808`), so a fact that
  `keep_both` ended is current again in the destination scope.
- Approving the promotion of a row deprecated meanwhile creates a deprecated copy without a successor
  (`service.py:765`). `HistoryResolves` exempts what entered deprecated, which only this does.
- Re-generation after an erasure counts superseded and archived inputs as remaining
  (`erasure.py:90`), so a replaced fact can come back as a live memory.

*Policy and access*

- An ask parked before its agent was frozen, or before its subject opted out, is enacted on approval
  (`service.py:731`; the freeze at `:246` and the layers are looked at only when the call is made). `VetoesHold` allows just
  this: an open question may become its row.
- When no broader layer matches, a narrower one alone decides (`policy.py:416`): a surface or agent layer can
  allow what the org layer is silent on.
- `docs/05-policy.md:157` has reads consider the subjects' preference layers; reads pass no subjects to
  `_layers` (`service.py:1705`).
- Removing the last member of a scope that is not private makes the members of its parent see it
  (`scopes.py`, `user_can_see`); a private one fails closed.
- An explicit ask without an episode raises if its writer may not read the target (`service.py:352`).

*Overlap*

- In scopes that are not chained nothing keeps two `remember`s of one fact apart (`service.py:389`); dedupe merges
  the copies at night.
- An approval and a refusal of one ask may both go through (`service.py:676`): the memory is stored, and the row of the
  ask says what came last. A promotion that rewrites content, approved twice, makes two copies.
- `reinforce` and `review_staged` take the row before the chain lock, `forget` the lock before the row
  (`service.py:1058`): they can deadlock, and PostgreSQL ends one of them; the caller sees the error.
- The worker proposes content it read before its author was erased (`extraction.py:184`);
  `docs/06-audit-privacy-security.md:53` speaks of the full derived closure. `ErasureSpills` bounds what
  gets through to the batch in memory.
- A scope found due whose episodes are gone when its turn comes raises `ValueError` in `max()`
  (`extraction.py:201`) and ends the run for the scopes behind it, though `run` is to "process every due
  scope" (`:120`).
- With `extractor = 'none'` the watermark advances (`extraction.py:195`), although the class says
  episodes accumulate for a later extractor (`:51`).

## 7. Plan

Done: the store with its handlers and jobs, policy and access, reads with the membership sync, the
event chain, extraction, and the handlers whose statements are known to interleave badly; every safety and
action property of the passing runs is proved. What is left:

1. `NoTwins` and `TwoVoices` beyond the write path: a twin that a promotion brings about is merged by the next run of dedupe.
2. Lemmas about the read gates: what passes the gates of a longer stack passes those of a shorter one that sets a trust floor.
3. `NarrowerOnlyTightens` for the stacks of `Layers`: what a user preference, an agent or a surface document adds.
4. Further request kinds of `Transactions`: `resolve_contradiction`, quarantine and erasure, statement by statement.
