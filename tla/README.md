# TLA+ models of ecm-management

`ecm-management` is an enterprise capability model manager: a NestJS API
(`src/apps/api`) over PostgreSQL through Prisma, and a React client
(`src/apps/web`). People draft *change requests* against a hierarchy of business
capabilities; requests are approved by two roles, executed under locks, recorded
in versions that are published as immutable releases, and announced to
downstream consumers through an outbox.

Contents: 1 how the system runs, 2 inventory, 3 modules, 4 runs, 5 proofs,
6 where the code departs from its documents, 7 not modelled, 8 what is left.

## 1. How the system runs, and what that makes hard

*On the server.*

* Every HTTP request is an `async` handler of a singleton service. Handlers
  interleave at every `await`, in one Node process and across instances.
* The typical handler reads (`findOne`), checks what it read, opens one
  interactive transaction, and launches calls without awaiting them after the
  commit. PostgreSQL runs at READ COMMITTED; there is no `SELECT ... FOR UPDATE`
  and no serialisable transaction: what holds is held by *guarded updates*
  (`updateMany({ id, status: expected })`), by unique indexes and by the
  `capability_lock` table. Everything checked before the transaction may be
  stale inside it.
* There are no exclusive sessions: a slow request may still be running when a
  user reports its failure and starts it again.
* Calls after the commit (generic audit, notifications, domain events to the
  outbox) are lost when the process ends between the commit and the call.
* `processDueEvents` claims rows of the outbox with a lease that expires. Nothing
  in the repository calls it yet; several callers at a time are what it is written
  for.

*In the browser.* Pages read through a query cache and write through mutations.
A query, a mutation, its answer and the refetch that follows overtake one another;
answers get lost while the server goes on; other clients change the same tables.
What a page shows or sends is what it read earlier.

So the interesting executions are interleavings of database round trips, and of
messages between pages and server. A server module has one action per round trip
and a record per request in flight that holds what the handler has read; a page
module has one action per click, answer and effect.

## 2. Inventory

| Component | State | Operations | What makes it correct |
|---|---|---|---|
| Change request workflow (`change-request`, `impact-analysis`, `audit`) | `change_request`, `approval_decision`, `capability_lock`, `change_request_audit_entry` | create, submit, cancel, request-approval, decisions, execute, complete, report-failure, apply | status justified by the decisions; locks exactly while executing; an operation applied once; gapless audit trail; effects only of commits |
| Structural operations (`structural-ops`) | `capability` (parent, lifecycle, type), `mapping` | reparent, promote, demote, merge, retire, delete | a forest; no reference to a deleted node; no mapping and no tag lost |
| Capability registry (`capability`) | `capability` | create, update, delete, subtree, path, stewardship | deletion only of drafts; walks end and are right when nothing moves |
| Capability import (`capability-import`, its page) | the file, the rows created | dry run, commit | what passes can be imported; an import is whole or not at all |
| Mappings (`mapping`, their pages) | `mapping`, lists in the cache, two dialogs | create, update, delete | lists end up current; nothing typed is lost |
| Model versions (`versioning`) | `model_version`, `capability_version` | record change, publish, state at a version, diff | one draft; releases form a log and never change; the table is what its history says |
| What-if branches (`versioning`) | branch versions, branch history | create, edit, list, discard, diff | a branch keeps its own changes; a closed one changes no more |
| Outbox (`integration`) | `publish_event` | emit, claim, deliver, retry, fail | leases exclude; attempts counted one by one; delivered means delivered to all; every event is settled |
| Consumer registry (`integration`, its page) | `downstream_consumer` | register, update, delete | every stored consumer can be delivered to; a form belongs to its row |
| Notifications (`notification`, inbox, bell) | `task_or_notification`, lists in the cache | send, read, dismiss, read all | dismissed is final; lists end up as the server has them |
| Sessions and roles (`auth`, `AuthContext`) | accounts, tokens, local storage | sign in, register, sign out, guard | no token outlives a role |
| Pages of a change request | query cache, form, preview | open, decide, write, preview | offers what the server accepts; never settles on old data |
| Release dashboard, what-if manager | query cache, publish form | publish, branch, discard, compare | what is shown is true; what is published is what was reviewed |
| Analytics, impact analysis (`analytics`) | none | counts, gaps, heat map | the numbers of one report agree with each other |
| Name guardrails, audit listener, HTTP plumbing, export, other pages | none of their own | pure functions, single inserts | not modelled (section 7) |

How they interact: `apply` of a change request runs a structural operation in its
transaction; each structural operation and each edit of a capability records a
version entry and emits an event to the outbox after the commit; a publication
records its event in its own transaction; decisions and completions send
notifications; the impact gate reads the mappings; pages call the endpoints and
cache what they return.

`PROJECT.json` lists the components with their status and, under `hazards`, the
behaviours of this code that are hard to test, each at its line.

## 3. Modules

Each `MC...` module holds the small instances TLC checks, each `...Proofs` module
the theorems about the module it extends.

| Module | What it is | Composes |
|---|---|---|
| `ChangeRequest` | the workflow, one action per database round trip of each endpoint | |
| `ChangeRequestLifecycle` | what the workflow promises: atomic steps on the current state | implemented by `ChangeRequest` |
| `Hierarchy` | capabilities, parents, mappings; the structural operations and the endpoints that write the same tables | |
| `Reports` | the reports and the impact analysis as functions of the tables | `Hierarchy` |
| `CapabilityReads` | reads that walk the tree query by query, and what pages offer by them | `Hierarchy`, `Reports` |
| `ChangeRequestForm` | the form of a change request with its live impact preview, and what becomes of the request | `Hierarchy` |
| `CapabilityForm` | the form of a capability, the query behind it and its save | `Hierarchy` |
| `Forms` | a visit to one of the two forms | `ChangeRequestForm`, `CapabilityForm` |
| `ModelVersions` | drafts, recorded changes, publication, branches | |
| `ReleaseLog` | what publication promises: an append-only log | implemented by `ModelVersions` |
| `ReleasesPage` | release dashboard and what-if manager over the versions | `ModelVersions` |
| `CapabilityImport` | validation, order and transaction of an import | |
| `ImportPage` | the import wizard | `CapabilityImport` |
| `Outbox` | publish events from the committed change to the settled row | |
| `OutboxDelivery` | what the outbox promises: counted attempts, then rest | implemented by `Outbox` |
| `DownstreamConsumers` | the registry on the server, one action per database call | |
| `ConsumersPage` | the registration page | `DownstreamConsumers` |
| `MappingsPage` | the lists of mappings, their dialogs, the endpoints and other clients | |
| `Notifications` | the notifications of one recipient on the server | |
| `InboxPage` | inbox and bell, with lists changed ahead of the answer | `Notifications` |
| `Session` | accounts, tokens, the storage the tabs share | |
| `ChangeRequestPage` | the page of one change request in tabs that sign in and out | `Session` |

Two parts that share nothing are checked in one run: `MCOutbox` (the outbox; or
the inbox), `MCReleasesPage` (the dashboard with no comparison; the branches; or
everything in fewer clicks), `MCRegistryPages` (consumers, mappings), `MCForms` (the
tree and the two forms over it) and `MCCapabilityReads` (two writers; or one writer
under a read) let a behaviour begin as a visit to one of them and stay there.

Modules meet at these interfaces:

* `apply` runs a structural operation inside its transaction: `ChangeRequest`
  keeps of it that it happened (`revision`), `Hierarchy` keeps of the workflow
  that two operations at a time share no affected capability (`Locked`, which is
  `LocksMatchExecution` there).
* A committed operation emits a domain event: `ChangeRequest` follows it until it
  is emitted (`effects`), `Outbox` from then on (`CommitCapabilityChange`).
* On the server of `ChangeRequestPage` an endpoint is one atomic step on the
  current state; that it is one is the refinement `ImplementsLifecycle` of
  `ChangeRequest`.
* The worker of `Outbox` delivers by a profile that `DownstreamConsumers` has
  checked against the contract type (`ProfileSupportsContract`).

### ChangeRequest

*State.* `status`, `dto` (the columns fixed at creation), `summary`
(`impact_summary`), `decisions`, `lockedBy`, `trail` are the tables; `active` is
the set of capabilities with an active mapping, changed by an environment action;
`revision` counts the structural operations committed on a capability; `effects`
is what was launched after a commit and arrived; `request` is the requests in
flight.

*Actions.* `Arrive` groups the endpoints up to their first read (`create` has
none: it inserts), `Continue` the later round trips. A transaction is one action:
its guarded update takes the row lock on which a rival waits, and it commits or
rolls back as a whole. `apply` is the exception: it reads (`GuardAndRead`),
validates in memory and writes (`CommitOperation`), and at READ COMMITTED another
transaction may commit in between. A failed check, a refused update, a database
error, a disconnect and the end of the process all lead to `Abort`, enabled at
every step; `LockConflict` is the failure whose message a property is about.

*Bounds.* `MaxTrail` bounds the audit entries of one request, and through it the
number of failed executions that are retried: 7 entries are the six of the
straight path to COMPLETED and one more; 8 admit one failure and its retry
beyond it. Two requests in flight are enough for every race listed (each is
between two handlers); two change requests and two capabilities are enough for a
lock conflict with a partial overlap. `EffectKinds` limits the calls after the
commit a run follows.

*Properties.* `DecisionsJustifyStatus`, `LocksMatchExecution`, `AppliedOnce`,
`TrailReplaysStatus`, `ApproversBriefed`, `EffectsReflectCommits`, and the
refinement `ImplementsLifecycle`.

### Hierarchy, Reports, CapabilityReads and the two forms

*State.* `exists` and `capability` are the table `capability` with the columns
the operations read or write (parent, type, lifecycle status, erroneous flag;
`tags` stands for tags, aliases and source references, which merge alike);
`mapping` is the table of mappings; `open` is what each writer was asked to do,
between its reads and its writes; `mergedTags` the sets `applyMerge` collects
before its first write.

*Actions.* `Begin` is a handler's reads and validations, one action per
operation is its writes and commit, `Abort` every failure in between. Between
the two steps other writers commit. Walks over `parent_id` are the least set
closed under parents (`Visited`), not a loop. A hard delete applies the foreign
keys: children get a NULL parent, mappings and locks refuse it.

*On top of it.* `Reports` takes any set of returned capabilities against the
mappings as they are, since the two are read in two statements.
`CapabilityReads` follows one walk (a subtree level by level, or a path ancestor
by ancestor). `ChangeRequestForm` and `CapabilityForm` have one page each, with
the queries behind it, and other writers between its reads and its save.

*Properties.* `TypeOK` (with referential integrity), `Forest`,
`ControlledDeletion`, `NothingDropped`; `ReportsAreRight` (`ReportsAddUp`,
`GapsMatchImpact`); `ReadsAreRight` (an undisturbed read is exact), `WalkEnds`
(it ends however the tree moves), `PagesMatchTree` (dialogs offer the moves the
server accepts, the filtered tree shows what matches); `FormsAreRight`,
`WritesOnlyLocked`, `SaveSendsOnlyEdits`, `EditsSurvive`.

*One writer.* `Forest` and `ControlledDeletion` hold for one writer at a time
and fail for two (run `cycle`): the code has no lock that would make them hold.
`TypeOK` holds for any number, and `NothingDropped` for structural operations
whose merges lock their survivor while nobody edits tags, not beside other
writers.

*Bounds.* Three capabilities are the least on which a move under a grandchild
differs from one under a child and a merge has several sources; two writers, a
mapping and a tag are enough for a source and a survivor that another writer
changes. `MaxWrites` bounds the commits of others while a form is open. Deleted
ids are reused. The reports do not depend on a walk, and are evaluated where none is under way,
for every set of returned rows of five kinds.

*Fairness.* `FairReadsSpec` and `VisitSpec` say that a walk that can take its next
query takes it: the handler awaits its own query and nothing else.

### ModelVersions, ReleaseLog, ReleasesPage

*State.* `versions` is the table of versions, `capability` the main table,
`history` the entries of `capability_version` in the order of their insertion,
each linked to the one it follows; `request` what each handler has read. The page
keeps `cache` and `fetch` of its queries, the publish `form` with the changes
that were on screen when the review was confirmed, and one `mutation`.

*Actions.* A request is one or two reads and one commit. Indexes and foreign keys
are guards of the commits: one main draft, one published version, unique labels,
one successor per entry.

*Properties.* `VersionsAgree` (`OneDraft`, `HistoryIsLinear`,
`TableMatchesHistory`), `ClosedVersionsChangeOnlyLate`, `BranchKeepsItsOwn`,
`DiffMatchesStates`, the refinement `ImplementsReleaseLog`; of the page
`ReleasePagesAreRight` (the status shown is true, branches are shown as they are)
and `ReviewedIsPublished`.

*Bounds.* Three versions are a release, the draft and a branch, or two releases
and the draft; three changes are a creation, an update and a deletion, or a
change of each of two capabilities and one in the branch. The pages have one version
more, for a publication of the page's own on top of a release and a branch, over one
capability with two changes, with four clicks and one change made elsewhere.

### CapabilityImport, ImportPage

A request is parsed and checked, reads twice what exists, and answers or opens its
transaction, which checks every row again as it is written. Of a row the module
keeps name, parent, type and whether another column is at fault. The wizard has
one dry run and one commit pending at most; a connection may break while the
server goes on, and a file may be read late.

*Properties.* `PreviewIsRight` (the types of the page, and `ValidationIsExact`:
for every file of up to three rows the passes of the code accept it exactly when
an order exists in which every row can be created), `ImportIsWhole`.

*Bounds.* Two handlers with two capabilities for the interleavings; one request at a
time with a file read late and a third name and id (`MCImportPage`), for a capability
that is renamed between the reads of a commit and its writes. The files of
`ValidationIsExact` have three names, enough for a cycle, a chain in the wrong
order and a duplicate.

### Outbox, OutboxDelivery

*State.* `committed` and `emitted` follow a change from its commit to the
listener; `deliveryStatus`, `attemptCount`, `wait`, `leaseOwner`, `lease` are the
columns of `publish_event`; `health` is the consumer registry, `received` what
has reached whom, `steady` the consumers registered ever since an event was
recorded; `worker` is what each running `processDueEvents` has claimed, read and
delivered. Time is relative: `wait` and `lease` count down with `Tick`.

*Actions.* The transaction or the listener that records an event, `Poll`,
`ClaimDueEvents` event by event, `DeliverTo` consumer by consumer,
`MarkDelivered`, `MarkAttemptFailure`, a database error at each, `Crash`,
`Tick`, and consumers that come, fall ill and go.

*Properties.* `LeasesAreRight` (`LeaseProtects`), `DeliveredToAll`,
`ImplementsDelivery`, `EventuallySettled`.

*Bounds.* `MaxAttempts` is two (a retry and a final failure) or three where the
backoff is the question, with `MaxRetryDelay` ticks as its ceiling; a lease of
`LeaseDuration` ticks lapses in the middle of a batch; `MaxFaults` bounds the
crashes and database errors. Two workers and two consumers are enough for the
races listed.

*Fairness.* `FairSpec` says that a step of a worker that is under way happens,
that the listener's insert happens, that time passes, and that polling goes on.
The last is an assumption on whoever calls `processDueEvents`: the property says
what the worker ensures once it is called. It is checked for one worker; two that
both take longer than the lease over an event can take it from each other for
ever (a hazard in PROJECT.json).

### DownstreamConsumers, ConsumersPage, MappingsPage

The registry has one action per database call: a PATCH reads the row, resolves
the profile against the contract type the row will have, and later writes. The
page has one form; the list behind it is fetched again by every mutation, and an
effect loads the form again when it changes. Edit stays enabled during a save.

Of mappings a list is one entry of the query cache; `fetches` is the query in
flight for each, `requests` the mutations of the page with the step the server has
reached, `dialog` the one dialog that can be open. Other clients, and change
requests that merge and retire capabilities, change the table as well. `untold`
records, for the specification only, what has changed in a list that the page was
not told of.

*Properties.* `ConsumersAreRight` (`ProfileSupportsContract`, `FormBelongsToRow`), `MappingsAreRight`, `TypedSurvives`.

*Bounds.* Two consumers and two mappings, three clicks (`MaxEvents`) or two
(`MaxMappingEvents`) and one change of page (`MaxVisits`): a save, another dialog
and a late answer need two clicks.

### Notifications, InboxPage

A notification is a number, later ones larger. `markRead` reads and then writes by
id; `dismiss` and `markAllRead` are one update. The page changes its lists ahead of
the answer, keeps copies to put back, and fetches again when a mutation is settled.
`overlaps` and `foreign` record, for the specification only, in which situations
a list may lag behind; so does `calm`, which `Confirmed` takes from the lists that
do not show what was changed (`Covers`).  Such a list, and one cut off at its limit,
cannot be right between the server's change and the fetch that follows its answer:
of a list of one, say, nobody knows what comes next.

*Properties.* `ListsAreRight` (types, `AheadOfAnswerIsRight`, `SettledListIsCurrent`),
`DismissalSticks`.

*Bounds.* Two notifications, two clicks and one event of others: two mutations
that overlap, one of them failing, with one fetch between them. The list behind the
bell has a limit of one, so that it is cut off; the list of the page filters by
status and by type. The theorems are for any of these.

### Session, ChangeRequestPage

Tabs share the local storage; a request takes its headers from it when it is made,
and the server decides from them whose request it is, by the account as it is at
that moment. A tab keeps one snapshot of the change request; the panels offer
actions by it and by the identity read when they were last rendered. `told` is,
for the specification, the newest version a tab learnt of by an own request while
it stays on the page.

*Properties.* `PageIsRight` (types, `OlderIsNotFinal`, `OffersWhatIsAccepted`),
`RoleChangesTakeEffect`.

*Bounds.* Two users, one tab, two steps of colleagues (`MaxVersion`), two clicks
or losses (`MaxEvents`), from a change request of each kind and status that the
panels distinguish.

## 4. Runs

| Run | Module | Properties | What it shows |
|---|---|---|---|
| `gates` | `MCChangeRequest` | `TypeOK` `DecisionsJustifyStatus` `TrailReplaysStatus` `ApproversBriefed` `EffectsReflectCommits` `ImplementsLifecycle` | one change request of each kind of body, every deciding role, two handlers, audit calls and events that are lost or fail |
| `locks` | `MCChangeRequest` | `LocksMatchExecution` `AppliedOnce` | two change requests on overlapping capabilities, failing and retried |
| `tree` | `MCForms` | `Forest` `ControlledDeletion` `FormsAreRight` `WritesOnlyLocked` `SaveSendsOnlyEdits` `EditsSurvive` | one writer over every tree of up to three capabilities; the two forms with lost answers, refetches and other writers |
| `races` | `MCCapabilityReads` | `TypeOK` `NothingDropped` `ReportsAreRight` `ReadsAreRight` `PagesMatchTree` `WalkEnds` | two writers at a time whose merges lock their survivor; walks under a writer |
| `cycle` | `MCHierarchy` | `Forest`, violated | two legal moves at a time close a cycle |
| `versions` | `MCModelVersions` | `VersionsAgree` `DiffMatchesStates` `ImplementsReleaseLog` `ClosedVersionsChangeOnlyLate` `BranchKeepsItsOwn` | two requests at a time record, publish, fork, edit and discard |
| `import` | `MCImportPage` | `PreviewIsRight` `ImportIsWhole` | the wizard, two handlers, others who create, rename and delete |
| `delivery` | `MCOutbox` | `LeasesAreRight` `DeliveredToAll` `ImplementsDelivery` `ListsAreRight` `DismissalSticks` | two workers whose leases lapse; consumers come, fall ill and go; two faults; inbox and bell with requests and answers that get lost |
| `retries` | `MCOutbox` | `EventuallySettled` | one worker, batches of two events, a crash or error, failing consumers, backoff |
| `client` | `MCChangeRequestPage` | `PageIsRight` `RoleChangesTakeEffect` | one tab that signs in and out while colleagues move the request on |
| `integration` | `MCRegistryPages` | `ConsumersAreRight` `MappingsAreRight` `TypedSurvives` | consumers and mappings against servers that others use too |
| `releases` | `MCReleasesPage` | `ReleasePagesAreRight` `ReviewedIsPublished` | release dashboard and what-if manager beside others who record, publish and discard |

`CHECK_DEADLOCK FALSE` stands in the runs where the system really may stop: all
change requests finished, or every bound on clicks, versions or changes used up.
`SYMMETRY` permutes handlers, workers and the like, and only in runs that check no
liveness.

PROJECT.json gives for every property a `mutant`: the definition of the model with
a plausible bug, for which TLC finds the property violated in the same run. Their
operators stand in the modules, before the definition they change.

Properties of several parts are folded into one conjunction per run
(`VersionsAgree`, `PageIsRight`, ...); the parts have definitions and comments of
their own in the modules.

## 5. Proofs

What is proved holds for every value of the constants that meets the `ASSUME`s of
the modules; these say what the validation of the request bodies, the schema and the
role decorator let through, or that a sentinel is none of the values it stands
beside.

**`ChangeRequestProofs`**: `TypeCorrect`, `DecisionsCorrect`, `LocksCorrect`,
`Refinement` (`Spec => ImplementsLifecycle`), `TrailCorrect`, `EffectsCorrect`,
`BriefingCorrect`, `AppliedCorrect`.
The inductive invariant `IInv` is types, decisions, locks, and `RequestsInFlight`,
which says what a handler between two round trips may still rely on. It is needed
because a curator's approval is committed with no guard on the status:
`DecisionCase` shows that it can only happen to a request still under approval,
because a decision in flight concerns a request that has reached approval (stable)
and every later status has a curator's decision already, which the unique index
refuses to repeat. `StepCases` reduces each of the actions to five cases of what
changes, on the current state; the invariants and the refinement are proved for
the five cases. The second half is about what a change request leaves behind: its
trail, whose entries other than CREATED form a chain of legal steps that ends in
the status; the summary its approvers read; the operations applied, as many as
completed requests that name the capability; and the calls after a commit, each of
which some committed entry of the trail accounts for.

**`HierarchyProofs`**, first the tables: `TypeCorrect` for any number of writers; `ForestKept` and
`DeletionControlled` for one writer at a time (`Single`); `NothingLost` for one
writer, or for any number if merges lock their survivor and nobody edits tags or
retires by an update meanwhile (`Guarded`, the situation of run `races`).
The inductive invariant is types, `Forest` and `Fresh`: what a writer has
validated still holds when it writes. With several writers `Fresh` is what fails,
and the run `cycle` shows the hypothesis is needed. `Hang` is the heart of the
forest: if capabilities are hung under `p` and none of them is visited on the way up
from `p`, a set that held all its new parents would hold `p`, and its part on that
way would hold all its old parents. The other operations only cut links (`Cut`) or
add a leaf (`Grow`). `NothingLost` rests on `Disjoint` (writers that hold locks
share no capability) and `MergesOK` (the tags a merge has collected are those its
sources and its survivor still have).

Then the two forms, each beside any number of other writers: `RequestFormCorrect`,
`OnlyLockedWritten`, `DetailCorrect`, `FormsCorrect`, `OnlyEditsSent`, `TypedIsKept`.
They rest on the types of the tables only (`TypesOf`), not on `Forest`. `RequestInv`
says of the form of a change request that an analysis, shown or on its way, is that of
what is selected unless a mapping was written since, and of a created request that its
survivor is among what is affected; hence an execution changes nothing but the
parent of a row that its request does not lock (`OnlyLockedWritten`). `EditorInv` says of
the form of a capability that an answer between which and the cached one nothing was
committed is equal to it (`SameAnswers`), so that the reset by a refetch changes
nothing the user has not typed over; that a column the user has left alone is that of
the cached answer (`FilledFromAnswer`); and that the page after a save has read after
it (`SavedAnswers`).

Last the reads that walk the tree, `ReadsCorrect`, and what the pages offer by them,
`OffersAndTreeCorrect`, beside one writer at a time. `ReadsInv` says what a walk under
which nothing was committed has at each step: level by level, what is still missing
below what was read is below the last level, and no capability of that level is above
one read before (`SubtreeRight`); ancestor by ancestor, what was read and what is above
the one to be read next make up the way up, and have nothing in common (`Split`), which
is why no circle is reported. `OneAbove` (of two capabilities one is not above the other,
from `Forest`) and `Lowest` (of finitely many one has no child among them) carry both.
A tree shows what is listed because from each listed capability the listed
parents end at a root of the tree (`ListedBelowRoot`), whatever the filter took out.

`ReportsCorrect` is about functions of the tables and needs no more of a state than its
types. `PartsAdd` says that the sizes of the parts of a finite set sum to its size:
a total is a fold that picks its keys one by one, the size of the union of the parts
satisfies the same recursion (`TotalDef`), and a smallest set of keys on which the two
would differ does not exist (`SumIs`). The domains, and the cells of the heatmap, part
whatever subset of the capabilities a number counts (`DomainsAdd`, `CellsAdd`), and the
states part the mappings. `SeverityOfOne` says which severity one capability has.

**`OutboxProofs`**: `LeasesCorrect`, `Refinement` (`Spec => ImplementsDelivery`),
`DeliveriesComplete`. In `IInv`, `RowOK` relates the columns of a row to one
another, `HandsOK` what a worker holds to its step, `ClaimOK` the worker's claim to
the row: its own clock (`left`) never runs behind the row's (`lease`), and while it
owns an event that it has claimed, the count it has `seen` is the count of the row.
So a row with time left is due for nobody else, and the update that a lapsed lease
lets through is the next attempt all the same. `DInv` adds for `DeliveredToAll` that
all consumers still to do and all that have received the event together cover those
registered ever since it was recorded.

**`ModelVersionsProofs`**, first the tables: `VersionsCorrect`, `ClosedStaysClosed`,
`BranchIsolated`, `ComparisonCorrect` (`DiffMatchesStates`) and `LogImplemented` (the
refinement of `ReleaseLog`). `IInv` is types, `OneDraft`, `HistoryIsLinear`, `HistoryOK` (each
entry links to an earlier one of its capability), `OriginsOK` (a branch hangs on a
published or archived version), `TableMatchesHistory`, and `RequestsOK`: which
version a request has read, that a locked capability stays in the main model, that
the entry a change links to is still there. That it is still the newest follows
from the unique index over the links. The comparison and the log need more, `ChainInv`:
the versions of the main model form one chain, each based on the one published when it
was opened (`MainChain`); a capability's entries in it begin with its creation and name
ever later versions (`MainHistoryOK`); and of the updates of one capability one is under
way at a time, the one that holds its lock, which has read the newest version of any of
its entries (`UpdatesOK`). `Back`, `Lineage`, `StateAt` and the chain of releases are
recursive functions over the versions; that each exists is shown from the least version
at which two attempts at it would differ (`RecursionExists`, `RecursionUnique`, by
well-foundedness of the order of numbers), and what it computes from the least version
where it would compute something else. `WalkAlongChain` then gives the lineage as an
interval of the chain, `RecordedIsRead` the state at a version as the last entry in it.

Then the pages: `ReleasePagesCorrect`, `ReviewPublished`. `PageInv` adds to the two that
the published version is the base of the draft (`PublishedIsBase`), which is why the
comparison of the two is what the draft has recorded, and says what the answers are
worth. Each answer, in the cache or on its way, names versions of the right kind, which
never go (`Timely`), and is the truth as long as nothing was changed elsewhere since it
was read and no change of the page's own waits to make it stale (`Right`, `DoneFor`):
the page's own change reaches the cache by the invalidation that follows its answer, the
changes of others never do. `ReviewOK` says that a review confirmed with a settled status
lists what is in the draft until the page's own publication is done, `MutationOK` that
the request of the tab and the mutation in the page are one. `PageAssumption` says that
there is a release, a label and a capability to begin with.

The proof corrected the property: a review can be confirmed between the answer to an
own publication and the answers to the refetch that it launches without waiting
(`api/versioning.ts:272`). It is then of what has been published already, and the
publication sent after it releases other changes. `ReviewSince` hence counts only a
review of a settled status.

**`RegistryPagesProofs`**: `ConsumersCorrect`. A stored profile supports the stored
contract type because it was resolved against the very contract type that the same
statement writes (`ServerOK`), not because PATCHes exclude one another. A save is of
its own consumer because the form is loaded from the consumer being edited in every
step that changes either (`FormOK`), and one save is pending at most
(`ConsumerCallsOK`). `MappingListsCorrect`, `NothingTypedIsLost`: every list of
mappings that counts as fresh, or is on its way, is current, or the answer of a call
that is done is still to make it stale, or it is noted as untold (`ListsCurrent`). The
dialog of a kind that has a request pending has nothing typed in it, or that request
was made of it (`NothingTyped`).

**`ImportProofs`**: `PreviewCorrect`, for every file of any length. `Pass` and
`OrderRows` are iterations (`PassDefined`, `OrderDefined`, from the principle
`Upwards`), and their invariant is `StateOK`: each row is placed or remains, none is
placed before the row it waits for. If the reference `Importable` has ranks, no row
remains: one of rank p is placed within p passes (`RankedArePlaced`), since a pass
places every row that is ready when it begins. Where none remains, the places in the
order are ranks (`ImportableExactly`). Before the order, `Found` is empty exactly
when every row is sound (`FoundNothing`). The theorem covers the files that are sent,
as they are read, and with `CheckedFiles` any others, against any names in use.

`ImportWhole`: from its reads to its commit a transaction keeps `WritingOK`: the rows
of the file are those written and those still to write, in number too; each row still
to write has its parent read, written, or earlier among those still to write
(`ParentKnown`), so that the lookup of a parent never comes back empty; each row
written is where the file wants it (`BelowParent`). Ids not committed belong to one
handler and are unborn in the table (`IdsApart`); what the others do spares what a
handler holds (`Spared`), because a capability that has become a parent is locked.
`ServerInv` was checked by TLC on the instance of `import` before it was proved.

The proof needed corrections of the property and of the reference: a row may go below a
capability read by the name of its parent although the file has a row of that name
(`BelowOwnRow` below), and a row that names itself as its parent is refused even when
a capability of that name exists.

**`ChangeRequestPageProofs`**: `PageCorrect`, `RolesTakeEffect`. `IInv` is
`SessionOK` (a user or an identity in storage has the token's), `ServerOK` (a pending
change request has no decision of the board, and none of the curator but an approval;
one past approval has both) and `PageOK`: an answered query is no older than what
the tab was told, what it was told is no newer than the server and nothing off the
page, data older than that means an error or a query under way, and one request of
a panel at a time. Offers and guards are then compared role by role. Only the
serving of a call moves the change request, by the account as it is.

**`InboxProofs`**: `ListsCorrect`, `DismissalStays`. A list is `Followed` while nobody
else has changed anything since it was read and the page has made one change after
the other. Of a followed list the copy is what the server has until the server makes
the change (`CopyRight`), and the list is the copy with the change applied
(`AheadRight`); `UpdateRight`, `AllReadRight` and `AlreadyRead` say that what the page
does to a list that is not cut off is what the server's statement does to its answer.
A fetch that begins during a change is begun again or marked when the change is
settled (`FetchRight`), so that no answer from before passes for fresh. The first
version of `AheadOfAnswerIsRight` was not inductive, and false for lists cut off at
their limit, which the instance of the time did not have; hence `Covers`.

Only model-checked:

* *Liveness* (`EventuallySettled`, `WalkEnds`) is out of the prover's reach.

## 6. Where the code departs from its documents

Each line names the configuration in which TLC ends in a counterexample. Where that is
the configuration of a run, the property stands there in a comment, to be put in the
place of the run's own properties.

| Property | Configuration | What happens |
|---|---|---|
| `Forest` | `MCCycle` (run `cycle`) | two moves that are each legal close a cycle of parents |
| `LockConflictIsReal` | `MCDuplicateTarget` | a capability named twice makes a request impossible to execute, with a message about a conflict that does not exist |
| `AppliedOnReadState` | `MCChangeRequestLocks` | the apply of an earlier execution commits in a later one, on what it read before |
| `AuditFailureIsContained` | `MCAuditFailure` | a failed audit write ends the process |
| `NothingDropped` | `MCDroppedMetadata` | a tag added during a merge is in no record of the survivor |
| `NoEventLost` | `MCLostEvent` | the event of a structural change is lost after its commit |
| `ListShowsWhatGetFinds` | `MCModelVersions` | the list of a branch and the lookup of one capability differ for one created and updated in the branch |
| `ConfirmsCurrentContent` | `MCImport` (module `MCImportPage`) | what is confirmed is not the content that is sent |
| `BelowOwnRow` | `MCImport` (module `MCImportPage`) | a row goes below another capability than the row of the file that it names as its parent: one of that name was registered between the two reads of the commit, so that neither read found a conflict, and renamed before the write; the row may then be created before its parent's |
| `LoggedOutIsUnauthenticated` | `MCChangeRequestPage` | a late `getMe` restores the user who has signed out |
| `EverySaveIsShown` | `MCMappingSaved` | a dialog taken along by the back button has the wrong list fetched |
| `EditShowsEarlierSave` | `MCMappingEdited` | Edit opens with, and sends, the values from before the last save |

Further behaviour met while modelling, which the modules keep as it is: discarded
branches stay in the list, with Discard offered again; rollback is offered and always
refused, since a draft always exists; edits elsewhere leave the caches of the version
queries fresh; a branch created while the list is fetched for the first time is
missing from it; a dismissed notification comes back when a concurrent `markRead`
has read it before; a delete request with several capabilities is accepted and never
executable; the form offers a capability itself and its descendants as new parent;
the preview shows the numbers of the previous selection while the next loads; a
downstream plan cannot be added after creation; a save of a capability sends every
column and undoes what others changed since; an entry of a list with a comma is
split; unsaved edits are lost when a refetch brings a changed child; the system
entered in the edit dialog of a mapping is never sent; the error of one mapping's
save shows in the dialog of another.

## 7. Not modelled

Components that are left out have a reason in PROJECT.json: the name guardrails
(pure functions of a string), the audit listener (one insert per event), HTTP
plumbing, schema and seed (declarations; indexes and foreign keys are guards), pages
that show one query. Within the modelled components these are left out:

* the writing part of rollback, which no execution reaches: it is refused while a
  draft exists, and one always does (`OneDraft`);
* of the import: the parsing of CSV text, the tables of the wizard;
* of consumers: the delivery log, the synchronisation mode, the health summary, the
  transformation of payloads;
* of sessions: hashing and signatures, the refresh of a user on demand;
* of notifications: those to other recipients than the one followed;
* of lists: the limit of the mappings page (it shows the first 25), order and layout,
  the collection of cache entries that are not used;
* of analytics: percentages, limits and formats;
* the render loop, keyboard focus and layout.

## 8. What is left

Models of the pages that only show a query, should one of them start to write.
