# Breathe ESG platform: a TLA+ verification project

The platform takes in files of activity data (SAP extracts, utility bills,
travel expenses), turns each row into an emission record, computes CO2e from
versioned factor datasets, leads every record through an approval workflow and
keeps a tamper-evident audit log. It is a Django REST application over
PostgreSQL, with Celery workers, Redis as broker and cache, and calls to
external LLM providers.

Paths below are relative to `src/`; `ingestion/`, `audit/` and so on stand for
`src/backend/apps/ingestion/` etc.

## 1. Inventory

### Components

| component | state it keeps | operations | what makes it correct |
|---|---|---|---|
| **Record governance** (`ingestion/views.py`, `models.py`, `services/workflow.py`, `soft_delete.py`, `versioning.py`, `admin.py`) | `EmissionRecord` rows, `EmissionRecordVersion` rows | submit, approve, reject, soft delete, restore, recalculate, edit in Django Admin | statuses move along the workflow only; an approved record is frozen; each change leaves exactly one version, and through the API one audit entry; all of it or nothing |
| **Audit chain** (`audit/services.py`, `audit/models.py`, `core/querysets.py`) | `AuditTrail` rows, one `AuditChainState` row per organisation | `append_entry`, `verify_chain`; the `SET_NULL` cascade of `user.delete()` | sequence numbers without gap, each entry linked to the one before, append-only, verifiable |
| **Batch pipeline** (`ingestion/tasks.py`, `ingestion_service.py`, `carbon/tasks.py`, `carbon_service.py`, `core/tasks.py`, `core/notifications.py`) | `UploadBatch` rows (status, counters), records, calculations, the Celery queue | upload, `ingest_task`, `calculate_task`, retry, redelivery (`acks_late`), sweep of stale batches, owner notification | every batch becomes terminal; a terminal status is not overwritten; a file is ingested once; one notification per outcome |
| **Dead letters and replay** (`tasks/signals.py`, `models.py`, `replay_failed_task`) | `FailedTask` rows | record a failed task, replay it, purge | a task that exhausted its retries is recorded; a replay does its work |
| **Carbon calculation** (`carbon/services/resolution.py`, `pipeline.py`, `carbon_service.py`) | `EmissionCalculation` rows | resolve a factor, calculate, replace the current calculation | one current calculation per record; the most specific valid factor |
| **Backfill and factor import** (`backfill_calculations`, `import_emission_factors`) | `EmissionFactorDataset` rows and their statuses | import, activate (supersede the one before), backfill, backfill `--force` | one active dataset per source and year; approved records keep theirs |
| **Metrics cache** (`carbon/services/metrics_cache.py`, `cache_mixin.py`) | a version key per organisation, payloads keyed by it | read through, bump on commit | a reader that starts after a bump does not see older data |
| **AI gateway** (`ai/services/*`, `ai/tasks.py`) | `AIInteraction` rows, the lock per organisation, policies | run with idempotency key, policy check, budget, egress redaction, provider call | no answer paid for twice; the budget bounds the cost; a refusal is recorded |
| **Validation, normalisation, parsers** (`ingestion/services/*`) | none | pure functions of a row | the status given to a record follows from its issues; one row does not spoil another |
| **Browser session** (`frontend/src/services/api.js`, `context/AuthContext.jsx`, `accounts/views.py`) | the token pair in `localStorage`, the refresh under way in each tab, the server's blacklist | login, logout, calls, refresh and retry after 401, reload | a valid session is not dropped; every call settles |
| **Tenancy and permissions** (`accounts/*`) | roles, memberships | decisions per request | nobody acts outside their organisation or above their role |
| **Metrics and reports**, **AI prompts and providers**, **storage, health, infrastructure**, **pages of the frontend** | none of their own worth modelling | reads and I/O | - |

### How they interact

* A view holds one database transaction over a record row, its version and its
  audit entry. Two locks order these: the record's row (`SELECT ... FOR
  UPDATE`) and the organisation's `AuditChainState` row.
* `recalculate()` is the exception: it takes no record lock, so the unique keys
  of `EmissionCalculation` and `EmissionRecordVersion` and the deferred foreign
  keys checked at COMMIT are what serialises it against the others.
* An upload creates a batch and sends the chain `ingest_task | calculate_task`
  to the broker; the tasks, Celery's failure signals and the periodic sweep all
  write `UploadBatch.status`, mostly without a lock.
* Committing a change that metrics depend on schedules a bump of the cache
  version (`transaction.on_commit`).
* Every AI call goes through `invoke_ai()`, which holds the organisation's
  policy row locked while the provider answers.
* Every call of the frontend carries the access token all tabs share; the first
  401 in a tab starts the refresh the others wait for.
* Deleting a user account reaches records, versions and audit entries through
  `ON DELETE SET NULL`.

### What is hard

Interleaved requests at READ COMMITTED with some reads outside any lock; waits
for rows, unique keys and foreign keys that can form cycles; whole-row
`save()`s from stale instances; crashes and redelivery of tasks; status written
by several actors; cached values keyed by a version that races with its own
bump. `PROJECT.json` lists each of these under `hazards`, at the line where it
bites, with the properties that cover it or the reason why none does.

## 2. What is modelled

| module | models | role |
|---|---|---|
| `AuditChain` | `audit/services.py`: canonical payload, hash, new entry, chain state, the walk of `verify_chain` | operators, no state |
| `RecordGovernance` | the seven writing operations on a record, version history, audit chain, account deletion, dataset activation | the core state machine |
| `AuditLedger` | - | abstract specification: an append-only ledger of seals |
| `RecordLifecycle` | - | abstract specification: each record's workflow in atomic steps |
| `MCRecordGovernance` | - | symmetry set for TLC |
| `RecordGovernance_proofs` | - | theorems and their proofs: locks, chain, workflow |
| `RecordHistory_proofs` | - | theorems and their proofs: versions, calculations, deadlocks, audit replay, both refinements |
| `BatchPipeline` | upload view, `ingest_task`, `calculate_task`, failure handler, replay, sweep, backfill, notification | state machine |
| `BatchPromise` | - | abstract specification: rows stored once, calculated once, mails that claim no more |
| `BatchPipeline_proofs` | - | theorems and their proofs |
| `MetricsCache` | `metrics_cache.py`, the metrics views | state machine over database and cache |
| `MetricsCache_proofs` | - | a theorem and its proof |
| `AIGateway` | `invoke_ai()`, the capability tasks and views around it | state machine |
| `AIGateway_proofs` | - | theorems and their proofs |
| `FactorLibrary` | `import_emission_factors`, Admin, `resolution.py`, the chunks of a calculation run | state machine and pure operators |
| `RowProcessing` | parsers' decisions, validator, normalizer, insert, calculation, metrics | state machine over pure operators |
| `Session` | `api.js`, `AuthContext.jsx`, the token views | state machine over tabs and server |
| `FactorLibrary_proofs`, `RowProcessing_proofs`, `Session_proofs` | - | theorems and their proofs |
| `MCBatchPipeline`, `MCFactorLibrary`, `MCRowProcessing` | - | symmetry, sample datasets and rows for TLC |

### `RecordGovernance`: state and actions against the code

Each HTTP request is a process `p`, with `pc[p]` (how far it has come) and
`txn[p]` (what it has read and not committed). The shared variables are tables.
Writes reach the tables in `Commit(p)`, as at READ COMMITTED.

| variable | table |
|---|---|
| `rec` | `ingestion_emissionrecord`: status, is_deleted, value, approved_by |
| `versions` | `ingestion_emissionrecordversion` per record: number, snapshot, calculation |
| `calcs` | `carbon_emissioncalculation` per record: factor dataset, value, is_current |
| `chain`, `tip` | `audit_audittrail`, `audit_auditchainstate` |
| `users` | accounts that exist |
| `activeFactor` | the dataset that factor resolution uses |

A locking request (submit, approve, reject, delete, restore) goes
`idle -> insert -> append -> commit -> answered`:

1. `BeginTransition` / `BeginLifecycle`: `select_for_update().get()`, the
   transition check, `record.save()` with `clean()`, and the version number
   (`count() + 1`). `RefuseTransition`, `RefuseLifecycle` are the 404 and 400
   answers.
2. `InsertVersion`: the insert of the version, which waits for an uncommitted
   row with the same key; `LoseVersionNumber` when it was committed.
3. `AppendEntry`: `append_entry()` waits for the chain state and reads it.
4. `Commit`: the deferred foreign keys wait for another request's row lock
   (`CanCheckForeignKeys`), the acting account must still exist (`LoseActor`
   otherwise), and everything becomes visible at once.

`recalculate()` goes `idle -> computed -> superseding -> insert -> append ->
commit`: an unlocked read (`ReadForRecalculation`), the UPDATE that demotes the
current calculation (`SupersedeCurrent`), the insert that
`unique_current_calc_per_record` may make wait or refuse (`InsertCalculation`,
`LoseCalculation`), and then the steps above. An Admin edit goes `idle -> form
-> insert -> commit`: the form is rendered from an unlocked read
(`OpenAdminForm`), posted whenever the user likes, and saved whole under
`save()`'s own lock (`PostAdminForm`); no audit entry is written.

`Crash` ends a request inside its transaction, `AbortDeadlocked` is PostgreSQL
picking a victim among requests that wait in a cycle, `DeleteUser` is
`user.delete()` with its cascade, `ActivateFactor` is an import with
`--activate`.

#### Abstractions

* SHA-256 is collision free: a hash *is* the sequence of payloads below it.
* One organisation. Chains and locks of different organisations are disjoint.
* A value is a model value; the Admin form changes status, value and
  `is_deleted` (the fields the properties speak of), from any to any.
* A version number is the number of committed versions plus one; the inserts of
  one transaction become visible only with its commit.
* In `recalculate()`, reading the record and reading the active factors are one
  step.
* A batch is in the state ingestion and an optional first calculation left it
  (`Init`): DRAFT, SUSPICIOUS or FAILED, with version 1.

### `BatchPipeline`

One upload of one file with at least one row. `batch` is its row in the
database, `queue` the copies of each message the broker holds, `worker[w]` the
attempt a Celery slot is in: `msg`, and `held`, the copy of the row the attempt
read when it began. `batch.save()` writes that copy back whole, with the status
as it was read (`SaveWhole`); `save(update_fields=...)` and `.update()` write
single columns (`SetStatus`, `SetCalc`).

* `StageFile ... MarkQueued` are the statements of `BaseUploadView.post`,
  among them the read and the write of QUEUED on either side of which a worker
  may do anything.
* `StartIngest ... FinishIngest` and `StartCalculate ... FinishCalculation` are
  the two tasks, one step per commit or message; `SkipIngest` and
  `SkipCalculate` are the early returns, after which the chain still goes on.
* `TransientFailure` retries, `RaiseFailure` gives up, `LogDeadLetter` and
  `FixStatus` are the handler of `task_failure`, `Replay` the command.
* `LoseWorker` (the machine dies: `acks_late` delivers again), `LoseProcess`
  (the pool process dies: its parent acknowledges the message and reports a
  failure, since `task_reject_on_worker_lost` is not set) and `Redeliver`.
* `SweepSelect`, `SweepUpdate`, `SweepNotify`: the three passes of
  `cleanup_stale_batches_task`. `BackfillRead`, `BackfillInsert`: the daily
  backfill. `SendMail` composes the mail from the row as it is then.

All rows of the file share one fate, so `stored` and `calcs` count how often each
row is stored and calculated. `batch.stale` stands for an old `updated_at`.

### `MetricsCache`

Readers run `get_calc_version`, lookup, compute and store as separate steps;
writers commit and bump in two. A payload is the number of writes it has seen.
`cold` (history) is set when the version key is missing, at the start or after
an eviction: `get` then `set(1)` are two calls, and the second may turn the
version back to payloads stored under 1 before. `cache_mixin.py` has the same
protocol for reference data.

### `AIGateway`

A worker goes `calling -> resolving -> waiting -> locked -> asking -> answered
-> persisting -> persisted`. The row lock on `TenantAIPolicy` is `lock`; policy
edits wait for it (`EditPolicy`). `ok` is the committed OK row of a key,
`spent` the month's sum, `unbooked` and `late` are history variables. The
handler of the unique constraint is not an action: `BackstopUnused` shows it is
not reached.

### `FactorLibrary`

An import is `Check` (does this version exist), `Insert`, `Scan` (the UPDATE's
snapshot of whom to supersede), `Supersede` (row by row, waiting for locks and
looking again) and `Commit`; `AdminSave` edits status and priority. A run loads
an index once (`RunIndex`) and resolves chunk after chunk against it with
`Best`, the minimum under the sort key of `FactorIndex.resolve`.

### `RowProcessing`

A cell is what the parser makes of its text: nothing, nan, infinite or a number
in thousandths of the base unit. `read` is what `parse()` does with a row: it
returns it, reports it, passes it over, or raises; `payload` is whether jsonb
takes the row as it was read, every cell of it. `Parse` goes through the whole
file before `MakeRecord` makes the first record, as the code does, and
`StoreRecords` is the one `bulk_create()`: `NormalizeRaises`, a raising `Parse`
and a refused insert end the batch. `FailedSap` to `SuspectTravel` are the
validator, `Conversion` and `Scope` the normalizer, `Positive`, `Baseline` and
`TwiceMedian` the baseline of `IsOutlier`, `RecordOf` the record of a row,
`ActivityDate` and `KeyOf` what the calculation reads back from the stored payload, `Total`, `TotalBy` and `Series` the metrics.

### `Session`

`store` is `localStorage`, a pair of tokens the number of its issue. Each tab
has calls under way and at most one refresh (`refreshing[t]`). The server
rotates a refresh token atomically and blacklists the one it got (`Rotate`).
`excused` (history) records what may cost a session: a logout, a lost answer to
a refresh, two tabs that refresh with one token.

## 3. Runs

All bounds are CONSTANTS in the `.cfg` files. `CHECK_DEADLOCK FALSE` everywhere:
requests, messages, imports, files and calls are bounded, so each system really
stops when they are used up. Waiting that should not last is covered by
`NoDeadlock` and the liveness properties.

| run | instance | what it shows |
|---|---|---|
| `governance_api` | 4 requests of any API kind, 2 records, 1 account, a second dataset activated at any time | version numbers are contiguous although counted without a lock; one current calculation, the newest; the audit log replays to the record's status and visibility; each version is named by one entry; `verify_chain` succeeds; what was checked under a lock holds at commit; the chain is linked and implements `AuditLedger`, the records `RecordLifecycle` |
| `governance_admin` | 3 requests (approve, Admin edit) on 1 record, 2 values, an account that may be deleted | the workflow and the approval freeze hold against stale forms; the newest version is the record; no cyclic waiting when `recalculate()` is absent |
| `governance_liveness` | 3 requests (submit, recalculate) on 1 record, 2 accounts that may be deleted | every request the server started is answered, deadlocks with `recalculate()` and lost accounts included; only a deleted account makes an entry look altered |
| `pipeline_redelivery` | 2 workers, 1 fault (storage, broker, database, crash), 1 retry, 1 redelivery, 1 replay | the rows are stored with the success status, once, and calculated once, no mail claims rows that are not there (`BatchPromise`) |
| `pipeline_outcome` | 1 worker, 2 faults of any kind, a file that is partial, broken or overflows | while messages are delivered once, CALCULATED means calculated and success stands but for two named steps; every batch settles, by the sweep at the latest |
| `metrics_cache` | 2 readers, 2 writes, 1 approval, 1 lost bump or evicted key | a reader is served every write bumped before it asked while the version key has never been missing; staleness of every kind ends |
| `ai_gateway` | 2 workers, a record and a report period, budget 2, cost at most 2, 2 events (edit, change, crash, redelivery, ...) | no key is paid twice, the unique constraint is a backstop never used, the budget is passed by less than one call, a lost process loses the cost of one call at most, a changed policy lets one call per process through, one annotation per record without redelivery, a paid answer is recovered, every call ends |
| `factor_library` | 2 importers, 3 imports, 1 Admin edit, overlapping files of two publishers, one run | at most one active dataset per process for a publisher and region; once activated, an activity stays resolvable; the records of a run are resolved alike |
| `row_processing` | every file of up to 3 rows, good or off in a cell or two, for each source | a file is given up if and only if it has a row the parser raises on, one jsonb refuses, or one that passes validation with a value that does not fit; outliers are at most half; each row is an error or a record, and normalized, excluded or in the totals |
| `session` | 2 tabs, 2 kinds of call, 2 calls, 2 expiries, 1 fault, 1 login or logout | no valid session is dropped but for the excuses named; every call settles unless the refresh it awaits hangs |
| `approved_calculation` (violation) | 3 requests on 1 record | a recalculation that checked the freeze before the approval replaces the approved calculation after it |
| `stale_version` (violation) | submit and recalculate on 1 record | the newest version shows a status the record no longer has |

### Why the bounds are enough

* Governance: every race is between two requests on one record, or on two
  records over the one chain state. Four requests leave room for two races and
  for a history (submit before approve before a recalculation) before them; two
  records let the chain serialise requests that do not share a row lock. A cycle
  of waits needs two requests. Three suffice where forms and accounts enlarge
  each step: one submits, one approves, one holds a stale form and posts it over
  both. A record starts as DRAFT in the passing runs: SUSPICIOUS has the same
  outgoing edges and FAILED has none; the proofs cover all three.
* Pipeline: two workers run two deliveries of a task, or ingestion and
  calculation, at once. Duplicates come from one redelivery, one replay or one
  crash, all of which may happen in one behaviour. A retry beyond the first
  starts where the first did. Two faults reach a failure whose clean-up fails
  too (a lost worker and a refused mail, a failed task and a failed status
  update). Files that fail go with a single worker, since what they add is in
  the failure path and not in a race.
* Cache: a stale payload needs a slow reader, a write between its two calls, and
  another reader to be misled. The second write shows that a later bump repairs.
* Gateway: two workers race for one key or for the budget; a budget of 2 with
  costs 1 or 2 is missed, met and passed. Two events give a crash with a changed
  context, an edit with a new month, and each pair of them.
* Factors: two importers race; the third import shows what follows the race.
* Rows: the median of 1, 2 and 3 quantities has both parities; each deviating
  row meets good and bad ones.
* Session: sharing a refresh needs two calls, crossing refreshes two tabs; the
  second expiry strikes between a refresh and the retry it was for.

### Fairness

* `RecordGovernance`: `WF(Serve(p))` for each request. A started request is
  carried on by its server thread, a lock is granted when free, and PostgreSQL's
  detector resolves a deadlock. Nobody has to send a request, post an open form,
  crash, delete an account or activate a dataset. Weak fairness suffices for the
  waits because each request runs once: there is a last holder.
* `BatchPipeline`: `WF` of the request, of each worker slot, of the sweep (Beat
  runs it every 15 minutes, `config/settings.py`), of time and of the mail
  queue. No replay, purge or backfill is assumed: the sweep alone must settle a
  batch.
* `MetricsCache`: `WF` of each reader (dashboards poll), of the bumps (`on_commit`
  callbacks run) and of expiry (`DEFAULT_TTL`).
* `AIGateway`: `WF` of taking a message and of proceeding with a call, whose
  provider request has a timeout (`CallFails`). Crashes and edits are free.
* `Session`: `WF` of calls, refreshes and logouts under way: axios settles each,
  by its 60 s timeout at the latest; the refresh has none, and `HangRefresh` ends
  in a state no fairness leaves.

## 4. Proofs

`RecordGovernance_proofs` proves, for any sets of requests, records, accounts
and values:

| theorem | statement |
|---|---|
| `TypeCorrect` | `Spec => []TypeOK` |
| `GovernanceCorrect` | `Spec => []GovernanceInv`, the inductive invariant |
| `ChainLinkedTheorem` | `Spec => []ChainLinked` |
| `HeldReadingsTheorem` | `Spec => []HeldReadingsCurrent` |
| `WorkflowTheorem` | `Spec => WorkflowRespected` |
| `AlteredTheorem` | `Spec => []AlteredOnlyByUserDeletion` |

They rest on the assumptions declared in the module: `Ops` are operations the
module has, `Ingested` are statuses ingestion gives, `NoUser` is no account,
`MaxFactor` is positive.

`ChainLinked` alone is not inductive: `Commit` appends an entry built on the
chain state as it was when `append_entry()` locked it. `GovernanceInv` adds
what makes that reading good: `HeldReadingsCurrent` (what was read under a lock
is what the tables still hold), `LocksExclusive` (one holder per record and one
of the chain state) and `PhaseOps` (which operations can be in which phase, so
that holding a lock can be read off `pc` and `txn`). The proof takes one step
per action; actions that only move `pc` and `txn` share the lemma that the
database is unchanged. `WorkflowRespected` follows from `HeldReadingsCurrent`:
the row that commits was accepted by `clean()` against the row it replaces.
`AlteredOnlyByUserDeletion` needs that a hash's last payload differs from its
row in the actor at most (`SealedInv`), which only `Commit` establishes and
only `DeleteUser` disturbs.

`RecordHistory_proofs` builds on these and proves, for the same constants:

| theorem | statement | while |
|---|---|---|
| `VersionsTheorem` | `Spec => []VersionsContiguous` | |
| `CurrentTheorem` | `Spec => []OneCurrentCalculation` | |
| `LedgerTheorem` | `Spec => ChainIsALedger`, the refinement of `AuditLedger` | |
| `DeadlockTheorem` | `Spec => []DeadlocksNeedRecalculation`: a cycle of waits has a recalculation in it | |
| `NoDeadlockTheorem` | `Spec => []NoDeadlock` | nothing is recalculated |
| `LatestTheorem` | `Spec => []LatestVersionIsRecord` | nothing is recalculated |
| `ChainVerifiesTheorem` | `Spec => []ChainVerifies` | no account is deleted |
| `LifecycleTheorem` | `Spec => RecordsFollowLifecycle`, the refinement of `RecordLifecycle` | nothing is edited in Admin |
| `ReplayTheorem` | `Spec => []AuditReplaysRecord` | nothing is edited in Admin |
| `NamesTheorem` | `Spec => []AuditNamesVersions` | nothing is edited in Admin |

What "while" says is a hypothesis on `Ops`, and that of the runs. None can be
dropped, because of what the code does: a recalculation reads its record and
takes the chain without the record's lock, so it can write back a row that has
moved on (section 5) and wait in a cycle; Admin writes no audit entry;
deleting an account changes the actor that was hashed.

* `CountersInv`. A version number, or a calculation to replace, is *claimed* by
  the transaction that inserts against the unique key: two open transactions never
  claim the same one (`KeysClaimed`, `CalculationsClaimed`), and what a claim is
  for is still the last one there is. This is what serialises recalculations,
  which share no lock, and what makes both invariants inductive.
* `LatestInv` needs no more than that each record has a version: with
  `GovernanceInv`, a commit writes one row as version and as record alike.
* `LedgerTheorem` needs `HashesGrow`: the hash of the n-th entry covers n payloads,
  so that no two seals are alike, whichever actor is nulled.
* `LifecycleTheorem` maps each commit to the atomic step of its operation, and all
  else to a stutter. `RowsFit` says that the row a transaction is to write is the
  row it read, moved by its operation; `HeldReadingsCurrent`, that it is still there.
* `AuditInv` relates log and versions: entries name the versions of their
  records (`EntriesNameVersions`), each once (`VersionsNamedOnce`), a
  version shows the status that its operation leads to (`StatusShown`), and
  replaying the log gives the row (`LogReplays`).

`BatchPipeline_proofs` proves, for any number of workers, faults, retries,
redeliveries and replays (`BoundAssumption`: the bounds are numbers):

| theorem | statement |
|---|---|
| `TypeCorrect` | `Spec => []TypeOK` |
| `SuccessTheorem` | `Spec => []SuccessHasRows` |
| `PromiseTheorem` | `Spec => PromiseKept`, the refinement of `BatchPromise` |
| `CalculatedTheorem` | `Spec => []CalculatedMeansCalculated` |
| `SuccessStandsTheorem` | `Spec => SuccessStands` |

The first three rest on `RowsInv`. All but five actions leave rows, calculations
and mails alone and make no batch a success (`DataStays`), so the invariant is
preserved by them together, and the five are those that map to a step of
`BatchPromise`. `CalculatedMeansCalculated` needs to know that nothing overtakes:
while messages are delivered once, a single token, a message or an attempt at it,
goes round from upload to calculation (`TokenInv`), and neither the batch nor
a copy of its row reads CALCULATED while that token is at ingestion
(`CalculatedInv`). `DeliveryInv` states both under the condition that nothing
was delivered twice, which a step can only end. `SuccessStands` adds that an
attempt which still has to write an axis works on one that has not succeeded
(`AttemptInv`): the token is taken while the axis is open, and only its holder
closes it with success. The sweep and the dead-letter handler, which hold no
token, look again in their UPDATE (`SettleStands`).

`AIGateway_proofs` proves, for any finite set of processes, any subjects, any
budget and prices and any number of events:

| theorem | statement |
|---|---|
| `TypeCorrect` | `Spec => []TypeOK` |
| `BackstopTheorem` | `Spec => []BackstopUnused` |
| `BudgetTheorem` | `Spec => []BudgetHeld` |
| `SpendTheorem` | `Spec => []SpendBooked` |
| `LateTheorem` | `Spec => []LateCallsBounded` |
| `OutputTheorem` | `Spec => []OutputOnce` |
| `OwnPromptTheorem` | `Spec => []AnswersOwnPrompt` |

`LockInv` carries the first three and is a premise of the others: who is past
the lock holds it, and what it found there (no OK row, some budget left) stays
so while it does. That `unbooked` never falls below zero is part of it, since
booking subtracts what the holder was charged. `SpendInv` replaces the cardinality
in `SpendBooked` by the only process that can be booking. `LateInv` bounds what
went out late together with the calls that still may (`Stale`): an edit makes at
most every process stale, and each stale call becomes one late call.
`OutputInv` and `OwnInv` follow the one task of a subject (`Single`), which is in
the queue or with one worker as long as nothing is delivered, or asked for,
again. Assumed are `WorkersAssumption` (a finite set, and no process called
"nobody"), `PeriodsAssumption` and `MoneyAssumption`.

`MetricsCache_proofs` proves `FreshTheorem`, `Spec => []FreshWhileWarm`, for any
number of readers, writes, approvals and faults. `WarmInv` is what makes the
version a clock: it moves with `announced`, so readers that use one version asked
at one value of `announced`, and what any of them computed holds at least that.
That a new version starts empty needs `VersionInv`, which counts the bumps that
are due: every write raises the version once at most.

`Session_proofs` proves `SessionTheorem`, `Spec => []SessionKept`, for any
number of tabs, calls, logins and faults. While nothing excuses a lost session,
`Undisturbed` says that no refresh has failed and no tab is leaving, `SentAreGood`
that a token under way is not blacklisted and held by no other tab, `GrantedAreNew`
that the pair that answers it is held by nobody yet, and `StoredIsGood` that the
stored token is good unless its successor is on the way: so the only refresh
that can fail is one that was excused.

`FactorLibrary_proofs` proves, for any finite set of importers, any commands,
files, regions and policies:

| theorem | statement |
|---|---|
| `ActiveTheorem` | `Spec => []ActiveBounded` |
| `ResolvedTheorem` | `Spec => []ActivatedStaysResolved` |
| `RunsTheorem` | `Spec => []RunsAgree` |
| `RankChainTheorem` | the chain of a region begins with it, repeats no region, has the parent of each of its regions, and GLOBAL |

Nothing but its snapshot keeps an import from missing another's dataset. What
bounds the active ones is `ActivatorsInv`: each can be matched with the process
that activated it, one per process, because a process that imports for the same
publisher and region again finds its own last one and supersedes it.
`SucceededInv` (what was activated has an active successor) holds since
superseding and activating are one commit; a run's library then has a candidate,
and a finite set of candidates has a first under `Smaller`, which is
irreflexive, transitive and total on keys that differ (`BestExists`, `BestIsOne`).
`RankChainTheorem` also shows that the model's walk up the regions, limited to
their number, is never cut short: each step up adds a region. Assumed are finite sets of
importers, of rows in a file and of regions (`ImportersAssumption`,
`ContentsAssumption`, `ParentAssumption`), rows with numbers of their own
(`ContentsAssumption`) and commands that name a file there is (`CommandsAssumption`).

`RowProcessing_proofs` proves, for files of any length and any rows, mappings
and factors:

| theorem | statement |
|---|---|
| `IsolatedTheorem` | `Spec => []BadRowIsolated` |
| `OutliersTheorem` | `Spec => []OutliersAreFew` |
| `AccountedTheorem` | `Spec => []RowsAccountedFor` |

`RowsInv` says that each record is the one made of its row and each calculation
the one made of its record, that each row the parser returned has its record by
the time the loop has passed it (`ReadInv`), and that all of them could be stored
once they are (`StoredInv`). A record can be stored exactly if its row does not
spoil the file (`StorableIs`), which gives `BadRowIsolated` in both directions.
What remains is about data: a finite set of
quantities can be sorted and has its outliers in the upper half (`SortExists`,
`OutliersBound`), and the sum over a set is the sum over its parts in whatever
order it is taken (`SumStep`, `SumOfUnion`), so that scopes add up to the total.
`RowsAssumption` gives a quantity the values `float()` has, `UnitsAssumption` a
bill one of the two columns of the parser, `FactorsAssumption` a factor a whole
rate.

Induction over data rests on one fact of the library, that finite sets are well
founded under inclusion: a non-empty set of them has a minimal one
(`MinimalSet`). From it follow induction over the numbers and over finite
sets, stated for a set instead of a predicate (`NumbersIn`, `SubsetsIn`), and that
the functions `RankChain` and the sums are defined by recursion exist.

Every invariant and action property of the passing runs is a theorem. The
inductive invariants were checked with TLC on small instances as well.
Only model-checked are the six liveness properties (`EveryRequestAnswered`,
`BatchSettles`, `StalenessEnds`, `OutputRecovered`, `CallsEnd`,
`EveryCallSettles`): fairness and ENABLED are out of the prover's reach.
Outside the hypotheses on `Ops` above the statements are false, and the two
runs that expect a violation show two of the ways for recalculations.

## 5. Where code and documents disagree

Shown by a run:

* `recalculate()` can replace the calculation of an APPROVED record
  (`ingestion/views.py:559-608`; the code at 572 and 556-557 says it cannot).
* The newest version can differ from the record (`ingestion/views.py:596`;
  `docs/GOVERNANCE.md:31` and 431-433 say otherwise).

Met while reading, without a run of their own:

* Edits in Django Admin write a version but no audit entry; the model's
  docstring speaks of "capturing all state changes" (`audit/models.py:40`).
* After an account is deleted, `verify_chain` reports its entries as altered.
  `ingestion/tests_user_deletion.py:130-163` records this as known; the comment
  at `audit/services.py:158` reads every failure as tampering.
* `docs/OPERATIONS_RUNBOOK.md:312-314` and `docs/GOVERNANCE.md:75` offer
  `recalculate` for APPROVED records; the code answers 400.
* `carbon/tasks.py:61-64` has it that `calculate_task` never runs unless
  ingestion completed. A redelivered or replayed `ingest_task` that meets a
  terminal batch returns normally and the chain goes on; with a late QUEUED in
  between, a batch ends COMPLETED and CALCULATED with no calculations, until the
  daily backfill. `CalculatedMeansCalculated` is therefore conditioned on single
  delivery.
* The view can write QUEUED over COMPLETED (`ingestion/views.py:190-209`);
  `docs/JOB_LIFECYCLE.md:139` and `ingestion/models.py:60-64` call a terminal
  status final. `SuccessStands` names this step (`LateQueued`), and one more that
  takes success back: a cache that fails once the calculations are committed
  leaves CALCULATION_FAILED (`carbon_service.py:179`, `BumpLost`).
* The sweep mails every batch it had selected, also one it then did not change,
  and a broker that refuses one mail ends its loop;
  `docs/NOTIFICATIONS.md:111-114` has it that only a real transition is mailed,
  129-134 that a broker out of reach cannot make the sweep raise.
* `carbon/services/metrics_cache.py:4-7` and 44-49 call the cache "correct by
  construction" (so does `docs/RELEASE_CERTIFICATION.md:139`). A version key that
  was missing can be set back to 1 after a bump: `FreshWhileWarm` needs `~cold`.
  Submit, approve and reject change `pending_approval` and bump nothing.
* AI: the policy is read before the lock, so a call may go out after AI was
  switched off; a crash after the answer forgets its cost; a call whose policy
  row was deleted while it waited leaves no `AIInteraction`; the handler at
  `ai/services/gateway.py:353-361` cannot be reached; a replay pairs an old
  answer with a new context, labels of candidates included.
* `import_emission_factors --dry-run` creates a missing region while it says
  that nothing is persisted; a repeated import with `--activate` of a version
  that is DRAFT is skipped and stays DRAFT; a dataset without region escapes its
  unique constraint (NULLs are distinct); the window of a SUPERSEDED dataset is
  not consulted, against `docs/CARBON_ENGINE_DESIGN.md:14`, 100 and 132. Admin
  can make two datasets of one key ACTIVE.
* `README.md:41` and `docs/SMOKE_TEST_CHECKLIST.md:50-52`: "one bad row never
  aborts a batch". The rows of a batch share one transaction, and `Spoils` names
  the rows that end it: one on which the parser raises (blank named cells and a
  surplus one, `sap_parser.py:83`, `utility_parser.py:84`; an integer beyond
  `float()`, `travel_parser.py:202`; a byte that is not UTF-8), one with NaN,
  Infinity or NUL in any field, which jsonb refuses (`travel_parser.py:162`), and
  one that passes validation with a quantity of `inf`, `nan` or beyond the column.
  `BadRowIsolated` shows that these do end it and that no other row does.
* `carbon/services/inputs.py:6-12` does not know the headers "posting date",
  "period start" and "material code" of the sample files, so such rows are
  calculated without a date or a key. `VALID_UTILITY_UNITS` is not used. A tiny
  quantity is normalized to 0.
* `frontend/src/services/api.js:35`: "Fail requests after 60s instead of hanging
  forever". The refresh uses axios without the timeout, and what waits for it
  hangs with it (`EveryCallSettles` has the exception). Two tabs that refresh at
  once lose the session, and so does one whose refresh meets a network error; a
  logout during a refresh is undone by its answer; a logout with an expired
  access token leaves the refresh token valid.
* `recalculate()` takes the chain state before the record (by its deferred
  foreign key), a transition the other way round: the two can deadlock, and one
  of them fails. `NoDeadlock` holds in `governance_admin` only because
  nothing recalculates there.

## 6. Not modelled

* Governance: creation of the chain-state row by `get_or_create`; records
  created, or deleted for good, by hand in Django Admin; `backfill --force`,
  whose gap is that of `recalculate()`.
* Pipeline: the eager mode of development; two uploads at once, which share no
  row; the SMTP exchange. That a record deleted before `calculate_task` runs is
  not calculated.
* Gateway: egress redaction, prompts, schemas and providers are the outcomes they
  have (`CallFails`, `RecordInvalid`).
* Factors: scope overrides, gas breakdowns and the formats of publishers' files.
* Rows: how encodings, delimiters and header aliases are detected; a file that is
  not JSON at all counts as one with a single row reported.
* Session: the seven days of a refresh token, and the delay of accepted answers.
* Roles, membership and scoping of querysets: stateless decisions per request,
  which the models take as passed.
* Breakdown, report files, filters and pagination: reads that group the rows
  `RowProcessing` counts in other ways.
* Offline evaluation of AI, vendor adapters, storage backends, health checks,
  settings, migrations and the pages of the frontend: data, I/O and declarations.
  These, with the tests, are most of the repository's lines.

## 7. Plan

Done: all models above, and for each the proof of every safety property that its
runs check.

Left, in this order:

1. A theorem that recalculations preserve the last version when they do not meet
   another writer of their record, the part of `LatestVersionIsRecord` that is
   left once `"recalculate"` is in `Ops`.
2. Lemmas towards the liveness properties: the ranking that each fair step lowers
   in `BatchPipeline` and `AIGateway`.
3. Scope overrides and gas breakdowns of factors, roles and membership.
