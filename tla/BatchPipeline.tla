--------------------------- MODULE BatchPipeline ----------------------------
(***************************************************************************)
(* One upload, from the HTTP request to the mail that reports its outcome: *)
(* the upload view, the chain ingest_task -> calculate_task on at-least-   *)
(* once workers, retries, the dead-letter handler and its manual replay,   *)
(* the stale-batch sweep, the daily backfill and the notifications.        *)
(*                                                                         *)
(* A worker works on the copy of the batch row it read when its attempt    *)
(* began (held).  batch.save() writes that whole copy back; save(          *)
(* update_fields=...) and QuerySet.update() write the named columns only.  *)
(* The file has at least one row.                                          *)
(***************************************************************************)
EXTENDS Integers, FiniteSets

CONSTANTS
    Workers,     \* the worker slots of the Celery pool
    Files,       \* what the uploaded file may be; a subset of AllFiles
    Faults,      \* the kinds of fault that may strike; a subset of AllFaults
    MaxFaults,   \* how many strike at most
    MaxRetries,  \* max_retries of ingest_task and calculate_task
    MaxRedeliveries, \* messages delivered again while a worker has them
    MaxReplays   \* manual replays of dead letters

VARIABLES
    file,     \* the uploaded file: constant after the upload
    batch,    \* ingestion_uploadbatch: the row
    stored,   \* ingestion_emissionrecord: how many records each row of the file has
    calcs,    \* carbon_emissioncalculation: current calculations of each record
    queue,    \* the broker: how many copies of each message it holds
    letters,  \* send_notification_task messages the broker holds
    told,     \* the outcomes mailed
    dead,     \* the tasks with a tasks_failedtasklog row
    view,     \* how far the upload request has come
    worker,   \* what each worker slot is doing
    sweep,    \* how far cleanup_stale_batches_task has come, and with which axis
    backfill, \* backfill_calculations has read the records it will calculate
    faults,   \* faults so far
    redeliveries, \* ... and redeliveries
    replays   \* ... and replays

dataVars   == <<stored, calcs>>
brokerVars == <<queue, letters>>
vars == <<file, batch, stored, calcs, queue, letters, told, dead, view,
          worker, sweep, backfill, faults, redeliveries, replays>>

-----------------------------------------------------------------------------
\* broken: the parser or the insert raises; overflow: co2e does not fit its column.
AllFiles  == {"clean", "partial", "broken", "overflow"}
AllFaults == {"storage", "broker", "database", "cache", "crash", "slow", "mail"}

ASSUME FilesAssumption  == Files \subseteq AllFiles /\ Files # {}
ASSUME FaultsAssumption == Faults \subseteq AllFaults
ASSUME BoundAssumption  == {MaxFaults, MaxRetries, MaxRedeliveries, MaxReplays} \subseteq Nat

\* UploadBatch.BatchStatus without CANCELLED, which nothing sets.
BatchStatus == {"PENDING", "QUEUED", "PROCESSING",
                "COMPLETED", "PARTIALLY_COMPLETED", "FAILED"}
Success  == {"COMPLETED", "PARTIALLY_COMPLETED"}
Terminal == Success \cup {"FAILED"}

CalculationStatus   == {"NOT_STARTED", "CALCULATING", "CALCULATED", "CALCULATION_FAILED"}
CalculationTerminal == {"CALCULATED", "CALCULATION_FAILED"}

\* stale: updated_at, which only a whole-row save renews, is older than the cutoff.
BatchRow == [status : BatchStatus, calc : CalculationStatus, stale : BOOLEAN]

\* chained: calculate_task follows when the task returns.
Messages == [task : {"ingest", "calculate"}, retries : 0..MaxRetries, chained : BOOLEAN]

Message(task, chained) == [task |-> task, retries |-> 0, chained |-> chained]

Idle == [at |-> "idle"]

IngestSteps    == {"opening", "ingesting", "ingested"}
CalculateSteps == {"marking", "calculating", "calculated"}
FailureSteps   == {"failing", "dead", "fixing"}

-----------------------------------------------------------------------------
(***************************************************************************)
(* Helpers                                                                 *)
(***************************************************************************)

\* One more fault of kind k.
Strike(k) == k \in Faults /\ faults < MaxFaults /\ faults' = faults + 1

Put(m)  == [queue EXCEPT ![m] = @ + 1]
Drop(m) == [queue EXCEPT ![m] = @ - 1]

\* Only the worker w changes, besides what an action names itself.
At(w, step) == worker' = [worker EXCEPT ![w].at = step]
Free(w)     == worker' = [worker EXCEPT ![w] = Idle]

\* batch.save() of the copy w holds, with a new status.
SaveWhole(w, status) ==
    batch' = [worker[w].held EXCEPT !.status = status, !.stale = FALSE]

\* save(update_fields=["status", ...]) and .update(status=...)
SetStatus(status) == batch' = [batch EXCEPT !.status = status]
SetCalc(calc)     == batch' = [batch EXCEPT !.calc = calc]

\* A step of a worker that leaves the database alone.
ChangesBrokerOnly ==
    UNCHANGED <<file, batch, stored, calcs, told, dead, view, sweep, backfill, redeliveries, replays>>

\* A step of a worker that writes to the batch, and perhaps to its rows.
ChangesRowOnly ==
    UNCHANGED <<file, queue, letters, told, dead, view, sweep, backfill, faults, redeliveries, replays>>

-----------------------------------------------------------------------------
(***************************************************************************)
(* BaseUploadView.post                                                     *)
(***************************************************************************)

\* Only the view and the batch row change.
ChangesViewOnly ==
    UNCHANGED <<file, stored, calcs, letters, told, dead, worker, sweep, backfill, redeliveries, replays>>

StageFile ==
    /\ view = "staging" /\ view' = "staged"
    /\ ChangesViewOnly /\ UNCHANGED <<batch, queue, faults>>

StageFileFails ==
    /\ view = "staging" /\ view' = "answered"
    /\ Strike("storage")
    /\ SetStatus("FAILED")
    /\ ChangesViewOnly /\ UNCHANGED queue

\* (mutant) group() instead of chain().
DispatchBoth ==
    /\ view = "staged" /\ view' = "sent"
    /\ queue' = [Put(Message("ingest", FALSE)) EXCEPT ![Message("calculate", FALSE)] = @ + 1]
    /\ ChangesViewOnly /\ UNCHANGED <<batch, faults>>

Dispatch ==
    /\ view = "staged" /\ view' = "sent"
    /\ queue' = Put(Message("ingest", TRUE))
    /\ ChangesViewOnly /\ UNCHANGED <<batch, faults>>

\* .delay() raises: 202 is answered all the same and the batch stays PENDING.
DispatchRefused ==
    /\ view = "staged" /\ view' = "answered"
    /\ Strike("broker")
    /\ ChangesViewOnly /\ UNCHANGED <<batch, queue>>

\* refresh_from_db(), and the test that follows it.
ReadBack ==
    /\ view = "sent"
    /\ view' = IF batch.status = "PENDING" THEN "pending" ELSE "answered"
    /\ ChangesViewOnly /\ UNCHANGED <<batch, queue, faults>>

MarkQueued ==
    /\ view = "pending" /\ view' = "answered"
    /\ SetStatus("QUEUED")
    /\ ChangesViewOnly /\ UNCHANGED <<queue, faults>>

\* The API process dies.
ViewCrash ==
    /\ view # "answered" /\ view' = "answered"
    /\ Strike("crash")
    /\ ChangesViewOnly /\ UNCHANGED <<batch, queue>>

-----------------------------------------------------------------------------
(***************************************************************************)
(* ingest_task and IngestionService.ingest_batch                           *)
(***************************************************************************)

\* w takes m from the broker and starts an attempt on the batch as it is now.
Start(w, m, step) ==
    /\ worker[w] = Idle /\ queue[m] > 0
    /\ queue' = Drop(m)
    /\ worker' = [worker EXCEPT ![w] = [at |-> step, msg |-> m, held |-> batch]]
    /\ ChangesBrokerOnly /\ UNCHANGED <<letters, faults>>

\* w takes m, has nothing to do and returns: the chain goes on all the same.
Skip(w, m) ==
    /\ worker[w] = Idle /\ queue[m] > 0
    /\ queue' = IF m.chained
                THEN [Drop(m) EXCEPT ![Message("calculate", FALSE)] = @ + 1]
                ELSE Drop(m)
    /\ ChangesBrokerOnly /\ UNCHANGED <<letters, worker, faults>>

StartIngest(w, m) ==
    /\ m.task = "ingest" /\ batch.status \notin Terminal
    /\ Start(w, m, "opening")

SkipIngest(w, m) ==
    /\ m.task = "ingest" /\ batch.status \in Terminal
    /\ Skip(w, m)

\* storage.open() raises.
OpenFileFails(w) ==
    /\ worker[w].at = "opening"
    /\ Strike("storage")
    /\ At(w, "failing")
    /\ ChangesBrokerOnly /\ UNCHANGED brokerVars

\* The file is read and the batch saved as PROCESSING, unless it was already.
SaveProcessing(w) ==
    /\ worker[w].at = "opening"
    /\ worker' = [worker EXCEPT ![w].at = "ingesting", ![w].held.status = "PROCESSING"]
    /\ IF worker[w].held.status # "PROCESSING" THEN SaveWhole(w, "PROCESSING")
                                              ELSE UNCHANGED batch
    /\ ChangesRowOnly /\ UNCHANGED dataVars

\* (mutant) (batch, row_index) is not unique.
RowsRefusedNever == file = "broken"

\* The parser raises, or the rows meet those of another delivery.
RowsRefused == file = "broken" \/ stored > 0

\* The transaction is rolled back and the batch marked FAILED.
IngestFails(w) ==
    /\ worker[w].at = "ingesting" /\ RowsRefused
    /\ SetStatus("FAILED")
    /\ At(w, "failing")
    /\ ChangesRowOnly /\ UNCHANGED dataVars

\* (mutant) COMPLETED saved in a transaction before the one of the rows.
StoreRowsAfterStatus(w) ==
    /\ worker[w].at = "ingesting" /\ ~RowsRefused
    /\ SaveWhole(w, IF file = "partial" THEN "PARTIALLY_COMPLETED" ELSE "COMPLETED")
    /\ stored' \in {stored, stored + 1}
    /\ At(w, "ingested")
    /\ ChangesRowOnly /\ UNCHANGED calcs

\* Records, their first versions and the outcome of the batch, in one commit.
StoreRows(w) ==
    /\ worker[w].at = "ingesting" /\ ~RowsRefused
    /\ stored' = stored + 1
    /\ SaveWhole(w, IF file = "partial" THEN "PARTIALLY_COMPLETED" ELSE "COMPLETED")
    /\ At(w, "ingested")
    /\ ChangesRowOnly /\ UNCHANGED calcs

\* The AI tasks are dispatched, the task returns, the chain goes on.
FinishIngest(w) ==
    /\ worker[w].at = "ingested"
    /\ Free(w)
    /\ queue' = IF worker[w].msg.chained THEN Put(Message("calculate", FALSE)) ELSE queue
    /\ ChangesBrokerOnly /\ UNCHANGED <<letters, faults>>

\* The broker refuses an AI task: the task fails after its commit.
AIDispatchRefused(w) ==
    /\ worker[w].at = "ingested"
    /\ Strike("broker")
    /\ At(w, "failing")
    /\ ChangesBrokerOnly /\ UNCHANGED brokerVars

-----------------------------------------------------------------------------
(***************************************************************************)
(* calculate_task and CarbonCalculationService.calculate_for_batch         *)
(***************************************************************************)

StartCalculate(w, m) ==
    /\ m.task = "calculate" /\ batch.calc \notin CalculationTerminal
    /\ Start(w, m, "marking")

SkipCalculate(w, m) ==
    /\ m.task = "calculate" /\ batch.calc \in CalculationTerminal
    /\ Skip(w, m)

MarkCalculating(w) ==
    /\ worker[w].at = "marking"
    /\ SetCalc("CALCULATING")
    /\ At(w, "calculating")
    /\ ChangesRowOnly /\ UNCHANGED dataVars

\* bulk_create() raises: a value does not fit, or a record has its calculation.
CalculationsRefused == stored > 0 /\ (file = "overflow" \/ calcs > 0)

CalculationFails(w) ==
    /\ worker[w].at = "calculating" /\ CalculationsRefused
    /\ SetCalc("CALCULATION_FAILED")
    /\ At(w, "failing")
    /\ ChangesRowOnly /\ UNCHANGED dataVars

\* Whatever records there are get their calculations.
StoreCalculations(w) ==
    /\ worker[w].at = "calculating" /\ ~CalculationsRefused
    /\ calcs' = IF stored > 0 THEN calcs + 1 ELSE calcs
    /\ SetCalc("CALCULATED")
    /\ At(w, "calculated")
    /\ ChangesRowOnly /\ UNCHANGED stored

\* bump_calc_version() runs once the calculations are committed, and raises: the
\* handler of calculate_for_batch() marks the batch failed, calculations or not.
BumpFails(w) ==
    /\ worker[w].at = "calculated" /\ stored > 0
    /\ Strike("cache")
    /\ SetCalc("CALCULATION_FAILED")
    /\ At(w, "failing")
    /\ UNCHANGED <<file, stored, calcs, queue, letters, told, dead, view, sweep,
                   backfill, redeliveries, replays>>

FinishCalculation(w) ==
    /\ worker[w].at = "calculated"
    /\ Free(w)
    /\ letters' = letters + 1
    /\ ChangesBrokerOnly /\ UNCHANGED <<queue, faults>>

\* The broker refuses the mail, or takes it and refuses the AI task.
CalculationDispatchRefused(w) ==
    /\ worker[w].at = "calculated"
    /\ Strike("broker")
    /\ letters' \in {letters, letters + 1}
    /\ At(w, "failing")
    /\ ChangesBrokerOnly /\ UNCHANGED queue

-----------------------------------------------------------------------------
(***************************************************************************)
(* Failed attempts: retry, dead letter, lost worker                        *)
(***************************************************************************)

\* OperationalError, InterfaceError: rolled back, nothing marked, retried while
\* attempts remain.
TransientFailure(w) ==
    /\ worker[w].at \in {"opening", "ingesting", "marking", "calculating"}
    /\ Strike("database")
    /\ IF worker[w].msg.retries < MaxRetries
       THEN queue' = Put([worker[w].msg EXCEPT !.retries = @ + 1]) /\ Free(w)
       ELSE At(w, "dead") /\ UNCHANGED queue
    /\ ChangesBrokerOnly /\ UNCHANGED letters

\* except Exception: dispatch the mail, re-raise.  The chain stops here.
RaiseFailure(w) ==
    /\ worker[w].at = "failing"
    /\ At(w, "dead")
    /\ \/ letters' = letters + 1 /\ UNCHANGED faults
       \/ Strike("broker") /\ UNCHANGED letters
    /\ ChangesBrokerOnly /\ UNCHANGED queue

\* _handle_permanently_failed_task: first the FailedTaskLog row.
LogDeadLetter(w) ==
    /\ worker[w].at = "dead"
    /\ At(w, "fixing")
    /\ \/ dead' = dead \cup {worker[w].msg.task} /\ UNCHANGED faults
       \/ Strike("database") /\ UNCHANGED dead
    /\ UNCHANGED <<file, batch, stored, calcs, queue, letters, told, view, sweep,
                   backfill, redeliveries, replays>>

\* The batch is still open on the axis of this task.
Unsettled(axis) == IF axis = "ingest" THEN batch.status \notin Terminal
                                      ELSE batch.calc \notin CalculationTerminal

SettleAsFailed(axis) == IF axis = "ingest" THEN SetStatus("FAILED")
                                           ELSE SetCalc("CALCULATION_FAILED")

\* ... then the conditional UPDATE, and a mail if it found anything to settle.
FixStatus(w) ==
    /\ worker[w].at = "fixing"
    /\ Free(w)
    /\ \/ /\ Unsettled(worker[w].msg.task)
          /\ SettleAsFailed(worker[w].msg.task)
          /\ \/ letters' = letters + 1 /\ UNCHANGED faults
             \/ Strike("broker") /\ UNCHANGED letters
       \/ ~Unsettled(worker[w].msg.task) /\ UNCHANGED <<batch, letters, faults>>
       \/ Strike("database") /\ UNCHANGED <<batch, letters>>
    /\ UNCHANGED <<file, stored, calcs, queue, told, dead, view, sweep, backfill, redeliveries, replays>>

\* The machine dies: acks_late, so the broker delivers the message again.
LoseWorker(w) ==
    /\ worker[w] # Idle
    /\ Strike("crash")
    /\ Free(w)
    /\ queue' = Put(worker[w].msg)
    /\ ChangesBrokerOnly /\ UNCHANGED letters

\* Only the pool process dies: its parent acknowledges the message and sends
\* task_failure in its place (task_reject_on_worker_lost is not set).
LoseProcess(w) ==
    /\ worker[w] # Idle /\ worker[w].at \notin {"dead", "fixing"}
    /\ Strike("crash")
    /\ At(w, "dead")
    /\ ChangesBrokerOnly /\ UNCHANGED brokerVars

\* The broker delivers a message again while w still works on it.
Redeliver(w) ==
    /\ worker[w] # Idle /\ redeliveries < MaxRedeliveries
    /\ redeliveries' = redeliveries + 1
    /\ queue' = Put(worker[w].msg)
    /\ UNCHANGED <<file, batch, stored, calcs, letters, told, dead, view, worker,
                   sweep, backfill, faults, replays>>

-----------------------------------------------------------------------------
(***************************************************************************)
(* Dead letters, sweep, backfill, mail                                     *)
(***************************************************************************)

\* replay_failed_task --replay, with or without --delete-on-replay.
Replay(task) ==
    /\ task \in dead /\ replays < MaxReplays
    /\ replays' = replays + 1
    /\ queue' = Put(Message(task, FALSE))
    /\ dead' \in {dead, dead \ {task}}
    /\ UNCHANGED <<file, batch, stored, calcs, letters, told, view, worker, sweep,
                   backfill, faults, redeliveries>>

\* cleanup_old_failed_task_logs_task, 90 days later.
PurgeDeadLetters ==
    /\ dead # {} /\ dead' = {}
    /\ UNCHANGED <<file, batch, stored, calcs, queue, letters, told, view, worker,
                   sweep, backfill, faults, redeliveries, replays>>

\* An attempt, a request or a sweep is between two of its steps.
InFlight == view # "answered" \/ sweep # "idle" \/ \E w \in Workers : worker[w] # Idle

\* STALE_BATCH_THRESHOLD_MINUTES pass; in the middle of something if "slow".
TimePasses ==
    /\ ~batch.stale /\ ("slow" \in Faults \/ ~InFlight)
    /\ batch' = [batch EXCEPT !.stale = TRUE]
    /\ UNCHANGED <<file, stored, calcs, queue, letters, told, dead, view, worker,
                   sweep, backfill, faults, redeliveries, replays>>

ChangesSweepOnly ==
    UNCHANGED <<file, stored, calcs, queue, told, dead, view, worker, backfill, redeliveries, replays>>

\* (mutant) Only the ingestion axis is swept.
SweepSelectsIngestion(axis) == axis = "ingest" /\ batch.stale /\ Unsettled(axis)

\* The two queries of the sweep.
SweepSelects(axis) ==
    /\ batch.stale
    /\ axis = "calculate" => batch.status \in Success
    /\ Unsettled(axis)

\* cleanup_stale_batches_task collects the ids ...
SweepSelect(axis) ==
    /\ sweep = "idle" /\ SweepSelects(axis)
    /\ sweep' = axis
    /\ ChangesSweepOnly /\ UNCHANGED <<batch, letters, faults>>

\* (mutant) The ids collected are updated without a second look.
SweepUpdateByIds(axis) ==
    /\ sweep = axis
    /\ sweep' = "notify"
    /\ SettleAsFailed(axis)
    /\ ChangesSweepOnly /\ UNCHANGED <<letters, faults>>

\* ... updates those still unsettled ...
SweepUpdate(axis) ==
    /\ sweep = axis
    /\ sweep' = "notify"
    /\ IF Unsettled(axis) THEN SettleAsFailed(axis) ELSE UNCHANGED batch
    /\ ChangesSweepOnly /\ UNCHANGED <<letters, faults>>

\* ... and dispatches a mail for every id collected, until the broker refuses one.
SweepNotify ==
    /\ sweep = "notify" /\ sweep' = "idle"
    /\ \/ letters' = letters + 1 /\ UNCHANGED faults
       \/ Strike("broker") /\ UNCHANGED letters
    /\ ChangesSweepOnly /\ UNCHANGED batch

SweepCrash ==
    /\ sweep # "idle" /\ sweep' = "idle"
    /\ Strike("crash")
    /\ ChangesSweepOnly /\ UNCHANGED <<batch, letters>>

ChangesBackfillOnly ==
    UNCHANGED <<file, batch, stored, queue, letters, told, dead, view, worker, sweep,
                faults, redeliveries, replays>>

\* recalculate_missing_calculations_task reads the records without a calculation ...
BackfillRead ==
    /\ ~backfill /\ stored > 0 /\ calcs = 0
    /\ backfill' = TRUE
    /\ ChangesBackfillOnly /\ UNCHANGED calcs

\* ... and inserts one for each, or fails as a whole.
BackfillInsert ==
    /\ backfill /\ backfill' = FALSE
    /\ calcs' = IF CalculationsRefused THEN calcs ELSE calcs + 1
    /\ ChangesBackfillOnly

\* (mutant) A mail about a batch that is still being processed.
OutcomePremature ==
    CASE batch.status = "FAILED" -> {"failed"}
      [] batch.status \in Success /\ batch.calc = "CALCULATED" -> {"processed"}
      [] batch.status \in Success /\ batch.calc = "CALCULATION_FAILED" -> {"calculation_failed"}
      [] OTHER -> {"processing"}

\* _compose_message: what a mail sent now would report, if anything.
Outcome ==
    CASE batch.status = "FAILED" -> {"failed"}
      [] batch.status \in Success /\ batch.calc = "CALCULATED" -> {"processed"}
      [] batch.status \in Success /\ batch.calc = "CALCULATION_FAILED" -> {"calculation_failed"}
      [] OTHER -> {}

\* send_notification_task; the retries of a failing mail server are used up by
\* one fault, and a crash after the mail left sends it twice.
SendMail ==
    /\ letters > 0
    /\ \/ letters' = letters - 1 /\ told' = told \cup Outcome /\ UNCHANGED faults
       \/ letters' = letters - 1 /\ Strike("mail") /\ UNCHANGED told
       \/ told' = told \cup Outcome /\ Strike("crash") /\ UNCHANGED letters
    /\ UNCHANGED <<file, batch, stored, calcs, queue, dead, view, worker, sweep,
                   backfill, redeliveries, replays>>

-----------------------------------------------------------------------------
Init ==
    /\ file \in Files
    /\ batch = [status |-> "PENDING", calc |-> "NOT_STARTED", stale |-> FALSE]
    /\ stored = 0 /\ calcs = 0
    /\ queue = [m \in Messages |-> 0] /\ letters = 0
    /\ told = {} /\ dead = {}
    /\ view = "staging"
    /\ worker = [w \in Workers |-> Idle]
    /\ sweep = "idle" /\ backfill = FALSE
    /\ faults = 0 /\ redeliveries = 0 /\ replays = 0

Upload ==
    \/ StageFile \/ StageFileFails
    \/ Dispatch \/ DispatchRefused
    \/ ReadBack \/ MarkQueued \/ ViewCrash

Ingest(w) ==
    \/ \E m \in Messages : StartIngest(w, m) \/ SkipIngest(w, m)
    \/ OpenFileFails(w) \/ SaveProcessing(w)
    \/ IngestFails(w) \/ StoreRows(w)
    \/ FinishIngest(w) \/ AIDispatchRefused(w)

Calculate(w) ==
    \/ \E m \in Messages : StartCalculate(w, m) \/ SkipCalculate(w, m)
    \/ MarkCalculating(w)
    \/ CalculationFails(w) \/ StoreCalculations(w)
    \/ BumpFails(w) \/ FinishCalculation(w) \/ CalculationDispatchRefused(w)

Fail(w) ==
    \/ TransientFailure(w) \/ RaiseFailure(w)
    \/ LogDeadLetter(w) \/ FixStatus(w)
    \/ LoseWorker(w) \/ LoseProcess(w) \/ Redeliver(w)

Operate ==
    \/ \E task \in {"ingest", "calculate"} : Replay(task)
    \/ PurgeDeadLetters \/ TimePasses
    \/ BackfillRead \/ BackfillInsert
    \/ SendMail

Sweep ==
    \/ \E axis \in {"ingest", "calculate"} : SweepSelect(axis) \/ SweepUpdate(axis)
    \/ SweepNotify \/ SweepCrash

Work(w) == Ingest(w) \/ Calculate(w) \/ Fail(w)

Next == Upload \/ (\E w \in Workers : Work(w)) \/ Operate \/ Sweep

Spec == Init /\ [][Next]_vars

\* The request is served, workers take messages and finish attempts, Beat keeps
\* sweeping, time passes and mail is delivered; nobody is bound to replay.
Fairness ==
    /\ WF_vars(Upload)
    /\ \A w \in Workers : WF_vars(Work(w))
    /\ WF_vars(Sweep) /\ WF_vars(TimePasses) /\ WF_vars(SendMail)

FairSpec == Spec /\ Fairness

-----------------------------------------------------------------------------
(***************************************************************************)
(* Properties                                                              *)
(***************************************************************************)

\* What a busy worker is doing: held is the row its attempt read.
Attempt == [at : IngestSteps \cup CalculateSteps \cup FailureSteps,
            msg : Messages, held : BatchRow]

TypeOK ==
    /\ file \in Files /\ batch \in BatchRow
    /\ stored \in Nat /\ calcs \in Nat
    /\ queue \in [Messages -> Nat] /\ letters \in Nat
    /\ told \subseteq {"failed", "processed", "calculation_failed"}
    /\ dead \subseteq {"ingest", "calculate"}
    /\ view \in {"staging", "staged", "sent", "pending", "answered"}
    /\ worker \in [Workers -> {Idle} \cup Attempt]
    /\ sweep \in {"idle", "ingest", "calculate", "notify"} /\ backfill \in BOOLEAN
    /\ faults \in 0..MaxFaults
    /\ redeliveries \in 0..MaxRedeliveries /\ replays \in 0..MaxReplays

\* A batch that reports success has its rows in the database, whatever crash,
\* sweep, stale save or redelivery came between them: ingest_batch() commits
\* the two together and nothing else writes COMPLETED.
SuccessHasRows == batch.status \in Success => stored > 0

\* The broker has delivered the task of each message at one place at a time.
DeliveredOnce == redeliveries = 0 /\ replays = 0

\* While no task runs twice at a time, a batch that reads COMPLETED and
\* CALCULATED has the calculations it claims and so has one reported as
\* processed: no sweep, crash or late QUEUED makes calculate_task run before
\* the rows it is for.
CalculatedMeansCalculated ==
    DeliveredOnce =>
        /\ batch.status \in Success /\ batch.calc = "CALCULATED" => calcs = 1
        /\ "processed" \in told => calcs = 1

\* The view goes on with a PENDING it read before the worker began.
LateQueued == view = "pending" /\ batch'.status = "QUEUED"

\* The cache refuses the new version once the calculations are committed.
BumpLost == "cache" \in Faults /\ faults' = faults + 1 /\ \E w \in Workers : worker[w].at = "calculated"

\* Success is not taken back: while no task runs twice at a time, neither the sweep
\* that selected the batch before it finished, nor the dead-letter handler of an
\* attempt that failed after its commit, nor a retry or a stale whole-row save
\* undoes what an axis has come to.  Two steps of the code do: the late QUEUED of
\* the upload view, and a cache that fails once the calculations are committed.
SuccessStands ==
    [][DeliveredOnce =>
         /\ batch.status \in Success  => batch'.status \in Success \/ LateQueued
         /\ batch.calc = "CALCULATED" => batch'.calc = "CALCULATED" \/ BumpLost]_vars

\* The rows are stored once, calculated once, and no mail claims rows that are
\* not there, however the tasks are interrupted, repeated and reordered.
Promise == INSTANCE BatchPromise WITH calculated <- calcs
PromiseKept == Promise!PSpec

\* Every upload ends: whatever was lost, refused or swept, the batch comes to a
\* final status, on the calculation axis too if its ingestion succeeded.
Settled ==
    /\ batch.status \in Terminal
    /\ batch.status \in Success => batch.calc \in CalculationTerminal
BatchSettles == <>[]Settled
=============================================================================
