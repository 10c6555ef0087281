------------------------ MODULE BatchPipeline_proofs -------------------------
(***************************************************************************)
(* Theorems about BatchPipeline, for any number of workers, faults,        *)
(* retries, redeliveries and replays.                                      *)
(***************************************************************************)
EXTENDS BatchPipeline, TLAPS

-----------------------------------------------------------------------------
(***************************************************************************)
(* Types                                                                   *)
(***************************************************************************)

Jobs == {Idle} \cup Attempt

\* A worker that has come to a step is busy with an attempt.
LEMMA BusyWorker ==
    ASSUME worker \in [Workers -> Jobs], NEW w \in Workers,
           \/ worker[w] # Idle
           \/ worker[w].at # "idle"
    PROVE  worker[w] \in Attempt
BY DEF Jobs, Idle

\* Moving on leaves message and copy as they are.
LEMMA AtType ==
    ASSUME worker \in [Workers -> Jobs], NEW w \in Workers, worker[w] \in Attempt,
           NEW step \in IngestSteps \cup CalculateSteps \cup FailureSteps, At(w, step)
    PROVE  worker' \in [Workers -> Jobs]
BY DEF At, Attempt, Jobs

LEMMA FreeType ==
    ASSUME worker \in [Workers -> Jobs], NEW w \in Workers, Free(w)
    PROVE  worker' \in [Workers -> Jobs]
BY DEF Free, Jobs

\* One more copy of a message.
LEMMA AddType ==
    ASSUME NEW q \in [Messages -> Nat], NEW m \in Messages
    PROVE  [q EXCEPT ![m] = @ + 1] \in [Messages -> Nat]
OBVIOUS

LEMMA PutType ==
    ASSUME queue \in [Messages -> Nat], NEW m \in Messages
    PROVE  Put(m) \in [Messages -> Nat]
BY DEF Put

LEMMA DropType ==
    ASSUME queue \in [Messages -> Nat], NEW m \in Messages, queue[m] > 0
    PROVE  Drop(m) \in [Messages -> Nat]
BY DEF Drop

LEMMA MessageType ==
    ASSUME NEW task \in {"ingest", "calculate"}, NEW chained \in BOOLEAN
    PROVE  Message(task, chained) \in Messages
BY BoundAssumption DEF Message, Messages

LEMMA StrikeType ==
    ASSUME faults \in 0..MaxFaults, NEW k, Strike(k)
    PROVE  faults' \in 0..MaxFaults
BY BoundAssumption DEF Strike

LEMMA UploadType ==
    ASSUME TypeOK, Upload
    PROVE  TypeOK'
<1> USE DEF TypeOK, BatchRow, ChangesViewOnly
<1>1. CASE StageFile
  BY <1>1 DEF StageFile
<1>2. CASE StageFileFails
  BY <1>2, StrikeType DEF StageFileFails, SetStatus, BatchStatus
<1>3. CASE Dispatch
  BY <1>3, MessageType, PutType DEF Dispatch
<1>4. CASE DispatchRefused
  BY <1>4, StrikeType DEF DispatchRefused
<1>5. CASE ReadBack
  BY <1>5 DEF ReadBack
<1>6. CASE MarkQueued
  BY <1>6 DEF MarkQueued, SetStatus, BatchStatus
<1>7. CASE ViewCrash
  BY <1>7, StrikeType DEF ViewCrash
<1> QED
  BY <1>1, <1>2, <1>3, <1>4, <1>5, <1>6, <1>7 DEF Upload

LEMMA StartType ==
    ASSUME TypeOK, NEW w \in Workers, NEW m \in Messages,
           NEW step \in IngestSteps \cup CalculateSteps, Start(w, m, step)
    PROVE  TypeOK'
<1>1. queue' \in [Messages -> Nat]
  BY DropType DEF TypeOK, Start
<1>2. worker' \in [Workers -> {Idle} \cup Attempt]
  BY DEF TypeOK, Start, Attempt
<1> QED
  BY <1>1, <1>2 DEF TypeOK, Start, ChangesBrokerOnly

LEMMA SkipType ==
    ASSUME TypeOK, NEW w \in Workers, NEW m \in Messages, Skip(w, m)
    PROVE  TypeOK'
<1>1. Message("calculate", FALSE) \in Messages
  BY MessageType
<1>2. queue[m] > 0 /\ queue \in [Messages -> Nat]
  BY DEF TypeOK, Skip
<1>3. Drop(m) \in [Messages -> Nat]
  BY <1>2, DropType
<1>4. queue' \in [Messages -> Nat]
  BY <1>1, <1>3, AddType, Zenon DEF Skip
<1>5. ChangesBrokerOnly /\ UNCHANGED <<letters, worker, faults>>
  BY DEF Skip
<1> QED
  BY <1>4, <1>5 DEF TypeOK, ChangesBrokerOnly

LEMMA IngestType ==
    ASSUME TypeOK, NEW w \in Workers, Ingest(w)
    PROVE  TypeOK'
<1> USE DEF TypeOK, Jobs
<1>1. ASSUME NEW m \in Messages, StartIngest(w, m) PROVE TypeOK'
  BY <1>1, StartType DEF StartIngest, IngestSteps
<1>2. ASSUME NEW m \in Messages, SkipIngest(w, m) PROVE TypeOK'
  BY <1>2, SkipType DEF SkipIngest
<1>3. CASE OpenFileFails(w)
  BY <1>3, AtType, BusyWorker, StrikeType DEF OpenFileFails, ChangesBrokerOnly, brokerVars, FailureSteps
<1>4. CASE SaveProcessing(w)
  <2>1. worker[w] \in Attempt
    BY <1>4, BusyWorker DEF SaveProcessing
  <2>2. worker' \in [Workers -> {Idle} \cup Attempt]
    BY <1>4, <2>1 DEF SaveProcessing, Attempt, IngestSteps, BatchRow, BatchStatus
  <2>3. batch' \in BatchRow
    BY <1>4, <2>1 DEF SaveProcessing, SaveWhole, Attempt, BatchRow, BatchStatus
  <2> QED
    BY <1>4, <2>2, <2>3 DEF SaveProcessing, ChangesRowOnly, dataVars
<1>5. CASE IngestFails(w)
  <2>1. batch' \in BatchRow
    BY <1>5 DEF IngestFails, SetStatus, BatchRow, BatchStatus
  <2> QED
    BY <1>5, <2>1, AtType, BusyWorker DEF IngestFails, ChangesRowOnly, dataVars, FailureSteps
<1>6. CASE StoreRows(w)
  <2>1. worker[w] \in Attempt
    BY <1>6, BusyWorker DEF StoreRows
  <2>2. batch' \in BatchRow
    BY <1>6, <2>1 DEF StoreRows, SaveWhole, Attempt, BatchRow, BatchStatus
  <2> QED
    BY <1>6, <2>1, <2>2, AtType DEF StoreRows, ChangesRowOnly, IngestSteps
<1>7. CASE FinishIngest(w)
  BY <1>7, FreeType, PutType, MessageType DEF FinishIngest, ChangesBrokerOnly
<1>8. CASE AIDispatchRefused(w)
  BY <1>8, AtType, BusyWorker, StrikeType
     DEF AIDispatchRefused, ChangesBrokerOnly, brokerVars, FailureSteps
<1> QED
  BY <1>1, <1>2, <1>3, <1>4, <1>5, <1>6, <1>7, <1>8 DEF Ingest

LEMMA SetCalcType ==
    ASSUME batch \in BatchRow, NEW c \in CalculationStatus, SetCalc(c)
    PROVE  batch' \in BatchRow
BY DEF SetCalc, BatchRow

LEMMA SettleType ==
    ASSUME batch \in BatchRow, NEW axis, SettleAsFailed(axis)
    PROVE  batch' \in BatchRow
BY DEF SettleAsFailed, SetStatus, SetCalc, BatchRow, BatchStatus, CalculationStatus

LEMMA CalculateType ==
    ASSUME TypeOK, NEW w \in Workers, Calculate(w)
    PROVE  TypeOK'
<1> USE DEF TypeOK, Jobs
<1>1. ASSUME NEW m \in Messages, StartCalculate(w, m) PROVE TypeOK'
  BY <1>1, StartType DEF StartCalculate, CalculateSteps
<1>2. ASSUME NEW m \in Messages, SkipCalculate(w, m) PROVE TypeOK'
  BY <1>2, SkipType DEF SkipCalculate
<1>3. CASE MarkCalculating(w)
  BY <1>3, AtType, BusyWorker, SetCalcType
     DEF MarkCalculating, ChangesRowOnly, dataVars, CalculateSteps, CalculationStatus
<1>4. CASE CalculationFails(w)
  BY <1>4, AtType, BusyWorker, SetCalcType
     DEF CalculationFails, ChangesRowOnly, dataVars, FailureSteps, CalculationStatus
<1>5. CASE StoreCalculations(w)
  BY <1>5, AtType, BusyWorker, SetCalcType
     DEF StoreCalculations, ChangesRowOnly, CalculateSteps, CalculationStatus
<1>6. CASE BumpFails(w)
  BY <1>6, AtType, BusyWorker, SetCalcType, StrikeType
     DEF BumpFails, FailureSteps, CalculationStatus
<1>7. CASE FinishCalculation(w)
  BY <1>7, FreeType DEF FinishCalculation, ChangesBrokerOnly
<1>8. CASE CalculationDispatchRefused(w)
  BY <1>8, AtType, BusyWorker, StrikeType
     DEF CalculationDispatchRefused, ChangesBrokerOnly, FailureSteps
<1> QED
  BY <1>1, <1>2, <1>3, <1>4, <1>5, <1>6, <1>7, <1>8 DEF Calculate

LEMMA FailType ==
    ASSUME TypeOK, NEW w \in Workers, Fail(w)
    PROVE  TypeOK'
<1> USE DEF TypeOK, Jobs
<1>1. CASE TransientFailure(w)
  <2>1. worker[w] \in Attempt /\ worker[w].msg \in Messages
    BY <1>1, BusyWorker DEF TransientFailure, Attempt
  <2>2. worker' \in [Workers -> Jobs]
    BY <1>1, <2>1, FreeType, AtType DEF TransientFailure, FailureSteps
  <2>3. ASSUME worker[w].msg.retries < MaxRetries
        PROVE  [worker[w].msg EXCEPT !.retries = @ + 1] \in Messages
    BY <2>1, <2>3, BoundAssumption DEF Messages
  <2>4. queue' \in [Messages -> Nat]
    BY <1>1, <2>3, PutType DEF TransientFailure
  <2> QED
    BY <1>1, <2>2, <2>4, StrikeType DEF TransientFailure, ChangesBrokerOnly
<1>2. CASE RaiseFailure(w)
  BY <1>2, AtType, BusyWorker, StrikeType DEF RaiseFailure, ChangesBrokerOnly, FailureSteps
<1>3. CASE LogDeadLetter(w)
  <2>1. worker[w] \in Attempt
    BY <1>3, BusyWorker DEF LogDeadLetter
  <2>2. dead' \subseteq {"ingest", "calculate"}
    BY <1>3, <2>1 DEF LogDeadLetter, Attempt, Messages
  <2> QED
    BY <1>3, <2>1, <2>2, AtType, StrikeType DEF LogDeadLetter, FailureSteps
<1>4. CASE FixStatus(w)
  <2>1. batch' \in BatchRow
    BY <1>4, SettleType DEF FixStatus
  <2>2. faults' \in 0..MaxFaults /\ letters' \in Nat
    BY <1>4, StrikeType DEF FixStatus
  <2> QED
    BY <1>4, <2>1, <2>2, FreeType DEF FixStatus
<1>5. CASE LoseWorker(w)
  <2>1. worker[w].msg \in Messages
    BY <1>5, BusyWorker DEF LoseWorker, Attempt
  <2> QED
    BY <1>5, <2>1, FreeType, PutType, StrikeType DEF LoseWorker, ChangesBrokerOnly
<1>6. CASE LoseProcess(w)
  BY <1>6, AtType, BusyWorker, StrikeType
     DEF LoseProcess, ChangesBrokerOnly, brokerVars, FailureSteps
<1>7. CASE Redeliver(w)
  <2>1. worker[w].msg \in Messages
    BY <1>7, BusyWorker DEF Redeliver, Attempt
  <2> QED
    BY <1>7, <2>1, PutType, BoundAssumption DEF Redeliver
<1> QED
  BY <1>1, <1>2, <1>3, <1>4, <1>5, <1>6, <1>7 DEF Fail

LEMMA OperateType ==
    ASSUME TypeOK, Operate
    PROVE  TypeOK'
<1> USE DEF TypeOK
<1>1. ASSUME NEW task \in {"ingest", "calculate"}, Replay(task) PROVE TypeOK'
  <2>1. queue' \in [Messages -> Nat]
    BY <1>1, PutType, MessageType DEF Replay
  <2>2. dead' \subseteq {"ingest", "calculate"}
    BY <1>1 DEF Replay
  <2>3. replays' \in 0..MaxReplays
    BY <1>1, BoundAssumption DEF Replay
  <2> QED
    BY <1>1, <2>1, <2>2, <2>3 DEF Replay
<1>2. CASE PurgeDeadLetters
  BY <1>2 DEF PurgeDeadLetters
<1>3. CASE TimePasses
  BY <1>3 DEF TimePasses, BatchRow
<1>4. CASE BackfillRead
  BY <1>4 DEF BackfillRead, ChangesBackfillOnly
<1>5. CASE BackfillInsert
  <2>1. calcs' \in Nat
    BY <1>5 DEF BackfillInsert, CalculationsRefused
  <2> QED
    BY <1>5, <2>1 DEF BackfillInsert, ChangesBackfillOnly
<1>6. CASE SendMail
  <2>1. Outcome \subseteq {"failed", "processed", "calculation_failed"}
    BY DEF Outcome
  <2>2. told' \subseteq {"failed", "processed", "calculation_failed"}
    BY <1>6, <2>1 DEF SendMail
  <2>3. letters' \in Nat /\ faults' \in 0..MaxFaults
    BY <1>6, StrikeType DEF SendMail
  <2> QED
    BY <1>6, <2>2, <2>3 DEF SendMail
<1> QED
  BY <1>1, <1>2, <1>3, <1>4, <1>5, <1>6 DEF Operate

LEMMA SweepType ==
    ASSUME TypeOK, Sweep
    PROVE  TypeOK'
<1> USE DEF TypeOK, ChangesSweepOnly
<1>1. ASSUME NEW axis \in {"ingest", "calculate"}, SweepSelect(axis) PROVE TypeOK'
  BY <1>1 DEF SweepSelect
<1>2. ASSUME NEW axis \in {"ingest", "calculate"}, SweepUpdate(axis) PROVE TypeOK'
  BY <1>2, SettleType DEF SweepUpdate
<1>3. CASE SweepNotify
  BY <1>3, StrikeType DEF SweepNotify
<1>4. CASE SweepCrash
  BY <1>4, StrikeType DEF SweepCrash
<1> QED
  BY <1>1, <1>2, <1>3, <1>4 DEF Sweep

LEMMA InitType == Init => TypeOK
<1> SUFFICES ASSUME Init PROVE TypeOK
  OBVIOUS
<1>1. batch \in BatchRow
  BY DEF Init, BatchRow, BatchStatus, CalculationStatus
<1>2. queue \in [Messages -> Nat] /\ worker \in [Workers -> {Idle} \cup Attempt]
  BY DEF Init
<1>3. 0 \in 0..MaxFaults /\ 0 \in 0..MaxRedeliveries /\ 0 \in 0..MaxReplays
  BY BoundAssumption
<1> QED
  BY <1>1, <1>2, <1>3 DEF Init, TypeOK

LEMMA NextType == TypeOK /\ [Next]_vars => TypeOK'
<1> SUFFICES ASSUME TypeOK, [Next]_vars PROVE TypeOK'
  OBVIOUS
<1>1. CASE UNCHANGED vars
  BY <1>1 DEF vars, TypeOK
<1>2. CASE Upload
  BY <1>2, UploadType
<1>3. ASSUME NEW w \in Workers, Work(w) PROVE TypeOK'
  BY <1>3, IngestType, CalculateType, FailType DEF Work
<1>4. CASE Operate
  BY <1>4, OperateType
<1>5. CASE Sweep
  BY <1>5, SweepType
<1> QED
  BY <1>1, <1>2, <1>3, <1>4, <1>5 DEF Next

\* Broker, workers and tables keep their shape whatever is lost or repeated: no
\* message is taken that is not there, no attempt works without a copy of the row.
THEOREM TypeCorrect == Spec => []TypeOK
<1> QED
  BY InitType, NextType, PTL DEF Spec

-----------------------------------------------------------------------------
(***************************************************************************)
(* What is stored, calculated and told                                     *)
(***************************************************************************)

\* A step that leaves records, calculations and mails alone, and does not make
\* the batch a success.
DataStays ==
    /\ UNCHANGED <<stored, calcs, told, backfill>>
    /\ batch'.status \in Success => batch.status \in Success

LEMMA FailedIsNoSuccess ==
    ASSUME batch \in BatchRow, NEW axis, SettleAsFailed(axis)
    PROVE  batch'.status \in Success => batch.status \in Success
BY DEF SettleAsFailed, SetStatus, SetCalc, BatchRow, Success

LEMMA UploadStays ==
    ASSUME TypeOK, Upload
    PROVE  DataStays
<1>1. UNCHANGED <<stored, calcs, told, backfill>>
  BY DEF Upload, StageFile, StageFileFails, Dispatch, DispatchRefused, ReadBack, MarkQueued,
         ViewCrash, ChangesViewOnly
<1>2. \/ batch' = batch
      \/ SetStatus("FAILED")
      \/ SetStatus("QUEUED")
  BY DEF Upload, StageFile, StageFileFails, Dispatch, DispatchRefused, ReadBack, MarkQueued,
         ViewCrash
<1> QED
  BY <1>1, <1>2 DEF DataStays, SetStatus, TypeOK, BatchRow, Success

LEMMA IngestStays ==
    ASSUME TypeOK, NEW w \in Workers, Ingest(w)
    PROVE  DataStays \/ StoreRows(w)
<1> USE DEF DataStays
<1>1. ASSUME NEW m \in Messages, StartIngest(w, m) \/ SkipIngest(w, m)
      PROVE  DataStays
  BY <1>1 DEF StartIngest, SkipIngest, Start, Skip, ChangesBrokerOnly
<1>2. CASE OpenFileFails(w) \/ FinishIngest(w) \/ AIDispatchRefused(w)
  BY <1>2 DEF OpenFileFails, FinishIngest, AIDispatchRefused, ChangesBrokerOnly
<1>3. CASE SaveProcessing(w)
  <2>1. worker[w] \in Attempt
    BY <1>3, BusyWorker DEF SaveProcessing, TypeOK, Jobs
  <2>2. batch' = batch \/ batch'.status = "PROCESSING"
    BY <1>3, <2>1 DEF SaveProcessing, SaveWhole, Attempt, BatchRow
  <2> QED
    BY <1>3, <2>2 DEF SaveProcessing, ChangesRowOnly, dataVars, Success
<1>4. CASE IngestFails(w)
  BY <1>4 DEF IngestFails, SetStatus, TypeOK, BatchRow, ChangesRowOnly, dataVars, Success
<1> QED
  BY <1>1, <1>2, <1>3, <1>4 DEF Ingest

LEMMA CalculateStays ==
    ASSUME TypeOK, NEW w \in Workers, Calculate(w)
    PROVE  DataStays \/ StoreCalculations(w)
<1> USE DEF DataStays
<1>1. ASSUME NEW m \in Messages, StartCalculate(w, m) \/ SkipCalculate(w, m)
      PROVE  DataStays
  BY <1>1 DEF StartCalculate, SkipCalculate, Start, Skip, ChangesBrokerOnly
<1>2. CASE FinishCalculation(w) \/ CalculationDispatchRefused(w)
  BY <1>2 DEF FinishCalculation, CalculationDispatchRefused, ChangesBrokerOnly
<1>3. CASE MarkCalculating(w) \/ CalculationFails(w)
  BY <1>3 DEF MarkCalculating, CalculationFails, SetCalc, TypeOK, BatchRow, ChangesRowOnly,
              dataVars
<1>4. CASE BumpFails(w)
  BY <1>4 DEF BumpFails, SetCalc, TypeOK, BatchRow
<1> QED
  BY <1>1, <1>2, <1>3, <1>4 DEF Calculate

LEMMA FailStays ==
    ASSUME TypeOK, NEW w \in Workers, Fail(w)
    PROVE  DataStays
<1>1. CASE FixStatus(w)
  BY <1>1, FailedIsNoSuccess DEF FixStatus, DataStays, TypeOK
<1>2. CASE ~FixStatus(w)
  BY <1>2 DEF Fail, TransientFailure, RaiseFailure, LogDeadLetter, LoseWorker, LoseProcess,
              Redeliver, ChangesBrokerOnly, DataStays
<1> QED
  BY <1>1, <1>2

LEMMA OperateStays ==
    ASSUME TypeOK, Operate
    PROVE  DataStays \/ BackfillRead \/ BackfillInsert \/ SendMail
<1>1. CASE TimePasses
  BY <1>1 DEF TimePasses, DataStays, TypeOK, BatchRow
<1>2. ASSUME NEW task \in {"ingest", "calculate"}, Replay(task) PROVE DataStays
  BY <1>2 DEF Replay, DataStays
<1>3. CASE PurgeDeadLetters
  BY <1>3 DEF PurgeDeadLetters, DataStays
<1> QED
  BY <1>1, <1>2, <1>3 DEF Operate

LEMMA SweepStays ==
    ASSUME TypeOK, Sweep
    PROVE  DataStays
<1> USE DEF DataStays, ChangesSweepOnly
<1>1. ASSUME NEW axis \in {"ingest", "calculate"}, SweepUpdate(axis) PROVE DataStays
  BY <1>1, FailedIsNoSuccess DEF SweepUpdate, TypeOK
<1>2. ASSUME NEW axis \in {"ingest", "calculate"}, SweepSelect(axis) PROVE DataStays
  BY <1>2 DEF SweepSelect
<1>3. CASE SweepNotify \/ SweepCrash
  BY <1>3 DEF SweepNotify, SweepCrash
<1> QED
  BY <1>1, <1>2, <1>3 DEF Sweep

LEMMA DataChangesOnlyBy ==
    ASSUME TypeOK, [Next]_vars
    PROVE  \/ DataStays
           \/ \E w \in Workers : StoreRows(w) \/ StoreCalculations(w)
           \/ BackfillRead \/ BackfillInsert \/ SendMail
<1>1. CASE UNCHANGED vars
  BY <1>1 DEF vars, DataStays
<1>2. ASSUME NEW w \in Workers, Work(w)
      PROVE  DataStays \/ StoreRows(w) \/ StoreCalculations(w)
  BY <1>2, IngestStays, CalculateStays, FailStays DEF Work
<1> QED
  BY <1>1, <1>2, UploadStays, OperateStays, SweepStays DEF Next

\* What StoreRows, StoreCalculations and BackfillInsert find when they are enabled.
RowsInv ==
    /\ TypeOK
    /\ stored <= 1
    /\ calcs > 0 => stored = 1
    /\ backfill => stored = 1
    /\ SuccessHasRows
    /\ calcs <= 1

LEMMA InitRows == Init => RowsInv
BY InitType DEF Init, RowsInv, SuccessHasRows, Success

LEMMA NextRows == RowsInv /\ [Next]_vars => RowsInv'
<1> SUFFICES ASSUME RowsInv, [Next]_vars PROVE RowsInv'
  OBVIOUS
<1> USE DEF RowsInv, SuccessHasRows
<1>1. TypeOK'
  BY NextType
<1>2. CASE DataStays
  BY <1>1, <1>2 DEF DataStays
<1>3. ASSUME NEW w \in Workers, StoreRows(w) PROVE RowsInv'
  BY <1>1, <1>3 DEF StoreRows, RowsRefused, ChangesRowOnly, TypeOK
<1>4. ASSUME NEW w \in Workers, StoreCalculations(w) PROVE RowsInv'
  <2>1. batch'.status = batch.status
    BY <1>4 DEF StoreCalculations, SetCalc, TypeOK, BatchRow
  <2> QED
    BY <1>1, <1>4, <2>1 DEF StoreCalculations, CalculationsRefused, ChangesRowOnly, TypeOK
<1>5. CASE BackfillRead
  BY <1>1, <1>5 DEF BackfillRead, ChangesBackfillOnly, TypeOK
<1>6. CASE BackfillInsert
  BY <1>1, <1>6 DEF BackfillInsert, CalculationsRefused, ChangesBackfillOnly, TypeOK
<1>7. CASE SendMail
  BY <1>1, <1>7 DEF SendMail
<1> QED
  BY <1>2, <1>3, <1>4, <1>5, <1>6, <1>7, DataChangesOnlyBy

LEMMA RowsCorrect == Spec => []RowsInv
BY InitRows, NextRows, PTL DEF Spec

\* A batch that reports success has its rows, whatever crash, sweep, stale save
\* or redelivery came between them.
THEOREM SuccessTheorem == Spec => []SuccessHasRows
<1>1. RowsInv => SuccessHasRows
  BY DEF RowsInv
<1> QED
  BY <1>1, RowsCorrect, PTL

\* The pipeline implements BatchPromise: the rows are stored once and at once,
\* calculated once, and no mail claims rows that are not stored.
THEOREM PromiseTheorem == Spec => PromiseKept
<1> USE DEF Promise!promiseVars, Promise!PNext, Promise!Store, Promise!Calculate,
            Promise!Tell
<1>1. Init => Promise!PInit
  BY DEF Init, Promise!PInit
<1>2. RowsInv /\ [Next]_vars => [Promise!PNext]_(Promise!promiseVars)
  <2> SUFFICES ASSUME RowsInv, [Next]_vars PROVE [Promise!PNext]_(Promise!promiseVars)
    OBVIOUS
  <2> USE DEF RowsInv
  <2>1. CASE DataStays
    BY <2>1 DEF DataStays
  <2>2. ASSUME NEW w \in Workers, StoreRows(w) PROVE Promise!Store
    BY <2>2 DEF StoreRows, RowsRefused, ChangesRowOnly, TypeOK
  <2>3. ASSUME NEW w \in Workers, StoreCalculations(w)
        PROVE  Promise!Calculate \/ UNCHANGED <<stored, calcs, told>>
    BY <2>3 DEF StoreCalculations, CalculationsRefused, ChangesRowOnly, TypeOK
  <2>4. CASE BackfillRead
    BY <2>4 DEF BackfillRead, ChangesBackfillOnly
  <2>5. CASE BackfillInsert
    BY <2>5 DEF BackfillInsert, CalculationsRefused, ChangesBackfillOnly, TypeOK
  <2>6. CASE SendMail
    <3>1. \/ Outcome = {}
          \/ \E o \in {"failed", "processed", "calculation_failed"} :
                Outcome = {o} /\ (o \in {"processed", "calculation_failed"} => stored = 1)
      BY DEF Outcome, SuccessHasRows, TypeOK
    <3>2. UNCHANGED <<stored, calcs>> /\ told' \in {told, told \cup Outcome}
      BY <2>6 DEF SendMail
    <3> QED
      BY <3>1, <3>2
  <2> QED
    BY <2>1, <2>2, <2>3, <2>4, <2>5, <2>6, DataChangesOnlyBy
<1> QED
  BY <1>1, <1>2, RowsCorrect, PTL DEF Spec, PromiseKept, Promise!PSpec

-----------------------------------------------------------------------------
(***************************************************************************)
(* While nothing is delivered twice, one token goes round: a message, or   *)
(* the worker that has taken it                                            *)
(***************************************************************************)

NoToken == (\A m \in Messages : queue[m] = 0) /\ (\A w \in Workers : worker[w] = Idle)

OneToken ==
    /\ \A m \in Messages : queue[m] <= 1
    /\ \A m, n \in Messages : queue[m] > 0 /\ queue[n] > 0 => m = n
    /\ \A w \in Workers : worker[w] # Idle => \A m \in Messages : queue[m] = 0
    /\ \A v, w \in Workers : worker[v] # Idle /\ worker[w] # Idle => v = w

\* The attempt a is at a step of its own task.
Fits(a) ==
    /\ a.at \in IngestSteps => a.msg.task = "ingest"
    /\ a.at \in CalculateSteps => a.msg.task = "calculate"

IngestOpen ==
    \/ \E m \in Messages : queue[m] > 0 /\ m.task = "ingest"
    \/ \E w \in Workers : worker[w] # Idle /\ worker[w].msg.task = "ingest"

TokenInv ==
    /\ OneToken
    /\ \A w \in Workers : worker[w] # Idle => Fits(worker[w])
    /\ view \in {"staging", "staged"} => NoToken

\* What a step may do to the token.
Moves(w) ==
    /\ worker[w] \in Attempt /\ queue' = queue
    /\ \E a \in Attempt : /\ worker' = [worker EXCEPT ![w] = a]
                          /\ a.msg = worker[w].msg /\ a.held.calc = worker[w].held.calc
                          /\ Fits(a)

Takes(w, m) ==
    /\ worker[w] = Idle /\ queue[m] > 0 /\ queue' = Drop(m)
    /\ \E a \in Attempt : /\ worker' = [worker EXCEPT ![w] = a]
                          /\ a.msg = m /\ a.held = batch /\ Fits(a)

Skips(m) ==
    /\ queue[m] > 0 /\ worker' = worker
    /\ queue' \in {Drop(m), [Drop(m) EXCEPT ![Message("calculate", FALSE)] = @ + 1]}

Ends(w) ==
    /\ worker[w] \in Attempt /\ Free(w)
    /\ \/ queue' = queue
       \/ \E m \in Messages : /\ queue' = Put(m)
                              /\ m.task = "ingest" => worker[w].msg.task = "ingest"

\* Moving on with At() is a Moves step.
LEMMA AtMoves ==
    ASSUME TypeOK, NEW w \in Workers, worker[w] # Idle, NEW step, At(w, step), queue' = queue,
           \/ step \in FailureSteps
           \/ step \in IngestSteps /\ worker[w].msg.task = "ingest"
           \/ step \in CalculateSteps /\ worker[w].msg.task = "calculate"
    PROVE  Moves(w)
<1>1. worker[w] \in Attempt
  BY BusyWorker DEF TypeOK, Jobs
<1> DEFINE a == [worker[w] EXCEPT !.at = step]
<1>2. /\ a \in Attempt /\ a.msg = worker[w].msg /\ a.held.calc = worker[w].held.calc
      /\ a.at = step
  BY <1>1 DEF Attempt
<1>3. Fits(a)
  BY <1>2 DEF Fits, IngestSteps, CalculateSteps, FailureSteps
<1>4. worker' = [worker EXCEPT ![w] = a]
  BY DEF At, TypeOK
<1> QED
  BY <1>1, <1>2, <1>3, <1>4 DEF Moves

LEMMA UploadToken ==
    ASSUME TypeOK, Upload
    PROVE  UNCHANGED <<queue, worker>> \/ Dispatch
BY DEF Upload, StageFile, StageFileFails, Dispatch, DispatchRefused, ReadBack, MarkQueued,
       ViewCrash, ChangesViewOnly

LEMMA IngestToken ==
    ASSUME TypeOK, TokenInv, NEW w \in Workers, Ingest(w)
    PROVE  Moves(w) \/ Ends(w) \/ \E m \in Messages : Takes(w, m) \/ Skips(m)
<1>1. ASSUME NEW m \in Messages, StartIngest(w, m) PROVE Takes(w, m)
  <2> DEFINE a == [at |-> "opening", msg |-> m, held |-> batch]
  <2>1. a \in Attempt /\ Fits(a)
    BY <1>1 DEF StartIngest, Attempt, TypeOK, Fits, IngestSteps, CalculateSteps
  <2> QED
    BY <1>1, <2>1 DEF StartIngest, Start, Takes
<1>2. ASSUME NEW m \in Messages, SkipIngest(w, m) PROVE Skips(m)
  BY <1>2 DEF SkipIngest, Skip, Skips
<1>3. CASE OpenFileFails(w)
  BY <1>3, AtMoves DEF OpenFileFails, brokerVars, Idle, FailureSteps
<1>4. CASE SaveProcessing(w)
  <2>1. worker[w] \in Attempt /\ worker[w] # Idle
    BY <1>4, BusyWorker DEF SaveProcessing, TypeOK, Jobs, Idle
  <2> DEFINE a == [worker[w] EXCEPT !.at = "ingesting", !.held.status = "PROCESSING"]
  <2>2. worker[w].msg.task = "ingest"
    BY <1>4, <2>1 DEF SaveProcessing, TokenInv, Fits, IngestSteps
  <2>3. a \in Attempt /\ a.msg = worker[w].msg /\ a.held.calc = worker[w].held.calc
    BY <2>1 DEF Attempt, IngestSteps, BatchRow, BatchStatus
  <2>4. a.at = "ingesting"
    BY <2>1 DEF Attempt
  <2>5. Fits(a)
    BY <2>2, <2>3, <2>4 DEF Fits, IngestSteps, CalculateSteps
  <2>6. worker' = [worker EXCEPT ![w] = a]
    BY <1>4, <2>1 DEF SaveProcessing, TypeOK
  <2> QED
    BY <1>4, <2>1, <2>3, <2>5, <2>6 DEF Moves, SaveProcessing, ChangesRowOnly
<1>5. CASE IngestFails(w)
  BY <1>5, AtMoves DEF IngestFails, ChangesRowOnly, Idle, FailureSteps
<1>6. CASE StoreRows(w)
  <2>1. worker[w] # Idle /\ worker[w].msg.task = "ingest"
    BY <1>6 DEF StoreRows, TokenInv, Fits, IngestSteps, Idle
  <2> QED
    BY <1>6, <2>1, AtMoves DEF StoreRows, ChangesRowOnly, IngestSteps
<1>7. CASE FinishIngest(w)
  <2>1. worker[w] \in Attempt
    BY <1>7, BusyWorker DEF FinishIngest, TypeOK, Jobs
  <2>2. Message("calculate", FALSE) \in Messages /\ Message("calculate", FALSE).task # "ingest"
    BY MessageType DEF Message
  <2> QED
    BY <1>7, <2>1, <2>2 DEF FinishIngest, Ends
<1>8. CASE AIDispatchRefused(w)
  BY <1>8, AtMoves DEF AIDispatchRefused, brokerVars, Idle, FailureSteps
<1> QED
  BY <1>1, <1>2, <1>3, <1>4, <1>5, <1>6, <1>7, <1>8 DEF Ingest

LEMMA CalculateToken ==
    ASSUME TypeOK, TokenInv, NEW w \in Workers, Calculate(w)
    PROVE  Moves(w) \/ Ends(w) \/ \E m \in Messages : Takes(w, m) \/ Skips(m)
<1>1. ASSUME NEW m \in Messages, StartCalculate(w, m) PROVE Takes(w, m)
  <2> DEFINE a == [at |-> "marking", msg |-> m, held |-> batch]
  <2>1. a \in Attempt /\ Fits(a)
    BY <1>1 DEF StartCalculate, Attempt, TypeOK, Fits, IngestSteps, CalculateSteps
  <2> QED
    BY <1>1, <2>1 DEF StartCalculate, Start, Takes
<1>2. ASSUME NEW m \in Messages, SkipCalculate(w, m) PROVE Skips(m)
  BY <1>2 DEF SkipCalculate, Skip, Skips
<1>3. CASE MarkCalculating(w) \/ StoreCalculations(w)
  <2>1. worker[w] # Idle /\ worker[w].msg.task = "calculate"
    BY <1>3 DEF MarkCalculating, StoreCalculations, TokenInv, Fits, CalculateSteps, Idle
  <2> QED
    BY <1>3, <2>1, AtMoves DEF MarkCalculating, StoreCalculations, ChangesRowOnly, CalculateSteps
<1>4. CASE CalculationFails(w)
  BY <1>4, AtMoves DEF CalculationFails, ChangesRowOnly, Idle, FailureSteps
<1>5. CASE BumpFails(w)
  BY <1>5, AtMoves DEF BumpFails, Idle, FailureSteps
<1>6. CASE FinishCalculation(w)
  BY <1>6, BusyWorker DEF FinishCalculation, Ends, TypeOK, Jobs
<1>7. CASE CalculationDispatchRefused(w)
  BY <1>7, AtMoves DEF CalculationDispatchRefused, Idle, FailureSteps
<1> QED
  BY <1>1, <1>2, <1>3, <1>4, <1>5, <1>6, <1>7 DEF Calculate

LEMMA FailToken ==
    ASSUME TypeOK, TokenInv, NEW w \in Workers, Fail(w), DeliveredOnce'
    PROVE  Moves(w) \/ Ends(w)
<1>1. CASE TransientFailure(w)
  <2>1. worker[w] \in Attempt /\ worker[w] # Idle
    BY <1>1, BusyWorker DEF TransientFailure, TypeOK, Jobs, Idle
  <2>2. CASE At(w, "dead") /\ queue' = queue
    BY <2>1, <2>2, AtMoves DEF FailureSteps
  <2>3. CASE /\ worker[w].msg.retries < MaxRetries /\ Free(w)
             /\ queue' = Put([worker[w].msg EXCEPT !.retries = @ + 1])
    <3> DEFINE m == [worker[w].msg EXCEPT !.retries = @ + 1]
    <3>1. m \in Messages /\ m.task = worker[w].msg.task
      BY <2>1, <2>3, BoundAssumption DEF Attempt, Messages
    <3> QED
      BY <2>1, <2>3, <3>1 DEF Ends
  <2> QED
    BY <1>1, <2>2, <2>3 DEF TransientFailure
<1>2. CASE RaiseFailure(w)
  BY <1>2, AtMoves DEF RaiseFailure, Idle, FailureSteps
<1>3. CASE LogDeadLetter(w)
  BY <1>3, AtMoves DEF LogDeadLetter, Idle, FailureSteps
<1>4. CASE FixStatus(w)
  BY <1>4, BusyWorker DEF FixStatus, Ends, TypeOK, Jobs
<1>5. CASE LoseWorker(w)
  BY <1>5, BusyWorker DEF LoseWorker, Ends, TypeOK, Jobs, Attempt
<1>6. CASE LoseProcess(w)
  BY <1>6, AtMoves DEF LoseProcess, brokerVars, FailureSteps
<1>7. ~ Redeliver(w)
  BY BoundAssumption DEF Redeliver, DeliveredOnce, TypeOK
<1> QED
  BY <1>1, <1>2, <1>3, <1>4, <1>5, <1>6, <1>7 DEF Fail

LEMMA OtherToken ==
    ASSUME TypeOK, Operate \/ Sweep, DeliveredOnce'
    PROVE  UNCHANGED <<queue, worker>>
<1>1. ASSUME NEW task \in {"ingest", "calculate"} PROVE ~ Replay(task)
  <2>1. replays \in Nat /\ replays' = 0
    BY BoundAssumption DEF DeliveredOnce, TypeOK
  <2>2. Replay(task) => replays' = replays + 1
    BY DEF Replay
  <2> QED
    BY <2>1, <2>2
<1> QED
  BY <1>1 DEF Operate, Sweep, PurgeDeadLetters, TimePasses, BackfillRead, BackfillInsert, SendMail,
              SweepSelect, SweepUpdate, SweepNotify, SweepCrash, ChangesSweepOnly,
              ChangesBackfillOnly

LEMMA TokenSteps ==
    ASSUME TypeOK, TokenInv, [Next]_vars, DeliveredOnce'
    PROVE  \/ UNCHANGED <<queue, worker>>
           \/ Dispatch
           \/ \E w \in Workers : Moves(w) \/ Ends(w) \/ \E m \in Messages : Takes(w, m) \/ Skips(m)
<1>1. CASE UNCHANGED vars
  BY <1>1 DEF vars
<1>2. ASSUME NEW w \in Workers, Work(w)
      PROVE  Moves(w) \/ Ends(w) \/ \E m \in Messages : Takes(w, m) \/ Skips(m)
  BY <1>2, IngestToken, CalculateToken, FailToken DEF Work
<1> QED
  BY <1>1, <1>2, UploadToken, OtherToken DEF Next

\* Once the messages are sent, the upload does not go back.
LEMMA ViewGoesOn ==
    ASSUME [Next]_vars, view' \in {"staging", "staged"}
    PROVE  view \in {"staging", "staged"}
BY DEF Next, vars, Upload, StageFile, StageFileFails, Dispatch, DispatchRefused, ReadBack,
         MarkQueued, ViewCrash, Work, Ingest, StartIngest, SkipIngest, Start, Skip, OpenFileFails,
         SaveProcessing, IngestFails, StoreRows, FinishIngest, AIDispatchRefused, Calculate,
         StartCalculate, SkipCalculate, MarkCalculating, CalculationFails, StoreCalculations,
         BumpFails, FinishCalculation, CalculationDispatchRefused, Fail, TransientFailure,
         RaiseFailure, LogDeadLetter, FixStatus, LoseWorker, LoseProcess, Redeliver, Operate,
         Replay, PurgeDeadLetters, TimePasses, BackfillRead, BackfillInsert, SendMail, Sweep,
         SweepSelect, SweepUpdate, SweepNotify, SweepCrash, ChangesBrokerOnly, ChangesRowOnly,
         ChangesSweepOnly, ChangesBackfillOnly

LEMMA TokenStays ==
    ASSUME TypeOK, TokenInv, [Next]_vars, DeliveredOnce'
    PROVE  TokenInv'
<1> USE DEF TokenInv, OneToken, NoToken
<1>1. view' \in {"staging", "staged"} => view \in {"staging", "staged"}
  BY ViewGoesOn
<1>2. queue \in [Messages -> Nat] /\ worker \in [Workers -> Jobs]
  BY DEF TypeOK, Jobs
<1>3. \A a \in Attempt : a # Idle
  BY DEF Attempt, Idle
<1>4. CASE UNCHANGED <<queue, worker>>
  BY <1>1, <1>4
<1>5. CASE Dispatch
  <2> DEFINE n == Message("ingest", TRUE)
  <2>1. n \in Messages /\ view' = "sent" /\ NoToken /\ worker' = worker
    BY <1>5, MessageType DEF Dispatch, ChangesViewOnly
  <2>2. queue' = [queue EXCEPT ![n] = @ + 1]
    BY <1>5 DEF Dispatch, Put
  <2> HIDE DEF n
  <2>3. \A m \in Messages : queue'[m] = IF m = n THEN 1 ELSE 0
    BY <1>2, <2>1, <2>2
  <2> QED
    BY <2>1, <2>3
<1>6. ASSUME NEW w \in Workers, Moves(w) PROVE TokenInv'
  BY <1>1, <1>2, <1>3, <1>6 DEF Moves
<1>7. ASSUME NEW w \in Workers, Ends(w) PROVE TokenInv'
  BY <1>1, <1>2, <1>3, <1>7 DEF Ends, Free, Put
<1>8. ASSUME NEW w \in Workers, NEW m \in Messages, Takes(w, m) PROVE TokenInv'
  BY <1>1, <1>2, <1>3, <1>8 DEF Takes, Drop
<1>9. ASSUME NEW m \in Messages, Skips(m) PROVE TokenInv'
  <2> DEFINE c == Message("calculate", FALSE)
  <2>1. c \in Messages
    BY MessageType
  <2>2. /\ \A n \in Messages : queue[n] = IF n = m THEN 1 ELSE 0
        /\ \A w \in Workers : worker'[w] = Idle
        /\ view \notin {"staging", "staged"}
    BY <1>2, <1>9 DEF Skips
  <2>3. /\ Drop(m) \in [Messages -> Nat]
        /\ \A n \in Messages : Drop(m)[n] = 0
    BY <1>2, <2>2, DropType DEF Drop
  <2>4. queue' \in {Drop(m), [Drop(m) EXCEPT ![c] = @ + 1]}
    BY <1>9 DEF Skips
  <2> HIDE DEF c
  <2>5. (\A n \in Messages : queue'[n] = 0) \/ (\A n \in Messages : queue'[n] = IF n = c THEN 1 ELSE 0)
    BY <2>1, <2>3, <2>4
  <2> QED
    BY <1>1, <2>2, <2>5
<1> QED
  BY <1>4, <1>5, <1>6, <1>7, <1>8, <1>9, TokenSteps

\* What follows for the calculation axis: nothing reports CALCULATED as long as
\* there are rows to come, neither the batch nor a copy of it.
CalculatedInv ==
    /\ view \in {"staging", "staged"} => batch.calc # "CALCULATED"
    /\ IngestOpen => batch.calc # "CALCULATED"
    /\ \A w \in Workers : worker[w] # Idle /\ worker[w].msg.task = "ingest"
                            => worker[w].held.calc # "CALCULATED"
    /\ batch.calc = "CALCULATED" /\ stored > 0 => calcs = 1
    /\ "processed" \in told => calcs = 1

DeliveryInv == RowsInv /\ (DeliveredOnce => TokenInv /\ CalculatedInv)

LEMMA InitDelivery == Init => DeliveryInv
<1> SUFFICES ASSUME Init PROVE DeliveryInv
  OBVIOUS
<1>1. NoToken
  BY DEF Init, NoToken
<1>2. TokenInv
  BY <1>1 DEF TokenInv, OneToken, NoToken
<1>3. CalculatedInv
  BY <1>1 DEF Init, CalculatedInv, IngestOpen, NoToken
<1> QED
  BY <1>2, <1>3, InitRows DEF DeliveryInv

\* Only StoreCalculations() writes CALCULATED.
LEMMA CalcChangesOnlyBy ==
    ASSUME TypeOK, TokenInv, CalculatedInv, [Next]_vars
    PROVE  \/ batch'.calc = batch.calc
           \/ batch'.calc # "CALCULATED"
           \/ \E w \in Workers : StoreCalculations(w)
<1>1. CASE batch' = batch
  BY <1>1
<1>2. ASSUME NEW status, SetStatus(status) PROVE batch'.calc = batch.calc
  BY <1>2 DEF SetStatus, TypeOK, BatchRow
<1>3. SetCalc("CALCULATING") \/ SetCalc("CALCULATION_FAILED") => batch'.calc # "CALCULATED"
  BY DEF SetCalc, TypeOK, BatchRow
<1>4. ASSUME NEW axis, SettleAsFailed(axis)
      PROVE  batch'.calc = batch.calc \/ batch'.calc # "CALCULATED"
  BY <1>2, <1>3, <1>4 DEF SettleAsFailed
<1>5. ASSUME NEW w \in Workers, SaveProcessing(w) \/ StoreRows(w)
      PROVE  batch' = batch \/ batch'.calc # "CALCULATED"
  <2>1. worker[w] \in Attempt /\ worker[w] # Idle /\ worker[w].at \in IngestSteps
    BY <1>5, BusyWorker DEF SaveProcessing, StoreRows, TypeOK, Jobs, Idle, IngestSteps
  <2>2. worker[w].held.calc # "CALCULATED"
    BY <2>1 DEF TokenInv, Fits, CalculatedInv
  <2>3. ASSUME NEW status, SaveWhole(w, status) PROVE batch'.calc # "CALCULATED"
    BY <2>1, <2>2, <2>3 DEF SaveWhole, Attempt, BatchRow
  <2> QED
    BY <1>5, <2>3 DEF SaveProcessing, StoreRows
<1>6. CASE UNCHANGED vars
  BY <1>1, <1>6 DEF vars
<1>7. CASE Upload
  BY <1>1, <1>2, <1>7 DEF Upload, StageFile, StageFileFails, Dispatch, DispatchRefused, ReadBack,
                         MarkQueued, ViewCrash
<1>8. ASSUME NEW w \in Workers, Ingest(w)
      PROVE  batch'.calc = batch.calc \/ batch'.calc # "CALCULATED"
  BY <1>1, <1>2, <1>5, <1>8
     DEF Ingest, StartIngest, SkipIngest, Start, Skip, OpenFileFails, IngestFails, FinishIngest,
         AIDispatchRefused, ChangesBrokerOnly
<1>9. ASSUME NEW w \in Workers, Calculate(w), ~ StoreCalculations(w)
      PROVE  batch'.calc = batch.calc \/ batch'.calc # "CALCULATED"
  BY <1>1, <1>3, <1>9
     DEF Calculate, StartCalculate, SkipCalculate, Start, Skip, MarkCalculating, CalculationFails,
         BumpFails, FinishCalculation, CalculationDispatchRefused, ChangesBrokerOnly
<1>10. ASSUME NEW w \in Workers, Fail(w)
       PROVE  batch'.calc = batch.calc \/ batch'.calc # "CALCULATED"
  BY <1>1, <1>4, <1>10
     DEF Fail, TransientFailure, RaiseFailure, LogDeadLetter, FixStatus, LoseWorker, LoseProcess,
         Redeliver, ChangesBrokerOnly
<1>11. CASE Operate
  <2>1. CASE TimePasses
    BY <2>1 DEF TimePasses, TypeOK, BatchRow
  <2> QED
    BY <1>1, <1>11, <2>1 DEF Operate, Replay, PurgeDeadLetters, BackfillRead, BackfillInsert,
                             ChangesBackfillOnly, SendMail
<1>12. CASE Sweep
  BY <1>1, <1>4, <1>12 DEF Sweep, SweepSelect, SweepUpdate, SweepNotify, SweepCrash
<1> QED
  BY <1>6, <1>7, <1>8, <1>9, <1>10, <1>11, <1>12 DEF Next, Work

\* Only the upload brings an ingest_task into being.
LEMMA IngestOpensOnlyBy ==
    ASSUME TypeOK, TokenInv, [Next]_vars, DeliveredOnce', IngestOpen'
    PROVE  IngestOpen \/ Dispatch
<1> USE DEF IngestOpen
<1>1. queue \in [Messages -> Nat] /\ worker \in [Workers -> Jobs]
  BY DEF TypeOK, Jobs
<1>2. \A a \in Attempt : a # Idle
  BY DEF Attempt, Idle
<1>3. CASE UNCHANGED <<queue, worker>>
  BY <1>3
<1>4. ASSUME NEW w \in Workers, Moves(w) PROVE IngestOpen
  BY <1>1, <1>2, <1>4 DEF Moves
<1>5. ASSUME NEW w \in Workers, Ends(w) PROVE IngestOpen
  BY <1>1, <1>2, <1>5 DEF Ends, Free, Put
<1>6. ASSUME NEW w \in Workers, NEW m \in Messages, Takes(w, m) PROVE IngestOpen
  BY <1>1, <1>2, <1>6 DEF Takes, Drop
<1>7. ASSUME NEW m \in Messages, Skips(m) PROVE IngestOpen
  <2> DEFINE c == Message("calculate", FALSE)
  <2>1. c \in Messages /\ c.task # "ingest"
    BY MessageType DEF Message
  <2>2. \A n \in Messages : Drop(m)[n] > 0 => queue[n] > 0
    BY <1>1, <1>7 DEF Drop, Skips
  <2>3. Drop(m) \in [Messages -> Nat]
    BY <1>1, <1>7, DropType DEF Skips
  <2>4. worker' = worker /\ queue' \in {Drop(m), [Drop(m) EXCEPT ![c] = @ + 1]}
    BY <1>7 DEF Skips
  <2> HIDE DEF c
  <2> QED
    BY <2>1, <2>2, <2>3, <2>4
<1> QED
  BY <1>3, <1>4, <1>5, <1>6, <1>7, TokenSteps

\* A copy of the row is made when a message is taken, and keeps its calc.
LEMMA HeldStays ==
    ASSUME TypeOK, TokenInv, CalculatedInv, [Next]_vars, DeliveredOnce',
           NEW v \in Workers, worker'[v] # Idle, worker'[v].msg.task = "ingest"
    PROVE  worker'[v].held.calc # "CALCULATED"
<1>1. worker \in [Workers -> Jobs] /\ \A a \in Attempt : a # Idle
  BY DEF TypeOK, Jobs, Attempt, Idle
<1>2. CASE UNCHANGED worker
  BY <1>2 DEF CalculatedInv
<1>3. ASSUME NEW w \in Workers, Moves(w) PROVE worker'[v].held.calc # "CALCULATED"
  BY <1>1, <1>3 DEF Moves, CalculatedInv
<1>4. ASSUME NEW w \in Workers, Ends(w) PROVE worker'[v].held.calc # "CALCULATED"
  BY <1>1, <1>4 DEF Ends, Free, CalculatedInv
<1>5. ASSUME NEW w \in Workers, NEW m \in Messages, Takes(w, m)
      PROVE  worker'[v].held.calc # "CALCULATED"
  BY <1>1, <1>5 DEF Takes, CalculatedInv, IngestOpen
<1>6. ASSUME NEW m \in Messages, Skips(m) PROVE worker'[v].held.calc # "CALCULATED"
  BY <1>2, <1>6 DEF Skips
<1>7. CASE Dispatch
  BY <1>2, <1>7 DEF Dispatch, ChangesViewOnly
<1> QED
  BY <1>2, <1>3, <1>4, <1>5, <1>6, <1>7, TokenSteps

LEMMA CalculatedStays ==
    ASSUME RowsInv, TokenInv, CalculatedInv, [Next]_vars, DeliveredOnce'
    PROVE  CalculatedInv'
<1> USE DEF CalculatedInv
<1>1. TypeOK /\ calcs \in Nat /\ stored \in Nat /\ calcs <= 1
  BY DEF RowsInv, TypeOK
\* StoreCalculations(w) leaves no ingest_task to come.
<1>2. ASSUME NEW w \in Workers, StoreCalculations(w)
      PROVE  ~ IngestOpen /\ view \notin {"staging", "staged"} /\ worker[w].at = "calculating"
  <2>1. worker[w] # Idle /\ worker[w].at = "calculating"
    BY <1>2 DEF StoreCalculations, Idle
  <2>2. worker[w].msg.task = "calculate"
    BY <2>1 DEF TokenInv, Fits, CalculateSteps
  <2> QED
    BY <1>1, <2>1, <2>2 DEF TokenInv, OneToken, NoToken, IngestOpen, TypeOK
<1>3. view' \in {"staging", "staged"} => batch'.calc # "CALCULATED"
  BY <1>1, <1>2, ViewGoesOn, CalcChangesOnlyBy
<1>4. IngestOpen' => batch'.calc # "CALCULATED"
  <2>1. CASE Dispatch
    BY <2>1 DEF Dispatch
  <2>2. CASE IngestOpen
    BY <1>1, <1>2, <2>2, CalcChangesOnlyBy
  <2> QED
    BY <1>1, <2>1, <2>2, IngestOpensOnlyBy
<1>5. \A v \in Workers : worker'[v] # Idle /\ worker'[v].msg.task = "ingest"
                           => worker'[v].held.calc # "CALCULATED"
  BY <1>1, HeldStays
<1>6. CASE DataStays /\ \A w \in Workers : ~ StoreCalculations(w)
  <2>1. batch'.calc = "CALCULATED" => batch.calc = "CALCULATED"
    BY <1>1, <1>6, CalcChangesOnlyBy
  <2> QED
    BY <1>3, <1>4, <1>5, <1>6, <2>1 DEF DataStays
<1>7. ASSUME NEW w \in Workers, StoreRows(w) PROVE CalculatedInv'
  <2>1. IngestOpen /\ stored' = stored + 1 /\ UNCHANGED <<calcs, told>>
    BY <1>7 DEF StoreRows, ChangesRowOnly, IngestOpen, TokenInv, Fits, IngestSteps, Idle
  <2>2. ASSUME NEW v \in Workers PROVE ~ StoreCalculations(v)
    BY <1>2, <2>1
  <2>3. batch'.calc # "CALCULATED"
    BY <1>1, <2>1, <2>2, CalcChangesOnlyBy
  <2> QED
    BY <1>3, <1>4, <1>5, <2>1, <2>3
<1>8. ASSUME NEW w \in Workers, StoreCalculations(w) PROVE CalculatedInv'
  <2>1. UNCHANGED <<stored, told>>
    BY <1>8 DEF StoreCalculations, ChangesRowOnly
  <2>2. (stored > 0 => calcs' = 1) /\ (calcs = 1 => calcs' = 1)
    BY <1>1, <1>8 DEF StoreCalculations, CalculationsRefused, RowsInv
  <2> QED
    BY <1>3, <1>4, <1>5, <2>1, <2>2
<1>9. CASE BackfillRead
  BY <1>3, <1>4, <1>5, <1>9 DEF BackfillRead, ChangesBackfillOnly
<1>10. CASE BackfillInsert
  <2>1. UNCHANGED <<batch, stored, told>> /\ (calcs = 1 => calcs' = 1)
    BY <1>1, <1>10 DEF BackfillInsert, CalculationsRefused, ChangesBackfillOnly, RowsInv
  <2> QED
    BY <1>3, <1>4, <1>5, <2>1
<1>11. CASE SendMail
  <2>1. "processed" \in Outcome => calcs = 1
    BY <1>1 DEF Outcome, RowsInv, SuccessHasRows
  <2>2. UNCHANGED <<batch, stored, calcs>> /\ told' \in {told, told \cup Outcome}
    BY <1>11 DEF SendMail
  <2> QED
    BY <1>3, <1>4, <1>5, <2>1, <2>2
<1> QED
  BY <1>1, <1>6, <1>7, <1>8, <1>9, <1>10, <1>11, DataChangesOnlyBy

\* A redelivery is not undone.
LEMMA DeliveredOnceBefore ==
    ASSUME TypeOK, [Next]_vars, DeliveredOnce'
    PROVE  DeliveredOnce
<1>1. /\ redeliveries' = redeliveries \/ redeliveries' = redeliveries + 1
      /\ replays' = replays \/ replays' = replays + 1
  BY DEF Next, vars, Upload, StageFile, StageFileFails, Dispatch, DispatchRefused, ReadBack,
       MarkQueued, ViewCrash, ChangesViewOnly, Work, Ingest, StartIngest, SkipIngest, Start, Skip,
       OpenFileFails, SaveProcessing, IngestFails, StoreRows, FinishIngest, AIDispatchRefused,
       Calculate, StartCalculate, SkipCalculate, MarkCalculating, CalculationFails,
       StoreCalculations, BumpFails, FinishCalculation, CalculationDispatchRefused, Fail,
       TransientFailure, RaiseFailure, LogDeadLetter, FixStatus, LoseWorker, LoseProcess,
       Redeliver, Operate, Replay, PurgeDeadLetters, TimePasses, BackfillRead, BackfillInsert,
       SendMail, Sweep, SweepSelect, SweepUpdate, SweepNotify, SweepCrash, ChangesBrokerOnly,
       ChangesRowOnly, ChangesSweepOnly, ChangesBackfillOnly
<1>2. redeliveries \in Nat /\ replays \in Nat
  BY BoundAssumption DEF TypeOK
<1> QED
  BY <1>1, <1>2 DEF DeliveredOnce

LEMMA NextDelivery == DeliveryInv /\ [Next]_vars => DeliveryInv'
<1> SUFFICES ASSUME DeliveryInv, [Next]_vars PROVE DeliveryInv'
  OBVIOUS
<1>1. TypeOK /\ RowsInv'
  BY NextRows DEF DeliveryInv, RowsInv
<1> QED
  BY <1>1, DeliveredOnceBefore, TokenStays, CalculatedStays DEF DeliveryInv

LEMMA DeliveryCorrect == Spec => []DeliveryInv
BY InitDelivery, NextDelivery, PTL DEF Spec

\* While no message is delivered twice, a batch that reads COMPLETED and
\* CALCULATED has its calculations, and so has one reported as processed: nothing
\* that may fail in between lets calculate_task overtake the rows.
THEOREM CalculatedTheorem == Spec => []CalculatedMeansCalculated
<1>1. DeliveryInv => CalculatedMeansCalculated
  BY DEF DeliveryInv, CalculatedInv, CalculatedMeansCalculated, RowsInv, SuccessHasRows
<1> QED
  BY <1>1, DeliveryCorrect, PTL

-----------------------------------------------------------------------------
(***************************************************************************)
(* Success is not taken back                                               *)
(***************************************************************************)

\* An attempt that still has to write an axis works on one that has not succeeded.
AttemptInv ==
    /\ view \in {"staging", "staged"} => batch.status \notin Success
    /\ \A w \in Workers :
         /\ worker[w].at \in {"opening", "ingesting"} => batch.status \notin Success
         /\ worker[w].at \in {"marking", "calculating"} => batch.calc # "CALCULATED"

\* How an attempt comes to a step before its write: by a message taken while the
\* axis is open, or from the step before.
Enters(v, before, open) ==
    worker'[v].at \in before => worker[v].at \in before \/ (open /\ batch' = batch)

EntersOpen(v) ==
    /\ Enters(v, {"opening", "ingesting"}, batch.status \notin Success)
    /\ Enters(v, {"marking", "calculating"}, batch.calc # "CALCULATED")

LEMMA IngestEnters ==
    ASSUME TypeOK, NEW w \in Workers, NEW v \in Workers, Ingest(w)
    PROVE  EntersOpen(v)
<1> USE DEF EntersOpen, Enters
<1>1. worker \in [Workers -> Jobs]
  BY DEF TypeOK, Jobs
<1>2. ASSUME NEW m \in Messages, StartIngest(w, m) PROVE EntersOpen(v)
  BY <1>1, <1>2 DEF StartIngest, Start, ChangesBrokerOnly, Terminal
<1>3. ASSUME NEW m \in Messages, SkipIngest(w, m) PROVE EntersOpen(v)
  BY <1>3 DEF SkipIngest, Skip
<1>4. CASE SaveProcessing(w)
  <2>1. worker[w] \in Attempt
    BY <1>1, <1>4, BusyWorker DEF SaveProcessing
  <2> QED
    BY <1>1, <1>4, <2>1 DEF SaveProcessing, Attempt
<1>5. CASE FinishIngest(w)
  BY <1>1, <1>5 DEF FinishIngest, Free, Idle
<1>6. CASE OpenFileFails(w) \/ IngestFails(w) \/ StoreRows(w) \/ AIDispatchRefused(w)
  <2>1. worker[w] \in Attempt
    BY <1>1, <1>6, BusyWorker DEF OpenFileFails, IngestFails, StoreRows, AIDispatchRefused
  <2> QED
    BY <1>1, <1>6, <2>1 DEF OpenFileFails, IngestFails, StoreRows, AIDispatchRefused, At, Attempt
<1> QED
  BY <1>2, <1>3, <1>4, <1>5, <1>6 DEF Ingest

LEMMA CalculateEnters ==
    ASSUME TypeOK, NEW w \in Workers, NEW v \in Workers, Calculate(w)
    PROVE  EntersOpen(v)
<1> USE DEF EntersOpen, Enters
<1>1. worker \in [Workers -> Jobs]
  BY DEF TypeOK, Jobs
<1>2. ASSUME NEW m \in Messages, StartCalculate(w, m) PROVE EntersOpen(v)
  BY <1>1, <1>2 DEF StartCalculate, Start, ChangesBrokerOnly, CalculationTerminal
<1>3. ASSUME NEW m \in Messages, SkipCalculate(w, m) PROVE EntersOpen(v)
  BY <1>3 DEF SkipCalculate, Skip
<1>4. CASE FinishCalculation(w)
  BY <1>1, <1>4 DEF FinishCalculation, Free, Idle
<1>5. CASE \/ MarkCalculating(w) \/ CalculationFails(w) \/ StoreCalculations(w)
           \/ BumpFails(w) \/ CalculationDispatchRefused(w)
  <2>1. worker[w] \in Attempt
    BY <1>1, <1>5, BusyWorker DEF MarkCalculating, CalculationFails, StoreCalculations, BumpFails,
                                 CalculationDispatchRefused
  <2> QED
    BY <1>1, <1>5, <2>1 DEF MarkCalculating, CalculationFails, StoreCalculations, BumpFails,
                            CalculationDispatchRefused, At, Attempt
<1> QED
  BY <1>2, <1>3, <1>4, <1>5 DEF Calculate

LEMMA FailEnters ==
    ASSUME TypeOK, NEW w \in Workers, NEW v \in Workers, Fail(w)
    PROVE  EntersOpen(v)
<1> USE DEF EntersOpen, Enters
<1>1. worker \in [Workers -> Jobs]
  BY DEF TypeOK, Jobs
<1>2. CASE Redeliver(w)
  BY <1>2 DEF Redeliver
<1>3. ASSUME Free(w) PROVE EntersOpen(v)
  BY <1>1, <1>3 DEF Free, Idle
<1>4. ASSUME worker[w] # Idle, NEW step \in FailureSteps, At(w, step) PROVE EntersOpen(v)
  <2>1. worker[w] \in Attempt
    BY <1>1, <1>4, BusyWorker
  <2> QED
    BY <1>1, <1>4, <2>1 DEF At, Attempt, FailureSteps
<1> QED
  BY <1>2, <1>3, <1>4 DEF Fail, TransientFailure, RaiseFailure, LogDeadLetter, FixStatus, LoseWorker,
                         LoseProcess, FailureSteps, Idle

LEMMA AllEnter ==
    ASSUME TypeOK, [Next]_vars, NEW v \in Workers
    PROVE  EntersOpen(v)
<1>1. CASE UNCHANGED worker
  BY <1>1 DEF EntersOpen, Enters
<1>2. CASE UNCHANGED vars
  BY <1>1, <1>2 DEF vars
<1>3. CASE Upload
  BY <1>1, <1>3 DEF Upload, StageFile, StageFileFails, Dispatch, DispatchRefused, ReadBack,
                    MarkQueued, ViewCrash, ChangesViewOnly
<1>4. CASE Operate \/ Sweep
  BY <1>1, <1>4 DEF Operate, Sweep, Replay, PurgeDeadLetters, TimePasses, BackfillRead,
                    BackfillInsert, SendMail, SweepSelect, SweepUpdate, SweepNotify, SweepCrash,
                    ChangesSweepOnly, ChangesBackfillOnly
<1> QED
  BY <1>2, <1>3, <1>4, IngestEnters, CalculateEnters, FailEnters DEF Next, Work

\* The attempt that writes is the only one there is.
LEMMA AttemptStays ==
    ASSUME RowsInv, TokenInv, CalculatedInv, AttemptInv, [Next]_vars
    PROVE  AttemptInv'
<1>1. TypeOK
  BY DEF RowsInv
<1>2. batch'.status \in Success => batch.status \in Success \/ \E w \in Workers : StoreRows(w)
  <2>1. ASSUME NEW w \in Workers, StoreCalculations(w) PROVE batch'.status = batch.status
    BY <1>1, <2>1 DEF StoreCalculations, SetCalc, TypeOK, BatchRow
  <2>2. BackfillRead \/ BackfillInsert \/ SendMail => batch' = batch
    BY DEF BackfillRead, BackfillInsert, ChangesBackfillOnly, SendMail
  <2> QED
    BY <1>1, <2>1, <2>2, DataChangesOnlyBy DEF DataStays
<1>3. batch'.calc = "CALCULATED" =>
         batch.calc = "CALCULATED" \/ \E w \in Workers : StoreCalculations(w)
  BY <1>1, CalcChangesOnlyBy
<1>4. ASSUME NEW w \in Workers, StoreRows(w) \/ StoreCalculations(w)
      PROVE  /\ view \notin {"staging", "staged"}
             /\ \A v \in Workers : v # w => worker'[v].at = "idle"
             /\ worker'[w].at \in {"ingested", "calculated"}
  <2>1. worker[w] \in Attempt /\ worker[w] # Idle
    BY <1>1, <1>4, BusyWorker DEF StoreRows, StoreCalculations, TypeOK, Jobs, Idle
  <2>2. \A v \in Workers : v # w => worker[v] = Idle
    BY <2>1 DEF TokenInv, OneToken
  <2>3. view \notin {"staging", "staged"}
    BY <2>1 DEF TokenInv, NoToken
  <2>4. At(w, "ingested") \/ At(w, "calculated")
    BY <1>4 DEF StoreRows, StoreCalculations
  <2> QED
    BY <1>1, <2>1, <2>2, <2>3, <2>4 DEF At, TypeOK, Attempt, Idle
<1>5. view' \in {"staging", "staged"} => batch'.status \notin Success
  BY <1>2, <1>4, ViewGoesOn DEF AttemptInv
<1>6. ASSUME NEW v \in Workers, worker'[v].at \in {"opening", "ingesting"}
      PROVE  batch'.status \notin Success
  <2>1. batch.status \notin Success
    BY <1>1, <1>6, AllEnter DEF EntersOpen, Enters, AttemptInv
  <2>2. ASSUME NEW w \in Workers PROVE ~ StoreRows(w)
    BY <1>4, <1>6
  <2> QED
    BY <1>2, <2>1, <2>2
<1>7. ASSUME NEW v \in Workers, worker'[v].at \in {"marking", "calculating"}
      PROVE  batch'.calc # "CALCULATED"
  <2>1. batch.calc # "CALCULATED"
    BY <1>1, <1>7, AllEnter DEF EntersOpen, Enters, AttemptInv
  <2>2. ASSUME NEW w \in Workers PROVE ~ StoreCalculations(w)
    BY <1>4, <1>7
  <2> QED
    BY <1>3, <2>1, <2>2
<1> QED
  BY <1>5, <1>6, <1>7 DEF AttemptInv

StandsInv == DeliveryInv /\ (DeliveredOnce => AttemptInv)

LEMMA StandsCorrect == Spec => []StandsInv
<1>1. Init => StandsInv
  <2> SUFFICES ASSUME Init PROVE AttemptInv
    BY InitDelivery DEF StandsInv
  <2>1. batch.status \notin Success /\ \A w \in Workers : worker[w].at = "idle"
    BY DEF Init, Success, Idle
  <2> QED
    BY <2>1 DEF AttemptInv
<1>2. StandsInv /\ [Next]_vars => StandsInv'
  <2> SUFFICES ASSUME StandsInv, [Next]_vars PROVE StandsInv'
    OBVIOUS
  <2>1. DeliveryInv /\ RowsInv /\ TypeOK
    BY DEF StandsInv, DeliveryInv, RowsInv
  <2>2. DeliveryInv'
    BY <2>1, NextDelivery
  <2>3. ASSUME DeliveredOnce' PROVE AttemptInv'
    <3>1. DeliveredOnce
      BY <2>1, <2>3, DeliveredOnceBefore
    <3>2. TokenInv /\ CalculatedInv /\ AttemptInv
      BY <2>1, <3>1 DEF StandsInv, DeliveryInv
    <3> QED
      BY <2>1, <3>2, AttemptStays
  <2> QED
    BY <2>2, <2>3 DEF StandsInv
<1> QED
  BY <1>1, <1>2, PTL DEF Spec

\* What a step leaves of an axis that has succeeded.
StatusStands == batch.status \in Success  => batch'.status \in Success \/ LateQueued
CalcStands   == batch.calc = "CALCULATED" => batch'.calc = "CALCULATED" \/ BumpLost

\* A save of the status alone, of the calculation status alone, or of neither.
LEMMA AxesApart ==
    ASSUME TypeOK
    PROVE  /\ batch' = batch => StatusStands /\ CalcStands
           /\ \A status : SetStatus(status) => batch'.status = status /\ CalcStands
           /\ \A calc : SetCalc(calc) => batch'.calc = calc /\ StatusStands
BY DEF TypeOK, BatchRow, SetStatus, SetCalc, StatusStands, CalcStands

\* What has succeeded is settled: nothing is settled as failed on top of it.
LEMMA SettleStands ==
    ASSUME TypeOK, NEW axis \in {"ingest", "calculate"}, Unsettled(axis), SettleAsFailed(axis)
    PROVE  StatusStands /\ CalcStands
<1>1. CASE axis = "ingest"
  <2>1. batch.status \notin Success /\ SetStatus("FAILED")
    BY <1>1 DEF Unsettled, SettleAsFailed, Terminal
  <2> QED
    BY <2>1, AxesApart DEF StatusStands
<1>2. CASE axis = "calculate"
  <2>1. batch.calc # "CALCULATED" /\ SetCalc("CALCULATION_FAILED")
    BY <1>2 DEF Unsettled, SettleAsFailed, CalculationTerminal
  <2> QED
    BY <2>1, AxesApart DEF CalcStands
<1> QED
  BY <1>1, <1>2

LEMMA UploadStands ==
    ASSUME TypeOK, AttemptInv, Upload
    PROVE  StatusStands /\ CalcStands
<1>1. CASE StageFileFails
  BY <1>1, AxesApart DEF StageFileFails, AttemptInv, StatusStands
<1>2. CASE MarkQueued
  BY <1>2, AxesApart DEF MarkQueued, StatusStands, LateQueued
<1> QED
  BY <1>1, <1>2, AxesApart DEF Upload, StageFile, Dispatch, DispatchRefused, ReadBack, ViewCrash

\* A whole-row save is that of the one ingest_task, whose copy is of an open batch.
LEMMA IngestStands ==
    ASSUME TypeOK, TokenInv, CalculatedInv, AttemptInv, NEW w \in Workers, Ingest(w)
    PROVE  StatusStands /\ CalcStands
<1>1. ASSUME worker[w].at \in {"opening", "ingesting"}
      PROVE  batch.status \notin Success /\ batch.calc # "CALCULATED"
  <2>1. worker[w] # Idle
    BY <1>1 DEF Idle
  <2>2. IngestOpen
    BY <1>1, <2>1 DEF TokenInv, Fits, IngestSteps, IngestOpen
  <2> QED
    BY <1>1, <2>2 DEF AttemptInv, CalculatedInv
<1>2. CASE SaveProcessing(w) \/ IngestFails(w) \/ StoreRows(w)
  BY <1>1, <1>2 DEF SaveProcessing, IngestFails, StoreRows, StatusStands, CalcStands
<1> QED
  BY <1>2, AxesApart
     DEF Ingest, StartIngest, SkipIngest, Start, Skip, OpenFileFails, FinishIngest,
         AIDispatchRefused, ChangesBrokerOnly

LEMMA CalculateStands ==
    ASSUME TypeOK, AttemptInv, NEW w \in Workers, Calculate(w)
    PROVE  StatusStands /\ CalcStands
<1>1. CASE MarkCalculating(w) \/ CalculationFails(w)
  <2>1. batch.calc # "CALCULATED"
    BY <1>1 DEF MarkCalculating, CalculationFails, AttemptInv
  <2> QED
    BY <1>1, <2>1, AxesApart DEF MarkCalculating, CalculationFails, CalcStands
<1>2. CASE StoreCalculations(w)
  BY <1>2, AxesApart DEF StoreCalculations, CalcStands
<1>3. CASE BumpFails(w)
  BY <1>3, AxesApart DEF BumpFails, Strike, CalcStands, BumpLost
<1> QED
  BY <1>1, <1>2, <1>3, AxesApart
     DEF Calculate, StartCalculate, SkipCalculate, Start, Skip, FinishCalculation,
         CalculationDispatchRefused, ChangesBrokerOnly

LEMMA FailStands ==
    ASSUME TypeOK, NEW w \in Workers, Fail(w)
    PROVE  StatusStands /\ CalcStands
<1>1. CASE FixStatus(w)
  <2>1. worker[w] \in Attempt
    BY <1>1, BusyWorker DEF FixStatus, TypeOK, Jobs
  <2>2. worker[w].msg.task \in {"ingest", "calculate"}
    BY <2>1 DEF Attempt, Messages
  <2> QED
    BY <1>1, <2>2, SettleStands, AxesApart DEF FixStatus
<1> QED
  BY <1>1, AxesApart
     DEF Fail, TransientFailure, RaiseFailure, LogDeadLetter, LoseWorker, LoseProcess, Redeliver,
         ChangesBrokerOnly

LEMMA OthersStand ==
    ASSUME TypeOK, Operate \/ Sweep
    PROVE  StatusStands /\ CalcStands
<1>1. CASE TimePasses
  <2>1. batch'.status = batch.status /\ batch'.calc = batch.calc
    BY <1>1 DEF TimePasses, TypeOK, BatchRow
  <2> QED
    BY <2>1 DEF StatusStands, CalcStands
<1>2. ASSUME NEW axis \in {"ingest", "calculate"}, SweepUpdate(axis)
      PROVE  StatusStands /\ CalcStands
  BY <1>2, SettleStands, AxesApart DEF SweepUpdate
<1> QED
  BY <1>1, <1>2, AxesApart
     DEF Operate, Replay, PurgeDeadLetters, BackfillRead, BackfillInsert, ChangesBackfillOnly,
         SendMail, Sweep, SweepSelect, SweepNotify, SweepCrash

\* What an axis has come to is not undone while nothing is delivered twice, but by
\* a late QUEUED of the view and by a cache that fails after the commit: sweep,
\* dead-letter handler, retry and stale save leave success alone.
THEOREM SuccessStandsTheorem == Spec => SuccessStands
<1>1. StandsInv /\ [Next]_vars =>
         [DeliveredOnce => /\ batch.status \in Success  => batch'.status \in Success \/ LateQueued
                           /\ batch.calc = "CALCULATED" => batch'.calc = "CALCULATED" \/ BumpLost]_vars
  <2> SUFFICES ASSUME StandsInv, Next, DeliveredOnce PROVE StatusStands /\ CalcStands
    BY DEF StatusStands, CalcStands
  <2>1. TypeOK /\ TokenInv /\ CalculatedInv /\ AttemptInv
    BY DEF StandsInv, DeliveryInv, RowsInv
  <2> QED
    BY <2>1, UploadStands, IngestStands, CalculateStands, FailStands, OthersStand DEF Next, Work
<1> QED
  BY <1>1, StandsCorrect, PTL DEF Spec, SuccessStands
=============================================================================
