----------------------------- MODULE AIGateway ------------------------------
(***************************************************************************)
(* AI calls of one organisation: the capability tasks that explain records *)
(* and narrate reports, the assistant that answers questions, and          *)
(* invoke_ai(), which all of them go through: the replay of an earlier     *)
(* answer, the tenant's policy, the lock on its policy row, the budget,    *)
(* the provider and the row that books the call.                           *)
(*                                                                         *)
(* Money is in units; a call that is answered costs 1..MaxCost of them.    *)
(***************************************************************************)
EXTENDS Integers, FiniteSets, Functions

CONSTANTS
    Workers,     \* processes that make AI calls: Celery workers and web requests
    Subjects,    \* what is explained or narrated: one idempotency key each
    Periods,     \* those that are report periods, narrated as often as asked
    Budget,      \* monthly_budget_usd
    MaxCost,     \* the highest cost of one call
    MaxEvents    \* edits, questions, crashes and the like, all in all

VARIABLES
    policy,   \* ai_tenantaipolicy, as far as it decides on calls
    context,  \* the version of the data that prompts are built from
    queue,    \* the task messages of each subject
    worker,   \* what each process is doing
    lock,     \* who holds the lock on the policy row
    ok,       \* the OK ai_aiinteraction of each subject: the context it is about
    spent,    \* SUM(cost_usd) of this month
    unbooked, \* charged by the provider and not in cost_usd (history)
    late,     \* provider calls the policy in force did not allow (history)
    output,   \* how many annotations, recommendations or narrations each has
    count     \* what has happened how often so far

vars == <<policy, context, queue, worker, lock, ok, spent, unbooked, late, output, count>>

ASSUME WorkersAssumption == IsFiniteSet(Workers) /\ "nobody" \notin Workers
ASSUME PeriodsAssumption == Periods \subseteq Subjects
ASSUME MoneyAssumption   == Budget \in Nat /\ MaxCost \in Nat \ {0}
ASSUME BoundAssumption   == MaxEvents \in Nat

-----------------------------------------------------------------------------
\* none: no row; off: ai_enabled is false; sealed: NO_EGRESS and a vendor.
Policies == {"none", "off", "sealed", "open"}
Contexts == Nat
None     == -1
Nobody   == "nobody"
NoKey    == "question"

Events == {"edits", "changes", "months", "questions", "requests", "redeliveries", "crashes", "losses"}

Idle  == [at |-> "idle"]
Steps == {"calling", "resolving", "waiting", "locked", "asking", "answered", "persisting", "persisted"}

\* seen: the policy resolved; built: the context of its prompt; about: the
\* context its answer is about.
Call(key) == [at |-> IF key = NoKey THEN "resolving" ELSE "calling", key |-> key,
              seen |-> "none", built |-> context, about |-> None, cost |-> 0]

\* The bound on what happens.
EventsLeft == FoldFunction(+, 0, count) < MaxEvents

Happens(what) ==
    /\ EventsLeft
    /\ count' = [count EXCEPT ![what] = @ + 1]

Goes(w, step) == worker' = [worker EXCEPT ![w].at = step]
Ends(w)       == worker' = [worker EXCEPT ![w] = Idle]
HasKey(w)     == worker[w].key # NoKey

\* The answer of the prior OK row, to be persisted as an output.
Replays(w) == worker' = [worker EXCEPT ![w].at = "persisting",
                                       ![w].about = ok[worker[w].key]]

ChangesWorkerOnly ==
    UNCHANGED <<policy, context, queue, ok, spent, unbooked, late, output, count>>

-----------------------------------------------------------------------------
(***************************************************************************)
(* The capability tasks and the assistant                                  *)
(***************************************************************************)

\* (mutant) Without exclude(ai_annotations__capability=...).
NeedsOutputAlways(k) == TRUE

\* A task skips what has its output already; a narration is made anew.
NeedsOutput(k) == k \in Periods \/ output[k] = 0

TakeTask(w, k) ==
    /\ worker[w] = Idle /\ queue[k] > 0
    /\ queue' = [queue EXCEPT ![k] = @ - 1]
    /\ worker' = [worker EXCEPT ![w] = IF NeedsOutput(k) THEN Call(k) ELSE Idle]
    /\ UNCHANGED <<policy, context, lock, ok, spent, unbooked, late, output, count>>

\* ask_esg_assistant(): no idempotency key.
Question(w) ==
    /\ worker[w] = Idle /\ Happens("questions")
    /\ worker' = [worker EXCEPT ![w] = Call(NoKey)]
    /\ UNCHANGED <<policy, context, queue, lock, ok, spent, unbooked, late, output>>

\* POST /api/report-narration/regenerate/
Regenerate(k) ==
    /\ k \in Periods /\ Happens("requests")
    /\ queue' = [queue EXCEPT ![k] = @ + 1]
    /\ UNCHANGED <<policy, context, worker, lock, ok, spent, unbooked, late, output>>

\* The parsed answer becomes an immutable row ...
Persist(w) ==
    /\ worker[w].at = "persisting"
    /\ Goes(w, "persisted")
    /\ output' = IF HasKey(w) THEN [output EXCEPT ![worker[w].key] = @ + 1] ELSE output
    /\ UNCHANGED <<policy, context, queue, lock, ok, spent, unbooked, late, count>>

\* ... and the message is acknowledged.
Finish(w) ==
    /\ worker[w].at = "persisted"
    /\ Ends(w)
    /\ ChangesWorkerOnly /\ UNCHANGED lock

-----------------------------------------------------------------------------
(***************************************************************************)
(* invoke_ai()                                                             *)
(***************************************************************************)

\* (mutant) A replay has no parsed body: the capability gives up.
ReplayPriorWithoutBody(w) ==
    /\ worker[w].at = "calling" /\ ok[worker[w].key] # None
    /\ Ends(w)
    /\ ChangesWorkerOnly /\ UNCHANGED lock

\* The short-circuit, before any policy or lock.
ReplayPrior(w) ==
    /\ worker[w].at = "calling" /\ ok[worker[w].key] # None
    /\ Replays(w)
    /\ ChangesWorkerOnly /\ UNCHANGED lock

NoPrior(w) ==
    /\ worker[w].at = "calling" /\ ok[worker[w].key] = None
    /\ Goes(w, "resolving")
    /\ ChangesWorkerOnly /\ UNCHANGED lock

\* (mutant) The policy of the organisation as the process first read it.
ResolvePolicyOnce(w) ==
    /\ worker[w].at = "resolving"
    /\ worker' = [worker EXCEPT ![w].at = "waiting", ![w].seen = "open"]
    /\ ChangesWorkerOnly /\ UNCHANGED lock

\* resolve_policy(); a disabled tenant is refused here, without the lock.
ResolvePolicy(w) ==
    /\ worker[w].at = "resolving"
    /\ IF policy \in {"none", "off"}
       THEN Ends(w)
       ELSE worker' = [worker EXCEPT ![w].at = "waiting", ![w].seen = policy]
    /\ ChangesWorkerOnly /\ UNCHANGED lock

\* (mutant) select_for_update() without effect, as on SQLite.
AcquireLockAnyway(w) ==
    /\ worker[w].at = "waiting" /\ policy # "none"
    /\ lock' = w
    /\ Goes(w, "locked")
    /\ ChangesWorkerOnly

AcquireLock(w) ==
    /\ worker[w].at = "waiting" /\ lock = Nobody /\ policy # "none"
    /\ lock' = w
    /\ Goes(w, "locked")
    /\ ChangesWorkerOnly

\* The row to lock has been deleted since: DoesNotExist.
LockMissing(w) ==
    /\ worker[w].at = "waiting" /\ policy = "none"
    /\ Ends(w)
    /\ ChangesWorkerOnly /\ UNCHANGED lock

Release(w) == lock' = IF lock = w THEN Nobody ELSE lock

\* (mutant) No second look once the lock is there.
PriorNeverFound(w) == FALSE

PriorFound(w) == HasKey(w) /\ ok[worker[w].key] # None

\* Another call answered the same key while this one waited.
ReplayLocked(w) ==
    /\ worker[w].at = "locked" /\ PriorFound(w)
    /\ Replays(w) /\ Release(w)
    /\ ChangesWorkerOnly

\* check_budget() and enforce_provider_allowed()
Admitted(w) == ~PriorFound(w) /\ spent < Budget /\ worker[w].seen # "sealed"

\* BUDGET_EXCEEDED, EGRESS_BLOCKED
Refuse(w) ==
    /\ worker[w].at = "locked" /\ ~PriorFound(w) /\ ~Admitted(w)
    /\ Ends(w) /\ Release(w)
    /\ ChangesWorkerOnly

\* The schema, the prompt and the provider are there: the request goes out.
CallProvider(w) ==
    /\ worker[w].at = "locked" /\ Admitted(w)
    /\ Goes(w, "asking")
    /\ late' = IF policy = "open" THEN late ELSE late + 1
    /\ UNCHANGED <<policy, context, queue, lock, ok, spent, unbooked, output, count>>

\* (mutant) The provider error leaves the transaction open.
CallFailsInLock(w) ==
    /\ worker[w].at \in {"locked", "asking"} /\ ~PriorFound(w)
    /\ Ends(w) /\ UNCHANGED lock
    /\ ChangesWorkerOnly

\* No schema, no provider, a provider error: an ERROR row without a cost, or
\* an exception that rolls everything back.
CallFails(w) ==
    /\ worker[w].at \in {"locked", "asking"} /\ ~PriorFound(w)
    /\ Ends(w) /\ Release(w)
    /\ ChangesWorkerOnly

ProviderAnswers(w, cost) ==
    /\ worker[w].at = "asking"
    /\ worker' = [worker EXCEPT ![w].at = "answered", ![w].cost = cost]
    /\ unbooked' = unbooked + cost
    /\ UNCHANGED <<policy, context, queue, lock, ok, spent, late, output, count>>

\* (mutant) The highest price, whatever the usage.
BookMaximum(w) ==
    /\ spent' = spent + MaxCost
    /\ unbooked' = unbooked - MaxCost

\* calculate_cost() of the usage, in the row.
Book(w) ==
    /\ spent' = spent + worker[w].cost
    /\ unbooked' = unbooked - worker[w].cost

\* (mutant) The answer read against the candidates of now.
RecordOkAboutNow(w) ==
    /\ worker[w].at = "answered"
    /\ Book(w) /\ Release(w)
    /\ ok' = IF HasKey(w) THEN [ok EXCEPT ![worker[w].key] = context] ELSE ok
    /\ worker' = [worker EXCEPT ![w].at = "persisting", ![w].about = context, ![w].cost = 0]
    /\ UNCHANGED <<policy, context, queue, late, output, count>>

\* The OK row is committed and the lock released.  The handler of the unique
\* constraint is left out: BackstopUnused says that it never runs.
RecordOk(w) ==
    /\ worker[w].at = "answered"
    /\ Book(w) /\ Release(w)
    /\ ok' = IF HasKey(w) THEN [ok EXCEPT ![worker[w].key] = worker[w].built] ELSE ok
    /\ worker' = [worker EXCEPT ![w].at = "persisting", ![w].about = worker[w].built,
                                       ![w].cost = 0]
    /\ UNCHANGED <<policy, context, queue, late, output, count>>

\* (mutant) Only OK rows carry their cost.
RecordInvalidFree(w) ==
    /\ worker[w].at = "answered"
    /\ Release(w) /\ Ends(w)
    /\ UNCHANGED <<policy, context, queue, ok, spent, unbooked, late, output, count>>

\* SCHEMA_INVALID: the answer is dropped, its cost is not.
RecordInvalid(w) ==
    /\ worker[w].at = "answered"
    /\ Book(w) /\ Release(w) /\ Ends(w)
    /\ UNCHANGED <<policy, context, queue, ok, late, output, count>>

-----------------------------------------------------------------------------
(***************************************************************************)
(* Everything else                                                         *)
(***************************************************************************)

\* What a dead process leaves: its transaction is rolled back, its lock free.
Dies(w) ==
    /\ worker[w] # Idle
    /\ Ends(w) /\ Release(w)
    /\ UNCHANGED <<policy, context, ok, spent, unbooked, late, output>>

\* The machine dies: acks_late, the broker delivers the message again.
Crash(w) ==
    /\ Dies(w) /\ Happens("crashes")
    /\ queue' = IF HasKey(w) THEN [queue EXCEPT ![worker[w].key] = @ + 1] ELSE queue

\* Only the pool process dies: its parent acknowledges the message.
LoseProcess(w) ==
    /\ Dies(w) /\ Happens("losses")
    /\ UNCHANGED queue

\* The broker delivers the message of w a second time.
Redeliver(w) ==
    /\ worker[w] # Idle /\ HasKey(w) /\ Happens("redeliveries")
    /\ queue' = [queue EXCEPT ![worker[w].key] = @ + 1]
    /\ UNCHANGED <<policy, context, worker, lock, ok, spent, unbooked, late, output>>

\* An UPDATE or DELETE of the policy row waits for its lock.
EditPolicy ==
    /\ lock = Nobody /\ Happens("edits")
    /\ policy' \in Policies \ {policy}
    /\ UNCHANGED <<context, queue, worker, lock, ok, spent, unbooked, late, output>>

\* A factor is imported, a record approved: the next prompt says so.
ContextChanges ==
    /\ Happens("changes") /\ context' = context + 1
    /\ UNCHANGED <<policy, queue, worker, lock, ok, spent, unbooked, late, output>>

\* created_at is the time of the write: what is in flight counts for the new month.
NewMonth ==
    /\ Happens("months") /\ spent' = 0
    /\ UNCHANGED <<policy, context, queue, worker, lock, ok, unbooked, late, output>>

-----------------------------------------------------------------------------
Init ==
    /\ policy = "open" /\ context = 0
    /\ queue = [k \in Subjects |-> 1]
    /\ worker = [w \in Workers |-> Idle] /\ lock = Nobody
    /\ ok = [k \in Subjects |-> None]
    /\ spent = 0 /\ unbooked = 0 /\ late = 0
    /\ output = [k \in Subjects |-> 0]
    /\ count = [e \in Events |-> 0]

\* What a process does with its call, until it is over.
Proceed(w) ==
    \/ ReplayPrior(w) \/ NoPrior(w) \/ ResolvePolicy(w)
    \/ AcquireLock(w) \/ LockMissing(w) \/ ReplayLocked(w)
    \/ Refuse(w) \/ CallProvider(w) \/ CallFails(w)
    \/ \E cost \in 1..MaxCost : ProviderAnswers(w, cost)
    \/ RecordOk(w) \/ RecordInvalid(w)
    \/ Persist(w) \/ Finish(w)

Take(w) == \E k \in Subjects : TakeTask(w, k)

Next ==
    \/ \E w \in Workers : Take(w) \/ Question(w) \/ Proceed(w)
                         \/ Crash(w) \/ LoseProcess(w) \/ Redeliver(w)
    \/ \E k \in Periods : Regenerate(k)
    \/ EditPolicy \/ ContextChanges \/ NewMonth

Spec == Init /\ [][Next]_vars

\* Workers take messages and go on with their calls; nothing else is bound to happen.
FairSpec == Spec /\ \A w \in Workers : WF_vars(Take(w)) /\ WF_vars(Proceed(w))

-----------------------------------------------------------------------------
(***************************************************************************)
(* Properties                                                              *)
(***************************************************************************)

Invocation == [at : Steps, key : Subjects \cup {NoKey}, seen : Policies, built : Contexts,
               about : Contexts \cup {None}, cost : 0..MaxCost]

TypeOK ==
    /\ policy \in Policies /\ context \in Contexts
    /\ queue \in [Subjects -> Nat] /\ output \in [Subjects -> Nat]
    /\ worker \in [Workers -> {Idle} \cup Invocation]
    /\ lock \in Workers \cup {Nobody}
    /\ ok \in [Subjects -> Contexts \cup {None}]
    /\ spent \in Nat /\ unbooked \in Nat /\ late \in Nat
    /\ count \in [Events -> Nat]

\* Under the lock nobody pays a provider for a key that has its OK row, so the
\* unique constraint behind it never has to refuse one.
BackstopUnused ==
    \A w \in Workers :
        worker[w].at \in {"asking", "answered"} /\ HasKey(w) => ok[worker[w].key] = None

\* However many calls run at once, and though a call may begin in one month and
\* be booked in the next, a month goes over its budget by less than one call.
BudgetHeld == Budget > 0 => spent < Budget + MaxCost

\* Whatever is not booked is being booked, or was lost with a process that died:
\* at most one call for each.
SpendBooked ==
    unbooked <= MaxCost * (count["crashes"] + count["losses"]
                           + Cardinality({w \in Workers : worker[w].at = "answered"}))

\* A tenant that disables AI, forbids egress or is deleted has at most one more
\* call per process, the one that had read its policy before.
LateCallsBounded == late <= Cardinality(Workers) * count["edits"]

\* Where no message is delivered twice, a record has at most one explanation,
\* though the crash of a worker makes its task run again.
OutputOnce ==
    count["redeliveries"] = 0 => \A k \in Subjects \ Periods : output[k] <= 1

\* An answer that was paid for is not lost with the worker that was to persist
\* it: its task comes back, replays it and makes the output, unless a pool process
\* has taken its message along.
OutputRecovered ==
    \A k \in Subjects : (ok[k] # None /\ queue[k] > 0) ~> (output[k] > 0 \/ count["losses"] > 0)

\* Every call ends, refused, failed, answered or crashed, and leaves no lock.
CallsEnd == <>[](lock = Nobody /\ \A w \in Workers : worker[w] = Idle)

\* What a capability persists is the answer to the prompt it built: the label of
\* a candidate factor means the factor that was listed under it, a narration is
\* of the data its request found.  Only a task that is run again, after a crash, a
\* redelivery or a request to, may replay an answer about the data of then.
AnswersOwnPrompt ==
    (\E w \in Workers : worker[w].at = "persisting" /\ worker[w].about # worker[w].built)
        => count["crashes"] + count["redeliveries"] + count["requests"] > 0
=============================================================================
