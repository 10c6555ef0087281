-------------------------- MODULE AIGateway_proofs ---------------------------
(***************************************************************************)
(* Theorems about AIGateway, for any number of processes, subjects and     *)
(* events, any budget and any prices.                                      *)
(***************************************************************************)
EXTENDS AIGateway, FiniteSetTheorems, TLAPS

-----------------------------------------------------------------------------
(***************************************************************************)
(* Types, and what the lock is good for                                    *)
(***************************************************************************)

Paying == {"asking", "answered"}

\* Who is past the lock holds it; who pays has found no OK row and some budget
\* left, which stay so for as long as it holds the lock.
Held(w) ==
    /\ worker[w].at \in Paying \cup {"locked"} => lock = w
    /\ worker[w].at = "calling" => HasKey(w)
    /\ worker[w].at \in Paying => spent < Budget /\ (HasKey(w) => ok[worker[w].key] = None)
    /\ worker[w].at = "answered" => worker[w].cost <= unbooked

LockInv == TypeOK /\ BudgetHeld /\ \A w \in Workers : Held(w)

LEMMA BusyProcess ==
    ASSUME TypeOK, NEW w \in Workers, worker[w] # Idle \/ worker[w].at # "idle"
    PROVE  worker[w] \in Invocation /\ worker[w] # Idle
BY DEF TypeOK, Idle, Invocation, Steps

\* A step of one call that touches its record and its lock, no more.
LEMMA StepType ==
    ASSUME TypeOK, NEW w \in Workers, NEW call \in {Idle} \cup Invocation,
           worker' = [worker EXCEPT ![w] = call], lock' \in {lock, w, Nobody},
           ChangesWorkerOnly
    PROVE  TypeOK'
BY DEF TypeOK, ChangesWorkerOnly

LEMMA CallHeld ==
    ASSUME LockInv, TypeOK', NEW w \in Workers, NEW call \in {Idle} \cup Invocation,
           worker' = [worker EXCEPT ![w] = call],
           UNCHANGED <<ok, spent, unbooked>>,
           call.at \in Paying \cup {"locked"} => lock' = w,
           call.at = "calling" => call.key # NoKey,
           call.at \notin Paying,
           lock' = lock \/ (lock' = w /\ lock = Nobody) \/ (lock' = Nobody /\ lock = w)
    PROVE  LockInv'
<1>1. BudgetHeld'
  BY DEF LockInv, BudgetHeld
<1>2. ASSUME NEW v \in Workers PROVE Held(v)'
  <2>1. CASE v = w
    BY <2>1 DEF LockInv, TypeOK, Held, HasKey, Paying
  <2>2. CASE v # w
    <3>1. worker'[v] = worker[v]
      BY <2>2 DEF LockInv, TypeOK
    <3>2. Held(v)
      BY DEF LockInv
    <3>3. lock = v => lock' = v
      BY <2>2, WorkersAssumption DEF Nobody
    <3> QED
      BY <3>1, <3>2, <3>3 DEF Held, HasKey, Paying
  <2> QED
    BY <2>1, <2>2
<1> QED
  BY <1>1, <1>2 DEF LockInv

LEMMA StepHeld ==
    ASSUME LockInv, NEW w \in Workers, NEW call \in {Idle} \cup Invocation,
           worker' = [worker EXCEPT ![w] = call],
           ChangesWorkerOnly,
           call.at \in Paying \cup {"locked"} => lock' = w,
           call.at = "calling" => call.key # NoKey,
           call.at \notin Paying,
           lock' = lock \/ (lock' = w /\ lock = Nobody) \/ (lock' = Nobody /\ lock = w)
    PROVE  LockInv'
<1>1. TypeOK'
  BY StepType DEF LockInv
<1>2. UNCHANGED <<ok, spent, unbooked>>
  BY DEF ChangesWorkerOnly
<1> QED
  BY <1>1, <1>2, CallHeld

LEMMA GoesTo ==
    ASSUME TypeOK, NEW w \in Workers, worker[w] \in Invocation, NEW step, Goes(w, step)
    PROVE  worker' = [worker EXCEPT ![w] = [worker[w] EXCEPT !.at = step]]
BY DEF TypeOK, Goes

LEMMA EndsTo ==
    ASSUME NEW w \in Workers, Ends(w)
    PROVE  worker' = [worker EXCEPT ![w] = Idle]
BY DEF Ends

LEMMA ReplaysTo ==
    ASSUME TypeOK, NEW w \in Workers, worker[w] \in Invocation, Replays(w)
    PROVE  worker' = [worker EXCEPT ![w] = [worker[w] EXCEPT !.at = "persisting",
                                                             !.about = ok[worker[w].key]]]
BY DEF TypeOK, Replays

\* The steps of a call before and after the lock, and those that refuse it.
LEMMA ProceedOutside ==
    ASSUME LockInv, NEW w \in Workers,
           \/ ReplayPrior(w) \/ NoPrior(w) \/ ResolvePolicy(w) \/ AcquireLock(w)
           \/ LockMissing(w) \/ ReplayLocked(w) \/ Refuse(w) \/ CallFails(w) \/ Finish(w)
    PROVE  LockInv'
<1>1. TypeOK /\ worker[w] \in Invocation
  BY BusyProcess DEF LockInv, ReplayPrior, NoPrior, ResolvePolicy, AcquireLock, LockMissing,
     ReplayLocked, Refuse, CallFails, Finish
<1>2. Held(w)
  BY DEF LockInv
<1> DEFINE went(step) == [worker[w] EXCEPT !.at = step]
           replayed   == [worker[w] EXCEPT !.at = "persisting", !.about = ok[worker[w].key]]
           resolved   == [worker[w] EXCEPT !.at = "waiting", !.seen = policy]
<1>3. \A step \in Steps : went(step) \in Invocation /\ went(step).at = step
  BY <1>1 DEF Invocation, Steps
<1>4. worker[w].key \in Subjects => replayed \in Invocation /\ replayed.at = "persisting"
  BY <1>1 DEF Invocation, Steps, TypeOK
<1>5. resolved \in Invocation /\ resolved.at = "waiting"
  BY <1>1 DEF Invocation, Steps, TypeOK
<1>6. HasKey(w) => worker[w].key \in Subjects
  BY <1>1 DEF HasKey, Invocation
<1>7. Idle.at = "idle" /\ {"locked", "asking", "persisting", "resolving", "waiting"} \subseteq Steps
  BY DEF Idle, Steps
<1> HIDE DEF went, replayed, resolved
<1>10. CASE ReplayPrior(w)
  <2>1. worker' = [worker EXCEPT ![w] = replayed]
    BY <1>1, <1>10, ReplaysTo DEF ReplayPrior, replayed
  <2> QED
    BY <1>10, <1>2, <1>4, <1>6, <2>1, StepHeld DEF ReplayPrior, Held, Paying
<1>11. CASE NoPrior(w)
  <2>1. worker' = [worker EXCEPT ![w] = went("resolving")]
    BY <1>1, <1>11, GoesTo DEF NoPrior, went
  <2> QED
    BY <1>11, <1>3, <1>7, <2>1, StepHeld DEF NoPrior, Paying
<1>12. CASE ResolvePolicy(w)
  <2>1. CASE policy \in {"none", "off"}
    BY <1>12, <1>7, <2>1, EndsTo, StepHeld DEF ResolvePolicy, Paying
  <2>2. CASE policy \notin {"none", "off"}
    <3>1. worker' = [worker EXCEPT ![w] = resolved]
      BY <1>1, <1>12, <2>2 DEF ResolvePolicy, resolved, TypeOK
    <3> QED
      BY <1>12, <1>5, <3>1, StepHeld DEF ResolvePolicy, Paying
  <2> QED
    BY <2>1, <2>2
<1>13. CASE AcquireLock(w)
  <2>1. worker' = [worker EXCEPT ![w] = went("locked")]
    BY <1>1, <1>13, GoesTo DEF AcquireLock, went
  <2> QED
    BY <1>13, <1>3, <1>7, <2>1, StepHeld DEF AcquireLock, Paying
<1>14. CASE LockMissing(w)
  BY <1>14, <1>7, EndsTo, StepHeld DEF LockMissing, Paying
<1>15. CASE ReplayLocked(w)
  <2>1. worker' = [worker EXCEPT ![w] = replayed]
    BY <1>1, <1>15, ReplaysTo DEF ReplayLocked, replayed
  <2> QED
    BY <1>15, <1>4, <1>6, <2>1, StepHeld DEF ReplayLocked, PriorFound, Release, Paying
<1>16. CASE Refuse(w)
  BY <1>16, <1>7, EndsTo, StepHeld DEF Refuse, Release, Paying
<1>17. CASE CallFails(w)
  BY <1>17, <1>7, EndsTo, StepHeld DEF CallFails, Release, Paying
<1>18. CASE Finish(w)
  BY <1>18, <1>7, EndsTo, StepHeld DEF Finish, Paying
<1> QED
  BY <1>10, <1>11, <1>12, <1>13, <1>14, <1>15, <1>16, <1>17, <1>18

\* Who pays is alone in it, for the lock is held by one.
LEMMA PaysAlone ==
    ASSUME LockInv, NEW v \in Workers, NEW w \in Workers,
           worker[v].at \in Paying \cup {"locked"}, worker[w].at \in Paying \cup {"locked"}
    PROVE  v = w
BY DEF LockInv, Held

LEMMA ProceedPaying ==
    ASSUME LockInv, NEW w \in Workers,
           \/ CallProvider(w) \/ \E cost \in 1..MaxCost : ProviderAnswers(w, cost)
    PROVE  LockInv'
<1>1. TypeOK /\ worker[w] \in Invocation /\ Held(w) /\ BudgetHeld
  BY BusyProcess DEF LockInv, CallProvider, ProviderAnswers
<1>2. BudgetHeld' /\ UNCHANGED <<spent, ok, lock>>
  BY <1>1 DEF CallProvider, ProviderAnswers, BudgetHeld
<1>3. ASSUME NEW v \in Workers, v # w PROVE Held(v)'
  <2>1. worker'[v] = worker[v] /\ Held(v)
    BY <1>1, <1>3 DEF CallProvider, ProviderAnswers, Goes, TypeOK, LockInv
  <2>2. worker[v].at \notin Paying
    BY <1>3, PaysAlone DEF CallProvider, ProviderAnswers, Paying
  <2> QED
    BY <1>2, <2>1, <2>2 DEF Held, HasKey, Paying
<1>4. CASE CallProvider(w)
  <2>1. worker' = [worker EXCEPT ![w] = [worker[w] EXCEPT !.at = "asking"]]
    BY <1>1, <1>4, GoesTo DEF CallProvider
  <2>2. [worker[w] EXCEPT !.at = "asking"] \in Invocation
    BY <1>1 DEF Invocation, Steps
  <2>3. TypeOK'
    BY <1>1, <1>4, <2>1, <2>2 DEF CallProvider, TypeOK
  <2>4. Held(w)'
    BY <1>1, <1>4, <2>1, MoneyAssumption
       DEF CallProvider, Held, Admitted, PriorFound, HasKey, TypeOK, Invocation, Paying
  <2> QED
    BY <1>2, <1>3, <2>3, <2>4 DEF LockInv
<1>5. ASSUME NEW cost \in 1..MaxCost, ProviderAnswers(w, cost) PROVE LockInv'
  <2> DEFINE call == [worker[w] EXCEPT !.at = "answered", !.cost = cost]
  <2>0. cost \in Nat /\ cost \in 0..MaxCost
    BY MoneyAssumption
  <2>1. worker' = [worker EXCEPT ![w] = call]
    BY <1>1, <1>5 DEF ProviderAnswers, TypeOK
  <2>2. call \in Invocation /\ call.at = "answered" /\ call.cost = cost /\ call.key = worker[w].key
    BY <1>1, <2>0 DEF Invocation, Steps
  <2> HIDE DEF call
  <2>3. unbooked \in Nat /\ unbooked' = unbooked + cost
    BY <1>1, <1>5 DEF ProviderAnswers, TypeOK
  <2>4. unbooked' \in Nat /\ unbooked' >= cost
    BY <2>0, <2>3
  <2>5. worker' \in [Workers -> {Idle} \cup Invocation] /\ worker'[w] = call
    BY <1>1, <2>1, <2>2 DEF TypeOK
  <2>6. TypeOK'
    BY <1>1, <1>5, <2>4, <2>5 DEF ProviderAnswers, TypeOK
  <2>7. Held(w)'
    BY <1>1, <1>2, <1>5, <2>2, <2>4, <2>5 DEF ProviderAnswers, Held, HasKey, Paying
  <2> QED
    BY <1>2, <1>3, <2>6, <2>7 DEF LockInv
<1> QED
  BY <1>4, <1>5

LEMMA ProceedBooking ==
    ASSUME LockInv, NEW w \in Workers, RecordOk(w) \/ RecordInvalid(w)
    PROVE  LockInv'
<1>1. TypeOK /\ worker[w] \in Invocation /\ Held(w) /\ BudgetHeld
  BY BusyProcess DEF LockInv, RecordOk, RecordInvalid
<1>2. worker[w].at = "answered" /\ Book(w) /\ lock = w /\ lock' = Nobody
  BY <1>1 DEF RecordOk, RecordInvalid, Release, Held, Paying
<1>3. spent' \in Nat /\ unbooked' \in Nat /\ BudgetHeld'
  BY <1>1, <1>2, MoneyAssumption DEF Book, TypeOK, Invocation, Held, BudgetHeld, Paying
<1> DEFINE call == IF RecordOk(w)
                   THEN [worker[w] EXCEPT !.at = "persisting", !.about = worker[w].built, !.cost = 0]
                   ELSE Idle
<1>4. worker' = [worker EXCEPT ![w] = call]
  BY <1>1 DEF RecordOk, RecordInvalid, Ends, TypeOK
<1>5. call \in {Idle} \cup Invocation /\ call.at \in {"idle", "persisting"}
  <2>1. 0 \in 0..MaxCost
    BY MoneyAssumption
  <2>2. [worker[w] EXCEPT !.at = "persisting", !.about = worker[w].built, !.cost = 0] \in Invocation
    BY <1>1, <2>1 DEF Invocation, Steps
  <2>3. CASE RecordOk(w)
    BY <1>1, <2>2, <2>3 DEF Invocation
  <2>4. CASE ~RecordOk(w)
    BY <2>4 DEF Idle
  <2> QED
    BY <2>3, <2>4
<1> HIDE DEF call
<1>6. ok' \in [Subjects -> Contexts \cup {None}]
  BY <1>1 DEF RecordOk, RecordInvalid, TypeOK, Invocation, HasKey
<1>7. TypeOK'
  BY <1>1, <1>2, <1>3, <1>4, <1>5, <1>6 DEF TypeOK, RecordOk, RecordInvalid
<1>8. ASSUME NEW v \in Workers PROVE Held(v)'
  <2>1. CASE v = w
    BY <1>1, <1>4, <1>5, <2>1 DEF Held, Paying, TypeOK
  <2>2. CASE v # w
    <3>1. worker'[v] = worker[v] /\ Held(v)
      BY <1>1, <1>4, <2>2 DEF TypeOK, LockInv
    <3>2. worker[v].at \notin Paying \cup {"locked"}
      BY <1>2, <2>2, PaysAlone DEF Paying
    <3> QED
      BY <3>1, <3>2 DEF Held, HasKey, Paying
  <2> QED
    BY <2>1, <2>2
<1> QED
  BY <1>3, <1>7, <1>8 DEF LockInv

\* Taking a message, asking a question, persisting an answer, dying.
LEMMA WorkerHeld ==
    ASSUME LockInv, NEW w \in Workers,
           \/ Take(w) \/ Question(w) \/ Persist(w) \/ Crash(w) \/ LoseProcess(w)
    PROVE  LockInv'
<1>1. TypeOK
  BY DEF LockInv
<1>2. ASSUME NEW key \in Subjects \cup {NoKey}
      PROVE  Call(key) \in Invocation /\ Call(key).at \in {"calling", "resolving"}
             /\ Call(key).key = key /\ (Call(key).at = "calling" => key # NoKey)
  BY <1>1, MoneyAssumption DEF Call, Invocation, Steps, TypeOK, Policies
<1>3. ASSUME NEW k \in Subjects, TakeTask(w, k) PROVE LockInv'
  <2> DEFINE call == IF NeedsOutput(k) THEN Call(k) ELSE Idle
  <2>1. call \in {Idle} \cup Invocation /\ call.at \notin Paying \cup {"locked"}
        /\ (call.at = "calling" => call.key # NoKey)
    BY <1>2 DEF Paying, Idle
  <2>2. worker' = [worker EXCEPT ![w] = call]
    BY <1>3 DEF TakeTask
  <2> HIDE DEF call
  <2>3. TypeOK'
    BY <1>1, <1>3, <2>1, <2>2 DEF TakeTask, TypeOK
  <2> QED
    BY <1>3, <2>1, <2>2, <2>3, CallHeld DEF TakeTask
<1>4. CASE Question(w)
  <2> DEFINE call == Call(NoKey)
  <2>1. call \in {Idle} \cup Invocation /\ call.at \notin Paying \cup {"locked"}
        /\ (call.at = "calling" => call.key # NoKey)
    BY <1>2 DEF Paying
  <2>2. worker' = [worker EXCEPT ![w] = call]
    BY <1>4 DEF Question
  <2> HIDE DEF call
  <2>3. TypeOK'
    BY <1>1, <1>4, <2>1, <2>2 DEF Question, TypeOK, Happens, Events
  <2> QED
    BY <1>4, <2>1, <2>2, <2>3, CallHeld DEF Question
<1>5. CASE Persist(w)
  <2> DEFINE call == [worker[w] EXCEPT !.at = "persisted"]
  <2>0. worker[w] \in Invocation
    BY <1>1, <1>5, BusyProcess DEF Persist
  <2>1. call \in Invocation /\ call.at = "persisted"
    BY <2>0 DEF Invocation, Steps
  <2>2. worker' = [worker EXCEPT ![w] = call]
    BY <1>1, <1>5, <2>0, GoesTo DEF Persist
  <2> HIDE DEF call
  <2>3. output' \in [Subjects -> Nat]
    BY <1>1, <1>5, <2>0 DEF Persist, TypeOK, HasKey, Invocation
  <2>4. TypeOK'
    BY <1>1, <1>5, <2>1, <2>2, <2>3 DEF Persist, TypeOK
  <2> QED
    BY <1>5, <2>1, <2>2, <2>4, CallHeld DEF Persist, Paying
<1>6. CASE Crash(w) \/ LoseProcess(w)
  <2>1. worker[w] \in Invocation
    BY <1>1, <1>6, BusyProcess DEF Crash, LoseProcess, Dies
  <2>2. worker' = [worker EXCEPT ![w] = Idle] /\ lock' = (IF lock = w THEN Nobody ELSE lock)
    BY <1>6 DEF Crash, LoseProcess, Dies, Ends, Release
  <2>3. queue' \in [Subjects -> Nat] /\ count' \in [Events -> Nat]
    BY <1>1, <1>6, <2>1 DEF Crash, LoseProcess, TypeOK, Happens, Events, HasKey, Invocation
  <2>4. UNCHANGED <<policy, context, ok, spent, unbooked, late, output>>
    BY <1>6 DEF Crash, LoseProcess, Dies
  <2>5. TypeOK'
    BY <1>1, <2>2, <2>3, <2>4 DEF TypeOK
  <2> QED
    BY <2>2, <2>4, <2>5, CallHeld DEF Idle, Paying
<1> QED
  BY <1>3, <1>4, <1>5, <1>6 DEF Take

LEMMA EventHeld ==
    ASSUME LockInv,
           \/ \E w \in Workers : Redeliver(w)
           \/ \E k \in Periods : Regenerate(k)
           \/ EditPolicy \/ ContextChanges \/ NewMonth
    PROVE  LockInv'
<1>1. TypeOK /\ BudgetHeld
  BY DEF LockInv
<1>2. UNCHANGED <<worker, lock, ok, unbooked, late, output>>
  BY DEF Redeliver, Regenerate, EditPolicy, ContextChanges, NewMonth
<1>3. spent' = spent \/ spent' = 0
  BY DEF Redeliver, Regenerate, EditPolicy, ContextChanges, NewMonth
<1>4. count' \in [Events -> Nat]
  BY <1>1 DEF Redeliver, Regenerate, EditPolicy, ContextChanges, NewMonth, Happens, TypeOK, Events
<1>5. policy' \in Policies /\ context' \in Contexts
  BY <1>1 DEF Redeliver, Regenerate, EditPolicy, ContextChanges, NewMonth, TypeOK, Contexts
<1>6. queue' \in [Subjects -> Nat]
  <2>1. ASSUME NEW w \in Workers, Redeliver(w) PROVE queue' \in [Subjects -> Nat]
    <3>1. worker[w].key \in Subjects
      BY <1>1, <2>1, BusyProcess DEF Redeliver, HasKey, Invocation
    <3> QED
      BY <1>1, <2>1, <3>1 DEF Redeliver, TypeOK
  <2>2. ASSUME NEW k \in Periods, Regenerate(k) PROVE queue' \in [Subjects -> Nat]
    BY <1>1, <2>2, PeriodsAssumption DEF Regenerate, TypeOK
  <2>3. CASE EditPolicy \/ ContextChanges \/ NewMonth
    BY <1>1, <2>3 DEF EditPolicy, ContextChanges, NewMonth, TypeOK
  <2> QED
    BY <2>1, <2>2, <2>3
<1>7. TypeOK'
  BY <1>1, <1>2, <1>3, <1>4, <1>5, <1>6 DEF TypeOK
<1>8. BudgetHeld'
  BY <1>1, <1>3, MoneyAssumption DEF BudgetHeld
<1>9. ASSUME NEW v \in Workers PROVE Held(v)'
  <2>1. Held(v)
    BY DEF LockInv
  <2> QED
    BY <1>1, <1>2, <1>3, <2>1, MoneyAssumption DEF Held, HasKey, TypeOK, Paying
<1> QED
  BY <1>7, <1>8, <1>9 DEF LockInv

THEOREM LockTheorem == Spec => []LockInv
<1>1. Init => LockInv
  BY MoneyAssumption DEF Init, LockInv, TypeOK, BudgetHeld, Held, Paying, Idle, Policies, Contexts, None, Nobody
<1>2. LockInv /\ [Next]_vars => LockInv'
  <2> SUFFICES ASSUME LockInv, [Next]_vars PROVE LockInv'
    OBVIOUS
  <2>1. CASE UNCHANGED vars
    <3>1. TypeOK' /\ BudgetHeld'
      BY <2>1 DEF vars, LockInv, TypeOK, BudgetHeld
    <3>2. ASSUME NEW v \in Workers PROVE Held(v)'
      BY <2>1 DEF vars, LockInv, Held, HasKey
    <3> QED
      BY <3>1, <3>2 DEF LockInv
  <2>2. ASSUME NEW w \in Workers, Proceed(w) PROVE LockInv'
    BY <2>2, ProceedOutside, ProceedPaying, ProceedBooking, WorkerHeld DEF Proceed
  <2>3. CASE Next
    BY <2>2, <2>3, WorkerHeld, EventHeld DEF Next
  <2> QED
    BY <2>1, <2>3
<1> QED
  BY <1>1, <1>2, PTL DEF Spec

\* Every variable keeps its type: money and counters never fall below zero.
THEOREM TypeCorrect == Spec => []TypeOK
BY LockTheorem, PTL DEF LockInv

\* The provider is never paid for a key that has its answer already.
THEOREM BackstopTheorem == Spec => []BackstopUnused
<1>1. LockInv => BackstopUnused
  BY DEF LockInv, Held, BackstopUnused, Paying
<1> QED
  BY <1>1, LockTheorem, PTL

\* A month never goes over its budget by a whole call.
THEOREM BudgetTheorem == Spec => []BudgetHeld
BY LockTheorem, PTL DEF LockInv

-----------------------------------------------------------------------------
(***************************************************************************)
(* What is spent and not booked                                            *)
(***************************************************************************)

Deaths == count["crashes"] + count["losses"]

\* One call per death, and the one that is being booked.
SpendInv ==
    /\ (\A w \in Workers : worker[w].at # "answered") => unbooked <= MaxCost * Deaths
    /\ \A w \in Workers :
          worker[w].at = "answered" => unbooked <= MaxCost * Deaths + worker[w].cost

\* A step that neither charges nor books nor kills.
LEMMA SpendQuiet ==
    ASSUME SpendInv, unbooked' = unbooked, Deaths' = Deaths,
           \A v \in Workers : worker'[v].at = "answered" \/ worker[v].at = "answered"
                              => worker'[v] = worker[v]
    PROVE  SpendInv'
BY DEF SpendInv

LEMMA CountType ==
    ASSUME TypeOK, NEW what \in Events, Happens(what)
    PROVE  /\ count'[what] = count[what] + 1
           /\ \A e \in Events \ {what} : count'[e] = count[e]
BY DEF TypeOK, Happens

LEMMA SpendProceed ==
    ASSUME LockInv, SpendInv, NEW w \in Workers, Proceed(w)
    PROVE  SpendInv'
<1>1. TypeOK /\ Held(w) /\ worker[w] \in Invocation
  BY BusyProcess DEF LockInv, Proceed, ReplayPrior, NoPrior, ResolvePolicy, AcquireLock,
     LockMissing, ReplayLocked, Refuse, CallProvider, CallFails, ProviderAnswers, RecordOk,
     RecordInvalid, Persist, Finish
<1>2. MaxCost \in Nat /\ Deaths \in Nat /\ MaxCost * Deaths \in Nat
  BY <1>1, MoneyAssumption DEF TypeOK, Deaths, Events
<1>3. count' = count /\ \A v \in Workers \ {w} : worker'[v] = worker[v]
  BY <1>1 DEF TypeOK, Proceed, ReplayPrior, NoPrior, ResolvePolicy, AcquireLock,
     LockMissing, ReplayLocked, Refuse, CallProvider, CallFails, ProviderAnswers, RecordOk,
     RecordInvalid, Persist, Finish, ChangesWorkerOnly, Goes, Ends, Replays
<1>4. Deaths' = Deaths
  BY <1>3 DEF Deaths
<1>5. ASSUME NEW cost \in 1..MaxCost, ProviderAnswers(w, cost) PROVE SpendInv'
  <2>1. \A v \in Workers : worker[v].at # "answered"
    BY <1>5, PaysAlone DEF ProviderAnswers, Paying
  <2>2. unbooked <= MaxCost * Deaths
    BY <2>1 DEF SpendInv
  <2>3. unbooked' = unbooked + cost /\ worker'[w].at = "answered" /\ worker'[w].cost = cost
    BY <1>1, <1>5 DEF ProviderAnswers, TypeOK, Invocation
  <2>4. unbooked' <= MaxCost * Deaths + cost
    BY <1>1, <1>2, <2>2, <2>3, MoneyAssumption DEF TypeOK
  <2> HIDE DEF Deaths
  <2> QED
    BY <1>3, <1>4, <2>1, <2>3, <2>4 DEF SpendInv
<1>6. CASE RecordOk(w) \/ RecordInvalid(w)
  <2>1. worker[w].at = "answered" /\ Book(w)
    BY <1>6 DEF RecordOk, RecordInvalid
  <2>2. worker'[w].at # "answered"
    BY <1>1, <1>6 DEF RecordOk, RecordInvalid, Ends, Idle, TypeOK, Invocation
  <2>3. \A v \in Workers : worker'[v].at # "answered"
    BY <1>3, <2>1, <2>2, PaysAlone DEF Paying
  <2>4. unbooked <= MaxCost * Deaths + worker[w].cost
    BY <2>1 DEF SpendInv
  <2>5. unbooked' <= MaxCost * Deaths
    BY <1>1, <1>2, <2>1, <2>4 DEF Book, TypeOK, Invocation
  <2> QED
    BY <1>4, <2>3, <2>5 DEF SpendInv
<1>7. CASE ~(RecordOk(w) \/ RecordInvalid(w)) /\ ~\E cost \in 1..MaxCost : ProviderAnswers(w, cost)
  <2>1. unbooked' = unbooked /\ worker[w].at # "answered" /\ worker'[w].at # "answered"
    BY <1>1, <1>7 DEF TypeOK, Invocation, Proceed, ReplayPrior, NoPrior, ResolvePolicy, AcquireLock,
       LockMissing, ReplayLocked, Refuse, CallProvider, CallFails, Persist, Finish,
       ChangesWorkerOnly, Goes, Ends, Replays, Idle
  <2> QED
    BY <1>3, <1>4, <2>1, SpendQuiet
<1> QED
  BY <1>5, <1>6, <1>7

LEMMA SpendDies ==
    ASSUME LockInv, SpendInv, NEW w \in Workers, Crash(w) \/ LoseProcess(w)
    PROVE  SpendInv'
<1>1. TypeOK /\ worker[w] \in Invocation
  BY BusyProcess DEF LockInv, Crash, LoseProcess, Dies
<1>2. MaxCost \in Nat /\ Deaths \in Nat /\ Deaths' = Deaths + 1
  BY <1>1, CountType, MoneyAssumption DEF TypeOK, Deaths, Events, Crash, LoseProcess
<1>3. unbooked' = unbooked /\ worker' = [worker EXCEPT ![w] = Idle]
  BY DEF Crash, LoseProcess, Dies, Ends
<1>4. worker'[w].at # "answered" /\ \A v \in Workers \ {w} : worker'[v] = worker[v]
  BY <1>1, <1>3 DEF TypeOK, Idle
<1>5. MaxCost * Deaths' = MaxCost * Deaths + MaxCost /\ MaxCost * Deaths \in Nat
  BY <1>2
<1> DEFINE lost  == MaxCost * Deaths
           lostn == MaxCost * Deaths'
<1>6. lostn = lost + MaxCost /\ lost \in Nat /\ lostn \in Nat
  BY <1>2, <1>5
<1>7. CASE worker[w].at = "answered"
  <2>1. \A v \in Workers : worker'[v].at # "answered"
    BY <1>4, <1>7, PaysAlone DEF Paying
  <2>2. unbooked <= lost + worker[w].cost /\ worker[w].cost \in Nat /\ worker[w].cost <= MaxCost
    BY <1>1, <1>7, MoneyAssumption DEF SpendInv, Invocation
  <2>3. unbooked \in Nat
    BY <1>1 DEF TypeOK
  <2> HIDE DEF lost, lostn
  <2>4. unbooked' <= lostn
    BY <1>2, <1>3, <1>6, <2>2, <2>3
  <2> QED
    BY <2>1, <2>4 DEF SpendInv, lostn
<1>8. CASE worker[w].at # "answered"
  <2>1. \A v \in Workers : worker'[v].at = "answered" => worker'[v] = worker[v] /\ worker[v].at = "answered"
    BY <1>4
  <2>2. (\A v \in Workers : worker'[v].at # "answered") => unbooked <= lost
    BY <1>4, <1>8 DEF SpendInv
  <2>3. \A v \in Workers : worker[v].at = "answered"
                           => unbooked <= lost + worker[v].cost /\ worker[v].cost \in Nat
    <3> SUFFICES ASSUME NEW v \in Workers, worker[v].at = "answered"
                 PROVE  unbooked <= lost + worker[v].cost /\ worker[v].cost \in Nat
      OBVIOUS
    <3>1. worker[v] \in Invocation
      BY <1>1, BusyProcess
    <3> QED
      BY <3>1, MoneyAssumption DEF SpendInv, Invocation
  <2>4. unbooked \in Nat
    BY <1>1 DEF TypeOK
  <2> HIDE DEF lost, lostn
  <2>5. (\A v \in Workers : worker'[v].at # "answered") => unbooked' <= lostn
    BY <1>2, <1>3, <1>6, <2>2, <2>4
  <2>6. \A v \in Workers : worker'[v].at = "answered" => unbooked' <= lostn + worker'[v].cost
    BY <1>2, <1>3, <1>6, <2>1, <2>3, <2>4
  <2> QED
    BY <2>5, <2>6 DEF SpendInv, lostn
<1> QED
  BY <1>7, <1>8

LEMMA SpendOther ==
    ASSUME LockInv, SpendInv, NEW w \in Workers,
           Take(w) \/ Question(w) \/ Redeliver(w)
    PROVE  SpendInv'
<1>1. TypeOK
  BY DEF LockInv
<1>2. unbooked' = unbooked
  BY DEF Take, TakeTask, Question, Redeliver
<1>3. Deaths' = Deaths
  BY <1>1, CountType DEF Deaths, Events, Take, TakeTask, Question, Redeliver
<1>4. ASSUME NEW v \in Workers, worker'[v].at = "answered" \/ worker[v].at = "answered"
      PROVE  worker'[v] = worker[v]
  BY <1>1, <1>4 DEF TypeOK, Idle, Call, Take, TakeTask, Question, Redeliver
<1> QED
  BY <1>2, <1>3, <1>4, SpendQuiet

\* With nobody in the set or one.
LEMMA SpendCounted ==
    ASSUME LockInv, SpendInv
    PROVE  SpendBooked
<1> DEFINE booking == {w \in Workers : worker[w].at = "answered"}
<1>1. TypeOK /\ MaxCost \in Nat /\ Deaths \in Nat
  BY MoneyAssumption DEF LockInv, TypeOK, Deaths, Events
<1>2. CASE booking = {}
  <2>1. Cardinality(booking) = 0
    BY <1>2, FS_EmptySet
  <2>2. unbooked <= MaxCost * (Deaths + 0)
    BY <1>1, <1>2 DEF SpendInv
  <2> QED
    BY <2>1, <2>2 DEF SpendBooked, Deaths
<1>3. CASE booking # {}
  <2>1. PICK w \in Workers : worker[w].at = "answered"
    BY <1>3
  <2>2. booking = {w}
    BY <2>1, PaysAlone DEF Paying
  <2>3. Cardinality(booking) = 1
    BY <2>2, FS_Singleton
  <2>4. worker[w].cost \in Nat /\ worker[w].cost <= MaxCost
    BY <1>1, <2>1, BusyProcess DEF Invocation
  <2>5. unbooked \in Nat /\ unbooked <= MaxCost * Deaths + worker[w].cost
    BY <1>1, <2>1 DEF SpendInv, TypeOK
  <2>6. MaxCost * (Deaths + 1) = MaxCost * Deaths + MaxCost /\ MaxCost * Deaths \in Nat
    BY <1>1
  <2>7. unbooked <= MaxCost * (Deaths + 1)
    BY <1>1, <2>4, <2>5, <2>6
  <2> QED
    BY <2>3, <2>7 DEF SpendBooked, Deaths
<1> QED
  BY <1>2, <1>3

\* What the provider charged and no row says is bounded by one call for each
\* death of a process, and the one that is being booked.
THEOREM SpendTheorem == Spec => []SpendBooked
<1> DEFINE I == LockInv /\ SpendInv
<1>1. Init => SpendInv
  BY MoneyAssumption DEF Init, SpendInv, Deaths, Idle, Events
<1>2. LockInv /\ SpendInv /\ [Next]_vars => SpendInv'
  <2> SUFFICES ASSUME LockInv, SpendInv, [Next]_vars PROVE SpendInv'
    OBVIOUS
  <2>1. CASE UNCHANGED vars
    BY <2>1 DEF vars, SpendInv, Deaths
  <2>2. CASE Next
    <3>1. ASSUME NEW w \in Workers, Take(w) \/ Question(w) \/ Proceed(w)
                                    \/ Crash(w) \/ LoseProcess(w) \/ Redeliver(w)
          PROVE  SpendInv'
      BY <3>1, SpendProceed, SpendDies, SpendOther
    <3>2. CASE (\E k \in Periods : Regenerate(k)) \/ EditPolicy \/ ContextChanges \/ NewMonth
      <4>1. unbooked' = unbooked /\ worker' = worker
        BY <3>2 DEF Regenerate, EditPolicy, ContextChanges, NewMonth
      <4>2. Deaths' = Deaths
        BY <3>2, CountType DEF LockInv, Deaths, Events, Regenerate, EditPolicy, ContextChanges, NewMonth
      <4> QED
        BY <4>1, <4>2, SpendQuiet
    <3> QED
      BY <2>2, <3>1, <3>2 DEF Next
  <2> QED
    BY <2>1, <2>2
<1>3. LockInv /\ SpendInv => SpendBooked
  BY SpendCounted
<1> QED
  BY <1>1, <1>2, <1>3, LockTheorem, PTL DEF Spec

-----------------------------------------------------------------------------
(***************************************************************************)
(* One task of each subject                                                *)
(***************************************************************************)

On(w, k) == worker[w] # Idle /\ worker[w].key = k /\ k # NoKey

\* The task of k is in the queue or with one worker, and not in two places.
Single(k) ==
    /\ queue[k] <= 1
    /\ \A w \in Workers : On(w, k) => queue[k] = 0
    /\ \A v, w \in Workers : On(v, k) /\ On(w, k) => v = w

\* A call keeps its subject and its prompt until it ends.
LEMMA ProceedKeeps ==
    ASSUME LockInv, NEW w \in Workers, Proceed(w)
    PROVE  /\ TypeOK /\ worker[w] \in Invocation /\ worker[w] # Idle
           /\ queue' = queue /\ count' = count
           /\ \A v \in Workers \ {w} : worker'[v] = worker[v]
           /\ \/ worker'[w] = Idle
              \/ /\ worker[w].at # "persisted"
                 /\ worker'[w].key = worker[w].key /\ worker'[w].built = worker[w].built
           /\ output' # output => Persist(w)
<1>1. TypeOK /\ worker[w] \in Invocation /\ worker[w] # Idle
  BY BusyProcess DEF LockInv, Proceed, ReplayPrior, NoPrior, ResolvePolicy, AcquireLock,
     LockMissing, ReplayLocked, Refuse, CallProvider, CallFails, ProviderAnswers, RecordOk,
     RecordInvalid, Persist, Finish
<1>2. queue' = queue /\ count' = count /\ (output' # output => Persist(w))
  BY DEF Proceed, ReplayPrior, NoPrior, ResolvePolicy, AcquireLock,
     LockMissing, ReplayLocked, Refuse, CallProvider, CallFails, ProviderAnswers, RecordOk,
     RecordInvalid, Persist, Finish, ChangesWorkerOnly
<1>3. \A v \in Workers \ {w} : worker'[v] = worker[v]
  BY <1>1 DEF TypeOK, Proceed, ReplayPrior, NoPrior, ResolvePolicy, AcquireLock,
     LockMissing, ReplayLocked, Refuse, CallProvider, CallFails, ProviderAnswers, RecordOk,
     RecordInvalid, Persist, Finish, Goes, Ends, Replays
<1>4. \/ worker'[w] = Idle
      \/ /\ worker[w].at # "persisted"
         /\ worker'[w].key = worker[w].key /\ worker'[w].built = worker[w].built
  BY <1>1 DEF TypeOK, Invocation, Proceed, ReplayPrior, NoPrior, ResolvePolicy, AcquireLock,
     LockMissing, ReplayLocked, Refuse, CallProvider, CallFails, ProviderAnswers, RecordOk,
     RecordInvalid, Persist, Finish, Goes, Ends, Replays
<1> QED
  BY <1>1, <1>2, <1>3, <1>4

LEMMA SingleStays ==
    ASSUME NEW k \in Subjects, Single(k), queue'[k] = queue[k],
           \A v \in Workers : On(v, k)' => On(v, k)
    PROVE  Single(k)'
BY DEF Single

LEMMA TakeKeeps ==
    ASSUME TypeOK, NEW w \in Workers, NEW k \in Subjects, TakeTask(w, k)
    PROVE  /\ worker[w] = Idle /\ queue[k] > 0 /\ queue'[k] = queue[k] - 1
           /\ \A j \in Subjects \ {k} : queue'[j] = queue[j]
           /\ \A v \in Workers \ {w} : worker'[v] = worker[v]
           /\ worker'[w] # Idle => /\ NeedsOutput(k) /\ worker'[w].key = k
                                   /\ worker'[w].at # "persisting" /\ worker'[w].built = context
           /\ UNCHANGED <<ok, output, count>>
BY DEF TypeOK, TakeTask, Call

LEMMA DiesKeeps ==
    ASSUME TypeOK, NEW w \in Workers, Crash(w) \/ LoseProcess(w)
    PROVE  /\ worker[w] # Idle /\ worker[w] \in Invocation /\ worker'[w] = Idle
           /\ \A v \in Workers \ {w} : worker'[v] = worker[v]
           /\ \A k \in Subjects : \/ queue'[k] = queue[k]
                                  \/ On(w, k) /\ queue'[k] = queue[k] + 1
           /\ UNCHANGED <<ok, output>>
<1>1. worker[w] # Idle /\ worker[w] \in Invocation
  BY BusyProcess DEF Crash, LoseProcess, Dies
<1>2. worker'[w] = Idle /\ \A v \in Workers \ {w} : worker'[v] = worker[v]
  BY DEF TypeOK, Crash, LoseProcess, Dies, Ends
<1>3. ASSUME NEW k \in Subjects
      PROVE  queue'[k] = queue[k] \/ (On(w, k) /\ queue'[k] = queue[k] + 1)
  BY <1>1 DEF TypeOK, Crash, LoseProcess, Invocation, HasKey, On
<1> QED
  BY <1>1, <1>2, <1>3 DEF Crash, LoseProcess, Dies

\* No step makes a second task of k, if no message is delivered twice and, for a
\* report, no narration is asked for.
LEMMA SingleStep ==
    ASSUME LockInv, [Next]_vars, NEW k \in Subjects, Single(k),
           count'["redeliveries"] = 0, k \notin Periods \/ count'["requests"] = 0
    PROVE  Single(k)'
<1>1. TypeOK
  BY DEF LockInv
<1>2. CASE UNCHANGED vars
  BY <1>2, SingleStays DEF vars, On
<1>3. ASSUME NEW w \in Workers, NEW j \in Subjects, TakeTask(w, j) PROVE Single(k)'
  <2>1. CASE j = k
    <3>1. queue[k] = 1 /\ queue'[k] = 0
      BY <1>1, <1>3, <2>1, TakeKeeps DEF Single, TypeOK
    <3>2. \A v \in Workers : On(v, k)' => v = w
      BY <1>1, <1>3, <2>1, <3>1, TakeKeeps DEF Single, On
    <3> QED
      BY <3>1, <3>2 DEF Single
  <2>2. CASE j # k
    BY <1>1, <1>3, <2>2, TakeKeeps, SingleStays DEF On
  <2> QED
    BY <2>1, <2>2
<1>4. ASSUME NEW w \in Workers, Question(w) PROVE Single(k)'
  <2>1. \A v \in Workers : On(v, k)' => On(v, k)
    BY <1>1, <1>4 DEF TypeOK, Question, Call, On
  <2> QED
    BY <1>4, <2>1, SingleStays DEF Question
<1>5. ASSUME NEW w \in Workers, Proceed(w) PROVE Single(k)'
  <2>1. \A v \in Workers : On(v, k)' => On(v, k)
    BY <1>5, ProceedKeeps DEF On
  <2> QED
    BY <1>5, <2>1, ProceedKeeps, SingleStays
<1>6. ASSUME NEW w \in Workers, Crash(w) \/ LoseProcess(w) PROVE Single(k)'
  <2>1. \A v \in Workers : On(v, k)' => On(v, k) /\ v # w
    BY <1>1, <1>6, DiesKeeps DEF On
  <2>2. CASE queue'[k] = queue[k]
    BY <2>1, <2>2, SingleStays
  <2>3. CASE On(w, k) /\ queue'[k] = queue[k] + 1
    <3>1. queue'[k] = 1
      BY <2>3 DEF Single
    <3>2. \A v \in Workers : ~On(v, k)'
      BY <2>1, <2>3 DEF Single
    <3> QED
      BY <3>1, <3>2 DEF Single
  <2> QED
    BY <1>1, <1>6, <2>2, <2>3, DiesKeeps
<1>7. ASSUME NEW w \in Workers, Redeliver(w) PROVE FALSE
  BY <1>1, <1>7, CountType DEF Redeliver, Events, TypeOK
<1>8. ASSUME NEW j \in Periods, Regenerate(j) PROVE Single(k)'
  <2>1. k # j
    BY <1>1, <1>8, CountType DEF Regenerate, Events, TypeOK
  <2>2. queue'[k] = queue[k] /\ worker' = worker
    BY <1>1, <1>8, <2>1, PeriodsAssumption DEF Regenerate, TypeOK
  <2> QED
    BY <2>2, SingleStays DEF On
<1>9. CASE EditPolicy \/ ContextChanges \/ NewMonth
  <2>1. UNCHANGED <<queue, worker>>
    BY <1>9 DEF EditPolicy, ContextChanges, NewMonth
  <2> QED
    BY <2>1, SingleStays DEF On
<1> QED
  BY <1>2, <1>3, <1>4, <1>5, <1>6, <1>7, <1>8, <1>9 DEF Next, Take

\* Counters never go back.
LEMMA CountGrows ==
    ASSUME TypeOK, [Next]_vars, NEW e \in Events
    PROVE  count[e] \in Nat /\ count'[e] \in Nat /\ count[e] <= count'[e]
<1>1. count \in [Events -> Nat]
  BY DEF TypeOK
<1>2. count' = count \/ \E what \in Events : Happens(what)
  BY DEF Next, vars, Take, TakeTask, Question, Proceed, ReplayPrior, NoPrior, ResolvePolicy,
     AcquireLock, LockMissing, ReplayLocked, Refuse, CallProvider, CallFails, ProviderAnswers,
     RecordOk, RecordInvalid, Persist, Finish, ChangesWorkerOnly, Crash, LoseProcess, Redeliver,
     Regenerate, EditPolicy, ContextChanges, NewMonth, Events
<1> QED
  BY <1>1, <1>2 DEF Happens

\* Whose task is being done has no output until it is persisted.
OutputOf(k) ==
    /\ output[k] <= 1
    /\ \A w \in Workers : On(w, k) /\ worker[w].at # "persisted" => output[k] = 0

OutputInv ==
    count["redeliveries"] = 0 => \A k \in Subjects \ Periods : Single(k) /\ OutputOf(k)

LEMMA OutputStep ==
    ASSUME LockInv, [Next]_vars, NEW k \in Subjects \ Periods, Single(k), OutputOf(k)
    PROVE  OutputOf(k)'
<1>1. TypeOK
  BY DEF LockInv
<1>2. CASE UNCHANGED vars
  BY <1>2 DEF vars, OutputOf, On
<1>3. ASSUME NEW w \in Workers, NEW j \in Subjects, TakeTask(w, j) PROVE OutputOf(k)'
  BY <1>1, <1>3, TakeKeeps DEF OutputOf, On, NeedsOutput, Idle
<1>4. ASSUME NEW w \in Workers, Question(w) PROVE OutputOf(k)'
  BY <1>1, <1>4 DEF TypeOK, Question, Call, On, OutputOf
<1>5. ASSUME NEW w \in Workers, Persist(w) PROVE OutputOf(k)'
  <2>1. worker[w] \in Invocation /\ worker[w] # Idle
    BY <1>1, <1>5, BusyProcess DEF Persist
  <2>2. worker'[w].at = "persisted" /\ worker'[w].key = worker[w].key
        /\ \A v \in Workers \ {w} : worker'[v] = worker[v]
    BY <1>1, <1>5, <2>1 DEF Persist, Goes, TypeOK, Invocation
  <2>3. CASE On(w, k)
    <3>1. output[k] = 0 /\ output'[k] = 1
      BY <1>1, <1>5, <2>3 DEF Persist, OutputOf, On, HasKey, TypeOK
    <3>2. \A v \in Workers : On(v, k)' => v = w
      BY <2>2, <2>3 DEF On, Single
    <3> QED
      BY <2>2, <3>1, <3>2 DEF OutputOf
  <2>4. CASE ~On(w, k)
    <3>1. output'[k] = output[k]
      BY <1>1, <1>5, <2>1, <2>4 DEF Persist, On, HasKey, TypeOK
    <3> QED
      BY <2>1, <2>2, <2>4, <3>1 DEF OutputOf, On
  <2> QED
    BY <2>3, <2>4
<1>6. ASSUME NEW w \in Workers, Proceed(w), ~Persist(w) PROVE OutputOf(k)'
  BY <1>6, ProceedKeeps DEF OutputOf, On
<1>7. ASSUME NEW w \in Workers, Crash(w) \/ LoseProcess(w) PROVE OutputOf(k)'
  BY <1>1, <1>7, DiesKeeps DEF OutputOf, On
<1>8. CASE \/ \E w \in Workers : Redeliver(w)
           \/ \E j \in Periods : Regenerate(j)
           \/ EditPolicy \/ ContextChanges \/ NewMonth
  <2>1. UNCHANGED <<output, worker>>
    BY <1>8 DEF Redeliver, Regenerate, EditPolicy, ContextChanges, NewMonth
  <2> QED
    BY <2>1 DEF OutputOf, On
<1> QED
  BY <1>2, <1>3, <1>4, <1>5, <1>6, <1>7, <1>8 DEF Next, Take

\* A record is explained once, whatever crashes, as long as the broker delivers
\* no message a second time.
THEOREM OutputTheorem == Spec => []OutputOnce
<1>1. Init => OutputInv
  BY DEF Init, OutputInv, Single, OutputOf, On
<1>2. LockInv /\ OutputInv /\ [Next]_vars => OutputInv'
  <2> SUFFICES ASSUME LockInv, OutputInv, [Next]_vars, count'["redeliveries"] = 0,
                      NEW k \in Subjects \ Periods
               PROVE  Single(k)' /\ OutputOf(k)'
    BY DEF OutputInv
  <2>1. count["redeliveries"] = 0
    BY CountGrows DEF LockInv, Events
  <2>2. Single(k) /\ OutputOf(k)
    BY <2>1 DEF OutputInv
  <2> QED
    BY <2>2, SingleStep, OutputStep
<1>3. OutputInv => OutputOnce
  BY DEF OutputInv, OutputOf, OutputOnce
<1> QED
  BY <1>1, <1>2, <1>3, LockTheorem, PTL DEF Spec

-----------------------------------------------------------------------------
(***************************************************************************)
(* Whose answer a capability persists                                      *)
(***************************************************************************)

\* A subject with an answer is done with: its one task has that answer.
AnsweredOnce(k) ==
    ok[k] # None => /\ queue[k] = 0
                    /\ \A w \in Workers : On(w, k) => worker[w].at \in {"persisting", "persisted"}

OwnInv ==
    count["crashes"] + count["redeliveries"] + count["requests"] = 0 =>
        /\ \A k \in Subjects : Single(k) /\ AnsweredOnce(k)
        /\ \A w \in Workers : worker[w].at = "persisting" => worker[w].about = worker[w].built

\* The answer is that of the prompt, or of the earlier prompt with the same key.
LEMMA AboutBuilt ==
    ASSUME LockInv, NEW w \in Workers, Proceed(w),
           worker[w].at = "persisting" => worker[w].about = worker[w].built,
           \A k \in Subjects : AnsweredOnce(k)
    PROVE  /\ worker'[w].at = "persisting" => worker'[w].about = worker'[w].built
           /\ \A k \in Subjects :
                 \/ ok'[k] = ok[k] /\ (worker'[w] # Idle /\ On(w, k) /\ ok[k] # None
                                         => worker'[w].at \in {"persisting", "persisted"})
                 \/ On(w, k) /\ worker'[w].at \in {"persisting", "idle"}
<1>1. TypeOK /\ worker[w] \in Invocation /\ worker[w] # Idle /\ Held(w)
  BY ProceedKeeps DEF LockInv
<1>2. HasKey(w) => On(w, worker[w].key) /\ worker[w].key \in Subjects
  BY <1>1 DEF On, HasKey, Invocation
<1>3. ~ReplayPrior(w) /\ ~ReplayLocked(w)
  BY <1>1, <1>2 DEF ReplayPrior, ReplayLocked, PriorFound, Held, AnsweredOnce
<1>4. CASE RecordOk(w)
  <2>1. worker'[w].at = "persisting" /\ worker'[w].about = worker'[w].built
    BY <1>1, <1>4 DEF RecordOk, TypeOK, Invocation
  <2>2. ASSUME NEW k \in Subjects PROVE ok'[k] = ok[k] \/ On(w, k)
    BY <1>1, <1>2, <1>4 DEF RecordOk, TypeOK, HasKey, On
  <2> QED
    BY <2>1, <2>2
<1>5. CASE ~RecordOk(w)
  <2>1. ok' = ok
    BY <1>3, <1>5 DEF Proceed, NoPrior, ResolvePolicy, AcquireLock, LockMissing, Refuse, CallProvider,
       CallFails, ProviderAnswers, RecordInvalid, Persist, Finish, ChangesWorkerOnly
  <2>2. worker'[w] = Idle \/ worker'[w].at # "persisting"
    BY <1>1, <1>3, <1>5 DEF TypeOK, Invocation, Proceed, NoPrior, ResolvePolicy, AcquireLock,
       LockMissing, Refuse, CallProvider, CallFails, ProviderAnswers, RecordInvalid, Persist, Finish,
       Goes, Ends
  <2>3. ASSUME NEW k \in Subjects, worker'[w] # Idle, On(w, k), ok[k] # None
        PROVE  worker'[w].at \in {"persisting", "persisted"}
    <3>1. worker[w].at \in {"persisting", "persisted"}
      BY <2>3 DEF AnsweredOnce
    <3> QED
      BY <1>1, <1>3, <1>5, <2>3, <3>1 DEF TypeOK, Invocation, Proceed, NoPrior, ResolvePolicy,
         AcquireLock, LockMissing, Refuse, CallProvider, CallFails, ProviderAnswers, RecordInvalid,
         Persist, Finish, Goes, Ends
  <2> QED
    BY <2>1, <2>2, <2>3 DEF Idle
<1> QED
  BY <1>4, <1>5

LEMMA SumZero ==
    ASSUME NEW a \in Nat, NEW b \in Nat, NEW c \in Nat, a + b + c = 0
    PROVE  a = 0 /\ b = 0 /\ c = 0
OBVIOUS

LEMMA NothingAgain ==
    ASSUME TypeOK, [Next]_vars,
           count'["crashes"] + count'["redeliveries"] + count'["requests"] = 0
    PROVE  \A e \in {"crashes", "redeliveries", "requests"} : count[e] = 0 /\ count'[e] = 0
<1>1. \A e \in {"crashes", "redeliveries", "requests"} :
          count[e] \in Nat /\ count'[e] \in Nat /\ count[e] <= count'[e]
  BY CountGrows DEF Events
<1>2. count'["crashes"] = 0 /\ count'["redeliveries"] = 0 /\ count'["requests"] = 0
  BY <1>1, SumZero
<1> QED
  BY <1>1, <1>2

LEMMA OwnStep ==
    ASSUME LockInv, OwnInv, [Next]_vars,
           count'["crashes"] + count'["redeliveries"] + count'["requests"] = 0
    PROVE  /\ \A k \in Subjects : AnsweredOnce(k)'
           /\ \A w \in Workers : worker'[w].at = "persisting" => worker'[w].about = worker'[w].built
<1>1. TypeOK
  BY DEF LockInv
<1>2. \A e \in {"crashes", "redeliveries", "requests"} : count[e] = 0 /\ count'[e] = 0
  BY <1>1, NothingAgain
<1>3. /\ \A k \in Subjects : Single(k) /\ AnsweredOnce(k)
      /\ \A w \in Workers : worker[w].at = "persisting" => worker[w].about = worker[w].built
  BY <1>2 DEF OwnInv
<1>4. CASE UNCHANGED vars
  BY <1>3, <1>4 DEF vars, AnsweredOnce, On
<1>5. ASSUME NEW w \in Workers, NEW j \in Subjects, TakeTask(w, j)
      PROVE  /\ \A k \in Subjects : AnsweredOnce(k)'
             /\ \A v \in Workers : worker'[v].at = "persisting" => worker'[v].about = worker'[v].built
  <2>1. ok[j] = None /\ ok' = ok
    BY <1>1, <1>3, <1>5, TakeKeeps DEF AnsweredOnce
  <2>2. ASSUME NEW k \in Subjects PROVE AnsweredOnce(k)'
    <3>1. CASE k = j
      BY <2>1, <3>1 DEF AnsweredOnce
    <3>2. CASE k # j
      <4>1. \A v \in Workers : On(v, k)' => On(v, k) /\ worker'[v] = worker[v]
        BY <1>1, <1>5, <3>2, TakeKeeps DEF On
      <4> QED
        BY <1>1, <1>3, <1>5, <2>1, <3>2, <4>1, TakeKeeps DEF AnsweredOnce
    <3> QED
      BY <3>1, <3>2
  <2>3. \A v \in Workers : worker'[v].at = "persisting" => worker'[v].about = worker'[v].built
    BY <1>1, <1>3, <1>5, TakeKeeps DEF Idle
  <2> QED
    BY <2>2, <2>3
<1>6. ASSUME NEW w \in Workers, Question(w)
      PROVE  /\ \A k \in Subjects : AnsweredOnce(k)'
             /\ \A v \in Workers : worker'[v].at = "persisting" => worker'[v].about = worker'[v].built
  <2>1. \A v \in Workers : \/ worker'[v] = worker[v]
                           \/ worker'[v].at # "persisting" /\ worker'[v].key = NoKey
    BY <1>1, <1>6 DEF TypeOK, Question, Call
  <2>2. UNCHANGED <<ok, queue>>
    BY <1>6 DEF Question
  <2> QED
    BY <1>3, <2>1, <2>2 DEF AnsweredOnce, On
<1>7. ASSUME NEW w \in Workers, Proceed(w)
      PROVE  /\ \A k \in Subjects : AnsweredOnce(k)'
             /\ \A v \in Workers : worker'[v].at = "persisting" => worker'[v].about = worker'[v].built
  <2>1. /\ queue' = queue
        /\ \A v \in Workers \ {w} : worker'[v] = worker[v]
        /\ worker'[w] = Idle \/ worker'[w].key = worker[w].key
        /\ worker[w] # Idle
    BY <1>7, ProceedKeeps
  <2>2. /\ worker'[w].at = "persisting" => worker'[w].about = worker'[w].built
        /\ \A k \in Subjects :
              \/ ok'[k] = ok[k] /\ (worker'[w] # Idle /\ On(w, k) /\ ok[k] # None
                                      => worker'[w].at \in {"persisting", "persisted"})
              \/ On(w, k) /\ worker'[w].at \in {"persisting", "idle"}
    BY <1>3, <1>7, AboutBuilt
  <2>3. ASSUME NEW k \in Subjects PROVE AnsweredOnce(k)'
    <3>1. CASE ok'[k] = ok[k] /\ (worker'[w] # Idle /\ On(w, k) /\ ok[k] # None
                                    => worker'[w].at \in {"persisting", "persisted"})
      BY <1>3, <2>1, <3>1 DEF AnsweredOnce, On
    <3>2. CASE On(w, k) /\ worker'[w].at \in {"persisting", "idle"}
      <4>1. queue'[k] = 0 /\ \A v \in Workers : On(v, k)' => v = w
        BY <1>3, <2>1, <3>2 DEF Single, On
      <4>2. On(w, k)' => worker'[w].at \in {"persisting", "persisted"}
        <5>1. TypeOK'
          BY <1>7, ProceedOutside, ProceedPaying, ProceedBooking, WorkerHeld DEF Proceed, LockInv
        <5>2. worker'[w] # Idle => worker'[w].at # "idle"
          BY <5>1 DEF TypeOK, Invocation, Steps
        <5> QED
          BY <3>2, <5>2 DEF On
      <4> QED
        BY <4>1, <4>2 DEF AnsweredOnce
    <3> QED
      BY <2>2, <3>1, <3>2
  <2>4. \A v \in Workers : worker'[v].at = "persisting" => worker'[v].about = worker'[v].built
    BY <1>3, <2>1, <2>2
  <2> QED
    BY <2>3, <2>4
<1>8. ASSUME NEW w \in Workers, Crash(w) \/ Redeliver(w) PROVE FALSE
  BY <1>1, <1>2, <1>8, CountType DEF Crash, Redeliver, Events, TypeOK
<1>9. ASSUME NEW w \in Workers, LoseProcess(w)
      PROVE  /\ \A k \in Subjects : AnsweredOnce(k)'
             /\ \A v \in Workers : worker'[v].at = "persisting" => worker'[v].about = worker'[v].built
  <2>1. queue' = queue /\ ok' = ok
    BY <1>9 DEF LoseProcess, Dies
  <2>2. worker'[w] = Idle /\ \A v \in Workers \ {w} : worker'[v] = worker[v]
    BY <1>1, <1>9, DiesKeeps
  <2> QED
    BY <1>3, <2>1, <2>2 DEF AnsweredOnce, On, Idle
<1>10. ASSUME NEW j \in Periods, Regenerate(j) PROVE FALSE
  BY <1>1, <1>2, <1>10, CountType DEF Regenerate, Events, TypeOK
<1>11. CASE EditPolicy \/ ContextChanges \/ NewMonth
  <2>1. UNCHANGED <<queue, ok, worker>>
    BY <1>11 DEF EditPolicy, ContextChanges, NewMonth
  <2> QED
    BY <1>3, <2>1 DEF AnsweredOnce, On
<1> QED
  BY <1>4, <1>5, <1>6, <1>7, <1>8, <1>9, <1>10, <1>11 DEF Next, Take

\* A task that was neither delivered again nor asked for again persists the answer
\* to the prompt it has built itself.
THEOREM OwnPromptTheorem == Spec => []AnswersOwnPrompt
<1>1. Init => OwnInv
  BY DEF Init, OwnInv, Single, AnsweredOnce, On, Idle
<1>2. LockInv /\ OwnInv /\ [Next]_vars => OwnInv'
  <2> SUFFICES ASSUME LockInv, OwnInv, [Next]_vars,
                      count'["crashes"] + count'["redeliveries"] + count'["requests"] = 0
               PROVE  /\ \A k \in Subjects : Single(k)' /\ AnsweredOnce(k)'
                      /\ \A w \in Workers : worker'[w].at = "persisting"
                                            => worker'[w].about = worker'[w].built
    BY DEF OwnInv
  <2>1. \A e \in {"crashes", "redeliveries", "requests"} : count[e] = 0 /\ count'[e] = 0
    BY NothingAgain DEF LockInv
  <2>2. \A k \in Subjects : Single(k)
    BY <2>1 DEF OwnInv
  <2> QED
    BY <2>1, <2>2, SingleStep, OwnStep
<1>3. LockInv /\ OwnInv => AnswersOwnPrompt
  BY DEF LockInv, TypeOK, OwnInv, AnswersOwnPrompt, Events
<1> QED
  BY <1>1, <1>2, <1>3, LockTheorem, PTL DEF Spec

-----------------------------------------------------------------------------
(***************************************************************************)
(* Calls the policy in force did not allow                                 *)
(***************************************************************************)

\* What a call has read of the policy.
SeenInv == \A w \in Workers : worker[w].at \in {"waiting", "locked"} => worker[w].seen \in {"sealed", "open"}

\* The calls that go by an earlier policy.
Stale == {w \in Workers : /\ worker[w].at \in {"waiting", "locked"} /\ worker[w].seen = "open"
                          /\ policy # "open"}

\* An edit makes at most every process stale; each has one late call.
LateInv == SeenInv /\ late + Cardinality(Stale) <= Cardinality(Workers) * count["edits"]

LEMMA StaleFinite ==
    /\ IsFiniteSet(Stale) /\ Cardinality(Stale) \in Nat /\ Cardinality(Stale) <= Cardinality(Workers)
    /\ Cardinality(Workers) \in Nat
BY WorkersAssumption, FS_Subset, FS_CardinalityType DEF Stale

\* A step that edits nothing and makes no process stale.
LEMMA LateQuiet ==
    ASSUME LockInv, LateInv, late' = late, count'["edits"] = count["edits"],
           \A v \in Workers : v \in Stale' => v \in Stale,
           SeenInv'
    PROVE  LateInv'
<1>1. Stale' \subseteq Stale
  BY DEF Stale
<1>2. Cardinality(Stale') <= Cardinality(Stale) /\ Cardinality(Stale') \in Nat
  BY <1>1, StaleFinite, FS_Subset, FS_CardinalityType
<1>3. late \in Nat /\ count["edits"] \in Nat
  BY DEF LockInv, TypeOK, Events
<1>4. late' + Cardinality(Stale') <= late + Cardinality(Stale)
  BY <1>2, <1>3, StaleFinite
<1> DEFINE bound == Cardinality(Workers) * count["edits"]
<1>5. bound \in Nat /\ late + Cardinality(Stale) <= bound
  BY <1>3, StaleFinite DEF LateInv
<1>6. Cardinality(Workers) * count'["edits"] = bound
  OBVIOUS
<1> HIDE DEF bound
<1>7. late' + Cardinality(Stale') <= bound
  BY <1>2, <1>3, <1>4, <1>5, StaleFinite
<1>8. Cardinality(Stale)' = Cardinality(Stale')
  OBVIOUS
<1> QED
  BY <1>6, <1>7, <1>8 DEF LateInv

LEMMA LateProceed ==
    ASSUME LockInv, LateInv, NEW w \in Workers, Proceed(w)
    PROVE  LateInv'
<1>1. /\ TypeOK /\ worker[w] \in Invocation /\ worker[w] # Idle
      /\ count' = count /\ \A v \in Workers \ {w} : worker'[v] = worker[v]
  BY ProceedKeeps
<1>2. policy' = policy
  BY DEF Proceed, ReplayPrior, NoPrior, ResolvePolicy, AcquireLock, LockMissing, ReplayLocked, Refuse,
     CallProvider, CallFails, ProviderAnswers, RecordOk, RecordInvalid, Persist, Finish,
     ChangesWorkerOnly
<1>3. worker'[w].at \in {"waiting", "locked"} =>
          \/ /\ worker[w].at \in {"waiting", "locked"} /\ worker'[w].seen = worker[w].seen
          \/ /\ worker'[w].seen = policy /\ policy \in {"sealed", "open"}
  BY <1>1 DEF TypeOK, Invocation, Policies, Idle, Proceed, ReplayPrior, NoPrior, ResolvePolicy,
     AcquireLock, LockMissing, ReplayLocked, Refuse, CallProvider, CallFails, ProviderAnswers, RecordOk,
     RecordInvalid, Persist, Finish, Goes, Ends, Replays
<1>4. SeenInv'
  BY <1>1, <1>3 DEF LateInv, SeenInv
<1>5. \A v \in Workers : v \in Stale' => v \in Stale
  BY <1>1, <1>2, <1>3 DEF Stale
<1>6. CASE CallProvider(w) /\ policy # "open"
  <2>1. w \in Stale /\ w \notin Stale'
    BY <1>1, <1>6 DEF CallProvider, Admitted, LateInv, SeenInv, Stale, Goes, TypeOK, Invocation
  <2>2. Stale' \subseteq Stale \ {w}
    BY <1>5, <2>1 DEF Stale
  <2>3. IsFiniteSet(Stale \ {w}) /\ Cardinality(Stale \ {w}) = Cardinality(Stale) - 1
    BY <2>1, StaleFinite, FS_RemoveElement
  <2>4. Cardinality(Stale') <= Cardinality(Stale) - 1 /\ Cardinality(Stale') \in Nat
    BY <2>2, <2>3, FS_Subset, FS_CardinalityType
  <2>5. late' = late + 1 /\ late \in Nat
    BY <1>1, <1>6 DEF CallProvider, TypeOK
  <2>6. late' + Cardinality(Stale') <= late + Cardinality(Stale)
    BY <2>4, <2>5, StaleFinite
  <2>7. count["edits"] \in Nat
    BY <1>1 DEF TypeOK, Events
  <2> DEFINE bound == Cardinality(Workers) * count["edits"]
  <2>8. bound \in Nat /\ late + Cardinality(Stale) <= bound
    BY <2>7, StaleFinite DEF LateInv
  <2>9. Cardinality(Workers) * count'["edits"] = bound
    BY <1>1
  <2> HIDE DEF bound
  <2>10. late' + Cardinality(Stale') <= bound
    BY <2>4, <2>5, <2>6, <2>8, StaleFinite
  <2> QED
    BY <1>4, <2>9, <2>10 DEF LateInv
<1>7. CASE ~(CallProvider(w) /\ policy # "open")
  <2>1. late' = late
    BY <1>7 DEF Proceed, ReplayPrior, NoPrior, ResolvePolicy, AcquireLock, LockMissing, ReplayLocked,
       Refuse, CallProvider, CallFails, ProviderAnswers, RecordOk, RecordInvalid, Persist, Finish,
       ChangesWorkerOnly
  <2> QED
    BY <1>1, <1>4, <1>5, <2>1, LateQuiet
<1> QED
  BY <1>6, <1>7

LEMMA LateEdit ==
    ASSUME LockInv, LateInv, EditPolicy
    PROVE  LateInv'
<1>1. TypeOK /\ late \in Nat /\ count["edits"] \in Nat /\ count'["edits"] = count["edits"] + 1
  BY CountType DEF LockInv, TypeOK, EditPolicy, Events
<1>2. late' = late /\ worker' = worker
  BY DEF EditPolicy
<1>3. Stale' \subseteq Workers
  BY DEF Stale
<1>4. Cardinality(Stale') \in Nat /\ Cardinality(Stale') <= Cardinality(Workers)
  BY <1>3, WorkersAssumption, FS_Subset, FS_CardinalityType
<1> DEFINE all   == Cardinality(Workers)
           bound == all * count["edits"]
           next  == all * count'["edits"]
<1>5. all \in Nat /\ bound \in Nat /\ next = bound + all
  <2>1. all \in Nat
    BY StaleFinite
  <2>2. \A a, n \in Nat : a * n \in Nat /\ a * (n + 1) = a * n + a
    OBVIOUS
  <2> HIDE DEF all
  <2> QED
    BY <1>1, <2>1, <2>2
<1>6. late <= bound
  BY <1>1, <1>5, StaleFinite DEF LateInv
<1> HIDE DEF bound, next
<1>7. late' + Cardinality(Stale') <= next
  BY <1>1, <1>2, <1>4, <1>5, <1>6
<1> QED
  BY <1>2, <1>7 DEF LateInv, SeenInv, next

\* Each edit of the policy is followed by at most one call per process that it
\* does not allow.
THEOREM LateTheorem == Spec => []LateCallsBounded
<1>1. Init => LateInv
  <2> SUFFICES ASSUME Init PROVE LateInv
    OBVIOUS
  <2>1. Stale = {} /\ SeenInv
    BY DEF Init, Stale, SeenInv, Idle
  <2>2. Cardinality(Stale) = 0
    BY <2>1, FS_EmptySet
  <2> QED
    BY <2>1, <2>2, StaleFinite DEF Init, LateInv, Events
<1>2. LockInv /\ LateInv /\ [Next]_vars => LateInv'
  <2> SUFFICES ASSUME LockInv, LateInv, [Next]_vars PROVE LateInv'
    OBVIOUS
  <2>1. TypeOK
    BY DEF LockInv
  <2>2. CASE UNCHANGED vars
    <3>1. SeenInv' /\ \A v \in Workers : v \in Stale' => v \in Stale
      BY <2>2 DEF vars, LateInv, SeenInv, Stale
    <3> QED
      BY <2>2, <3>1, LateQuiet DEF vars
  <2>3. ASSUME NEW w \in Workers, Take(w) \/ Question(w) \/ Crash(w) \/ LoseProcess(w) \/ Redeliver(w)
        PROVE  LateInv'
    <3>1. late' = late /\ policy' = policy
      BY <2>3 DEF Take, TakeTask, Question, Crash, LoseProcess, Dies, Redeliver
    <3>2. count'["edits"] = count["edits"]
      BY <2>1, <2>3, CountType DEF Take, TakeTask, Question, Crash, LoseProcess, Redeliver, Events
    <3>3. \A v \in Workers : worker'[v] = worker[v] \/ worker'[v].at \notin {"waiting", "locked"}
      BY <2>1, <2>3 DEF TypeOK, Idle, Call, Take, TakeTask, Question, Crash, LoseProcess, Dies, Ends,
         Redeliver
    <3>4. SeenInv' /\ \A v \in Workers : v \in Stale' => v \in Stale
      BY <3>1, <3>3 DEF LateInv, SeenInv, Stale
    <3> QED
      BY <3>1, <3>2, <3>4, LateQuiet
  <2>4. CASE (\E k \in Periods : Regenerate(k)) \/ ContextChanges \/ NewMonth
    <3>1. UNCHANGED <<late, policy, worker>>
      BY <2>4 DEF Regenerate, ContextChanges, NewMonth
    <3>2. count'["edits"] = count["edits"]
      BY <2>1, <2>4, CountType DEF Regenerate, ContextChanges, NewMonth, Events
    <3>3. SeenInv' /\ \A v \in Workers : v \in Stale' => v \in Stale
      BY <3>1 DEF LateInv, SeenInv, Stale
    <3> QED
      BY <3>1, <3>2, <3>3, LateQuiet
  <2>5. CASE Next
    BY <2>3, <2>4, <2>5, LateProceed, LateEdit DEF Next
  <2> QED
    BY <2>2, <2>5
<1>3. LockInv /\ LateInv => LateCallsBounded
  <2> SUFFICES ASSUME LockInv, LateInv PROVE LateCallsBounded
    OBVIOUS
  <2>1. late \in Nat /\ count["edits"] \in Nat
    BY DEF LockInv, TypeOK, Events
  <2> DEFINE bound == Cardinality(Workers) * count["edits"]
  <2>2. bound \in Nat /\ late + Cardinality(Stale) <= bound
    BY <2>1, StaleFinite DEF LateInv
  <2> HIDE DEF bound
  <2>3. late <= bound
    BY <2>1, <2>2, StaleFinite
  <2> QED
    BY <2>3 DEF LateCallsBounded, bound
<1> QED
  BY <1>1, <1>2, <1>3, LockTheorem, PTL DEF Spec
=============================================================================
