--------------------- MODULE ExecutionSupervisorProofs ---------------------
(***************************************************************************)
(* The dispatch loop for every number of jobs, calls, runtimes, crashes    *)
(* and changes of the task: its bounds, the single call per job, and how   *)
(* often a job whose effect cannot be replayed is started.                 *)
(*                                                                         *)
(* A launch is written into the checkpoint before the runtime runs, so the *)
(* checkpoint's counters are the launches (Counted), and no counter of a   *)
(* checkpoint the loop works on exceeds its limit (WithinLimits).  What    *)
(* the loop head is given may be the stored checkpoint with an             *)
(* interruption written into it, which keeps both.                         *)
(***************************************************************************)
EXTENDS ExecutionSupervisor, TLAPS

WithinLimits(L) == L.modelCalls <= ModelLimit /\ L.retries <= RetryLimit

Counted == \A j \in Jobs : launches[j] = ledger.jobs[j].attempts

Bounded == TypeOK /\ Counted /\ WithinLimits(ledger)

\* A checkpoint that differs from the stored one in no counter.
SameCounters(L) ==
    /\ L \in LedgerType
    /\ L.modelCalls = ledger.modelCalls /\ L.retries = ledger.retries
    /\ \A j \in Jobs : L.jobs[j].attempts = ledger.jobs[j].attempts

\* Writing an interruption into the checkpoint counts nothing.
LEMMA InterruptedCounts ==
    ASSUME ledger \in LedgerType, NEW j \in Jobs, NEW action \in Actions
    PROVE  SameCounters(Interrupted(ledger, j, action))
  <1> DEFINE L == Interrupted(ledger, j, action)
  <1>1. /\ ledger.jobs \in [Jobs -> JobType]
        /\ ledger.modelCalls \in Nat /\ ledger.retries \in Nat
    BY DEF LedgerType
  <1>2. ledger.jobs[j] \in JobType
    BY <1>1
  <1>3. /\ L.jobs \in [Jobs -> JobType]
        /\ \A i \in Jobs : L.jobs[i].attempts = ledger.jobs[i].attempts
    BY <1>1, <1>2 DEF Interrupted, JobType, LedgerType
  <1>4. /\ L.modelCalls = ledger.modelCalls /\ L.retries = ledger.retries
        /\ L \in LedgerType
    BY <1>1, <1>3 DEF Interrupted, LedgerType, Actions, Holds
  <1> QED BY <1>3, <1>4 DEF SameCounters

\* What recoveryFor() answers is an action the supervisor knows.
LEMMA RecoveryForActions ==
    ASSUME NEW kind \in Failures, NEW attempts, NEW uncertain \in BOOLEAN
    PROVE  RecoveryFor(kind, attempts, uncertain) \in Actions
  BY DEF RecoveryFor, Failures, Actions, Holds

\* A launch within the limits keeps the checkpoint typed and within them.
LEMMA StartedCounts ==
    ASSUME NEW L \in LedgerType, NEW j \in Jobs, NEW usesModel \in {0, 1},
           WithinLimits(L), ~Exhausted(L, j)
    PROVE  /\ Started(L, j, usesModel) \in LedgerType
           /\ WithinLimits(Started(L, j, usesModel))
           /\ Started(L, j, usesModel).jobs[j].attempts = L.jobs[j].attempts + 1
           /\ \A i \in Jobs \ {j} : Started(L, j, usesModel).jobs[i] = L.jobs[i]
  <1> DEFINE S == Started(L, j, usesModel)
             new == [state |-> "RUNNING", attempts |-> L.jobs[j].attempts + 1, retryAt |-> "none"]
  <1>0. MaxAttempts \in Nat /\ ModelLimit \in Nat /\ RetryLimit \in Nat
    BY SupervisorAssumption
  <1>1. /\ L.jobs \in [Jobs -> JobType]
        /\ L.modelCalls \in Nat /\ L.retries \in Nat
    BY DEF LedgerType
  <1>2. L.jobs[j].attempts \in Nat /\ L.jobs[j].attempts < MaxAttempts
    BY <1>0, <1>1 DEF JobType, Exhausted
  <1>3. new \in JobType
    BY <1>0, <1>2 DEF JobType
  <1>4. S.jobs = [L.jobs EXCEPT ![j] = new]
    BY DEF Started, LedgerType
  <1>5. /\ S.modelCalls = L.modelCalls + usesModel
        /\ S.retries = (IF L.jobs[j].attempts = 0 THEN L.retries ELSE L.retries + 1)
        /\ S.nextAction = "WAIT_FOR_RESPONSE" /\ S.mode = L.mode /\ S.provider = L.provider
    BY DEF Started, LedgerType
  <1>6. S.modelCalls \in Nat /\ S.retries \in Nat /\ WithinLimits(S)
    BY <1>0, <1>1, <1>5 DEF WithinLimits, Exhausted
  <1>7. S.jobs \in [Jobs -> JobType]
    BY <1>1, <1>3, <1>4
  <1>8. S \in LedgerType
    BY <1>5, <1>6, <1>7 DEF Started, LedgerType
  <1> QED BY <1>1, <1>4, <1>6, <1>8

\* A call that is over is well-typed again.
LEMMA ReturnType ==
    ASSUME call \in [Calls -> CallType], Jobs # {}, NEW c \in Calls, Return(c)
    PROVE  call' \in [Calls -> CallType]
  <1>1. NRuntimes \in Nat /\ MaxAttempts \in Nat
    BY SupervisorAssumption
  <1>2. NoCall \in CallType
    BY <1>1 DEF NoCall, CallType
  <1> QED BY <1>2 DEF Return

\* What a step does to the parked jobs: none is lost without counting, and a step that
\* ends in a hold keeps them all and adds its own.
LEMMA HoldingKeeps ==
    ASSUME TypeOK, NEW parked \in SUBSET Jobs, Holding(parked)
    PROVE  /\ held' \subseteq Jobs /\ erased' \in [Jobs -> Nat]
           /\ held' # {} => ledger'.nextAction \in Holds
           /\ ledger'.nextAction \in Holds => parked \subseteq held'
           /\ \A j \in Jobs : erased'[j] >= erased[j]
           /\ \A j \in held : j \in held' \/ erased'[j] = erased[j] + 1
  <1>0. held \subseteq Jobs /\ erased \in [Jobs -> Nat]
    BY DEF TypeOK
  <1>1. CASE ledger'.nextAction \in Holds
    BY <1>0, <1>1 DEF Holding
  <1>2. CASE ledger'.nextAction \notin Holds
    <2>1. /\ held' = {}
          /\ erased' = [j \in Jobs |-> IF j \in held THEN erased[j] + 1 ELSE erased[j]]
      BY <1>2 DEF Holding
    <2>2. \A j \in Jobs : erased'[j] = IF j \in held THEN erased[j] + 1 ELSE erased[j]
      BY <2>1
    <2> QED BY <1>0, <1>2, <2>1, <2>2
  <1> QED BY <1>1, <1>2

\* The head of the candidate loop never launches beyond a limit.
LEMMA TryCandidatesBounded ==
    ASSUME Bounded, NEW c \in Calls, NEW j \in Jobs, NEW index \in 0 .. NRuntimes,
           NEW n \in 0 .. NRuntimes, NEW L, SameCounters(L), TryCandidates(c, j, index, n, L)
    PROVE  /\ ledger' \in LedgerType /\ call' \in [Calls -> CallType]
           /\ launches' \in [Jobs -> Nat]
           /\ Counted' /\ WithinLimits(ledger')
  <1>0. /\ NRuntimes \in Nat /\ MaxAttempts \in Nat
        /\ call \in [Calls -> CallType] /\ launches \in [Jobs -> Nat]
        /\ L \in LedgerType /\ L.jobs \in [Jobs -> JobType]
        /\ \A i \in Jobs : launches[i] = L.jobs[i].attempts
    BY SupervisorAssumption DEF Bounded, TypeOK, Counted, SameCounters, LedgerType
  <1>1. WithinLimits(L)
    BY DEF Bounded, WithinLimits, SameCounters
  <1>2. CASE /\ ledger' = [L EXCEPT !.mode = "DETERMINISTIC",
                                    !.nextAction = "DEFER_OR_NATIVE_TOOL"]
             /\ Return(c)
             /\ UNCHANGED launches
    <2>1. /\ ledger' \in LedgerType /\ ledger'.jobs = L.jobs
          /\ ledger'.modelCalls = L.modelCalls /\ ledger'.retries = L.retries
      BY <1>0, <1>2 DEF LedgerType
    <2> QED BY <1>0, <1>1, <1>2, <2>1, ReturnType DEF Counted, WithinLimits
  <1>3. CASE ledger' = L /\ Return(c) /\ UNCHANGED launches
    BY <1>0, <1>1, <1>3, ReturnType DEF Counted
  <1>4. ASSUME NEW k \in index .. n, NEW usesModel \in {0, 1}, ~Exhausted(L, j),
               ledger' = Started(L, j, usesModel),
               call' = [call EXCEPT ![c] = [pc |-> "awaiting", job |-> j, index |-> k,
                                            n |-> n, before |-> L.jobs[j].attempts]],
               launches' = [launches EXCEPT ![j] = @ + 1]
        PROVE  /\ ledger' \in LedgerType /\ call' \in [Calls -> CallType]
               /\ launches' \in [Jobs -> Nat]
               /\ Counted' /\ WithinLimits(ledger')
    <2>1. /\ ledger' \in LedgerType /\ WithinLimits(ledger')
          /\ ledger'.jobs[j].attempts = L.jobs[j].attempts + 1
          /\ \A i \in Jobs \ {j} : ledger'.jobs[i] = L.jobs[i]
      BY <1>0, <1>1, <1>4, StartedCounts
    <2>2. launches' \in [Jobs -> Nat]
      BY <1>0, <1>4
    <2>3. Counted'
      BY <1>0, <1>4, <2>1 DEF Counted
    <2>4. L.jobs[j].attempts \in 0 .. MaxAttempts /\ k \in 0 .. NRuntimes
      BY <1>0, <1>4 DEF JobType
    <2>5. call' \in [Calls -> CallType]
      BY <1>0, <1>4, <2>4 DEF CallType
    <2> QED BY <2>1, <2>2, <2>3, <2>5
  <1> QED BY <1>2, <1>3, <1>4 DEF TryCandidates

\* Bounded is preserved by every step.
LEMMA BoundedStep == Bounded /\ [Next]_vars => Bounded'
  <1> SUFFICES ASSUME Bounded, [Next]_vars PROVE Bounded'
    OBVIOUS
  <1>0. /\ NRuntimes \in Nat /\ MaxAttempts \in Nat /\ MaxCrashes \in Nat
        /\ ledger \in LedgerType /\ ledger.jobs \in [Jobs -> JobType]
        /\ call \in [Calls -> CallType] /\ launches \in [Jobs -> Nat]
    BY SupervisorAssumption DEF Bounded, TypeOK, LedgerType
  <1>1. SameCounters(ledger)
    BY <1>0 DEF SameCounters
  <1>11. ASSUME NEW parked \in SUBSET Jobs, Holding(parked)
         PROVE  held' \subseteq Jobs /\ erased' \in [Jobs -> Nat]
    BY <1>11, HoldingKeeps DEF Bounded
  <1>2. ASSUME NEW c \in Calls, NEW j \in Jobs, Execute(c, j) PROVE Bounded'
    <2>1. PICK n \in 1 .. NRuntimes : TryCandidates(c, j, 1, n, ledger)
      BY <1>2 DEF Execute
    <2>2. n \in 0 .. NRuntimes /\ 1 \in 0 .. NRuntimes
      BY <1>0
    <2>3. /\ ledger' \in LedgerType /\ call' \in [Calls -> CallType]
          /\ launches' \in [Jobs -> Nat] /\ Counted' /\ WithinLimits(ledger')
      BY <1>1, <2>1, <2>2, TryCandidatesBounded
    <2>4. held' \subseteq Jobs /\ erased' \in [Jobs -> Nat] /\ UNCHANGED crashes
      BY <1>2, <1>11 DEF Execute
    <2> QED BY <2>3, <2>4 DEF Bounded, TypeOK
  <1>3. ASSUME NEW c \in Calls, call[c].pc # "idle"
        PROVE  /\ call[c].job \in Jobs /\ call[c].index \in 0 .. NRuntimes
               /\ call[c].n \in 0 .. NRuntimes /\ call[c].before \in 0 .. MaxAttempts
    BY <1>0 DEF CallType
  <1>4. ASSUME NEW c \in Calls, Succeed(c) \/ Cancelled(c) PROVE Bounded'
    <2> DEFINE j == call[c].job
    <2>1. j \in Jobs /\ ledger.jobs[j] \in JobType
      BY <1>0, <1>3, <1>4 DEF Succeed, Cancelled
    <2>2. \E state \in {"COMPLETED", "WAITING"} :
            ledger'.jobs = [ledger.jobs EXCEPT ![j].state = state]
      BY <1>0, <1>4 DEF Succeed, Cancelled, LedgerType
    <2>3. /\ ledger'.jobs \in [Jobs -> JobType]
          /\ \A i \in Jobs : ledger'.jobs[i].attempts = ledger.jobs[i].attempts
      BY <1>0, <2>1, <2>2 DEF JobType
    <2>4. /\ ledger'.modelCalls = ledger.modelCalls /\ ledger'.retries = ledger.retries
          /\ ledger' \in LedgerType
      BY <1>0, <1>4, <2>3 DEF Succeed, Cancelled, LedgerType, Actions, Holds
    <2>5. call' \in [Calls -> CallType]
      BY <1>0, <1>4, <2>1, ReturnType DEF Succeed, Cancelled
    <2>6. launches' = launches /\ UNCHANGED crashes
      BY <1>4 DEF Succeed, Cancelled
    <2>7. held' \subseteq Jobs /\ erased' \in [Jobs -> Nat]
      <3>1. Holding({}) \/ Holding({j})
        BY <1>4 DEF Succeed, Cancelled
      <3> HIDE DEF j
      <3> QED BY <1>11, <2>1, <3>1
    <2> QED BY <1>0, <2>3, <2>4, <2>5, <2>6, <2>7 DEF Bounded, TypeOK, Counted, WithinLimits
  <1>5. ASSUME NEW c \in Calls, NEW kind \in Failures, Fail(c, kind) PROVE Bounded'
    <2> DEFINE j      == call[c].job
               k      == call[c].index
               n      == call[c].n
               action == RecoveryFor(kind, call[c].before + 1, j \notin ReplaySafe)
               L      == Interrupted(ledger, j, action)
    <2>1. j \in Jobs /\ k \in 0 .. NRuntimes /\ n \in 0 .. NRuntimes
      BY <1>3, <1>5 DEF Fail
    <2>2. action \in Actions
      BY RecoveryForActions
    <2>3. SameCounters(L)
      BY <1>0, <2>1, <2>2, InterruptedCounts
    <2>4. held' \subseteq Jobs /\ erased' \in [Jobs -> Nat] /\ UNCHANGED crashes
      BY <1>5, <1>11, <2>1 DEF Fail
    <2>5. CASE k < n /\ TryCandidates(c, j, k + 1, n, L)
      <3>1. k + 1 \in 0 .. NRuntimes
        BY <1>0, <2>1, <2>5
      <3>2. /\ ledger' \in LedgerType /\ call' \in [Calls -> CallType]
            /\ launches' \in [Jobs -> Nat] /\ Counted' /\ WithinLimits(ledger')
        <4> HIDE DEF L
        <4> QED BY <2>1, <2>3, <2>5, <3>1, TryCandidatesBounded
      <3> QED BY <2>4, <3>2 DEF Bounded, TypeOK
    <2>6. CASE /\ ledger' = L /\ UNCHANGED launches
               /\ call' = [call EXCEPT ![c].pc = "sleeping"] \/ Return(c)
      <3>1. call' \in [Calls -> CallType]
        BY <1>0, <2>1, <2>6, ReturnType DEF CallType
      <3> HIDE DEF L
      <3>2. ledger' \in LedgerType /\ Counted' /\ WithinLimits(ledger')
        BY <2>3, <2>6 DEF SameCounters, Bounded, Counted, WithinLimits
      <3> QED BY <1>0, <2>4, <2>6, <3>1, <3>2 DEF Bounded, TypeOK
    <2> QED BY <1>5, <2>5, <2>6 DEF Fail
  <1>6. ASSUME NEW c \in Calls, Wake(c) PROVE Bounded'
    <2>1. /\ ledger' \in LedgerType /\ call' \in [Calls -> CallType]
          /\ launches' \in [Jobs -> Nat] /\ Counted' /\ WithinLimits(ledger')
      BY <1>1, <1>3, <1>6, TryCandidatesBounded DEF Wake
    <2>2. held' \subseteq Jobs /\ erased' \in [Jobs -> Nat] /\ UNCHANGED crashes
      BY <1>6, <1>11 DEF Wake
    <2> QED BY <2>1, <2>2 DEF Bounded, TypeOK
  <1>7. ASSUME NEW j \in Jobs, DeadlinePasses(j) PROVE Bounded'
    <2>1. /\ ledger' \in LedgerType
          /\ ledger'.modelCalls = ledger.modelCalls /\ ledger'.retries = ledger.retries
          /\ \A i \in Jobs : ledger'.jobs[i].attempts = ledger.jobs[i].attempts
      BY <1>0, <1>7 DEF DeadlinePasses, LedgerType, JobType
    <2> QED BY <1>7, <2>1 DEF DeadlinePasses, Bounded, TypeOK, Counted, WithinLimits
  <1>8. CASE Crash
    <2>1. call' \in [Calls -> CallType]
      <3>1. CASE Jobs # {}
        BY <1>0, <1>8, <3>1 DEF Crash, NoCall, CallType
      <3>2. CASE Jobs = {}
        <4>1. Calls = {}
          BY <1>0, <3>2 DEF CallType
        <4> QED BY <1>8, <4>1 DEF Crash
      <3> QED BY <3>1, <3>2
    <2>2. crashes' \in 0 .. MaxCrashes
      BY <1>0, <1>8 DEF Crash, Bounded, TypeOK
    <2> QED BY <1>8, <2>1, <2>2 DEF Crash, Bounded, TypeOK, Counted, WithinLimits
  <1>9. CASE TaskTransition
    <2>1. /\ ledger' \in LedgerType /\ ledger'.jobs = ledger.jobs
          /\ ledger'.modelCalls = ledger.modelCalls /\ ledger'.retries = ledger.retries
      BY <1>0, <1>9, SupervisorAssumption DEF TaskTransition, LedgerType, Actions, Holds
    <2>2. held' \subseteq Jobs /\ erased' \in [Jobs -> Nat] /\ UNCHANGED <<call, launches, crashes>>
      BY <1>9, <1>11 DEF TaskTransition
    <2> QED BY <2>1, <2>2 DEF Bounded, TypeOK, Counted, WithinLimits
  <1>12. ASSUME NEW j \in Jobs, RejectOutput(j) PROVE Bounded'
    <2>1. ledger'.jobs = [ledger.jobs EXCEPT ![j].state = "FAILED"]
      BY <1>0, <1>12 DEF RejectOutput, LedgerType
    <2>2. /\ ledger'.jobs \in [Jobs -> JobType]
          /\ \A i \in Jobs : ledger'.jobs[i].attempts = ledger.jobs[i].attempts
      BY <1>0, <2>1 DEF JobType
    <2>3. /\ ledger' \in LedgerType
          /\ ledger'.modelCalls = ledger.modelCalls /\ ledger'.retries = ledger.retries
      BY <1>0, <1>12, <2>2 DEF RejectOutput, LedgerType
    <2> QED BY <1>12, <2>2, <2>3 DEF RejectOutput, Bounded, TypeOK, Counted, WithinLimits
  <1>10. CASE UNCHANGED vars
    BY <1>10 DEF vars, Bounded, TypeOK, Counted, WithinLimits
  <1> QED BY <1>2, <1>4, <1>5, <1>6, <1>7, <1>8, <1>9, <1>10, <1>12 DEF Next, Step

\* A new task has spent nothing.
LEMMA InitBounded == ASSUME Jobs # {}, Init PROVE Bounded
  <1>0. /\ NRuntimes \in Nat /\ MaxAttempts \in Nat /\ MaxCrashes \in Nat
        /\ ModelLimit \in Nat /\ RetryLimit \in Nat
    BY SupervisorAssumption
  <1>1. ledger \in LedgerType
    BY <1>0 DEF Init, LedgerType, JobType, Actions, Holds
  <1>2. call \in [Calls -> CallType]
    BY <1>0 DEF Init, NoCall, CallType
  <1> QED BY <1>0, <1>1, <1>2 DEF Init, Bounded, TypeOK, Counted, WithinLimits

\* The checkpoint and the calls keep their shape.
THEOREM TypeCorrect == ASSUME Jobs # {} PROVE Spec => []TypeOK
  <1>1. Bounded => TypeOK
    BY DEF Bounded
  <1> QED BY <1>1, InitBounded, BoundedStep, PTL DEF Spec

\* No job is launched more often than the code allows: fallbacks, sleeps,
\* repeated calls, crashes and changes of the task in any number and order.
THEOREM LaunchLimit == ASSUME Jobs # {} PROVE Spec => []LaunchesBounded
  <1>1. Bounded => LaunchesBounded
    <2> SUFFICES ASSUME Bounded, NEW j \in Jobs PROVE launches[j] <= MaxAttempts
      BY DEF LaunchesBounded
    <2>1. ledger.jobs[j].attempts \in 0 .. MaxAttempts
      BY DEF Bounded, TypeOK, LedgerType, JobType
    <2>2. MaxAttempts \in Nat
      BY SupervisorAssumption
    <2> QED BY <2>1, <2>2 DEF Bounded, Counted
  <1> QED BY <1>1, InitBounded, BoundedStep, PTL DEF Spec

\* However many jobs of the task run at once, they never spend more model calls
\* or retries than the task's limits.
THEOREM BudgetLimit == ASSUME Jobs # {} PROVE Spec => []BudgetRespected
  <1>1. Bounded => BudgetRespected
    BY DEF Bounded, WithinLimits, BudgetRespected
  <1> QED BY <1>1, InitBounded, BoundedStep, PTL DEF Spec

(***************************************************************************)
(* One call per job.  That a completed job keeps its result needs that no  *)
(* call is still working on it, and that rests on the single call: the     *)
(* other call would come back with a failure and write WAITING.            *)
(***************************************************************************)
Unfinished == \A c \in Calls : call[c].pc # "idle" => ledger.jobs[call[c].job].state # "COMPLETED"

Flight == SingleFlight /\ Unfinished

\* What CompletedIsFinal says of a step.
FinalStep ==
    \A j \in Jobs : ledger.jobs[j].state = "COMPLETED" =>
        /\ launches'[j] = launches[j]
        /\ \/ ledger'.jobs[j].state = "COMPLETED"
           \/ ledger'.jobs[j].state = "FAILED" /\ j \in ReplaySafe

\* The step touches job j only.
OthersKept(j) ==
    \A i \in Jobs \ {j} :
        ledger'.jobs[i].state = ledger.jobs[i].state /\ launches'[i] = launches[i]

\* The step moves call c only, which goes on with job j or ends.
OneCallMoves(c, j) ==
    /\ \A d \in Calls \ {c} : call'[d] = call[d]
    /\ call'[c].pc # "idle" => call'[c].job = j /\ ledger'.jobs[j].state # "COMPLETED"

\* Job j is unfinished and belongs to no call but c.
Owned(c, j) ==
    /\ ledger.jobs[j].state # "COMPLETED"
    /\ \A d \in Calls \ {c} : call[d].pc # "idle" => call[d].job # j

\* A step of one call on the job it owns disturbs nothing.
LEMMA OwnerMoves ==
    ASSUME Bounded, Flight, NEW c \in Calls, NEW j \in Jobs,
           Owned(c, j), OthersKept(j), OneCallMoves(c, j)
    PROVE  Flight' /\ FinalStep
  <1>1. \A d \in Calls : call[d].job \in Jobs
    BY DEF Bounded, TypeOK, CallType
  <1>2. SingleFlight'
    BY DEF Flight, SingleFlight, Owned, OneCallMoves
  <1>3. ASSUME NEW d \in Calls, call'[d].pc # "idle"
        PROVE  ledger'.jobs[call'[d].job].state # "COMPLETED"
    <2>1. CASE d = c
      BY <1>3, <2>1 DEF OneCallMoves
    <2>2. CASE d # c
      <3>1. call'[d] = call[d] /\ call[d].job \in Jobs \ {j}
        BY <1>1, <1>3, <2>2 DEF OneCallMoves, Owned
      <3> QED BY <1>3, <3>1 DEF OthersKept, Flight, Unfinished
    <2> QED BY <2>1, <2>2
  <1>4. FinalStep
    BY DEF FinalStep, OthersKept, Owned
  <1> QED BY <1>2, <1>3, <1>4 DEF Flight, Unfinished

\* A call in flight owns its job.
LEMMA FlightOwns ==
    ASSUME Bounded, Flight, NEW c \in Calls, call[c].pc # "idle"
    PROVE  call[c].job \in Jobs /\ Owned(c, call[c].job)
  BY DEF Bounded, TypeOK, CallType, Flight, SingleFlight, Unfinished, Owned

\* The head of the candidate loop touches its own job and its own call.
LEMMA TryCandidatesMoves ==
    ASSUME Bounded, NEW c \in Calls, NEW j \in Jobs, NEW index, NEW n,
           NEW L \in LedgerType, TryCandidates(c, j, index, n, L),
           \A i \in Jobs \ {j} : L.jobs[i].state = ledger.jobs[i].state
    PROVE  OthersKept(j) /\ OneCallMoves(c, j)
  <1>0. call \in [Calls -> CallType] /\ launches \in [Jobs -> Nat] /\ L.jobs \in [Jobs -> JobType]
    BY DEF Bounded, TypeOK, LedgerType
  <1>1. CASE Return(c) /\ UNCHANGED launches /\ ledger'.jobs = L.jobs
    BY <1>0, <1>1 DEF Return, NoCall, OthersKept, OneCallMoves
  <1>2. CASE \E k \in index .. n, usesModel \in {0, 1} :
               /\ ledger' = Started(L, j, usesModel)
               /\ call' = [call EXCEPT ![c] = [pc |-> "awaiting", job |-> j, index |-> k,
                                               n |-> n, before |-> L.jobs[j].attempts]]
               /\ launches' = [launches EXCEPT ![j] = @ + 1]
    <2>1. /\ ledger'.jobs[j].state = "RUNNING"
          /\ \A i \in Jobs \ {j} : ledger'.jobs[i] = L.jobs[i]
      BY <1>0, <1>2 DEF Started, LedgerType
    <2> QED BY <1>0, <1>2, <2>1 DEF OthersKept, OneCallMoves
  <1>3. [L EXCEPT !.mode = "DETERMINISTIC", !.nextAction = "DEFER_OR_NATIVE_TOOL"].jobs = L.jobs
    BY DEF LedgerType
  <1> QED BY <1>1, <1>2, <1>3 DEF TryCandidates

\* Every step keeps the single call and the finished jobs.
LEMMA FlightStep == Bounded /\ Flight /\ [Next]_vars => Flight' /\ FinalStep
  <1> SUFFICES ASSUME Bounded, Flight, [Next]_vars PROVE Flight' /\ FinalStep
    OBVIOUS
  <1>0. /\ ledger \in LedgerType /\ ledger.jobs \in [Jobs -> JobType]
        /\ call \in [Calls -> CallType] /\ launches \in [Jobs -> Nat]
    BY DEF Bounded, TypeOK, LedgerType
  <1>1. ASSUME NEW c \in Calls, NEW j \in Jobs, Execute(c, j) PROVE Flight' /\ FinalStep
    <2>1. PICK n \in 1 .. NRuntimes : TryCandidates(c, j, 1, n, ledger)
      BY <1>1 DEF Execute
    <2>2. Owned(c, j)
      BY <1>1 DEF Execute, Active, Owned
    <2>3. OthersKept(j) /\ OneCallMoves(c, j)
      BY <1>0, <2>1, TryCandidatesMoves
    <2> QED BY <2>2, <2>3, OwnerMoves
  <1>2. ASSUME NEW c \in Calls, Succeed(c) \/ Cancelled(c) PROVE Flight' /\ FinalStep
    <2> DEFINE j == call[c].job
    <2>1. j \in Jobs /\ Owned(c, j)
      BY <1>2, FlightOwns DEF Succeed, Cancelled
    <2>2. OthersKept(j)
      <3>1. \E state \in {"COMPLETED", "WAITING"} :
              ledger'.jobs = [ledger.jobs EXCEPT ![j].state = state]
        BY <1>0, <1>2 DEF Succeed, Cancelled, LedgerType
      <3>2. \A i \in Jobs \ {j} : ledger'.jobs[i] = ledger.jobs[i]
        BY <1>0, <3>1
      <3> QED BY <1>2, <3>2 DEF Succeed, Cancelled, OthersKept
    <2>3. OneCallMoves(c, j)
      BY <1>0, <1>2 DEF Succeed, Cancelled, Return, NoCall, OneCallMoves
    <2> QED BY <2>1, <2>2, <2>3, OwnerMoves
  <1>3. ASSUME NEW c \in Calls, NEW kind \in Failures, Fail(c, kind) PROVE Flight' /\ FinalStep
    <2> DEFINE j      == call[c].job
               action == RecoveryFor(kind, call[c].before + 1, j \notin ReplaySafe)
               L      == Interrupted(ledger, j, action)
    <2>1. j \in Jobs /\ Owned(c, j)
      BY <1>3, FlightOwns DEF Fail
    <2>2. L \in LedgerType
      BY <1>0, <2>1, RecoveryForActions, InterruptedCounts DEF SameCounters
    <2>3. /\ \A i \in Jobs \ {j} : L.jobs[i].state = ledger.jobs[i].state
          /\ L.jobs[j].state = "WAITING"
      BY <1>0, <2>1 DEF Interrupted, LedgerType, JobType
    <2>4. \/ \E index, n : TryCandidates(c, j, index, n, L)
          \/ /\ ledger' = L /\ UNCHANGED launches
             /\ call' = [call EXCEPT ![c].pc = "sleeping"] \/ Return(c)
      BY <1>3 DEF Fail
    <2> HIDE DEF L
    <2>5. OthersKept(j) /\ OneCallMoves(c, j)
      <3>1. CASE \E index, n : TryCandidates(c, j, index, n, L)
        BY <2>1, <2>2, <2>3, <3>1, TryCandidatesMoves
      <3>2. CASE /\ ledger' = L /\ UNCHANGED launches
                 /\ call' = [call EXCEPT ![c].pc = "sleeping"] \/ Return(c)
        <4>1. OthersKept(j)
          BY <2>3, <3>2 DEF OthersKept
        <4>2. /\ \A d \in Calls \ {c} : call'[d] = call[d]
              /\ call'[c].pc # "idle" => call'[c].job = j
          BY <1>0, <3>2 DEF CallType, Return, NoCall
        <4> QED BY <2>3, <3>2, <4>1, <4>2 DEF OneCallMoves
      <3> QED BY <2>4, <3>1, <3>2
    <2> QED BY <2>1, <2>5, OwnerMoves
  <1>4. ASSUME NEW c \in Calls, Wake(c) PROVE Flight' /\ FinalStep
    <2>1. call[c].job \in Jobs /\ Owned(c, call[c].job)
      BY <1>4, FlightOwns DEF Wake
    <2>2. OthersKept(call[c].job) /\ OneCallMoves(c, call[c].job)
      BY <1>0, <1>4, <2>1, TryCandidatesMoves DEF Wake
    <2> QED BY <2>1, <2>2, OwnerMoves
  <1>5. ASSUME UNCHANGED launches,
               \A i \in Jobs : ledger'.jobs[i].state = ledger.jobs[i].state,
               \A c \in Calls : call'[c].pc # "idle" => call'[c] = call[c]
        PROVE  Flight' /\ FinalStep
    <2>1. \A c \in Calls : call[c].job \in Jobs
      BY <1>0 DEF CallType
    <2> QED BY <1>5, <2>1 DEF Flight, SingleFlight, Unfinished, FinalStep
  <1>6. CASE \/ \E j \in Jobs : DeadlinePasses(j)
             \/ TaskTransition
             \/ UNCHANGED vars
    <2>1. \A i \in Jobs : ledger'.jobs[i].state = ledger.jobs[i].state
      BY <1>0, <1>6 DEF DeadlinePasses, TaskTransition, LedgerType, JobType, vars
    <2>2. UNCHANGED <<call, launches>>
      BY <1>6 DEF DeadlinePasses, TaskTransition, vars
    <2> QED BY <1>5, <2>1, <2>2
  <1>7. CASE Crash
    BY <1>5, <1>7 DEF Crash, NoCall
  <1>8. ASSUME NEW j \in Jobs, RejectOutput(j) PROVE Flight' /\ FinalStep
    <2>1. ledger'.jobs = [ledger.jobs EXCEPT ![j].state = "FAILED"]
      BY <1>0, <1>8 DEF RejectOutput, LedgerType
    <2>2. /\ \A i \in Jobs \ {j} : ledger'.jobs[i] = ledger.jobs[i]
          /\ ledger'.jobs[j].state = "FAILED"
      BY <1>0, <2>1 DEF JobType
    <2>3. \A c \in Calls : call[c].job \in Jobs
      BY <1>0 DEF CallType
    <2>4. UNCHANGED <<call, launches>> /\ j \in ReplaySafe
      BY <1>8 DEF RejectOutput
    <2> QED BY <2>2, <2>3, <2>4 DEF Flight, SingleFlight, Unfinished, FinalStep
  <1> QED BY <1>1, <1>2, <1>3, <1>4, <1>6, <1>7, <1>8 DEF Next, Step

\* No call is in flight at first.
LEMMA InitFlight == Init => Flight
  BY DEF Init, NoCall, Flight, SingleFlight, Unfinished

\* No two calls ever run the same job, whatever sleeps, falls back, crashes or
\* is asked for again.
THEOREM OneCallPerJob == ASSUME Jobs # {} PROVE Spec => []SingleFlight
  <1>1. Flight => SingleFlight
    BY DEF Flight
  <1>2. Bounded /\ Flight /\ [Next]_vars => Flight'
    BY FlightStep
  <1> QED BY <1>1, <1>2, InitBounded, BoundedStep, InitFlight, PTL DEF Spec

\* A completed job is not started again and its result is not overwritten by a
\* late call, a deadline, a crash or a change of the task; only the output contract
\* takes the result of a replay-safe one back.
THEOREM CompletedStays == ASSUME Jobs # {} PROVE Spec => CompletedIsFinal
  <1>1. Bounded /\ Flight /\ [Next]_vars
           => [\A j \in Jobs : ledger.jobs[j].state = "COMPLETED" =>
                  /\ launches'[j] = launches[j]
                  /\ \/ ledger'.jobs[j].state = "COMPLETED"
                     \/ ledger'.jobs[j].state = "FAILED" /\ j \in ReplaySafe]_vars
    BY FlightStep DEF FinalStep
  <1>2. Bounded /\ Flight /\ [Next]_vars => Flight'
    BY FlightStep
  <1> QED BY <1>1, <1>2, InitBounded, BoundedStep, InitFlight, PTL DEF Spec, CompletedIsFinal

(***************************************************************************)
(* The hold of a job whose effect cannot be replayed.  The checkpoint has  *)
(* one nextAction for all jobs, so another job or a change of the task     *)
(* erases it, and erased counts that.  The invariant says where such a job *)
(* can be when it was started once more than its hold was erased: running, *)
(* completed, or parked behind a hold that is still there.  execute()      *)
(* starts none of these, and a failure takes the first to the last.        *)
(***************************************************************************)

\* A step that launches job j with checkpoint L, in call c.
Launches(c, j, L) ==
    /\ ~Exhausted(L, j)
    /\ launches' = [launches EXCEPT ![j] = @ + 1]
    /\ ledger'.jobs[j].state = "RUNNING"
    /\ \A i \in Jobs \ {j} : ledger'.jobs[i] = L.jobs[i]
    /\ call'[c].pc = "awaiting" /\ call'[c].job = j

\* One that ends call c with checkpoint L and launches nothing.
Ends(c, j, L) ==
    /\ launches' = launches
    /\ ledger'.jobs = L.jobs
    /\ ledger'.modelCalls = L.modelCalls /\ ledger'.retries = L.retries
    /\ ledger'.nextAction = L.nextAction \/ Exhausted(L, j)
    /\ call'[c].pc = "idle"

\* The two ways in which the head of the candidate loop ends.
LEMMA TryCandidatesEnds ==
    ASSUME Bounded, NEW c \in Calls, NEW j \in Jobs, NEW index, NEW n,
           NEW L \in LedgerType, TryCandidates(c, j, index, n, L)
    PROVE  /\ \A d \in Calls \ {c} : call'[d] = call[d]
           /\ Ends(c, j, L) \/ Launches(c, j, L)
  <1>0. call \in [Calls -> CallType] /\ L.jobs \in [Jobs -> JobType]
    BY DEF Bounded, TypeOK, LedgerType
  <1>1. CASE /\ Exhausted(L, j)
             /\ ledger' = [L EXCEPT !.mode = "DETERMINISTIC",
                                    !.nextAction = "DEFER_OR_NATIVE_TOOL"]
             /\ Return(c) /\ UNCHANGED launches
    <2>1. /\ ledger'.jobs = L.jobs /\ ledger'.modelCalls = L.modelCalls
          /\ ledger'.retries = L.retries
      BY <1>1 DEF LedgerType
    <2> QED BY <1>0, <1>1, <2>1 DEF Return, NoCall, Ends
  <1>2. CASE ledger' = L /\ Return(c) /\ UNCHANGED launches
    BY <1>0, <1>2 DEF Return, NoCall, Ends
  <1>3. ASSUME NEW k \in index .. n, NEW usesModel \in {0, 1}, ~Exhausted(L, j),
               ledger' = Started(L, j, usesModel),
               call' = [call EXCEPT ![c] = [pc |-> "awaiting", job |-> j, index |-> k,
                                            n |-> n, before |-> L.jobs[j].attempts]],
               launches' = [launches EXCEPT ![j] = @ + 1]
        PROVE  Launches(c, j, L) /\ \A d \in Calls \ {c} : call'[d] = call[d]
    <2> DEFINE new == [state |-> "RUNNING", attempts |-> L.jobs[j].attempts + 1,
                       retryAt |-> "none"]
    <2>1. ledger'.jobs = [L.jobs EXCEPT ![j] = new]
      BY <1>3 DEF Started, LedgerType
    <2>2. ledger'.jobs[j].state = "RUNNING" /\ \A i \in Jobs \ {j} : ledger'.jobs[i] = L.jobs[i]
      BY <1>0, <2>1
    <2> QED BY <1>0, <1>3, <2>2 DEF Launches
  <1> QED BY <1>1, <1>2, <1>3 DEF TryCandidates

\* Where a failure leaves an unsafe job: parked for a human, the call over.
LEMMA UnsafeFailureParks ==
    ASSUME Bounded, NEW c \in Calls, NEW kind \in Failures, Fail(c, kind),
           call[c].job \notin ReplaySafe
    PROVE  /\ launches' = launches /\ Return(c)
           /\ ledger'.jobs[call[c].job].state = "WAITING" /\ ledger'.nextAction \in Holds
           /\ ledger' = Interrupted(ledger, call[c].job, RecoveryFor(kind, call[c].before + 1, TRUE))
  <1> DEFINE j == call[c].job
  <1>1. j \in Jobs /\ ledger \in LedgerType /\ ledger.jobs \in [Jobs -> JobType]
    BY DEF Bounded, TypeOK, CallType, LedgerType
  <1>2. RecoveryFor(kind, call[c].before + 1, j \notin ReplaySafe) = "VERIFY_SIDE_EFFECT"
    BY DEF RecoveryFor
  <1>3. /\ ledger' = Interrupted(ledger, j, "VERIFY_SIDE_EFFECT")
        /\ launches' = launches /\ Return(c)
    BY <1>2 DEF Fail, Holds
  <1>4. /\ Interrupted(ledger, j, "VERIFY_SIDE_EFFECT").jobs[j].state = "WAITING"
        /\ Interrupted(ledger, j, "VERIFY_SIDE_EFFECT").nextAction = "VERIFY_SIDE_EFFECT"
    BY <1>1 DEF Interrupted, LedgerType, JobType
  <1> QED BY <1>2, <1>3, <1>4 DEF Holds

\* No call of an unsafe job ever sleeps before a retry.
NeverSleeps == \A j \in Jobs \ ReplaySafe, c \in Calls : call[c].job = j => call[c].pc # "sleeping"

LEMMA NeverSleepsStep == ASSUME Bounded, NeverSleeps, [Next]_vars PROVE NeverSleeps'
  <1>0. /\ ledger \in LedgerType /\ call \in [Calls -> CallType]
        /\ \A c \in Calls : call[c].job \in Jobs
    BY DEF Bounded, TypeOK, CallType
  <1>1. ASSUME NEW c \in Calls, NEW j \in Jobs, NEW index, NEW n, NEW L \in LedgerType,
               TryCandidates(c, j, index, n, L)
        PROVE  NeverSleeps'
    <2>1. call'[c].pc \in {"idle", "awaiting"} /\ \A d \in Calls \ {c} : call'[d] = call[d]
      BY <1>1, TryCandidatesEnds DEF Ends, Launches
    <2> QED BY <2>1 DEF NeverSleeps
  <1>2. ASSUME NEW c \in Calls, Return(c) PROVE NeverSleeps'
    BY <1>0, <1>2 DEF Return, NoCall, NeverSleeps
  <1>3. ASSUME NEW c \in Calls, NEW kind \in Failures, Fail(c, kind) PROVE NeverSleeps'
    <2> DEFINE j      == call[c].job
               action == RecoveryFor(kind, call[c].before + 1, j \notin ReplaySafe)
               L      == Interrupted(ledger, j, action)
    <2>1. CASE j \notin ReplaySafe
      BY <1>2, <1>3, <2>1, UnsafeFailureParks
    <2>2. CASE j \in ReplaySafe
      <3>1. L \in LedgerType
        BY <1>0, RecoveryForActions, InterruptedCounts DEF SameCounters
      <3>2. CASE TryCandidates(c, j, call[c].index + 1, call[c].n, L)
        BY <1>0, <1>1, <3>1, <3>2
      <3>3. CASE call' = [call EXCEPT ![c].pc = "sleeping"]
        BY <1>0, <2>2, <3>3 DEF NeverSleeps
      <3> QED BY <1>2, <1>3, <3>2, <3>3 DEF Fail
    <2> QED BY <2>1, <2>2
  <1>4. ASSUME NEW c \in Calls, Step(c) PROVE NeverSleeps'
    BY <1>0, <1>1, <1>2, <1>3, <1>4 DEF Step, Succeed, Cancelled, Wake
  <1>5. ASSUME NEW c \in Calls, NEW j \in Jobs, Execute(c, j) PROVE NeverSleeps'
    BY <1>0, <1>1, <1>5 DEF Execute
  <1>6. CASE Crash
    BY <1>6 DEF Crash, NoCall, NeverSleeps
  <1>7. CASE UNCHANGED vars \/ TaskTransition \/ \E j \in Jobs : DeadlinePasses(j) \/ RejectOutput(j)
    BY <1>7 DEF vars, TaskTransition, DeadlinePasses, RejectOutput, NeverSleeps
  <1> QED BY <1>4, <1>5, <1>6, <1>7 DEF Next

\* Job j was started once more than its hold was erased only where it is safe.
OnceOf(j) ==
    \/ launches[j] <= erased[j]
    \/ /\ launches[j] = 1 + erased[j]
       /\ \/ ledger.jobs[j].state \in {"RUNNING", "COMPLETED"}
          \/ j \in held

\* While a job is parked the checkpoint has a hold; a job without a state never ran.
Once ==
    /\ held # {} => ledger.nextAction \in Holds
    /\ \A j \in Jobs : ledger.jobs[j].state = "NONE" => launches[j] = 0
    /\ \A j \in Jobs \ ReplaySafe : OnceOf(j)

\* A step that does not launch job j and keeps its state keeps its count.
LEMMA OthersOnce ==
    ASSUME TypeOK, TypeOK', NEW j \in Jobs, NEW parked \in SUBSET Jobs, OnceOf(j),
           Holding(parked), launches'[j] = launches[j],
           ledger'.jobs[j].state = ledger.jobs[j].state
    PROVE  OnceOf(j)'
  <1>1. /\ launches[j] \in Nat /\ erased[j] \in Nat /\ erased'[j] \in Nat
        /\ erased'[j] >= erased[j]
        /\ j \in held => j \in held' \/ erased'[j] = erased[j] + 1
    BY HoldingKeeps DEF TypeOK
  <1>2. CASE launches[j] <= erased[j]
    BY <1>1, <1>2 DEF OnceOf
  <1>3. CASE launches[j] = 1 + erased[j] /\ erased'[j] = erased[j]
    BY <1>1, <1>3 DEF OnceOf
  <1>4. CASE launches[j] = 1 + erased[j] /\ erased'[j] >= erased[j] + 1
    BY <1>1, <1>4 DEF OnceOf
  <1> QED BY <1>1, <1>2, <1>3, <1>4 DEF OnceOf

\* The head of the candidate loop: any other job's count is kept by OthersOnce, and an
\* unsafe job is launched only where its hold was erased or it never ran.
LEMMA TryCandidatesOnce ==
    ASSUME Bounded, TypeOK', Once, NEW c \in Calls, NEW i \in Jobs, NEW index, NEW n,
           NEW L \in LedgerType, NEW parked \in SUBSET Jobs,
           TryCandidates(c, i, index, n, L), Holding(parked),
           L.jobs[i].state # "NONE" \/ L = ledger,
           \A j \in Jobs \ {i} : L.jobs[j].state = ledger.jobs[j].state,
           i \notin ReplaySafe =>
              /\ L = ledger
              /\ ledger.jobs[i].state \notin {"RUNNING", "COMPLETED"}
              /\ ledger.jobs[i].state # "NONE" => ledger.nextAction \notin Holds
    PROVE  Once'
  <1>0. /\ launches \in [Jobs -> Nat] /\ erased \in [Jobs -> Nat] /\ erased' \in [Jobs -> Nat]
        /\ TypeOK /\ ReplaySafe \subseteq Jobs
    BY SupervisorAssumption DEF Bounded, TypeOK
  <1>1. Ends(c, i, L) \/ Launches(c, i, L)
    BY TryCandidatesEnds
  <1>2. \A j \in Jobs \ {i} :
           ledger'.jobs[j].state = ledger.jobs[j].state /\ launches'[j] = launches[j]
    BY <1>0, <1>1 DEF Ends, Launches
  <1>3. held' # {} => ledger'.nextAction \in Holds
    BY <1>0, HoldingKeeps
  <1>4. \A j \in Jobs : ledger'.jobs[j].state = "NONE" => launches'[j] = 0
    <2>1. ledger'.jobs[i].state = "NONE" => launches'[i] = 0
      BY <1>1 DEF Ends, Launches, Once
    <2> QED BY <1>2, <2>1 DEF Once
  <1>5. ASSUME i \notin ReplaySafe PROVE OnceOf(i)'
    <2>1. CASE Ends(c, i, L)
      <3>1. launches'[i] = launches[i] /\ ledger'.jobs[i].state = ledger.jobs[i].state
        BY <1>5, <2>1 DEF Ends
      <3> QED BY <1>0, <1>5, <3>1, OthersOnce DEF Once
    <2>2. CASE Launches(c, i, L)
      <3>1. launches[i] <= erased[i]
        <4>1. CASE ledger.jobs[i].state = "NONE"
          BY <1>0, <4>1 DEF Once
        <4>2. CASE ledger.jobs[i].state # "NONE"
          <5>1. held = {}
            BY <1>5, <4>2 DEF Once
          <5> QED BY <1>5, <5>1 DEF Once, OnceOf
        <4> QED BY <4>1, <4>2
      <3>2. erased'[i] >= erased[i]
        BY <1>0, HoldingKeeps
      <3>3. launches'[i] = launches[i] + 1 /\ ledger'.jobs[i].state = "RUNNING"
        BY <1>0, <2>2 DEF Launches
      <3>4. /\ launches[i] \in Nat /\ erased[i] \in Nat /\ erased'[i] \in Nat
        BY <1>0
      <3>5. launches'[i] <= erased'[i] \/ launches'[i] = 1 + erased'[i]
        BY <3>1, <3>2, <3>3, <3>4
      <3> QED BY <3>3, <3>5 DEF OnceOf
    <2> QED BY <1>1, <2>1, <2>2
  <1>6. ASSUME NEW j \in Jobs \ ReplaySafe, j # i PROVE OnceOf(j)'
    BY <1>0, <1>2, <1>6, OthersOnce DEF Once
  <1> QED BY <1>3, <1>4, <1>5, <1>6 DEF Once

\* The end of a call: its own job is completed, or parked behind a hold, or replay-safe.
LEMMA EndOnce ==
    ASSUME Bounded, TypeOK', Once, NEW i \in Jobs, NEW parked \in SUBSET Jobs, Holding(parked),
           launches' = launches,
           \A j \in Jobs \ {i} : ledger'.jobs[j].state = ledger.jobs[j].state,
           ledger'.jobs[i].state # "NONE",
           i \notin ReplaySafe =>
              \/ ledger'.jobs[i].state = "COMPLETED"
              \/ i \in parked /\ ledger'.nextAction \in Holds
    PROVE  Once'
  <1>0. /\ launches \in [Jobs -> Nat] /\ erased \in [Jobs -> Nat] /\ erased' \in [Jobs -> Nat]
        /\ TypeOK
    BY DEF Bounded, TypeOK
  <1>1. /\ held' # {} => ledger'.nextAction \in Holds
        /\ \A j \in Jobs : ledger'.jobs[j].state = "NONE" => launches'[j] = 0
    BY <1>0, HoldingKeeps DEF Once
  <1>2. ASSUME i \notin ReplaySafe PROVE OnceOf(i)'
    <2>1. ledger'.jobs[i].state = "COMPLETED" \/ i \in held'
      BY <1>0, <1>2, HoldingKeeps
    <2>2. launches'[i] <= 1 + erased[i] /\ erased'[i] >= erased[i]
      BY <1>0, <1>2, HoldingKeeps DEF Once, OnceOf
    <2>3. launches'[i] \in Nat /\ erased[i] \in Nat /\ erased'[i] \in Nat
      BY <1>0
    <2>4. launches'[i] <= erased'[i] \/ launches'[i] = 1 + erased'[i]
      BY <2>2, <2>3
    <2> QED BY <2>1, <2>4 DEF OnceOf
  <1>3. ASSUME NEW j \in Jobs \ ReplaySafe, j # i PROVE OnceOf(j)'
    BY <1>0, <1>3, OthersOnce DEF Once
  <1> QED BY <1>1, <1>2, <1>3 DEF Once

\* Every step keeps Once.
LEMMA OnceStep == ASSUME Bounded, NeverSleeps, Once, [Next]_vars PROVE Once'
  <1>0. /\ TypeOK' /\ TypeOK /\ ledger \in LedgerType /\ ledger.jobs \in [Jobs -> JobType]
        /\ \A c \in Calls : call[c].job \in Jobs
        /\ ReplaySafe \subseteq Jobs
    BY BoundedStep, SupervisorAssumption DEF Bounded, TypeOK, LedgerType, CallType
  <1>1. ASSUME NEW c \in Calls, NEW i \in Jobs, Execute(c, i) PROVE Once'
    <2>1. PICK n \in 1 .. NRuntimes : TryCandidates(c, i, 1, n, ledger)
      BY <1>1 DEF Execute
    <2>2. /\ Holding({})
          /\ i \notin ReplaySafe => ledger.jobs[i].state \notin {"RUNNING", "COMPLETED"}
          /\ ledger.jobs[i].state # "NONE" => ledger.nextAction \notin Holds
      BY <1>1 DEF Execute
    <2> QED BY <1>0, <2>1, <2>2, TryCandidatesOnce
  <1>2. ASSUME NEW c \in Calls, Succeed(c) \/ Cancelled(c) PROVE Once'
    <2> DEFINE i == call[c].job
    <2>1. \/ /\ ledger'.jobs = [ledger.jobs EXCEPT ![i].state = "COMPLETED"]
             /\ Holding({})
          \/ /\ ledger'.jobs = [ledger.jobs EXCEPT ![i].state = "WAITING"]
             /\ ledger'.nextAction = "HUMAN_REQUIRED" /\ Holding({i})
      BY <1>0, <1>2 DEF Succeed, Cancelled, LedgerType
    <2>2. launches' = launches
      BY <1>2 DEF Succeed, Cancelled
    <2>3. i \in Jobs
      BY <1>0
    <2> HIDE DEF i
    <2>4. /\ \A j \in Jobs \ {i} : ledger'.jobs[j].state = ledger.jobs[j].state
          /\ ledger'.jobs[i].state \in {"COMPLETED", "WAITING"}
      BY <1>0, <2>1, <2>3 DEF JobType
    <2>5. CASE /\ ledger'.jobs = [ledger.jobs EXCEPT ![i].state = "COMPLETED"]
               /\ Holding({})
      <3>1. ledger'.jobs[i].state = "COMPLETED"
        BY <1>0, <2>3, <2>5 DEF JobType
      <3> QED BY <1>0, <2>2, <2>3, <2>4, <2>5, <3>1, EndOnce
    <2>6. CASE ledger'.nextAction = "HUMAN_REQUIRED" /\ Holding({i})
      BY <1>0, <2>2, <2>3, <2>4, <2>6, EndOnce DEF Holds
    <2> QED BY <2>1, <2>5, <2>6
  <1>3. ASSUME NEW c \in Calls, NEW kind \in Failures, Fail(c, kind) PROVE Once'
    <2> DEFINE i      == call[c].job
               action == RecoveryFor(kind, call[c].before + 1, i \notin ReplaySafe)
               L      == Interrupted(ledger, i, action)
    <2>1. i \in Jobs /\ Holding({i})
      BY <1>0, <1>3 DEF Fail
    <2>2. L \in LedgerType
      BY <1>0, <2>1, RecoveryForActions, InterruptedCounts DEF SameCounters
    <2>3. /\ \A j \in Jobs \ {i} : L.jobs[j].state = ledger.jobs[j].state
          /\ L.jobs[i].state = "WAITING"
      BY <1>0, <2>1 DEF Interrupted, LedgerType, JobType
    <2>4. CASE i \notin ReplaySafe
      <3>1. /\ launches' = launches /\ ledger' = L /\ ledger'.nextAction \in Holds
        BY <1>3, <2>4, UnsafeFailureParks
      <3> HIDE DEF i, L
      <3> QED BY <1>0, <2>1, <2>3, <3>1, EndOnce
    <2>5. CASE i \in ReplaySafe
      <3>1. \/ \E index, n : TryCandidates(c, i, index, n, L)
            \/ ledger' = L /\ launches' = launches
        BY <1>3 DEF Fail
      <3> HIDE DEF i, L
      <3>2. CASE \E index, n : TryCandidates(c, i, index, n, L)
        BY <1>0, <2>1, <2>2, <2>3, <2>5, <3>2, TryCandidatesOnce
      <3>3. CASE ledger' = L /\ launches' = launches
        BY <1>0, <2>1, <2>3, <2>5, <3>3, EndOnce
      <3> QED BY <3>1, <3>2, <3>3
    <2> QED BY <2>4, <2>5
  <1>4. ASSUME NEW c \in Calls, Wake(c) PROVE Once'
    <2> DEFINE i == call[c].job
    <2>1. /\ i \in Jobs /\ i \in ReplaySafe /\ Holding({})
          /\ TryCandidates(c, i, call[c].index, call[c].n, ledger)
      BY <1>0, <1>4 DEF Wake, NeverSleeps
    <2> HIDE DEF i
    <2> QED BY <1>0, <2>1, TryCandidatesOnce
  <1>5. ASSUME \A j \in Jobs : ledger'.jobs[j].state = ledger.jobs[j].state,
               launches' = launches, NEW parked \in SUBSET Jobs, Holding(parked)
        PROVE  Once'
    BY <1>0, <1>5, HoldingKeeps, OthersOnce DEF Once
  <1>6. CASE TaskTransition
    <2>1. ledger'.jobs = ledger.jobs /\ launches' = launches /\ Holding({})
      BY <1>0, <1>6 DEF TaskTransition, LedgerType
    <2> QED BY <1>5, <2>1
  <1>7. CASE UNCHANGED vars \/ Crash \/ \E j \in Jobs : DeadlinePasses(j) \/ RejectOutput(j)
    <2>1. /\ UNCHANGED <<launches, held, erased>> /\ ledger'.nextAction = ledger.nextAction
          /\ \A j \in Jobs : \/ ledger'.jobs[j].state = ledger.jobs[j].state
                             \/ ledger'.jobs[j].state = "FAILED" /\ j \in ReplaySafe
      BY <1>0, <1>7 DEF vars, Crash, DeadlinePasses, RejectOutput, LedgerType, JobType
    <2> QED BY <2>1 DEF Once, OnceOf
  <1> QED BY <1>1, <1>2, <1>3, <1>4, <1>6, <1>7 DEF Next, Step

\* A job whose effect cannot be replayed is started at most once more than its hold was
\* overwritten, for any number of jobs, calls, crashes and changes of the task, and also
\* when the process died while it ran.
THEOREM EffectOnce == ASSUME Jobs # {} PROVE Spec => []OncePerErasedHold
  <1>1. Init => Bounded /\ NeverSleeps /\ Once
    <2>1. Init => NeverSleeps /\ Once
      BY DEF Init, NoCall, NeverSleeps, Once, OnceOf
    <2> QED BY <2>1, InitBounded
  <1>2. Bounded /\ NeverSleeps /\ Once /\ [Next]_vars => Bounded' /\ NeverSleeps' /\ Once'
    BY BoundedStep, NeverSleepsStep, OnceStep
  <1>3. Bounded /\ Once => OncePerErasedHold
    BY DEF Bounded, TypeOK, Once, OnceOf, OncePerErasedHold
  <1> QED BY <1>1, <1>2, <1>3, PTL DEF Spec
=============================================================================
