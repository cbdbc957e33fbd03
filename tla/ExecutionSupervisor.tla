------------------------ MODULE ExecutionSupervisor ------------------------
(***************************************************************************)
(* ExecutionSupervisor.execute (commander/execution-supervisor.ts): the    *)
(* durable dispatch loop that runs one job of a task on a list of          *)
(* compatible runtimes, with the recovery table of commander/              *)
(* interruption.ts and the provider state of src/shared/provider-state.ts. *)
(*                                                                         *)
(* One task, several jobs: the engineering runtime runs the steps of one   *)
(* task in parallel (engineering-runtime.ts:68-79), and all of them share  *)
(* the task's checkpoint, in particular its nextAction.  A step is the     *)
(* synchronous code between two awaits; the checkpoint is durable, the     *)
(* calls are not.  Which runtimes are compatible, and which the circuit    *)
(* breaker refuses, is left open.  Others write the checkpoint too:        *)
(* TaskTransition and RejectOutput are the writes execute() depends on.    *)
(***************************************************************************)
EXTENDS Naturals, FiniteSets

CONSTANTS Jobs,          \* jobs of the task
          ReplaySafe,    \* those whose request has replaySafe = true
          Calls,         \* concurrent calls of execute
          NRuntimes,     \* bound: compatible runtimes of one call
          MaxAttempts,   \* launches of one job (3 in the code)
          ModelLimit,    \* limits.modelCalls of the task
          RetryLimit,    \* limits.retries of the task
          HasRecovery,   \* a RecoveryScheduler was given to the supervisor
          MaxCrashes,    \* bound: process crashes
          TaskActions    \* next actions that changes of the task write

ASSUME SupervisorAssumption ==
    /\ ReplaySafe \subseteq Jobs
    /\ HasRecovery \in BOOLEAN
    /\ {NRuntimes, MaxAttempts, ModelLimit, RetryLimit, MaxCrashes} \subseteq Nat
    /\ TaskActions \subseteq {"HUMAN_REQUIRED", "NEXT_STEP"}

VARIABLES
    ledger,    \* the newest checkpoint of the task (durable)
    call,      \* the calls in flight (volatile)
    launches,  \* history: runtime executions started per job
    held,      \* history: jobs parked for a human since nextAction last was no hold
    erased,    \* history: how often the hold of a parked job was overwritten
    crashes

vars == <<ledger, call, launches, held, erased, crashes>>

Holds   == {"HUMAN_REQUIRED", "VERIFY_SIDE_EFFECT"}
Actions == Holds \cup {"RETRY", "WAIT", "RECONSTRUCT", "DEFER"}

\* Classes of failure that recoveryFor() tells apart; "At" carries a retryAt.
Failures == {"human", "dependency", "quota", "quotaAt", "session",
             "transient", "transientAt"}

\* Mutant: an uncertain side effect is retried like any failure.
RecoveryForTrusting(kind, attempts, uncertain) ==
    IF kind = "human" THEN "HUMAN_REQUIRED"
    ELSE IF attempts >= MaxAttempts THEN "DEFER" ELSE "RETRY"

\* recoveryFor(interruption, attempts, sideEffectUncertain).
RecoveryFor(kind, attempts, uncertain) ==
    CASE uncertain -> "VERIFY_SIDE_EFFECT"
      [] ~uncertain /\ kind = "human" -> "HUMAN_REQUIRED"
      [] ~uncertain /\ kind # "human"
            /\ (attempts >= MaxAttempts \/ kind \in {"dependency", "quota"}) -> "DEFER"
      [] OTHER -> CASE kind \in {"quotaAt", "transientAt"} -> "WAIT"
                    [] kind = "session" -> "RECONSTRUCT"
                    [] kind = "transient" -> "RETRY"

NoCall == [pc |-> "idle", job |-> CHOOSE j \in Jobs : TRUE, index |-> 0, n |-> 0, before |-> 0]

Init ==
    /\ ledger = [jobs |-> [j \in Jobs |-> [state |-> "NONE", attempts |-> 0, retryAt |-> "none"]],
                 nextAction |-> "COMPILE", mode |-> "NORMAL", provider |-> "none",
                 modelCalls |-> 0, retries |-> 0]
    /\ call = [c \in Calls |-> NoCall]
    /\ launches = [j \in Jobs |-> 0]
    /\ held = {}
    /\ erased = launches
    /\ crashes = 0

Active(j) == \E c \in Calls : call[c].pc # "idle" /\ call[c].job = j

Return(c) == call' = [call EXCEPT ![c] = NoCall]

\* The one nextAction of the checkpoint is the hold of every parked job: a step that
\* writes another action erases them all.
Holding(parked) ==
    IF ledger'.nextAction \in Holds
    THEN held' = held \cup parked /\ UNCHANGED erased
    ELSE held' = {} /\ erased' = [j \in Jobs |-> IF j \in held THEN erased[j] + 1 ELSE erased[j]]

\* Mutant: `>` in place of `>=`.
ExhaustedOffByOne(L, j) ==
    \/ L.jobs[j].attempts > MaxAttempts
    \/ L.modelCalls > ModelLimit
    \/ L.retries > RetryLimit

Exhausted(L, j) ==
    \/ L.jobs[j].attempts >= MaxAttempts
    \/ L.modelCalls >= ModelLimit
    \/ L.retries >= RetryLimit

\* "step started": the launch is in the checkpoint before the runtime runs.
Started(L, j, usesModel) ==
    [L EXCEPT !.nextAction = "WAIT_FOR_RESPONSE",
              !.modelCalls = @ + usesModel,
              !.retries = IF L.jobs[j].attempts = 0 THEN @ ELSE @ + 1,
              !.jobs[j] = [state |-> "RUNNING", attempts |-> @.attempts + 1,
                           retryAt |-> "none"]]

\* The head of the candidate loop, from candidate index on, with checkpoint L:
\* up to the next dispatch or to the return.
TryCandidates(c, j, index, n, L) ==
    \/ /\ Exhausted(L, j)
       /\ index <= n
       /\ ledger' = [L EXCEPT !.mode = "DETERMINISTIC", !.nextAction = "DEFER_OR_NATIVE_TOOL"]
       /\ Return(c)
       /\ UNCHANGED launches
    \/ /\ ~Exhausted(L, j)
       /\ \E k \in index .. n, usesModel \in {0, 1} :   \* k: first one the breaker admits
            /\ ledger' = Started(L, j, usesModel)
            /\ call' = [call EXCEPT ![c] = [pc |-> "awaiting", job |-> j, index |-> k,
                                            n |-> n, before |-> L.jobs[j].attempts]]
            /\ launches' = [launches EXCEPT ![j] = @ + 1]
    \/ /\ index > n \/ ~Exhausted(L, j)                 \* no backend remains
       /\ ledger' = L
       /\ Return(c)
       /\ UNCHANGED launches

(***************************************************************************)
(* Actions                                                                 *)
(***************************************************************************)

\* Mutant: a completed job is not recognised.
ExecuteAgain(c, j) ==
    /\ call[c].pc = "idle"
    /\ ~Active(j)
    /\ ledger.jobs[j].state # "NONE" => ledger.nextAction \notin Holds
    /\ \E n \in 1 .. NRuntimes : TryCandidates(c, j, 1, n, ledger)
    /\ Holding({})
    /\ UNCHANGED crashes

\* execute() for a job with no call in flight; the calls that run() refuses
\* without touching the checkpoint, and those that join one, change nothing.
Execute(c, j) ==
    /\ call[c].pc = "idle"
    /\ ~Active(j)
    /\ ledger.jobs[j].state # "COMPLETED"
    /\ ledger.jobs[j].state # "NONE" => ledger.nextAction \notin Holds
    /\ ledger.jobs[j].state = "RUNNING" => j \in ReplaySafe
    /\ ledger.jobs[j].retryAt # "pending"
    /\ \E n \in 1 .. NRuntimes : TryCandidates(c, j, 1, n, ledger)
    /\ Holding({})
    /\ UNCHANGED crashes

\* The runtime answered and the review passed.
Succeed(c) ==
    /\ call[c].pc = "awaiting"
    /\ ledger' = [ledger EXCEPT !.jobs[call[c].job].state = "COMPLETED",
                                !.nextAction = "NEXT_STEP", !.mode = "NORMAL",
                                !.provider = "none"]
    /\ Return(c)
    /\ Holding({})
    /\ UNCHANGED <<launches, crashes>>

\* The user cancelled the worker.
Cancelled(c) ==
    /\ call[c].pc = "awaiting"
    /\ ledger' = [ledger EXCEPT !.jobs[call[c].job].state = "WAITING",
                                !.nextAction = "HUMAN_REQUIRED", !.mode = "PAUSED",
                                !.provider = "PAUSED_PROVIDER"]
    /\ Return(c)
    /\ Holding({call[c].job})
    /\ UNCHANGED <<launches, crashes>>

\* "worker interrupted".
Interrupted(L, j, action) ==
    [L EXCEPT !.jobs[j].state = "WAITING",
              !.jobs[j].retryAt = IF action \in {"WAIT", "RETRY"} THEN "pending" ELSE "none",
              !.nextAction = action,
              !.mode = IF action \in Holds \cup {"DEFER"} THEN "PAUSED" ELSE "LIGHTWEIGHT",
              !.provider = IF action \in Holds THEN "PAUSED_PROVIDER" ELSE "WAITING_PROVIDER"]

\* The runtime failed, timed out, or its answer did not pass the review: park
\* the job for a human, try the next candidate at once, leave it to a durable
\* wakeup, sleep before the same candidate, or give up.
Fail(c, kind) ==
    LET j      == call[c].job
        k      == call[c].index
        n      == call[c].n
        tries  == call[c].before + 1
        action == RecoveryFor(kind, tries, j \notin ReplaySafe)
        L      == Interrupted(ledger, j, action)
        next   == action \notin Holds /\ k < n /\ action # "WAIT"
        wakeup == HasRecovery /\ action \in {"WAIT", "RETRY"}
        sleep  == ~wakeup /\ action \in {"RETRY", "RECONSTRUCT"} /\ tries < MaxAttempts
    IN /\ call[c].pc = "awaiting"
       /\ \/ next /\ TryCandidates(c, j, k + 1, n, L)
          \/ /\ ~next
             /\ ledger' = L
             /\ IF action \notin Holds /\ sleep
                THEN call' = [call EXCEPT ![c].pc = "sleeping"]
                ELSE Return(c)
             /\ UNCHANGED launches
       /\ Holding({j})
       /\ UNCHANGED crashes

\* Mutant: the sleep waits for a recorded deadline, which a rebuilt session has not.
WakeAtDeadline(c) ==
    /\ call[c].pc = "sleeping"
    /\ ledger.jobs[call[c].job].retryAt = "due"
    /\ TryCandidates(c, call[c].job, call[c].index, call[c].n, ledger)
    /\ Holding({})
    /\ UNCHANGED crashes

\* The in-process delay (at most a minute) is over: same candidate again.
Wake(c) ==
    /\ call[c].pc = "sleeping"
    /\ TryCandidates(c, call[c].job, call[c].index, call[c].n, ledger)
    /\ Holding({})
    /\ UNCHANGED crashes

\* A retry deadline passes.
DeadlinePasses(j) ==
    /\ ledger.jobs[j].retryAt = "pending"
    /\ ledger' = [ledger EXCEPT !.jobs[j].retryAt = "due"]
    /\ UNCHANGED <<call, launches, held, erased, crashes>>

Crash ==
    /\ crashes < MaxCrashes
    /\ crashes' = crashes + 1
    /\ call' = [c \in Calls |-> NoCall]
    /\ UNCHANGED <<ledger, launches, held, erased>>

\* StateStore.persist: any change of the task or its runs overwrites nextAction, with no
\* look at a hold that is there.  The task's own next action may be HUMAN_REQUIRED; the
\* others are all the same to execute(), and NEXT_STEP stands for them.  The graph runtime
\* and the verification gates write theirs in the same way.
TaskTransition ==
    /\ \E action \in TaskActions : ledger' = [ledger EXCEPT !.nextAction = action]
    /\ Holding({})
    /\ UNCHANGED <<call, launches, crashes>>

\* acceptSynthesis: the answer of a completed synthesis job, which is replay-safe, breaks
\* the output contract, and execute() will run the job again.
RejectOutput(j) ==
    /\ j \in ReplaySafe
    /\ ledger.jobs[j].state = "COMPLETED"
    /\ ledger' = [ledger EXCEPT !.jobs[j].state = "FAILED"]
    /\ UNCHANGED <<call, launches, held, erased, crashes>>

Step(c) == \/ Succeed(c) \/ Cancelled(c) \/ Wake(c)
           \/ \E kind \in Failures : Fail(c, kind)

Next ==
    \/ \E c \in Calls, j \in Jobs : Execute(c, j)
    \/ \E c \in Calls : Step(c)
    \/ \E j \in Jobs : DeadlinePasses(j) \/ RejectOutput(j)
    \/ Crash
    \/ TaskTransition

Spec == Init /\ [][Next]_vars

\* Every dispatch settles (Scheduler.executeWithTimeout races it with a timer)
\* and every sleep ends.
FairSpec == Spec /\ \A c \in Calls : WF_vars(Step(c))

(***************************************************************************)
(* Properties                                                              *)
(***************************************************************************)

JobType == [state : {"NONE", "RUNNING", "WAITING", "COMPLETED", "FAILED"},
            attempts : 0 .. MaxAttempts, retryAt : {"none", "pending", "due"}]

LedgerType ==
    [jobs : [Jobs -> JobType],
     nextAction : Actions \cup {"COMPILE", "WAIT_FOR_RESPONSE", "NEXT_STEP", "DEFER_OR_NATIVE_TOOL"},
     mode : {"NORMAL", "LIGHTWEIGHT", "DETERMINISTIC", "PAUSED"},
     provider : {"none", "WAITING_PROVIDER", "PAUSED_PROVIDER"},
     modelCalls : Nat, retries : Nat]

CallType == [pc : {"idle", "awaiting", "sleeping"}, job : Jobs,
             index : 0 .. NRuntimes, n : 0 .. NRuntimes, before : 0 .. MaxAttempts]

\* The checkpoint and the calls keep their shape.
TypeOK ==
    /\ ledger \in LedgerType
    /\ call \in [Calls -> CallType]
    /\ launches \in [Jobs -> Nat] /\ erased \in [Jobs -> Nat]
    /\ held \subseteq Jobs
    /\ crashes \in 0 .. MaxCrashes

\* No job is started more than MaxAttempts times, however fallbacks, sleeps,
\* repeated calls and crashes mix.
LaunchesBounded == \A j \in Jobs : launches[j] <= MaxAttempts

\* Parallel jobs never spend more than the task's model calls and retries.
BudgetRespected == ledger.modelCalls <= ModelLimit /\ ledger.retries <= RetryLimit

\* At most one call runs a given job at a time.
SingleFlight ==
    \A c, d \in Calls :
        c # d /\ call[c].pc # "idle" /\ call[d].pc # "idle" => call[c].job # call[d].job

\* A completed job is not started again and keeps its result, however many calls,
\* crashes and fallbacks follow.  The one way back is the output contract, which may
\* reject the synthesis of the final answer after it was completed
\* (main-commander.ts:662-666); a job with an effect is never reopened.
CompletedIsFinal ==
    [][\A j \in Jobs : ledger.jobs[j].state = "COMPLETED" =>
            /\ launches'[j] = launches[j]
            /\ \/ ledger'.jobs[j].state = "COMPLETED"
               \/ ledger'.jobs[j].state = "FAILED" /\ j \in ReplaySafe]_vars

\* A job whose effect cannot be replayed runs once: after a failure or a crash "prior
\* side effect must be verified before replay" (execution-supervisor.ts:30-31).
SideEffectOnce == \A j \in Jobs \ ReplaySafe : launches[j] <= 1

\* What is left of it, as the hold is one field for all jobs of the task: each further
\* start of such a job needs a hold of its own that was overwritten, by the start or end
\* of another job or by a change of the task.  Crashes, repeated calls, fallbacks, sleeps
\* and an exhausted budget never start it again.
OncePerErasedHold == \A j \in Jobs \ ReplaySafe : launches[j] <= 1 + erased[j]

\* Every call of execute returns.
CallsReturn == \A c \in Calls : (call[c].pc # "idle") ~> (call[c].pc = "idle")
=============================================================================
