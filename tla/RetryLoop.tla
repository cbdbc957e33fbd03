------------------------------ MODULE RetryLoop ------------------------------
(***************************************************************************)
(* The retry loop that ExecutionSupervisor and RecoveryScheduler close     *)
(* through the "runtime" handler of MainCommander                          *)
(* (main-commander.ts:133-146): a replay-safe job that failed leaves a     *)
(* deadline in the task ledger AND a wakeup in recovery.json; when the     *)
(* wakeup is due its handler executes the job again, and what the handler  *)
(* answers is read from the ledger.                                        *)
(*                                                                         *)
(* The module extends the scheduler, whose handlers it fills in, and       *)
(* instantiates the supervisor, which they call.  The names of the whole   *)
(* begin with Loop.                                                        *)
(*                                                                         *)
(* The two files are written one after the other.  `next` is the code that *)
(* runs next without an await: nothing but a crash comes between.          *)
(***************************************************************************)
EXTENDS RecoveryScheduler

CONSTANTS ReplaySafe,
          UserCalls,    \* calls of execute() by the task's own flow
          WakeCall,     \* the call the handler makes
          NRuntimes, ModelLimit, RetryLimit, TaskActions

\* A wakeup of this kind is named after its task and job.
Jobs == Ids

ASSUME LoopAssumption ==
    /\ Jobs # {} /\ ReplaySafe \subseteq Jobs
    /\ WakeCall \notin UserCalls
    /\ {NRuntimes, ModelLimit, RetryLimit} \subseteq Nat
    /\ TaskActions \subseteq {"HUMAN_REQUIRED", "NEXT_STEP"}

VARIABLES
    ledger, call, launches, held, erased, crashes,   \* ExecutionSupervisor
    handler,   \* where the handler of the current wakeup is
    next,      \* the synchronous continuation, if any
    status,    \* what execute() returned or did, or why the handler did not call it
    task,      \* status of the task in the store
    unwatched  \* history: jobs whose wakeup was lost on one of the known ways

supervisor == <<ledger, call, launches, held, erased, crashes>>
handling   == <<handler, next, status, task, unwatched>>
loopVars   == <<supervisor, vars, handling>>

AllCalls == UserCalls \cup {WakeCall}

ES == INSTANCE ExecutionSupervisor
        WITH Calls <- AllCalls, HasRecovery <- TRUE, MaxCrashes <- MaxRestarts

Nothing == [do |-> "nothing", job |-> CHOOSE j \in Jobs : TRUE]
Quiet   == next = Nothing

LoopInit ==
    /\ ES!Init /\ Init
    /\ handler = "idle"
    /\ next = Nothing
    /\ status = "failure"
    /\ task = "active"
    /\ unwatched = {}

Awaits(j) == handler = "executing" /\ j \in current

\* Mutant: a call that failed leaves the handler waiting.
ContinueOnSuccess(j, st) ==
    /\ status' = st
    /\ next' = Nothing
    /\ IF Awaits(j) /\ st = "success" THEN handler' = "finishing" ELSE UNCHANGED handler

\* The call of job j is over with outcome st: the handler that awaits it goes on.
Continue(j, st) ==
    /\ status' = st
    /\ IF Awaits(j) /\ st = "success"
       THEN handler' = "finishing" /\ next' = Nothing
       ELSE /\ next' = IF Awaits(j) THEN [do |-> "answer", job |-> j] ELSE Nothing
            /\ UNCHANGED handler

AfterStep(c, st) ==
    IF call'[c].pc = "idle"
    THEN Continue(call[c].job, st)
    ELSE next' = Nothing /\ UNCHANGED <<handler, status>>

(***************************************************************************)
(* Steps of execute()                                                      *)
(***************************************************************************)

UserExecutes(c, j) ==
    /\ Quiet
    /\ ES!Execute(c, j)
    /\ UNCHANGED <<vars, handling>>

Succeed(c) ==
    /\ Quiet
    /\ ES!Succeed(c)
    /\ AfterStep(c, "success")
    /\ UNCHANGED <<vars, task, unwatched>>

StepOn(c) ==
    /\ Quiet
    /\ ES!Cancelled(c) \/ ES!Wake(c)
    /\ AfterStep(c, "failure")
    /\ UNCHANGED <<vars, task, unwatched>>

\* A dispatch that failed, or (unreviewed) whose answer did not pass the review.
\* The last candidate of a RETRY and any candidate of a WAIT go on to schedule();
\* a call that tries the next candidate and finds none does not.
Fail(c, kind, unreviewed) ==
    LET j      == call[c].job
        action == ES!RecoveryFor(kind, call[c].before + 1, j \notin ReplaySafe)
        more   == action \notin ES!Holds /\ action # "WAIT" /\ call[c].index < call[c].n
        wakeup == ~more /\ action \in {"WAIT", "RETRY"}
        st     == IF unreviewed /\ (wakeup \/ action \in ES!Holds) THEN "success" ELSE "failure"
    IN /\ Quiet
       /\ unreviewed => kind = "transient"
       /\ ES!Fail(c, kind)
       /\ IF wakeup
          THEN next' = [do |-> "schedule", job |-> j] /\ status' = st /\ UNCHANGED handler
          ELSE AfterStep(c, st)
       /\ unwatched' =
            IF \/ more /\ action = "RETRY" /\ call'[c].pc = "idle"
               \/ wakeup /\ st = "success" /\ Awaits(j)
            THEN unwatched \cup {j} ELSE unwatched
       /\ UNCHANGED <<vars, task>>

\* Mutant: schedule() is not called at all.
ScheduleOnce(j) ==
    /\ next = [do |-> "schedule", job |-> j]
    /\ UNCHANGED vars
    /\ Continue(j, status)
    /\ UNCHANGED <<supervisor, task, unwatched>>

\* recovery.schedule(...): ignored while the record is RUNNING or PAUSED.  When its
\* write is refused it throws, and execute() with it.
CallSchedule(j) ==
    /\ next = [do |-> "schedule", job |-> j]
    /\ \/ table[j].state \in {"RUNNING", "PAUSED"} /\ UNCHANGED vars
       \/ Schedule(j, FALSE)
    /\ Continue(j, IF writes' = writes THEN status ELSE "threw")
    /\ unwatched' = IF writes' # writes /\ file[j].state = "GONE"
                    THEN unwatched \cup {j} ELSE unwatched
    /\ UNCHANGED <<supervisor, task>>

(***************************************************************************)
(* The wakeup                                                              *)
(***************************************************************************)

\* The handler that the pass has entered, up to its first await.
Entered ==
    IF current' = {}
    THEN handler' = "idle" /\ next' = Nothing /\ UNCHANGED status
    ELSE IF task = "active"
         THEN handler' = "refreshing" /\ next' = Nothing /\ UNCHANGED status
         ELSE /\ handler' = "executing"
              /\ \E j \in current' : next' = [do |-> "answer", job |-> j]
              /\ status' = task

Timer ==
    /\ Quiet
    /\ TimerFires
    /\ Entered
    /\ UNCHANGED <<supervisor, task, unwatched>>

\* registry.refreshHealth() is over; execute() joins the call in flight, is
\* refused, or runs.
HandlerCalls(j) ==
    /\ Quiet
    /\ handler = "refreshing" /\ j \in current
    /\ \/ /\ ES!Active(j)
          /\ handler' = "executing"
          /\ UNCHANGED <<supervisor, next, status>>
       \/ /\ ~ES!Active(j) /\ ledger.jobs[j].state = "COMPLETED"
          /\ handler' = "finishing" /\ status' = "success"
          /\ UNCHANGED <<supervisor, next>>
       \/ /\ ~ES!Active(j) /\ ledger.jobs[j].state # "COMPLETED"
          /\ \/ UNCHANGED supervisor
             \/ ES!Execute(WakeCall, j) /\ call'[WakeCall].pc = "idle"
          /\ handler' = "executing" /\ status' = "failure"
          /\ next' = [do |-> "answer", job |-> j]
       \/ /\ ES!Execute(WakeCall, j) /\ call'[WakeCall].pc # "idle"
          /\ handler' = "executing"
          /\ UNCHANGED <<next, status>>
    /\ UNCHANGED <<vars, task, unwatched>>

\* The answer of a handler whose call did not succeed: the job's deadline, if any, and
\* another one when the call threw.
Answer(j) ==
    /\ next = [do |-> "answer", job |-> j]
    /\ CASE status = "final"   -> Settle("done", FALSE)
         [] status = "stopped" -> Settle("pause", FALSE)
         [] status = "threw"   -> Settle("retry", FALSE)
         [] OTHER -> IF ledger.jobs[j].retryAt = "none" THEN Settle("pause", FALSE)
                     ELSE Settle("retry", ledger.jobs[j].retryAt = "due")
    /\ Entered
    /\ UNCHANGED <<supervisor, task, unwatched>>

\* finalizeTask() and executePlan() are over, or one of them threw.
Finish ==
    /\ Quiet
    /\ handler = "finishing"
    /\ Settle("done", FALSE) \/ Settle("retry", FALSE)
    /\ Entered
    /\ UNCHANGED <<supervisor, task, unwatched>>

(***************************************************************************)
(* Time, users and crashes                                                 *)
(***************************************************************************)

\* A wakeup that waits for the job's deadline is due when the deadline passes.
Clock(j) ==
    LET waits == table[j].state = "WAITING" /\ ~table[j].due
    IN /\ Quiet
       /\ ledger.jobs[j].retryAt = "pending" \/ waits
       /\ IF ledger.jobs[j].retryAt = "pending" THEN ES!DeadlinePasses(j) ELSE UNCHANGED supervisor
       /\ IF waits THEN TimePasses(j) ELSE UNCHANGED vars
       /\ UNCHANGED handling

\* The user pauses or cancels the task, or it gets its final response.  The store writes
\* the change into the checkpoint.
TaskEnds ==
    /\ Quiet
    /\ task = "active"
    /\ task' \in {"stopped", "final"}
    /\ ES!TaskTransition
    /\ UNCHANGED <<vars, handler, next, status, unwatched>>

\* The user resumes the task, whether it was stopped or not: resumeTask() starts its
\* PAUSED wakeups again, if it has any.
ResumeTask ==
    LET paused == {j \in Jobs : table[j].state = "PAUSED"}
    IN /\ Quiet
       /\ task # "final"
       /\ task' = "active"
       /\ ES!TaskTransition
       /\ \/ Resume(paused)
          \/ paused = {} /\ UNCHANGED vars
       /\ UNCHANGED <<handler, next, status, unwatched>>

\* The task or one of its runs changes otherwise.
TaskTransition ==
    /\ Quiet
    /\ ES!TaskTransition
    /\ UNCHANGED <<vars, handling>>

\* The answer of a completed synthesis job breaks the output contract.  A handler that is
\* about to report done takes the wakeup with it, whoever runs the job again meanwhile.
RejectOutput(j) ==
    /\ Quiet
    /\ ES!RejectOutput(j)
    /\ unwatched' = IF handler = "finishing" /\ j \in current
                    THEN unwatched \cup {j} ELSE unwatched
    /\ UNCHANGED <<vars, handler, next, status, task>>

\* Mutant: the restarted process takes up the handler it was in.
CrashKeepsHandler ==
    /\ ES!Crash /\ Restart
    /\ next' = Nothing
    /\ unwatched' = IF next.do = "schedule" THEN unwatched \cup {next.job} ELSE unwatched
    /\ UNCHANGED <<handler, status, task>>

\* Also between the write of the ledger and that of the wakeup.
Crash ==
    /\ ES!Crash /\ Restart
    /\ handler' = "idle"
    /\ next' = Nothing
    /\ unwatched' = IF next.do = "schedule" THEN unwatched \cup {next.job} ELSE unwatched
    /\ UNCHANGED <<status, task>>

CallStep(c) == Succeed(c) \/ StepOn(c) \/ \E kind \in ES!Failures, b \in BOOLEAN : Fail(c, kind, b)

HandlerStep == \E j \in Jobs : HandlerCalls(j) \/ Answer(j)

LoopNext ==
    \/ \E c \in UserCalls, j \in Jobs : UserExecutes(c, j)
    \/ \E c \in AllCalls : CallStep(c)
    \/ \E j \in Jobs : CallSchedule(j) \/ HandlerCalls(j) \/ Answer(j) \/ Clock(j) \/ RejectOutput(j)
    \/ Timer \/ Finish \/ TaskEnds \/ ResumeTask \/ TaskTransition \/ Crash

LoopSpec == LoopInit /\ [][LoopNext]_loopVars

\* What runs synchronously runs; a pending timer fires, dispatches settle, sleeps, health
\* checks and finalizations end.
LoopFairSpec ==
    /\ LoopSpec
    /\ \A c \in AllCalls : WF_loopVars(CallStep(c))
    /\ \A j \in Jobs : WF_loopVars(CallSchedule(j)) /\ WF_loopVars(Clock(j))
    /\ WF_loopVars(HandlerStep) /\ WF_loopVars(Timer) /\ WF_loopVars(Finish)

(***************************************************************************)
(* Properties                                                              *)
(***************************************************************************)

\* The parts keep their shape; a handler runs exactly while a wakeup is RUNNING
\* in a pass, and its own call only while it awaits one.
LoopTypeOK ==
    /\ ES!TypeOK /\ TypeOK
    /\ handler \in {"idle", "refreshing", "executing", "finishing"}
    /\ (handler = "idle") = (current = {})
    /\ next.do \in {"nothing", "schedule", "answer"} /\ next.job \in Jobs
    /\ call[WakeCall].pc # "idle" => Awaits(call[WakeCall].job)

\* A job that waits for a deadline is watched: its wakeup is in recovery.json,
\* waiting, running or parked for the user, however user calls, wakeups, crashes
\* and resumes mix.  Nothing else would ever run the job again.  The ways it goes
\* wrong are excepted by name: a crash between the two writes, a refused write of the
\* second, a retry on the next candidate that the breaker or the budget refused, an
\* unreviewed answer, and a completed answer that the output contract rejects while the
\* handler finishes (with the code's three attempts none is left for a deadline then).
WaitingIsWatched ==
    \A j \in Jobs \ unwatched :
        /\ Quiet /\ task # "final" /\ ~ES!Active(j)
        /\ ledger.jobs[j].state = "WAITING" /\ ledger.jobs[j].retryAt # "none"
        => table[j].state # "GONE" /\ file[j].state # "GONE"

\* "every answer passes a deterministic review gate" (README.md:64): a wakeup whose
\* handler reported done has left a job completed by a reviewed answer, or one the output
\* contract rejected since, not one that still waits for its retry.
DoneMeansReviewed ==
    \A j \in settled : ledger.jobs[j].state \in {"COMPLETED", "FAILED"} \/ task = "final"

\* The supervisor's job and the deadlines, driven by each other, are the two
\* components: what RecoveryScheduler assumes of its handlers (that they settle)
\* is what the supervisor provides.
ImplementsScheduler == FairSpec
=============================================================================
