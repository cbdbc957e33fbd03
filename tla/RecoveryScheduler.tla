-------------------------- MODULE RecoveryScheduler --------------------------
(***************************************************************************)
(* The persisted deadlines of commander/recovery-scheduler.ts: schedule(), *)
(* resumeTask(), and the single-flight pass runDue() that the timer or a   *)
(* DEPENDENCY_READY event starts.                                          *)
(*                                                                         *)
(* A step is the synchronous code between two awaits of a handler.  A pass *)
(* iterates over the record OBJECTS it collected at its start, while       *)
(* schedule() puts a new object under the same id: an id in `orphans` is   *)
(* one whose collected object is no longer the one in the map.             *)
(* A deadline is the one bit the scheduler reads of it: passed or not.     *)
(***************************************************************************)
EXTENDS Naturals

CONSTANTS Ids,              \* wakeup ids, e.g. "runtime:" + task + ":" + job
          MaxAttempts,      \* handler calls per record (3 in the code)
          MaxSchedules,     \* bound: schedule() calls that create a record
          MaxDuplicates,    \* bound: schedule() calls for a WAITING record
          MaxResumes,       \* bound: resumeTask() calls
          MaxRestarts,      \* bound: restarts of the process
          MaxWriteFailures  \* bound: refused writes of recovery.json

ASSUME SchedulerAssumption ==
    /\ MaxAttempts \in Nat \ {0}
    /\ {MaxSchedules, MaxDuplicates, MaxResumes, MaxRestarts, MaxWriteFailures} \subseteq Nat

VARIABLES
    table,      \* the map of records (volatile)
    file,       \* recovery.json (durable)
    queue,      \* ids the pass collected and has not reached (volatile)
    orphans,    \* collected ids whose object was replaced since (volatile)
    current,    \* the id whose handler is awaited, if any (volatile)
    stopped,    \* dispose() was called (volatile)
    armed,      \* a timeout is pending that can start a pass (volatile)
    fired,      \* history: handler calls per id
    allowance,  \* history: handler calls the schedules and resumes ask for
    settled,    \* history: ids whose handler reported done since schedule()
    writes,     \* refused writes so far (bounded by MaxWriteFailures)
    used        \* schedules, duplicates, resumes and restarts so far (bounds)

pass == <<queue, orphans, current>>
vars == <<table, file, pass, stopped, armed, fired, allowance, settled, writes, used>>

Gone   == [state |-> "GONE", due |-> FALSE, attempts |-> 0]
Active == current # {}

Due(T) == {i \in Ids : T[i].state = "WAITING" /\ T[i].due}

Use(what, limit) == used[what] < limit /\ used' = [used EXCEPT ![what] = @ + 1]

WriteFails == writes < MaxWriteFailures /\ writes' = writes + 1

Init ==
    /\ table = [i \in Ids |-> Gone]
    /\ file = table
    /\ queue = {} /\ orphans = {} /\ current = {}
    /\ stopped = FALSE
    /\ armed = FALSE
    /\ fired = [i \in Ids |-> 0]
    /\ allowance = fired
    /\ settled = {}
    /\ writes = 0
    /\ used = [schedules |-> 0, duplicates |-> 0, resumes |-> 0, restarts |-> 0]

\* finally { active = false }.
PassEnds == queue' = {} /\ orphans' = {} /\ current' = {}

\* arm(): the pending timeout is cleared, and set again only if a record waits, no pass
\* is active and nobody disposed of the scheduler.
Arm == armed' = (~stopped' /\ current' = {} /\ \E i \in Ids : table'[i].state = "WAITING")

\* Mutant: the ceiling is not checked.
ReachedUnpaused(T, i, O) ==
    IF i \in O THEN T
    ELSE [T EXCEPT ![i].state = "RUNNING", ![i].attempts = @ + 1]

\* A record the pass reaches: paused when exhausted, else RUNNING and counted.
\* A replaced object is changed the same way, but nobody reads it any more.
Reached(T, i, O) ==
    IF i \in O THEN T
    ELSE IF T[i].attempts >= MaxAttempts THEN [T EXCEPT ![i].state = "PAUSED"]
    ELSE [T EXCEPT ![i].state = "RUNNING", ![i].attempts = @ + 1]

\* The loop of runDue() with map T and collected ids Q, replaced ones O, up to
\* the next handler call or its end; the records paused on the way are `over`.
\* Every change is persisted; a refused write ends the pass, and dispose()s the
\* scheduler when it was the timer that started it.  However it ends, it arms.
Loop(T, Q, O) ==
    \E over \in SUBSET {i \in Q : T[i].attempts >= MaxAttempts} :
        LET paused == [i \in Ids |-> IF i \in over THEN Reached(T, i, O)[i] ELSE T[i]]
        IN /\ \/ /\ over = Q
                 /\ table' = paused /\ file' = paused
                 /\ PassEnds
                 /\ UNCHANGED <<stopped, fired, writes>>
              \/ \E i \in Q \ over :
                   /\ T[i].attempts < MaxAttempts
                   /\ table' = Reached(paused, i, O) /\ file' = table'
                   /\ queue' = Q \ (over \cup {i})
                   /\ orphans' = O \ over
                   /\ current' = {i}
                   /\ fired' = [fired EXCEPT ![i] = @ + 1]
                   /\ UNCHANGED <<stopped, writes>>
              \/ \E i \in Q \ over :
                   /\ WriteFails
                   /\ table' = Reached(paused, i, O) /\ file' = paused
                   /\ PassEnds
                   /\ stopped' \in {stopped, TRUE}
                   /\ UNCHANGED fired
           /\ Arm

(***************************************************************************)
(* Actions                                                                 *)
(***************************************************************************)

\* The timer of arm(): not while a pass is active, nor after dispose(), nor where
\* nobody armed it.
TimerFires ==
    /\ ~Active /\ ~stopped /\ armed
    /\ Due(table) # {}
    /\ Loop(table, Due(table), {})
    /\ UNCHANGED <<allowance, settled, used>>

TimePasses(i) ==
    /\ table[i].state = "WAITING" /\ ~table[i].due
    /\ table' = [table EXCEPT ![i].due = TRUE]
    /\ file' = IF file[i] = table[i] THEN [file EXCEPT ![i].due = TRUE] ELSE file
    /\ UNCHANGED <<pass, stopped, armed, fired, allowance, settled, writes, used>>

\* Mutant: a duplicate schedule starts the count again.
ReplacedUncounted(i, due) ==
    [table EXCEPT ![i] = [state |-> "WAITING", due |-> due \/ @.due, attempts |-> 0]]

\* The object schedule() stores: the earlier deadline, the attempts so far.
Replaced(i, due) ==
    [table EXCEPT ![i] = [state |-> "WAITING", due |-> due \/ @.due, attempts |-> @.attempts]]

\* schedule(): ignored while RUNNING or PAUSED.  A record that is due already
\* publishes DEPENDENCY_READY, whose subscriber enters runDue() at once.
Schedule(i, due) ==
    LET new       == Replaced(i, due)
        publishes == due /\ (table[i].state = "WAITING" => table[i].due)
    IN /\ \/ /\ table[i].state = "GONE"
             /\ Use("schedules", MaxSchedules)
             /\ allowance' = [allowance EXCEPT ![i] = @ + MaxAttempts]
          \/ /\ table[i].state = "WAITING"
             /\ Use("duplicates", MaxDuplicates)
             /\ allowance' = [allowance EXCEPT ![i] = IF i \in queue THEN @ + 1 ELSE @]
       /\ settled' = settled \ {i}
       /\ \/ /\ publishes /\ ~Active
             /\ Loop(new, Due(new), {})
          \/ /\ ~(publishes /\ ~Active)
             /\ table' = new /\ file' = new
             /\ orphans' = orphans \cup ({i} \cap queue)
             /\ UNCHANGED <<queue, current, stopped, fired, writes>>
             /\ Arm
          \/ /\ WriteFails           \* the map changed, then writeJson threw before arm()
             /\ table' = new
             /\ orphans' = orphans \cup ({i} \cap queue)
             /\ UNCHANGED <<file, queue, current, stopped, armed, fired>>

\* Mutant: a wakeup that is done is only taken out of RUNNING.
AnsweredKeepsDone(i, result, due) ==
    IF result # "pause" /\ table[i].attempts < MaxAttempts
    THEN [table[i] EXCEPT !.state = "WAITING", !.due = due]
    ELSE [table[i] EXCEPT !.state = "PAUSED"]

\* The record after its handler answered: "retry" carries a deadline that may
\* have passed already, and a handler that throws is a "retry" too.
Answered(i, result, due) ==
    CASE result = "done"  -> Gone
      [] result = "retry" /\ table[i].attempts < MaxAttempts ->
            [table[i] EXCEPT !.state = "WAITING", !.due = due]
      [] OTHER -> [table[i] EXCEPT !.state = "PAUSED"]

\* The awaited handler answered; the answer to a replaced object is dropped.
Settle(result, due) ==
    \E i \in current :
        LET T == [table EXCEPT ![i] = Answered(i, result, due)]
        IN /\ settled' = IF result = "done" THEN settled \cup {i} ELSE settled
           /\ \/ i \in orphans /\ Loop(table, queue, orphans \ {i})
              \/ i \notin orphans /\ Loop(T, queue, orphans)
              \/ /\ i \notin orphans
                 /\ WriteFails
                 /\ table' = T
                 /\ PassEnds
                 /\ stopped' \in {stopped, TRUE}
                 /\ Arm
                 /\ UNCHANGED <<file, fired>>
           /\ UNCHANGED <<allowance, used>>

\* resumeTask(): the PAUSED records S of the task start again, in one write.
Resume(S) ==
    /\ S # {} /\ \A i \in S : table[i].state = "PAUSED"
    /\ Use("resumes", MaxResumes)
    /\ table' = [i \in Ids |-> IF i \in S
                               THEN [table[i] EXCEPT !.state = "WAITING", !.attempts = 0]
                               ELSE table[i]]
    /\ allowance' = [i \in Ids |-> IF i \in S THEN allowance[i] + MaxAttempts ELSE allowance[i]]
    /\ UNCHANGED <<pass, stopped, fired, settled>>
    /\ \/ file' = table' /\ Arm /\ UNCHANGED writes
       \/ WriteFails /\ UNCHANGED <<file, armed>>

\* Mutant: nobody calls start() after a restart.
RestartNotStarted ==
    /\ Use("restarts", MaxRestarts)
    /\ table' = [i \in Ids |-> IF file[i].state = "RUNNING"
                               THEN [file[i] EXCEPT !.state = "WAITING"] ELSE file[i]]
    /\ PassEnds
    /\ stopped' = TRUE
    /\ armed' = FALSE
    /\ UNCHANGED <<file, fired, allowance, settled, writes>>

\* The process restarts, also while a handler runs: what was RUNNING is WAITING.
Restart ==
    /\ Use("restarts", MaxRestarts)
    /\ table' = [i \in Ids |-> IF file[i].state = "RUNNING"
                               THEN [file[i] EXCEPT !.state = "WAITING"] ELSE file[i]]
    /\ PassEnds
    /\ stopped' = FALSE
    /\ Arm
    /\ UNCHANGED <<file, fired, allowance, settled, writes>>

Settles == \E result \in {"done", "retry", "pause"}, due \in BOOLEAN : Settle(result, due)

Next ==
    \/ TimerFires
    \/ \E i \in Ids : TimePasses(i)
    \/ \E S \in SUBSET Ids : Resume(S)
    \/ \E i \in Ids, due \in BOOLEAN : Schedule(i, due)
    \/ Settles
    \/ Restart

Spec == Init /\ [][Next]_vars

\* The clock advances, a pending timer fires, and every handler settles.
FairSpec == /\ Spec
            /\ WF_vars(TimerFires) /\ WF_vars(Settles)
            /\ \A i \in Ids : WF_vars(TimePasses(i))

(***************************************************************************)
(* Properties                                                              *)
(***************************************************************************)

\* Both copies of the map, the pass and the counters keep their shape.
TypeOK ==
    /\ {table, file} \subseteq
            [Ids -> [state : {"GONE", "WAITING", "RUNNING", "PAUSED"}, due : BOOLEAN,
                     attempts : 0 .. MaxAttempts]]
    /\ orphans \subseteq queue \cup current /\ queue \cup current \subseteq Ids
    /\ stopped \in BOOLEAN /\ armed \in BOOLEAN
    /\ {fired, allowance} \subseteq [Ids -> Nat]
    /\ settled \subseteq Ids
    /\ writes \in 0 .. MaxWriteFailures
    /\ used \in [{"schedules", "duplicates", "resumes", "restarts"} -> Nat]

\* A wakeup whose handler keeps failing pauses at the attempts ceiling: however
\* restarts, duplicate schedules and refused writes mix, a handler is called at
\* most MaxAttempts times per record or resume, plus once for each time the
\* record was replaced after a running pass had collected it.
RunsBounded == \A i \in Ids : fired[i] <= allowance[i]

\* "A wakeup survives a restart with its state intact and fires once"
\* (docs/9-16-platform-foundation-phase-05-status.md:365-367): once its handler
\* reported done a wakeup does not fire again unless it is scheduled again, as
\* long as no record was replaced while it waited and no write of its removal
\* was refused.
FiresOnce ==
    [][used.duplicates = 0 /\ writes = 0 =>
        \A i \in settled \cap settled' : fired'[i] = fired[i]]_vars

\* A scheduled wakeup is reached, sooner or later: one that comes due during a
\* pass, when runDue() ignores the event, is picked up by the timer that the end of the
\* pass arms, and a restart arms it for what the file has.  Only a refused write leaves a
\* waiting record without a timer: schedule() and resumeTask() write before they arm, and
\* a pass that the timer started disposes of the scheduler.  It then waits for the next
\* schedule, resume, pass or restart.
WakeupServed ==
    \A i \in Ids : (table[i].state = "WAITING") ~>
        (table[i].state # "WAITING" \/ (~Active /\ ~armed /\ writes > 0))
=============================================================================
