---------------------------- MODULE Transaction ----------------------------
(***************************************************************************)
(* withTransaction (state-core/transaction.ts) on one database handle: the *)
(* outermost call is BEGIN IMMEDIATE ... COMMIT, a nested one a savepoint, *)
(* a failed body is rolled back, SQLITE_BUSY is retried, and the depth     *)
(* that chooses between the two is a counter of the module's own.          *)
(*                                                                         *)
(* SQLite is external: `stack` holds what ROLLBACK and ROLLBACK TO return  *)
(* to, `disk` what survives the process.  The body of a unit writes two    *)
(* rows and may run other units in between; it may throw at any point, and *)
(* it may catch what a nested unit throws.                                 *)
(***************************************************************************)
EXTENDS Naturals, Sequences

CONSTANTS Units,           \* bound: calls of withTransaction
          Attempts,        \* options.attempts (5 by default)
          MaxDepth,        \* bound: nesting of the calls
          CatchesAborts,   \* bodies go on after an error that ended the transaction
          MaxAborts,       \* bound: statements on which SQLite ends the transaction
          MaxCommitFaults, \* bound: COMMITs that fail
          MaxCrashes       \* bound: process deaths

ASSUME TransactionAssumption ==
    /\ {Attempts, MaxDepth} \subseteq Nat \ {0}
    /\ CatchesAborts \in BOOLEAN
    /\ {MaxAborts, MaxCommitFaults, MaxCrashes} \subseteq Nat

VARIABLES
    disk,      \* committed rows (durable)
    work,      \* rows the connection sees
    stack,     \* open levels of the connection: the rows each one began with
    depth,     \* transactionDepth of the handle
    frames,    \* the calls of withTransaction on the JavaScript stack
    throwing,  \* an error no body catches is on its way out
    begun,     \* history: units that were called
    answered,  \* history: units whose outermost call returned its value
    failed,    \* history: units whose call threw
    aborts, commitFaults, crashes

connection == <<disk, work, stack>>
history    == <<begun, answered, failed>>
bounds     == <<aborts, commitFaults, crashes>>
vars == <<connection, depth, frames, throwing, history, bounds>>

Parts == {1, 2}

Init ==
    /\ disk = {} /\ work = {} /\ stack = <<>>
    /\ depth = 0
    /\ frames = <<>>
    /\ throwing = FALSE
    /\ begun = {} /\ answered = {} /\ failed = {}
    /\ aborts = 0 /\ commitFaults = 0 /\ crashes = 0

Top       == frames[Len(frames)]
Below     == SubSeq(frames, 1, Len(frames) - 1)
SetTop(f) == frames' = Append(Below, f)
InBody    == frames # <<>> /\ Top.pc = "body"
IsSavepoint(f) == f.depth > 0

\* Mutant: the loop does not count its attempts.
RetryForever(f) ==
    /\ SetTop([f EXCEPT !.pc = "begin", !.wrote = 0, !.inner = {}])
    /\ UNCHANGED <<failed, throwing>>

\* A retryable error before the last attempt: the loop runs the body again.
Retry(f) ==
    /\ f.attempt < Attempts
    /\ SetTop([f EXCEPT !.attempt = @ + 1, !.pc = "begin", !.wrote = 0, !.inner = {}])
    /\ UNCHANGED <<failed, throwing>>

\* TransactionError: the body of the enclosing unit may catch it.
Throw(f, uncaught) ==
    /\ frames' = Below
    /\ failed' = failed \cup {f.unit}
    /\ throwing' = (uncaught /\ Len(frames) > 1)

\* The error path of one attempt; `finally` restores the depth it entered with.
AttemptFails(f, retryable) ==
    IF retryable /\ f.attempt < Attempts THEN Retry(f) ELSE Throw(f, throwing)

\* Mutant: a unit inside another is rolled back by releasing its savepoint.
RollBackReleaseOnly(f) ==
    /\ work' = IF IsSavepoint(f) \/ stack = <<>> THEN work ELSE stack[1]
    /\ stack' = SubSeq(stack, 1, Len(stack) - 1)
    /\ UNCHANGED disk

\* ROLLBACK, or ROLLBACK TO and RELEASE; it fails, and that is swallowed, when
\* SQLite has ended the transaction already.
RollBack(f) ==
    IF stack = <<>>
    THEN UNCHANGED connection
    ELSE /\ work' = stack[Len(stack)]
         /\ stack' = SubSeq(stack, 1, Len(stack) - 1)
         /\ UNCHANGED disk

(***************************************************************************)
(* Actions                                                                 *)
(***************************************************************************)

\* withTransaction is called, from outside or from a body.
Call(u) ==
    /\ u \notin begun
    /\ frames = <<>> \/ (InBody /\ ~throwing /\ Len(frames) < MaxDepth)
    /\ begun' = begun \cup {u}
    /\ frames' = Append(frames, [unit |-> u, attempt |-> 1, pc |-> "begin", depth |-> depth,
                                 wrote |-> 0, inner |-> {}])
    /\ UNCHANGED <<connection, depth, throwing, answered, failed, bounds>>

\* BEGIN IMMEDIATE at depth 0, SAVEPOINT inside; the counter goes up.
Begin ==
    /\ frames # <<>> /\ Top.pc = "begin"
    /\ depth = 0 => stack = <<>>
    /\ stack' = Append(stack, work)
    /\ depth' = depth + 1
    /\ SetTop([Top EXCEPT !.pc = "body", !.depth = depth])
    /\ UNCHANGED <<disk, work, throwing, history, bounds>>

\* BEGIN fails: the lock is taken (retried), or a transaction is open that the
\* counter does not know of (not retried).
BeginFails ==
    /\ frames # <<>> /\ Top.pc = "begin" /\ depth = 0
    /\ AttemptFails(Top, stack = <<>>)
    /\ UNCHANGED <<connection, depth, begun, answered, bounds>>

\* The body writes its next row, in the open transaction or, without one, by itself.
Write ==
    /\ InBody /\ ~throwing /\ Top.wrote < 2
    /\ work' = work \cup {<<Top.unit, Top.wrote + 1>>}
    /\ disk' = IF stack = <<>> THEN work' ELSE disk
    /\ SetTop([Top EXCEPT !.wrote = @ + 1])
    /\ UNCHANGED <<stack, depth, throwing, history, bounds>>

\* Mutant: the depth is restored only when the error leaves the function.
BodyThrowsLeavesDepth(retryable) ==
    /\ InBody
    /\ RollBack(Top)
    /\ depth' = IF retryable /\ Top.attempt < Attempts THEN depth ELSE Top.depth
    /\ AttemptFails(Top, retryable /\ ~throwing)
    /\ UNCHANGED <<begun, answered, bounds>>

\* The body throws: roll back, restore the depth, run again or rethrow.
BodyThrows(retryable) ==
    /\ InBody
    /\ RollBack(Top)
    /\ depth' = Top.depth
    /\ AttemptFails(Top, retryable /\ ~throwing)
    /\ UNCHANGED <<begun, answered, bounds>>

\* A statement of the body fails in a way that makes SQLite end the whole
\* transaction (disk full, I/O error, out of memory).
Abort ==
    /\ InBody /\ ~throwing
    /\ aborts < MaxAborts
    /\ aborts' = aborts + 1
    /\ stack' = <<>>
    /\ work' = disk
    /\ throwing' = ~CatchesAborts
    /\ UNCHANGED <<disk, depth, frames, history, commitFaults, crashes>>

\* RELEASE: a nested unit returns its value to the enclosing body.
Release ==
    /\ InBody /\ ~throwing /\ Top.wrote = 2 /\ IsSavepoint(Top)
    /\ stack # <<>>
    /\ stack' = SubSeq(stack, 1, Len(stack) - 1)
    /\ disk' = IF Len(stack) = 1 THEN work ELSE disk
    /\ depth' = Top.depth
    /\ frames' = [Below EXCEPT ![Len(frames) - 1].inner =
                      @ \cup Top.inner \cup {Top.unit}]
    /\ UNCHANGED <<work, throwing, history, bounds>>

\* COMMIT succeeds.
Commit ==
    /\ InBody /\ ~throwing /\ Top.wrote = 2 /\ ~IsSavepoint(Top)
    /\ stack # <<>>
    /\ disk' = work
    /\ stack' = <<>>
    /\ SetTop([Top EXCEPT !.pc = "committed"])
    /\ UNCHANGED <<work, depth, throwing, history, bounds>>

\* COMMIT or RELEASE fails outside the inner try, so no ROLLBACK is issued: there is no
\* transaction any more, SQLite ended it, or it is still open.
CommitFails ==
    /\ InBody /\ ~throwing /\ Top.wrote = 2
    /\ \/ stack = <<>> /\ UNCHANGED <<connection, commitFaults>>
       \/ /\ stack # <<>> /\ ~IsSavepoint(Top)
          /\ commitFaults < MaxCommitFaults
          /\ commitFaults' = commitFaults + 1
          /\ UNCHANGED disk
          /\ \/ stack' = <<>> /\ work' = disk
             \/ UNCHANGED <<stack, work>>
    /\ depth' = Top.depth
    /\ \E retryable \in BOOLEAN : AttemptFails(Top, retryable /\ stack # <<>>)
    /\ UNCHANGED <<begun, answered, aborts, crashes>>

\* The value reaches the caller.
Return ==
    /\ frames # <<>> /\ Top.pc = "committed"
    /\ frames' = <<>>
    /\ depth' = Top.depth
    /\ answered' = answered \cup Top.inner \cup {Top.unit}
    /\ UNCHANGED <<connection, throwing, begun, failed, bounds>>

\* The process dies and the database is opened again.
Crash ==
    /\ crashes < MaxCrashes
    /\ crashes' = crashes + 1
    /\ work' = disk
    /\ stack' = <<>>
    /\ depth' = 0
    /\ frames' = <<>>
    /\ throwing' = FALSE
    /\ UNCHANGED <<disk, history, aborts, commitFaults>>

Step == \/ Begin \/ BeginFails \/ Write \/ Release \/ Commit \/ CommitFails \/ Return
        \/ \E retryable \in BOOLEAN : BodyThrows(retryable)

Next == (\E u \in Units : Call(u)) \/ Step \/ Abort \/ Crash

Spec == Init /\ [][Next]_vars

\* The code of a call runs on, whatever its statements answer.
FairSpec == Spec /\ WF_vars(Step)

(***************************************************************************)
(* Properties                                                              *)
(***************************************************************************)

FrameType == [unit : Units, attempt : 1 .. Attempts, pc : {"begin", "body", "committed"},
              depth : 0 .. MaxDepth, wrote : 0 .. 2, inner : SUBSET Units]

\* Connection, counter and call stack keep their shape.
TypeOK ==
    /\ disk \subseteq Units \X Parts /\ work \subseteq Units \X Parts
    /\ stack \in Seq(SUBSET (Units \X Parts))
    /\ depth \in 0 .. MaxDepth
    /\ frames \in Seq(FrameType) /\ Len(frames) <= MaxDepth
    /\ throwing \in BOOLEAN
    /\ begun \subseteq Units /\ answered \subseteq Units /\ failed \subseteq Units
    /\ aborts \in 0 .. MaxAborts /\ commitFaults \in 0 .. MaxCommitFaults
    /\ crashes \in 0 .. MaxCrashes

\* The counter agrees with SQLite's own nesting wherever a body runs, also after
\* retries: what transaction.ts:135-139 relies on.  An ended transaction whose
\* error is on its way out is the exception.
DepthAgrees == InBody /\ ~throwing => depth = Len(stack)

\* Every call returns or throws.
CallsEnd == (frames # <<>>) ~> (frames = <<>>)

Store == INSTANCE AtomicStore WITH store <- disk, ok <- answered, refused <- failed

\* withTransaction implements the atomic store whatever nesting, retries, failed COMMITs
\* and crashes come between: the writes of a unit and of the units nested in it become
\* durable all at once (transaction.ts:6-8); "a caller that receives a result can rely on
\* it being durable" (79-81); a unit whose call threw is not in the database, nor will it
\* be, since a nested unit rolls back alone and a retry starts from what it found.
ImplementsAtomicStore == Store!Spec
=============================================================================
