--------------------------- MODULE EventDelivery ---------------------------
(***************************************************************************)
(* The durable event path of the state core: the journal                   *)
(* (state-core/event-journal.ts), the durable consumer whose cursor lives  *)
(* in the database (event-consumer.ts) and the bridge that turns each      *)
(* journal row into calls of the registered subscribers                    *)
(* (event-bus-bridge.ts).                                                  *)
(*                                                                         *)
(* A row is its sequence number.  One step is one synchronous segment of   *)
(* the JavaScript program: the code between two `await`s of deliver().     *)
(* Several passes over the same consumer may be in flight, because nothing *)
(* in deliver() or pump() excludes it.                                     *)
(***************************************************************************)
EXTENDS Integers, FiniteSets

CONSTANTS NSubs,        \* subscribers of a row, in the order of subscribersFor()
          Async,        \* those that return a promise
          Forwardable,  \* rows of a type the bridge hands to the domain bus
          Passes,       \* overlapping calls of pump()
          BatchSize,    \* rows per journal.read (200 in the code)
          Limit,        \* events per call of deliver() (500 in the code)
          MaxEvents,    \* bound: rows ever appended
          MaxDamaged,   \* bound: rows that become undecodable
          MaxFaults,    \* bound: subscriber failures plus crashes
          MaxTools      \* bound: seek / reset / markHandled calls

Subs == 1 .. NSubs

ASSUME DeliveryAssumption ==
    /\ NSubs \in Nat
    /\ Async \subseteq Subs
    /\ Forwardable \subseteq 1 .. MaxEvents
    /\ BatchSize \in Nat \ {0}
    /\ Limit \in Nat \ {0}
    /\ {MaxEvents, MaxDamaged, MaxFaults, MaxTools} \subseteq Nat

VARIABLES
    head,         \* highest sequence number in event_journal
    damaged,      \* rows decode() refuses
    quarantined,  \* rows with evidence in event_quarantine
    cursor,       \* event_consumer.last_sequence, NoRow when the row is deleted
    handled,      \* rows with an event_handled marker
    failures,     \* event_consumer.failures
    pass,         \* the calls of deliver() in flight (volatile)
    seen,         \* history: rows each subscriber completed
    forwarded,    \* history: rows handed to the domain bus (a bus failure is swallowed)
    freshRuns,    \* history: completed runs of a row told replayed = false
    unrecorded,   \* history: those of them whose recording was refused or lost
    waived,       \* history: rows a seek jumped over on purpose
    faults,       \* failures and crashes so far (bounded by MaxFaults)
    tools         \* recovery-tool calls so far (bounded by MaxTools)

durable == <<cursor, handled, failures>>
vars == <<head, damaged, quarantined, durable, pass, seen, forwarded,
          freshRuns, unrecorded, waived, faults, tools>>

NoRow == -1

\* consumerApi.cursor(): ensureRow() recreates a deleted row at 0.
Position == IF cursor = NoRow THEN 0 ELSE cursor

Idle == [pc |-> "idle", pos |-> 0, todo |-> {}, left |-> 0, fresh |-> FALSE]

\* Mutant: the journal is read without ORDER BY sequence.
FirstUnordered(e, S) == e \in S

First(e, S) == e \in S /\ \A d \in S : e <= d

\* pump() returns the promise of the first asynchronous subscriber, so the
\* subscribers behind it are never called.
CalledSync == {s \in Subs : \A a \in Async : s < a}
Called     == {s \in Subs : \A a \in Async : s <= a}

SawBy(saw, S, e) == [s \in Subs |-> IF s \in S THEN saw[s] \cup {e} ELSE saw[s]]

\* Mutant: `sequence >= ?` in place of `sequence > ?`.
RowsReadInclusive(after, left) ==
    {r \in after .. after + BatchSize : r <= after + left /\ r <= head}

\* Mutant: a malformed row ends the read instead of being set aside.
RowsReadUpToDamage(after, left) ==
    {r \in after + 1 .. after + BatchSize :
        r <= after + left /\ r <= head /\ (after + 1 .. r) \cap damaged = {}}

\* The rows of journal.read(after, min(BatchSize, left)), decodable or not.
RowsRead(after, left) ==
    {r \in after + 1 .. after + BatchSize : r <= after + left /\ r <= head}

Init ==
    /\ head = 0
    /\ damaged = {}
    /\ quarantined = {}
    /\ cursor = NoRow
    /\ handled = {}
    /\ failures = 0
    /\ pass = [p \in Passes |-> Idle]
    /\ seen = [s \in Subs |-> {}]
    /\ forwarded = {}
    /\ freshRuns = [r \in 1 .. MaxEvents |-> 0]
    /\ unrecorded = [r \in 1 .. MaxEvents |-> 0]
    /\ waived = {}
    /\ faults = 0
    /\ tools = 0

\* `failures = failures + 1 WHERE consumer = ?` touches nothing without a row.
CountFailure(hasRow) == failures' = IF hasRow THEN failures + 1 ELSE failures

\* Mutant: the replay flag is derived from the cursor, not from the marker.
HandlerAwaitsByCursor(p, from, todo, left, saw, e) ==
    /\ seen' = SawBy(saw, CalledSync, e)
    /\ pass' = [pass EXCEPT ![p] = [pc |-> "awaiting", pos |-> from, todo |-> todo,
                                    left |-> left, fresh |-> e > Position]]
    /\ UNCHANGED <<forwarded, failures, faults>>

\* All synchronous subscribers returned: the handler now awaits a promise, or
\* the bus was tried and only the `await` itself is left.
HandlerAwaits(p, from, todo, left, saw, e) ==
    /\ seen' = SawBy(saw, CalledSync, e)
    /\ pass' = [pass EXCEPT ![p] = [pc |-> "awaiting", pos |-> from, todo |-> todo,
                                    left |-> left, fresh |-> e \notin handled]]
    /\ forwarded' = forwarded \cup (IF Async = {} THEN {e} \cap Forwardable ELSE {})
    /\ UNCHANGED <<failures, faults>>

\* Subscriber i throws synchronously: those before it saw the row, the pass
\* records one failure and ends before the row.
HandlerThrows(p, saw, e, hasRow) ==
    /\ faults < MaxFaults
    /\ faults' = faults + 1
    /\ \E i \in CalledSync : seen' = SawBy(saw, {s \in Subs : s < i}, e)
    /\ CountFailure(hasRow)
    /\ pass' = [pass EXCEPT ![p] = Idle]
    /\ UNCHANGED forwarded

\* The loop of deliver() from a known local cursor up to the next await or to
\* its return: finish the batch, else read another one while the limit allows.
Continue(p, from, rest, left, saw, hasRow) ==
    LET rows == IF rest = {} THEN RowsRead(from, left) ELSE {}
        todo == IF rest = {} THEN rows \ damaged ELSE rest
    IN /\ quarantined' = quarantined \cup (rows \cap damaged)
       /\ \/ /\ todo = {}
             /\ pass' = [pass EXCEPT ![p] = Idle]
             /\ seen' = saw
             /\ UNCHANGED <<failures, faults, forwarded>>
          \/ \E e \in todo :
                /\ First(e, todo)
                /\ \/ HandlerAwaits(p, from, todo, left, saw, e)
                   \/ HandlerThrows(p, saw, e, hasRow)

(***************************************************************************)
(* Actions                                                                 *)
(***************************************************************************)

\* A commit of a new (producer, idempotencyKey); a repeated key adds no row.
Append ==
    /\ head < MaxEvents
    /\ head' = head + 1
    /\ UNCHANGED <<damaged, quarantined, durable, pass, seen, forwarded,
                   freshRuns, unrecorded, waived, faults, tools>>

\* The stored text of a row stops decoding (external damage to the file).
Damage(r) ==
    /\ Cardinality(damaged) < MaxDamaged
    /\ r \in 1 .. head
    /\ damaged' = damaged \cup {r}
    /\ UNCHANGED <<head, quarantined, durable, pass, seen, forwarded,
                   freshRuns, unrecorded, waived, faults, tools>>

\* A run of row e completed in pass p, told what that pass had read of the marker.
Told(runs, p, e) == IF pass[p].fresh THEN [runs EXCEPT ![e] = @ + 1] ELSE runs

\* The subscribers completed row e and nothing durable says so.
Unrecorded(p, e) ==
    /\ First(e, pass[p].todo)
    /\ seen' = SawBy(seen, Called, e)
    /\ freshRuns' = Told(freshRuns, p, e)
    /\ unrecorded' = Told(unrecorded, p, e)

\* A call of pump(): reads the durable cursor and runs to its first await.
Pump(p) ==
    /\ pass[p].pc = "idle"
    /\ cursor' = Position
    /\ Continue(p, Position, {}, Limit, seen, TRUE)
    /\ UNCHANGED <<head, damaged, handled, freshRuns, unrecorded, waived, tools>>

\* The awaited handler is done: marker and cursor move in one transaction,
\* then the loop goes on.
Resume(p) ==
    /\ pass[p].pc = "awaiting"
    /\ \E e \in pass[p].todo :
        /\ First(e, pass[p].todo)
        /\ handled' = handled \cup {e}
        /\ cursor' = IF cursor = NoRow THEN NoRow ELSE e
        /\ freshRuns' = Told(freshRuns, p, e)
        /\ Continue(p, e, pass[p].todo \ {e}, pass[p].left - 1,
                    SawBy(seen, Called, e), cursor # NoRow)
    /\ UNCHANGED <<head, damaged, unrecorded, waived, tools>>

\* The promise of the asynchronous subscriber rejects.
Reject(p) ==
    /\ pass[p].pc = "awaiting"
    /\ Async # {}
    /\ faults < MaxFaults
    /\ faults' = faults + 1
    /\ CountFailure(cursor # NoRow)
    /\ pass' = [pass EXCEPT ![p] = Idle]
    /\ UNCHANGED <<head, damaged, quarantined, cursor, handled, seen, forwarded,
                   freshRuns, unrecorded, waived, tools>>

\* Mutant: marker and cursor are written outside one transaction.
RecordTorn(p) ==
    /\ pass[p].pc = "awaiting"
    /\ faults < MaxFaults
    /\ faults' = faults + 1
    /\ \E e \in pass[p].todo : Unrecorded(p, e) /\ handled' = handled \cup {e}
    /\ pass' = [pass EXCEPT ![p] = Idle]
    /\ UNCHANGED <<head, damaged, quarantined, cursor, failures, forwarded,
                   waived, tools>>

\* The handler completed but the recording transaction is refused (its bounded
\* retries are exhausted): deliver() rejects, nothing durable has moved.
RecordFails(p) ==
    /\ pass[p].pc = "awaiting"
    /\ faults < MaxFaults
    /\ faults' = faults + 1
    /\ \E e \in pass[p].todo : Unrecorded(p, e)
    /\ pass' = [pass EXCEPT ![p] = Idle]
    /\ UNCHANGED <<head, damaged, quarantined, durable, forwarded, waived, tools>>

\* The process dies with a pass in flight, before or after the effect of the
\* subscriber it awaits; only the database survives.
Crash ==
    /\ faults < MaxFaults
    /\ faults' = faults + 1
    /\ \E p \in Passes :
        /\ pass[p].pc = "awaiting"
        /\ \/ UNCHANGED <<seen, freshRuns, unrecorded>>
           \/ \E e \in pass[p].todo : Unrecorded(p, e)
    /\ pass' = [p \in Passes |-> Idle]
    /\ UNCHANGED <<head, damaged, quarantined, durable, forwarded, waived, tools>>

\* The three recovery-tool calls; a pass may be in flight.
Seek(n) ==
    /\ tools < MaxTools
    /\ tools' = tools + 1
    /\ cursor' = n
    /\ waived' = waived \cup (Position + 1 .. n)
    /\ UNCHANGED <<head, damaged, quarantined, handled, failures, pass, seen,
                   forwarded, freshRuns, unrecorded, faults>>

MarkHandled(r) ==
    /\ tools < MaxTools
    /\ r \in (1 .. head) \ damaged          \* byId() throws on a damaged row
    /\ tools' = tools + 1
    /\ cursor' = Position
    /\ handled' = handled \cup {r}
    /\ UNCHANGED <<head, damaged, quarantined, failures, pass, seen, forwarded,
                   freshRuns, unrecorded, waived, faults>>

Reset ==
    /\ tools < MaxTools
    /\ tools' = tools + 1
    /\ cursor' = NoRow
    /\ handled' = {}
    /\ failures' = 0
    /\ freshRuns' = [r \in 1 .. MaxEvents |-> 0]
    /\ unrecorded' = [r \in 1 .. MaxEvents |-> 0]
    /\ UNCHANGED <<head, damaged, quarantined, pass, seen, forwarded,
                   waived, faults>>

Tool == \/ \E n \in 0 .. MaxEvents : Seek(n)
        \/ \E r \in 1 .. MaxEvents : MarkHandled(r)
        \/ Reset

Next ==
    \/ Append
    \/ \E r \in 1 .. MaxEvents : Damage(r)
    \/ \E p \in Passes : Pump(p) \/ Resume(p) \/ Reject(p) \/ RecordFails(p)
    \/ Crash
    \/ Tool

Spec == Init /\ [][Next]_vars

\* A handler that is not rejected eventually settles.  Nothing is assumed of the
\* callers of pump(): a pass that has returned need not be followed by another.
Fairness == \A p \in Passes : WF_vars(Resume(p))

FairSpec == Spec /\ Fairness

(***************************************************************************)
(* Properties                                                              *)
(***************************************************************************)

\* Every variable keeps the shape of its column, set or in-flight record.
TypeOK ==
    /\ head \in 0 .. MaxEvents
    /\ damaged \subseteq 1 .. MaxEvents
    /\ quarantined \subseteq 1 .. MaxEvents
    /\ cursor \in {NoRow} \cup 0 .. MaxEvents
    /\ handled \subseteq 1 .. MaxEvents
    /\ failures \in Nat
    /\ pass \in [Passes -> [pc : {"idle", "awaiting"}, pos : 0 .. MaxEvents,
                            todo : SUBSET (1 .. MaxEvents), left : 0 .. Limit,
                            fresh : BOOLEAN]]
    /\ seen \in [Subs -> SUBSET (1 .. MaxEvents)]
    /\ forwarded \subseteq 1 .. MaxEvents
    /\ {freshRuns, unrecorded} \subseteq [1 .. MaxEvents -> Nat]
    /\ waived \subseteq 1 .. MaxEvents
    /\ faults \in 0 .. MaxFaults
    /\ tools \in 0 .. MaxTools

\* A row is accounted for once every subscriber that pump() calls completed it, or
\* its damage left evidence in quarantine, or an operator's seek jumped over it.
AccountedFor(r) ==
    \/ r \in quarantined
    \/ r \in waived
    \/ \A s \in Called : r \in seen[s]

\* The cursor never passes a committed row that a called subscriber missed: a crash,
\* a failure or a damaged neighbour may repeat a row, never skip one.  This is the
\* rule event-bus-bridge.ts:134-136 states for pump(), up to one exception: who
\* stands behind the first asynchronous subscriber is never called (line 141), and
\* the cursor passes every row without him.
NoEventLost == \A r \in 1 .. Position : AccountedFor(r)

\* Subscribers meet rows in commit order: nobody completes a row while an
\* earlier one is still owed to him.
InOrder ==
    \A s \in Called : \A r \in seen[s] : \A d \in 1 .. r :
        d \in seen[s] \cup quarantined \cup waived

\* "The cursor and the handled marker can never disagree about whether this
\* event completed" (event-consumer.ts:146-147): until a recovery tool is used,
\* everything readable below the cursor is marked and nothing above it is.
CursorAgreesWithMarkers ==
    tools = 0 => \A r \in 1 .. head : r \in handled \/ r <= Position =>
                    \/ r \in handled /\ r <= Position
                    \/ r \in quarantined

\* A delivery never moves the durable cursor backwards; only a tool may.
CursorMonotone == [][tools' = 0 => Position' >= Position]_vars

\* The replay flag (`replayed`, event-consumer.ts:40-44) distinguishes first from repeated:
\* a row is announced as new once more only after a run announced so whose record
\* was refused or lost in a crash; no seek and no early marker repeats it.
FreshRunOnce == \A r \in 1 .. MaxEvents : freshRuns[r] <= 1 + unrecorded[r]

\* A read of BatchSize rows before r finds all of them damaged: read() returns
\* nothing, which deliver() takes for the end of the journal (event-consumer.ts:131).
Stalled(r) == \E d \in 0 .. r : d + BatchSize < r /\ d + 1 .. d + BatchSize \subseteq damaged

\* "A malformed event must not block the journal" (event-journal.ts:30-33), as far as
\* the code keeps it: a pass brings every committed row its limit covers to the
\* subscribers it calls, around damaged neighbours, later appends, seeks and resets,
\* unless the row itself is damaged, a failure or crash intervenes, or a whole batch
\* before the row is damaged.
PassDelivers ==
    \A p \in Passes, r \in 1 .. MaxEvents, k \in 0 .. MaxFaults :
        (/\ pass[p].pc = "awaiting" /\ faults = k
         /\ r \in pass[p].pos + 1 .. pass[p].pos + pass[p].left /\ r <= head)
        ~> (\/ \A s \in Called : r \in seen[s]
            \/ r \in damaged \/ Stalled(r) \/ faults > k)
=============================================================================
