--------------------------- MODULE CircuitBreaker ---------------------------
(***************************************************************************)
(* The per-runtime health breaker (commander/circuit-breaker.ts) with the  *)
(* calls the execution supervisor makes of it around each dispatch         *)
(* (commander/execution-supervisor.ts:48-98).  One runtime, several        *)
(* dispatches in flight on it: the record is written to its file on every  *)
(* change, the probe counter lives in memory only.  The clock is the one   *)
(* bit the breaker reads of it: whether the cooldown of an OPEN record is  *)
(* over.                                                                   *)
(***************************************************************************)
EXTENDS Naturals

CONSTANTS Calls,         \* dispatches that may be in flight together
          Threshold,     \* failureThreshold (3 in the code)
          MaxAbandons,   \* bound: dispatches that end in an exception
          MaxRefused,    \* bound: refused writes of the file
          MaxRestarts    \* bound: restarts of the process

ASSUME BreakerAssumption ==
    Threshold \in Nat \ {0} /\ {MaxAbandons, MaxRefused, MaxRestarts} \subseteq Nat

VARIABLES
    record,    \* the runtime's entry of `records`: state and consecutiveFailures (volatile)
    stored,    \* the same entry in the file (durable)
    elapsed,   \* the cooldown since record's openedAt is over
    probes,    \* halfOpenProbes for this runtime (volatile)
    flight,    \* what each dispatch was admitted as (volatile)
    streak,    \* history: technical failures since the last success or reset
    lagging,   \* history: record was read from a file that a refused write left behind
    kept,      \* history: an exception passed by the line that frees the probe
    abandons, refused, restarts

file == <<stored, refused>>
vars == <<record, file, elapsed, probes, flight, streak, lagging, kept, abandons, restarts>>

State == IF record.state = "OPEN" /\ elapsed THEN "HALF_OPEN" ELSE record.state

Closed == [state |-> "CLOSED", failures |-> 0]

Init ==
    /\ record = Closed
    /\ stored = Closed
    /\ elapsed = FALSE
    /\ probes = 0
    /\ flight = [c \in Calls |-> "none"]
    /\ streak = 0
    /\ lagging = FALSE
    /\ kept = FALSE
    /\ abandons = 0
    /\ refused = 0
    /\ restarts = 0

\* admit(): every dispatch while CLOSED, one probe while HALF_OPEN.
Admit(c) ==
    /\ flight[c] = "none"
    /\ \/ State = "CLOSED" /\ flight' = [flight EXCEPT ![c] = "normal"] /\ UNCHANGED probes
       \/ /\ State = "HALF_OPEN"
          /\ probes < 1
          /\ probes' = probes + 1
          /\ flight' = [flight EXCEPT ![c] = "probe"]
    /\ UNCHANGED <<record, file, elapsed, streak, lagging, kept, abandons, restarts>>

Ends(c) == flight[c] # "none" /\ flight' = [flight EXCEPT ![c] = "none"]

Free == probes' = 0 /\ kept' = FALSE

\* persist() of the new record: it throws when the write is refused, with the map
\* changed already and the probe, if one is consumed, not freed any more.
Written == stored' = record' /\ UNCHANGED refused
Refused ==
    /\ refused < MaxRefused
    /\ refused' = refused + 1
    /\ kept' = (kept \/ probes = 1)
    /\ UNCHANGED <<stored, probes>>

PersistThenFree == \/ Written /\ Free
                   \/ Refused

\* Mutant: a success closes the breaker but keeps its count.
SuccessKeepsCount(c) ==
    /\ Ends(c)
    /\ record' = [record EXCEPT !.state = "CLOSED"]
    /\ elapsed' = FALSE
    /\ Written /\ Free
    /\ streak' = 0 /\ lagging' = FALSE
    /\ UNCHANGED <<abandons, restarts>>

\* observeSuccess(): nothing is written when there is nothing to clear.
Success(c) ==
    /\ Ends(c)
    /\ streak' = 0 /\ lagging' = FALSE
    /\ \/ record = Closed /\ Free /\ UNCHANGED <<record, file, elapsed>>
       \/ /\ record # Closed
          /\ record' = Closed /\ elapsed' = FALSE
          /\ PersistThenFree
    /\ UNCHANGED <<abandons, restarts>>

\* Mutant: a failed probe reopens the breaker but stays consumed.
TechnicalFailureKeepsProbe(c) ==
    /\ Ends(c)
    /\ streak' = IF streak < Threshold THEN streak + 1 ELSE streak
    /\ elapsed' = IF State = "OPEN" THEN elapsed ELSE FALSE
    /\ IF State = "CLOSED" /\ record.failures + 1 < Threshold
       THEN record' = [record EXCEPT !.failures = @ + 1]
       ELSE record' = [state |-> "OPEN", failures |-> Threshold]
    /\ Written
    /\ UNCHANGED <<probes, kept, lagging, abandons, restarts>>

\* observeFailure(): nothing while cooling down, a fresh cooldown when
\* HALF_OPEN, one more failure when CLOSED.
TechnicalFailure(c) ==
    /\ Ends(c)
    /\ streak' = IF streak < Threshold THEN streak + 1 ELSE streak
    /\ \/ /\ State = "OPEN"
          /\ UNCHANGED <<record, file, elapsed, probes, kept>>
       \/ /\ State = "HALF_OPEN"
          /\ record' = [record EXCEPT !.failures = Threshold]
          /\ elapsed' = FALSE
          /\ PersistThenFree
       \/ /\ State = "CLOSED"
          /\ elapsed' = FALSE
          /\ IF record.failures + 1 >= Threshold
             THEN /\ record' = [state |-> "OPEN", failures |-> record.failures + 1]
                  /\ PersistThenFree
             ELSE /\ record' = [record EXCEPT !.failures = @ + 1]
                  /\ (Written /\ UNCHANGED <<probes, kept>>) \/ Refused
    /\ UNCHANGED <<lagging, abandons, restarts>>

\* Mutant: the probe is not returned.
OtherEndKeepsProbe(c) ==
    /\ Ends(c)
    /\ UNCHANGED <<record, file, elapsed, probes, streak, lagging, kept, abandons, restarts>>

\* A cancellation, or a failure that is not the provider's: cancelProbe().
OtherEnd(c) ==
    /\ Ends(c)
    /\ Free
    /\ UNCHANGED <<record, file, elapsed, streak, lagging, abandons, restarts>>

\* A checkpoint write after admit() throws: run() ends without telling the
\* breaker anything.
Abandon(c) ==
    /\ abandons < MaxAbandons
    /\ abandons' = abandons + 1
    /\ Ends(c)
    /\ kept' = (kept \/ flight[c] = "probe")
    /\ UNCHANGED <<record, file, elapsed, probes, streak, lagging, restarts>>

CooldownElapses ==
    /\ record.state = "OPEN"
    /\ ~elapsed
    /\ elapsed' = TRUE
    /\ UNCHANGED <<record, file, probes, flight, streak, lagging, kept, abandons, restarts>>

\* reset(): the record and the probe are dropped, then the file is written.
Reset ==
    /\ record # Closed
    /\ record' = Closed
    /\ elapsed' = FALSE
    /\ Free
    /\ streak' = 0 /\ lagging' = FALSE
    /\ \/ Written
       \/ refused < MaxRefused /\ refused' = refused + 1 /\ UNCHANGED stored
    /\ UNCHANGED <<flight, abandons, restarts>>

\* The process restarts: the record is read back, calls and probes are gone.
\* The file's openedAt is never later than that of the record in memory.
Restart ==
    /\ restarts < MaxRestarts
    /\ restarts' = restarts + 1
    /\ record' = stored
    /\ elapsed' \in IF stored.state = "OPEN" THEN {elapsed, TRUE} ELSE {FALSE}
    /\ lagging' = (lagging \/ stored # record)
    /\ flight' = [c \in Calls |-> "none"]
    /\ Free
    /\ UNCHANGED <<file, streak, abandons>>

Settle(c) == Success(c) \/ TechnicalFailure(c) \/ OtherEnd(c)

Next ==
    \/ \E c \in Calls : Admit(c) \/ Settle(c) \/ Abandon(c)
    \/ CooldownElapses
    \/ Reset
    \/ Restart

Spec == Init /\ [][Next]_vars

\* The clock advances, and somebody keeps asking for the runtime.
FairSpec == Spec /\ WF_vars(CooldownElapses) /\ WF_vars(\E c \in Calls : Admit(c))
                 /\ \A c \in Calls : WF_vars(Settle(c))

(***************************************************************************)
(* Properties                                                              *)
(***************************************************************************)

RecordType == [state : {"CLOSED", "OPEN"}, failures : 0 .. Threshold]

\* Record, probe counter and dispatches keep their shape.
TypeOK ==
    /\ record \in RecordType
    /\ stored \in RecordType
    /\ elapsed \in BOOLEAN /\ lagging \in BOOLEAN /\ kept \in BOOLEAN
    /\ probes \in {0, 1}
    /\ flight \in [Calls -> {"none", "normal", "probe"}]
    /\ streak \in 0 .. Threshold
    /\ abandons \in 0 .. MaxAbandons
    /\ refused \in 0 .. MaxRefused
    /\ restarts \in 0 .. MaxRestarts

\* A runtime is isolated only after Threshold provider-technical failures with
\* no success between them, counted across restarts and however many dispatches
\* report at once; a refused write excepts only who restarts before the next
\* success.
TripsOnlyOnStreak == record.state = "OPEN" => streak = Threshold \/ lagging

\* While the breaker is CLOSED its counter is exactly the streak: no failure of
\* a concurrent dispatch is dropped or counted twice, and one whose write is
\* refused still counts, until a restart reads the file it left behind.
CountsTheStreak == record.state = "CLOSED" => record.failures = streak \/ lagging

\* A consumed probe belongs to a dispatch that is still running, so its outcome
\* can still decide.  Only an exception keeps one: of a probe about which the
\* breaker is told nothing, or of the breaker's own write, which comes before the
\* line that frees the probe (circuit-breaker.ts:102-104, 117-118, 124-125).
ProbeNotLeaked ==
    probes = 1 /\ ~kept => \E c \in Calls : flight[c] = "probe"

\* An isolated runtime is tried again, sooner or later, unless such an exception
\* kept the probe.
IsolationEnds ==
    (record.state = "OPEN") ~>
        (record.state = "CLOSED" \/ kept \/ \E c \in Calls : flight[c] = "probe")
=============================================================================
