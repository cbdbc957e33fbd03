------------------------ MODULE CircuitBreakerProofs ------------------------
(***************************************************************************)
(* The circuit breaker for every threshold and any number of concurrent    *)
(* dispatches.  Counting says what the record, in memory and in the file,  *)
(* knows of the streak; Probing, that a consumed probe is one of the       *)
(* dispatches in flight.                                                   *)
(***************************************************************************)
EXTENDS CircuitBreaker, TLAPS

\* What an entry may hold: Threshold failures exactly when it is OPEN.
Sane(r) == IF r.state = "OPEN" THEN r.failures = Threshold ELSE r.failures < Threshold

Counting ==
    /\ Sane(record) /\ Sane(stored)
    /\ lagging \/ record.failures = streak

Probing ==
    probes = 1 /\ ~kept => State = "HALF_OPEN" /\ \E c \in Calls : flight[c] = "probe"

\* A closed record is well-typed.
LEMMA ClosedType == Closed \in RecordType /\ Closed.state = "CLOSED" /\ Closed.failures = 0
  BY BreakerAssumption DEF Closed, RecordType

\* A record put together from its two columns is well-typed.
LEMMA RecordsTyped ==
    ASSUME NEW s \in {"CLOSED", "OPEN"}, NEW n \in 0 .. Threshold
    PROVE  [state |-> s, failures |-> n] \in RecordType
  BY DEF RecordType

\* A dispatch that ends changes its own entry and nobody else's.
LEMMA EndsType ==
    ASSUME TypeOK, NEW c \in Calls, Ends(c)
    PROVE  flight' \in [Calls -> {"none", "normal", "probe"}]
  BY DEF TypeOK, Ends

\* A write that is stored or refused leaves the file and the probe well-typed.
LEMMA PersistType ==
    ASSUME TypeOK, Counting, record' \in RecordType, Sane(record)',
           PersistThenFree \/ (Written /\ UNCHANGED <<probes, kept>>) \/ Refused
    PROVE  /\ stored' \in RecordType /\ Sane(stored)'
           /\ probes' \in {0, 1} /\ kept' \in BOOLEAN /\ refused' \in 0 .. MaxRefused
  <1>1. MaxRefused \in Nat
    BY BreakerAssumption
  <1>2. kept \in BOOLEAN /\ probes \in {0, 1} /\ stored \in RecordType /\ Sane(stored)
        /\ refused \in 0 .. MaxRefused
    BY DEF TypeOK, Counting
  <1>3. CASE Written /\ (Free \/ UNCHANGED <<probes, kept>>)
    BY <1>2, <1>3 DEF Written, Free, Sane
  <1>4. CASE Refused
    <2>1. kept' \in BOOLEAN
      BY <1>4 DEF Refused
    <2> QED BY <1>1, <1>2, <1>4, <2>1 DEF Refused, Sane
  <1> QED BY <1>3, <1>4 DEF PersistThenFree

\* Type correctness and the count are preserved by every step.
LEMMA CountingStep == TypeOK /\ Counting /\ [Next]_vars => TypeOK' /\ Counting'
  <1> SUFFICES ASSUME TypeOK, Counting, [Next]_vars PROVE TypeOK' /\ Counting'
    OBVIOUS
  <1>0. /\ Threshold \in Nat /\ Threshold > 0
        /\ MaxAbandons \in Nat /\ MaxRestarts \in Nat /\ MaxRefused \in Nat
        /\ record \in RecordType /\ stored \in RecordType /\ streak \in 0 .. Threshold
        /\ kept \in BOOLEAN /\ lagging \in BOOLEAN /\ elapsed \in BOOLEAN
    BY BreakerAssumption DEF TypeOK
  <1>1. ASSUME NEW c \in Calls, Admit(c) PROVE TypeOK' /\ Counting'
    BY <1>0, <1>1 DEF Admit, TypeOK, Counting, Sane, file
  <1>2. ASSUME NEW c \in Calls, Success(c) PROVE TypeOK' /\ Counting'
    <2>1. record' \in RecordType /\ elapsed' \in BOOLEAN /\ Sane(record)' /\ record'.failures = 0
      BY <1>0, <1>2, ClosedType DEF Success, Sane
    <2>2. flight' \in [Calls -> {"none", "normal", "probe"}]
      BY <1>2, EndsType DEF Success
    <2>3. /\ stored' \in RecordType /\ Sane(stored)'
          /\ probes' \in {0, 1} /\ kept' \in BOOLEAN /\ refused' \in 0 .. MaxRefused
      <3>1. CASE Free /\ UNCHANGED file
        BY <1>0, <3>1 DEF Free, file, TypeOK, Counting, Sane
      <3>2. CASE PersistThenFree
        BY <2>1, <3>2, PersistType
      <3> QED BY <1>2, <3>1, <3>2 DEF Success
    <2>4. lagging' \in BOOLEAN
      BY <1>2 DEF Success
    <2>5. streak' = 0 /\ UNCHANGED <<abandons, restarts>>
      BY <1>2 DEF Success
    <2>6. Counting'
      BY <2>1, <2>3, <2>5 DEF Counting
    <2> QED BY <1>0, <2>1, <2>2, <2>3, <2>4, <2>5, <2>6 DEF TypeOK
  <1>3. ASSUME NEW c \in Calls, TechnicalFailure(c) PROVE TypeOK' /\ Counting'
    <2>1. flight' \in [Calls -> {"none", "normal", "probe"}]
      BY <1>3, EndsType DEF TechnicalFailure
    <2>2. /\ streak' = (IF streak < Threshold THEN streak + 1 ELSE streak)
          /\ UNCHANGED <<lagging, abandons, restarts>>
      BY <1>3 DEF TechnicalFailure
    <2>3. ASSUME record' \in RecordType, Sane(record)', elapsed' = FALSE,
                 lagging \/ record'.failures = streak',
                 PersistThenFree \/ (Written /\ UNCHANGED <<probes, kept>>) \/ Refused
          PROVE  TypeOK' /\ Counting'
      <3>1. /\ stored' \in RecordType /\ Sane(stored)'
            /\ probes' \in {0, 1} /\ kept' \in BOOLEAN /\ refused' \in 0 .. MaxRefused
        BY <2>3, PersistType
      <3>2. Counting'
        BY <2>2, <2>3, <3>1 DEF Counting
      <3>3. elapsed' \in BOOLEAN /\ lagging' \in BOOLEAN
        BY <1>0, <2>2, <2>3
      <3>4. streak' \in 0 .. Threshold
        BY <1>0, <2>2
      <3> QED BY <2>1, <2>2, <2>3, <3>1, <3>2, <3>3, <3>4 DEF TypeOK
    <2>4. CASE State = "OPEN"
      <3>1. record.state = "OPEN" /\ UNCHANGED <<record, file, elapsed, probes, kept>>
        BY <1>3, <2>4 DEF TechnicalFailure, State
      <3>2. lagging \/ streak = Threshold
        BY <3>1 DEF Counting, Sane
      <3>3. Counting'
        BY <1>0, <2>2, <3>1, <3>2 DEF Counting, Sane, file
      <3> QED BY <1>0, <2>1, <2>2, <3>1, <3>3 DEF TypeOK, file
    <2>5. CASE State = "HALF_OPEN"
      <3>1. record.state = "OPEN"
        BY <1>0, <2>5 DEF State, RecordType
      <3>2. record' = [record EXCEPT !.failures = Threshold] /\ elapsed' = FALSE /\ PersistThenFree
        BY <1>3, <2>5 DEF TechnicalFailure
      <3>3. /\ record' = [state |-> "OPEN", failures |-> Threshold]
            /\ lagging \/ streak' = Threshold
        BY <1>0, <2>2, <3>1, <3>2 DEF Counting, Sane, RecordType
      <3>4. record' \in RecordType /\ Sane(record)'
        BY <1>0, <3>3, RecordsTyped DEF Sane
      <3> QED BY <2>3, <3>2, <3>3, <3>4
    <2>6. CASE State = "CLOSED"
      <3>1. record.state = "CLOSED" /\ record.failures < Threshold
        BY <1>0, <2>6 DEF State, RecordType, Counting, Sane
      <3>2. elapsed' = FALSE
        BY <1>3, <2>6 DEF TechnicalFailure
      <3>3. CASE record.failures + 1 >= Threshold
        <4>1. /\ record' = [state |-> "OPEN", failures |-> record.failures + 1]
              /\ PersistThenFree
          BY <1>3, <2>6, <3>3 DEF TechnicalFailure
        <4>2. record.failures + 1 = Threshold
          BY <1>0, <3>1, <3>3 DEF RecordType
        <4>3. /\ record' = [state |-> "OPEN", failures |-> Threshold]
              /\ lagging \/ streak' = Threshold
          BY <1>0, <2>2, <4>1, <4>2 DEF Counting
        <4>4. record' \in RecordType /\ Sane(record)'
          BY <1>0, <4>3, RecordsTyped DEF Sane
        <4>5. lagging \/ record'.failures = streak'
          BY <4>3
        <4> QED BY <2>3, <3>2, <4>1, <4>4, <4>5
      <3>4. CASE ~(record.failures + 1 >= Threshold)
        <4>1. /\ record' = [record EXCEPT !.failures = @ + 1]
              /\ (Written /\ UNCHANGED <<probes, kept>>) \/ Refused
          BY <1>3, <2>6, <3>4 DEF TechnicalFailure
        <4>2. /\ record' = [state |-> "CLOSED", failures |-> record.failures + 1]
              /\ record.failures + 1 \in 0 .. Threshold /\ record.failures + 1 < Threshold
          BY <1>0, <3>1, <3>4, <4>1 DEF RecordType
        <4>3. lagging \/ streak' = record.failures + 1
          BY <1>0, <2>2, <4>2 DEF Counting
        <4>4. record' \in RecordType /\ Sane(record)'
          BY <1>0, <4>2, RecordsTyped DEF Sane
        <4> QED BY <2>3, <3>2, <4>1, <4>2, <4>3, <4>4
      <3> QED BY <3>3, <3>4
    <2> QED BY <1>3, <2>4, <2>5, <2>6 DEF TechnicalFailure
  <1>4. ASSUME NEW c \in Calls, OtherEnd(c) PROVE TypeOK' /\ Counting'
    BY <1>0, <1>4, EndsType DEF OtherEnd, TypeOK, Counting, Sane, Free, file
  <1>5. ASSUME NEW c \in Calls, Abandon(c) PROVE TypeOK' /\ Counting'
    <2>1. kept' \in BOOLEAN
      BY <1>5 DEF Abandon
    <2> QED BY <1>0, <1>5, <2>1, EndsType DEF Abandon, TypeOK, Counting, Sane, file
  <1>6. CASE CooldownElapses
    BY <1>0, <1>6 DEF CooldownElapses, TypeOK, Counting, Sane, file
  <1>7. CASE Reset
    <2>1. record' \in RecordType /\ elapsed' \in BOOLEAN /\ Sane(record)' /\ record'.failures = 0
      BY <1>0, <1>7, ClosedType DEF Reset, Sane
    <2>2. stored' \in RecordType /\ Sane(stored)' /\ refused' \in 0 .. MaxRefused
      <3>1. CASE Written
        BY <1>0, <2>1, <3>1 DEF Written, TypeOK, Sane
      <3>2. CASE refused < MaxRefused /\ refused' = refused + 1 /\ UNCHANGED stored
        BY <1>0, <3>2 DEF TypeOK, Counting, Sane
      <3> QED BY <1>7, <3>1, <3>2 DEF Reset
    <2>3. lagging' \in BOOLEAN /\ kept' \in BOOLEAN
      BY <1>7 DEF Reset, Free
    <2>4. /\ streak' = 0 /\ probes' = 0 /\ UNCHANGED <<flight, abandons, restarts>>
      BY <1>7 DEF Reset, Free
    <2>5. Counting'
      BY <2>1, <2>2, <2>4 DEF Counting
    <2> QED BY <1>0, <2>1, <2>2, <2>3, <2>4, <2>5 DEF TypeOK
  <1>8. CASE Restart
    <2>1. elapsed' \in BOOLEAN /\ lagging' \in BOOLEAN
      BY <1>0, <1>8 DEF Restart
    <2>2. Counting'
      <3>1. stored = record \/ lagging'
        BY <1>8 DEF Restart
      <3> QED BY <1>0, <1>8, <3>1 DEF Restart, Counting, Sane, file
    <2>3. kept' \in BOOLEAN /\ probes' = 0
      BY <1>8 DEF Restart, Free
    <2>4. /\ record' = stored /\ flight' = [c \in Calls |-> "none"]
          /\ restarts < MaxRestarts /\ restarts' = restarts + 1 /\ UNCHANGED <<file, streak, abandons>>
      BY <1>8 DEF Restart
    <2> QED BY <1>0, <2>1, <2>2, <2>3, <2>4 DEF TypeOK, file
  <1>9. CASE UNCHANGED vars
    BY <1>9 DEF vars, file, TypeOK, Counting, Sane
  <1> QED BY <1>1, <1>2, <1>3, <1>4, <1>5, <1>6, <1>7, <1>8, <1>9 DEF Next, Settle

\* The breaker starts CLOSED, with no failure and no probe.
LEMMA InitOK == Init => TypeOK /\ Counting /\ Probing
  <1> SUFFICES ASSUME Init PROVE TypeOK /\ Counting /\ Probing
    OBVIOUS
  <1>1. elapsed \in BOOLEAN /\ lagging \in BOOLEAN /\ kept \in BOOLEAN
    BY DEF Init
  <1>2. Counting /\ Probing /\ record \in RecordType
    BY BreakerAssumption, ClosedType DEF Init, Counting, Sane, Probing
  <1>3. stored \in RecordType
    BY ClosedType DEF Init
  <1>4. MaxRefused \in Nat /\ MaxAbandons \in Nat /\ MaxRestarts \in Nat /\ Threshold \in Nat
    BY BreakerAssumption
  <1>5. probes = 0 /\ streak = 0 /\ abandons = 0 /\ refused = 0 /\ restarts = 0
        /\ flight = [c \in Calls |-> "none"]
    BY DEF Init
  <1> QED BY <1>1, <1>2, <1>3, <1>4, <1>5 DEF TypeOK

\* Record, probe counter and dispatches keep their shape.
THEOREM TypeCorrect == Spec => []TypeOK
  <1>1. Init => TypeOK /\ Counting
    BY InitOK
  <1> QED BY <1>1, CountingStep, PTL DEF Spec

\* For every threshold and every number of dispatches that report at once: a
\* runtime is isolated only after Threshold technical failures in a row, or by a restart
\* that reads a file which a refused write left behind.
THEOREM TripsOnly == Spec => []TripsOnlyOnStreak
  <1>1. Init => TypeOK /\ Counting
    BY InitOK
  <1>2. Counting => TripsOnlyOnStreak
    BY DEF Counting, Sane, TripsOnlyOnStreak
  <1> QED BY <1>1, <1>2, CountingStep, PTL DEF Spec

\* While CLOSED, the count is exactly the streak, also after a refused write, until a
\* restart reads the file that write left behind.
THEOREM CountIsStreak == Spec => []CountsTheStreak
  <1>1. Init => TypeOK /\ Counting
    BY InitOK
  <1>2. Counting => CountsTheStreak
    BY DEF Counting, CountsTheStreak
  <1> QED BY <1>1, <1>2, CountingStep, PTL DEF Spec

\* Every step keeps the probe accounted for.
LEMMA ProbingStep ==
    ASSUME TypeOK, Probing, [Next]_vars
    PROVE  Probing'
  <1>0. flight \in [Calls -> {"none", "normal", "probe"}] /\ probes \in {0, 1} /\ kept \in BOOLEAN
    BY DEF TypeOK
  <1>1. ASSUME probes' = 0 \/ kept' PROVE Probing'
    BY <1>1 DEF Probing
  <1>2. Refused => probes' = 0 \/ kept'
    BY <1>0 DEF Refused
  <1>3. ASSUME NEW c \in Calls, Admit(c) PROVE Probing'
    <2>1. CASE State = "CLOSED"
      <3>1. probes = 0 \/ kept
        BY <1>0, <2>1 DEF Probing
      <3>2. State # "HALF_OPEN"
        BY <2>1
      <3> QED BY <1>1, <1>3, <3>1, <3>2 DEF Admit
    <2>2. CASE State = "HALF_OPEN" /\ probes < 1
      BY <1>0, <1>3, <2>2 DEF Admit, Probing, State
    <2> QED BY <1>3, <2>1, <2>2 DEF Admit
  <1>4. ASSUME NEW c \in Calls, Success(c) \/ OtherEnd(c) PROVE Probing'
    BY <1>1, <1>2, <1>4 DEF Success, OtherEnd, Free, PersistThenFree
  <1>5. ASSUME NEW c \in Calls, TechnicalFailure(c) PROVE Probing'
    <2>1. CASE State = "HALF_OPEN"
      BY <1>1, <1>2, <1>5, <2>1 DEF TechnicalFailure, Free, PersistThenFree
    <2>2. CASE State # "HALF_OPEN"
      <3>1. probes = 0 \/ kept
        BY <1>0, <2>2 DEF Probing
      <3>2. probes' = 0 \/ kept'
        BY <1>2, <1>5, <2>2, <3>1 DEF TechnicalFailure, Free, PersistThenFree
      <3> QED BY <1>1, <3>2
    <2> QED BY <2>1, <2>2
  <1>6. ASSUME NEW c \in Calls, Abandon(c) PROVE Probing'
    <2>1. CASE flight[c] = "probe"
      BY <1>1, <1>6, <2>1 DEF Abandon
    <2>2. CASE flight[c] # "probe"
      BY <1>0, <1>6, <2>2 DEF Abandon, Ends, Probing, State
    <2> QED BY <2>1, <2>2
  <1>7. CASE CooldownElapses
    BY <1>7 DEF CooldownElapses, Probing, State
  <1>8. CASE Reset \/ Restart
    BY <1>1, <1>8 DEF Reset, Restart, Free
  <1>9. CASE UNCHANGED vars
    BY <1>9 DEF vars, Probing, State
  <1> QED BY <1>3, <1>4, <1>5, <1>6, <1>7, <1>8, <1>9 DEF Next, Settle

\* Unless an exception passes by the line that frees it, the HALF_OPEN probe is never
\* lost: as long as it is consumed, a dispatch that can still report is in flight.
THEOREM ProbeKept == Spec => []ProbeNotLeaked
  <1>1. TypeOK /\ Counting /\ Probing /\ [Next]_vars => (TypeOK /\ Counting /\ Probing)'
    BY CountingStep, ProbingStep
  <1>2. Probing => ProbeNotLeaked
    BY DEF Probing, ProbeNotLeaked
  <1> QED BY <1>1, <1>2, InitOK, PTL DEF Spec
=============================================================================
