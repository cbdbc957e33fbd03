------------------------- MODULE RetryLoopProofs -------------------------
(***************************************************************************)
(* The recovery scheduler, and the retry loop that the execution           *)
(* supervisor closes with it, for any jobs, calls, limits and bounds.      *)
(*                                                                         *)
(* The number of handler calls is bounded by what Covered keeps in         *)
(* balance: the calls made, plus those either copy of the map still allows *)
(* -- a restart takes up the file, a pass the map --, plus one for each    *)
(* replaced object a running pass still holds.                             *)
(*                                                                         *)
(* That a deadline in the ledger keeps its wakeup in recovery.json rests   *)
(* on who may write either: a call in flight is alone with its job and has *)
(* no deadline (Working), a deadline is written by a step after which      *)
(* schedule() runs (Continuation), a handler that reports done leaves none *)
(* behind (Finishing), and recovery.json lacks no wakeup of the map but    *)
(* one whose write was refused (Follows).                                  *)
(***************************************************************************)
EXTENDS RetryLoop, Integers, TLAPS

Row   == [state : {"GONE", "WAITING", "RUNNING", "PAUSED"}, due : BOOLEAN, attempts : 0 .. MaxAttempts]
Table == [Ids -> Row]
Runs  == [Ids -> Nat]

\* The handler calls a record may still lead to before it pauses.
Owed(r) == IF r.state \in {"WAITING", "RUNNING"} THEN MaxAttempts - r.attempts ELSE 0

\* The calls made, those the record may lead to, and the one a collected object that was
\* replaced may lead to, are within what was asked for.
Covered(F, T, A, S) ==
    \A i \in Ids : F[i] + Owed(T[i]) + (IF i \in S THEN 1 ELSE 0) <= A[i]

\* A pass collected waiting records, and its handler runs for a record that is RUNNING.
PassShape ==
    /\ \A i \in queue : table[i].state = "WAITING"
    /\ \A i \in current \ orphans : table[i].state = "RUNNING"
    /\ \A i, j \in current : i = j
    /\ queue \cap current = {}
    /\ current = {} => queue = {}

\* Without duplicates and refused writes a wakeup that is done is in neither copy of the map.
DoneIsGone ==
    used.duplicates = 0 /\ writes = 0 =>
        /\ orphans = {}
        /\ \A i \in settled : table[i].state = "GONE" /\ file[i].state = "GONE"

RInv ==
    /\ TypeOK
    /\ PassShape
    /\ Covered(fired, table, allowance, orphans \cap queue)
    /\ Covered(fired, file, allowance, {})
    /\ DoneIsGone

(***************************************************************************)
(* Records                                                                 *)
(***************************************************************************)

LEMMA Constants == MaxAttempts \in Nat \ {0} /\ MaxWriteFailures \in Nat
  BY SchedulerAssumption

LEMMA OwedType ==
    ASSUME NEW r \in Row
    PROVE  Owed(r) \in 0 .. MaxAttempts
  BY Constants DEF Owed, Row

LEMMA ArmTyped ==
    ASSUME Arm
    PROVE  armed' \in BOOLEAN
  BY DEF Arm

LEMMA GoneRow == Gone \in Row /\ Owed(Gone) = 0
  BY Constants DEF Gone, Row, Owed

\* What the pass makes of a record it reaches.
PausedRow(r)  == [r EXCEPT !.state = "PAUSED"]
RunningRow(r) == [r EXCEPT !.state = "RUNNING", !.attempts = @ + 1]

LEMMA PausedIsRow ==
    ASSUME NEW r \in Row
    PROVE  PausedRow(r) \in Row /\ Owed(PausedRow(r)) = 0 /\ PausedRow(r).state = "PAUSED"
  BY DEF PausedRow, Row, Owed

LEMMA RunningIsRow ==
    ASSUME NEW r \in Row, r.attempts < MaxAttempts, r.state = "WAITING"
    PROVE  /\ RunningRow(r) \in Row /\ RunningRow(r).state = "RUNNING"
           /\ Owed(RunningRow(r)) + 1 = Owed(r)
  <1>1. /\ RunningRow(r) = [state |-> "RUNNING", due |-> r.due, attempts |-> r.attempts + 1]
        /\ r.attempts \in 0 .. MaxAttempts
    <2>1. RunningRow(r) = [[r EXCEPT !.state = "RUNNING"] EXCEPT !.attempts = @ + 1]
      BY DEF RunningRow
    <2>2. r = [state |-> r.state, due |-> r.due, attempts |-> r.attempts]
      BY DEF Row
    <2>3. [r EXCEPT !.state = "RUNNING"] = [state |-> "RUNNING", due |-> r.due, attempts |-> r.attempts]
      BY DEF Row
    <2> QED BY <2>1, <2>3 DEF Row
  <1>2. r.attempts + 1 \in 0 .. MaxAttempts
    BY <1>1, Constants
  <1>3. r.due \in BOOLEAN
    BY DEF Row
  <1>4. RunningRow(r) \in Row
    BY <1>1, <1>2, <1>3 DEF Row
  <1>5. Owed(RunningRow(r)) = MaxAttempts - (r.attempts + 1)
    BY <1>1 DEF Owed
  <1>6. Owed(r) = MaxAttempts - r.attempts
    BY DEF Owed
  <1> QED BY <1>1, <1>4, <1>5, <1>6, Constants

LEMMA ReachedRow ==
    ASSUME NEW T \in Table, NEW i \in Ids, NEW O
    PROVE  /\ i \in O => Reached(T, i, O) = T
           /\ i \notin O /\ T[i].attempts >= MaxAttempts =>
                Reached(T, i, O) = [T EXCEPT ![i] = PausedRow(T[i])]
           /\ i \notin O /\ T[i].attempts < MaxAttempts =>
                Reached(T, i, O) = [T EXCEPT ![i] = RunningRow(T[i])]
  <1>1. T[i].attempts \in Nat /\ MaxAttempts \in Nat
    BY Constants DEF Table, Row
  <1>2. T[i].attempts < MaxAttempts => ~(T[i].attempts >= MaxAttempts)
    BY <1>1
  <1> QED BY <1>2 DEF Reached, PausedRow, RunningRow

\* Fewer calls owed, or fewer replaced objects held, keep the balance.
LEMMA CoveredLess ==
    ASSUME NEW F \in Runs, NEW A \in Runs, NEW T \in Table, NEW U \in Table, NEW S, NEW R,
           Covered(F, T, A, S), R \subseteq S,
           \A i \in Ids : Owed(U[i]) <= Owed(T[i])
    PROVE  Covered(F, U, A, R)
  <1> SUFFICES ASSUME NEW i \in Ids
               PROVE  F[i] + Owed(U[i]) + (IF i \in R THEN 1 ELSE 0) <= A[i]
    BY DEF Covered
  <1>1. F[i] + Owed(T[i]) + (IF i \in S THEN 1 ELSE 0) <= A[i]
    BY DEF Covered
  <1>2. F[i] \in Nat /\ A[i] \in Nat
    BY DEF Runs
  <1>3. Owed(T[i]) \in Nat /\ Owed(U[i]) \in Nat
    <2>1. T[i] \in Row /\ U[i] \in Row
      BY DEF Table
    <2> QED BY <2>1, OwedType, Constants
  <1>4. Owed(U[i]) <= Owed(T[i])
    OBVIOUS
  <1>5. (IF i \in R THEN 1 ELSE 0) <= (IF i \in S THEN 1 ELSE 0)
    OBVIOUS
  <1> QED BY <1>1, <1>2, <1>3, <1>4, <1>5

\* A call of the handler is paid for by the record, or by the replaced object it is made for.
LEMMA CoveredCall ==
    ASSUME NEW F \in Runs, NEW A \in Runs, NEW T \in Table, NEW U \in Table, NEW S, NEW i \in Ids,
           Covered(F, T, A, S),
           \A j \in Ids : j # i => U[j] = T[j],
           i \in S => U[i] = T[i],
           i \notin S => Owed(U[i]) + 1 = Owed(T[i])
    PROVE  /\ [F EXCEPT ![i] = @ + 1] \in Runs
           /\ Covered([F EXCEPT ![i] = @ + 1], U, A, S \ {i})
  <1> DEFINE G == [F EXCEPT ![i] = @ + 1]
  <1>1. G \in Runs /\ G[i] = F[i] + 1 /\ \A j \in Ids : j # i => G[j] = F[j]
    BY DEF Runs
  <1> HIDE DEF G
  <1>2. ASSUME NEW j \in Ids
        PROVE  G[j] + Owed(U[j]) + (IF j \in S \ {i} THEN 1 ELSE 0) <= A[j]
    <2>1. F[j] + Owed(T[j]) + (IF j \in S THEN 1 ELSE 0) <= A[j]
      BY DEF Covered
    <2>2. F[j] \in Nat /\ A[j] \in Nat
      BY DEF Runs
    <2>3. Owed(T[j]) \in Nat /\ Owed(U[j]) \in Nat
      <3>1. T[j] \in Row /\ U[j] \in Row
        BY DEF Table
      <3> QED BY <3>1, OwedType, Constants
    <2>4. CASE j # i
      BY <1>1, <2>1, <2>4
    <2>5. CASE j = i /\ i \in S
      BY <1>1, <2>1, <2>2, <2>3, <2>5
    <2>6. CASE j = i /\ i \notin S
      BY <1>1, <2>1, <2>2, <2>3, <2>6
    <2> QED BY <2>4, <2>5, <2>6
  <1> QED BY <1>1, <1>2 DEF Covered, G

(***************************************************************************)
(* The pass                                                                *)
(***************************************************************************)

\* The records a pass finds exhausted are PAUSED; the others stay.
Exhausted(T, O, over) == [i \in Ids |-> IF i \in over THEN Reached(T, i, O)[i] ELSE T[i]]

LEMMA ExhaustedTable ==
    ASSUME NEW T \in Table, NEW Q \in SUBSET Ids, NEW O,
           NEW over \in SUBSET {i \in Q : T[i].attempts >= MaxAttempts}
    PROVE  /\ Exhausted(T, O, over) \in Table
           /\ \A i \in Ids : i \notin over => Exhausted(T, O, over)[i] = T[i]
           /\ \A i \in Ids : Owed(Exhausted(T, O, over)[i]) <= Owed(T[i])
  <1> DEFINE P == Exhausted(T, O, over)
  <1>1. over \subseteq Ids /\ \A i \in over : T[i].attempts >= MaxAttempts
    OBVIOUS
  <1>2. \A i \in Ids : i \notin over => P[i] = T[i]
    BY DEF Exhausted
  <1>3. \A i \in over : P[i] = T[i] \/ P[i] = PausedRow(T[i])
    <2> TAKE i \in over
    <2>1. P[i] = Reached(T, i, O)[i]
      BY <1>1 DEF Exhausted
    <2>2. i \in O => Reached(T, i, O)[i] = T[i]
      BY <1>1, ReachedRow
    <2>3. i \notin O => Reached(T, i, O)[i] = PausedRow(T[i])
      <3>1. i \notin O => Reached(T, i, O) = [T EXCEPT ![i] = PausedRow(T[i])]
        BY <1>1, ReachedRow
      <3> QED BY <1>1, <3>1 DEF Table
    <2> QED BY <2>1, <2>2, <2>3
  <1>4. \A i \in Ids : T[i] \in Row /\ Owed(T[i]) \in Nat
    <2> TAKE i \in Ids
    <2>1. T[i] \in Row
      BY DEF Table
    <2>2. Owed(T[i]) \in 0 .. MaxAttempts
      BY <2>1, OwedType
    <2> QED BY <2>1, <2>2, Constants
  <1>5. \A i \in Ids : P[i] \in Row /\ Owed(P[i]) <= Owed(T[i])
    <2> TAKE i \in Ids
    <2>1. CASE P[i] = T[i]
      BY <1>4, <2>1
    <2>2. CASE P[i] = PausedRow(T[i])
      BY <1>4, <2>2, PausedIsRow
    <2> QED BY <1>2, <1>3, <2>1, <2>2
  <1>6. P \in Table
    BY <1>5 DEF Exhausted, Table
  <1> QED BY <1>2, <1>5, <1>6

\* However far the loop gets, the balance is kept in both copies of the map, and records the
\* pass did not collect are neither changed nor fired.
LEMMA LoopOutcome ==
    ASSUME TypeOK, NEW T \in Table, NEW Q \in SUBSET Ids, NEW O \in SUBSET Q, NEW A \in Runs,
           \A i \in Q : T[i].state = "WAITING",
           Covered(fired, T, A, O),
           Loop(T, Q, O)
    PROVE  /\ table' \in Table /\ file' \in Table
           /\ orphans' \subseteq queue' \cup current' /\ queue' \cup current' \subseteq Ids
           /\ stopped' \in BOOLEAN /\ armed' \in BOOLEAN /\ writes' \in 0 .. MaxWriteFailures
           /\ fired' \in Runs
           /\ PassShape'
           /\ Covered(fired', table', A, orphans' \cap queue')
           /\ Covered(fired', file', A, {})
           /\ O = {} => orphans' = {}
           /\ \A i \in Ids \ Q : table'[i] = T[i] /\ file'[i] = T[i] /\ fired'[i] = fired[i]
           /\ writes' = 0 => writes = 0
  <1> DEFINE Facts == /\ table' \in Table /\ file' \in Table
                      /\ orphans' \subseteq queue' \cup current' /\ queue' \cup current' \subseteq Ids
                      /\ stopped' \in BOOLEAN /\ writes' \in 0 .. MaxWriteFailures
                      /\ fired' \in Runs
                      /\ PassShape'
                      /\ Covered(fired', table', A, orphans' \cap queue')
                      /\ Covered(fired', file', A, {})
                      /\ O = {} => orphans' = {}
                      /\ \A i \in Ids \ Q : /\ table'[i] = T[i] /\ file'[i] = T[i]
                                             /\ fired'[i] = fired[i]
                      /\ writes' = 0 => writes = 0
  <1>0. armed' \in BOOLEAN
    BY ArmTyped DEF Loop
  <1>1. fired \in Runs /\ stopped \in BOOLEAN /\ writes \in 0 .. MaxWriteFailures
    BY DEF TypeOK, Runs
  <1>2. MaxWriteFailures \in Nat
    BY Constants
  <1>3. PICK over \in SUBSET {i \in Q : T[i].attempts >= MaxAttempts} :
          \/ /\ over = Q
             /\ table' = Exhausted(T, O, over) /\ file' = Exhausted(T, O, over)
             /\ PassEnds
             /\ UNCHANGED <<stopped, fired, writes>>
          \/ \E i \in Q \ over :
               /\ T[i].attempts < MaxAttempts
               /\ table' = Reached(Exhausted(T, O, over), i, O) /\ file' = table'
               /\ queue' = Q \ (over \cup {i})
               /\ orphans' = O \ over
               /\ current' = {i}
               /\ fired' = [fired EXCEPT ![i] = @ + 1]
               /\ UNCHANGED <<stopped, writes>>
          \/ \E i \in Q \ over :
               /\ WriteFails
               /\ table' = Reached(Exhausted(T, O, over), i, O) /\ file' = Exhausted(T, O, over)
               /\ PassEnds
               /\ stopped' \in {stopped, TRUE}
               /\ UNCHANGED fired
    BY DEF Loop, Exhausted
  <1> DEFINE P == Exhausted(T, O, over)
  <1>4. /\ P \in Table
        /\ \A i \in Ids : i \notin over => P[i] = T[i]
        /\ \A i \in Ids : Owed(P[i]) <= Owed(T[i])
        /\ over \subseteq Q
    BY ExhaustedTable
  <1>5. Covered(fired, P, A, O) /\ Covered(fired, P, A, {})
    <2> HIDE DEF P
    <2> QED BY <1>1, <1>4, CoveredLess
  <1>6. ASSUME NEW i \in Q \ over
        PROVE  /\ i \in Ids /\ P[i] = T[i] /\ T[i] \in Row /\ T[i].state = "WAITING"
               /\ i \in O => Reached(P, i, O) = P
               /\ i \notin O /\ T[i].attempts >= MaxAttempts =>
                    Reached(P, i, O) = [P EXCEPT ![i] = PausedRow(T[i])]
               /\ i \notin O /\ T[i].attempts < MaxAttempts =>
                    Reached(P, i, O) = [P EXCEPT ![i] = RunningRow(T[i])]
    <2>1. i \in Ids /\ P[i] = T[i] /\ T[i] \in Row /\ T[i].state = "WAITING"
      BY <1>4, <1>6 DEF Table
    <2> HIDE DEF P
    <2> QED BY <1>4, <2>1, ReachedRow
  <1>7. ASSUME NEW i \in Q \ over
        PROVE  /\ Reached(P, i, O) \in Table
               /\ \A j \in Ids : j # i => Reached(P, i, O)[j] = P[j]
               /\ Owed(Reached(P, i, O)[i]) <= Owed(P[i])
               /\ T[i].attempts < MaxAttempts /\ i \notin O =>
                    /\ Reached(P, i, O)[i].state = "RUNNING"
                    /\ Owed(Reached(P, i, O)[i]) + 1 = Owed(P[i])
    <2> HIDE DEF P
    <2>1. /\ i \in Ids /\ P[i] = T[i] /\ T[i] \in Row /\ T[i].state = "WAITING"
          /\ i \in O => Reached(P, i, O) = P
          /\ i \notin O /\ T[i].attempts >= MaxAttempts =>
               Reached(P, i, O) = [P EXCEPT ![i] = PausedRow(T[i])]
          /\ i \notin O /\ T[i].attempts < MaxAttempts =>
               Reached(P, i, O) = [P EXCEPT ![i] = RunningRow(T[i])]
      BY <1>6, <1>7
    <2>2. Owed(T[i]) \in Nat /\ T[i].attempts \in Nat /\ MaxAttempts \in Nat
      <3>1. Owed(T[i]) \in 0 .. MaxAttempts
        BY <2>1, OwedType
      <3> QED BY <2>1, <3>1, Constants DEF Row
    <2>3. CASE i \in O
      BY <1>4, <2>1, <2>2, <2>3
    <2>4. CASE i \notin O /\ T[i].attempts >= MaxAttempts
      <3>1. PausedRow(T[i]) \in Row /\ Owed(PausedRow(T[i])) = 0
        BY <2>1, PausedIsRow
      <3>2. Reached(P, i, O) = [P EXCEPT ![i] = PausedRow(T[i])]
        BY <2>1, <2>4
      <3> QED BY <1>4, <2>1, <2>2, <2>4, <3>1, <3>2 DEF Table
    <2>5. CASE i \notin O /\ T[i].attempts < MaxAttempts
      <3>1. /\ RunningRow(T[i]) \in Row /\ RunningRow(T[i]).state = "RUNNING"
            /\ Owed(RunningRow(T[i])) + 1 = Owed(T[i])
        BY <2>1, <2>5, RunningIsRow
      <3>2. Owed(RunningRow(T[i])) \in Nat
        BY <3>1, OwedType, Constants
      <3>3. Reached(P, i, O) = [P EXCEPT ![i] = RunningRow(T[i])]
        BY <2>1, <2>5
      <3> QED BY <1>4, <2>1, <2>2, <3>1, <3>2, <3>3 DEF Table
    <2> QED BY <2>2, <2>3, <2>4, <2>5
  <1> HIDE DEF P
  <1>8. ASSUME over = Q, table' = P, file' = P, PassEnds, UNCHANGED <<stopped, fired, writes>>
        PROVE  Facts
    <2>1. queue' = {} /\ orphans' = {} /\ current' = {}
      BY <1>8 DEF PassEnds
    <2>2. PassShape'
      BY <2>1 DEF PassShape
    <2>3. Covered(fired', table', A, orphans' \cap queue') /\ Covered(fired', file', A, {})
      <3>1. orphans' \cap queue' = {}
        BY <2>1
      <3> QED BY <1>5, <1>8, <3>1
    <2>4. \A i \in Ids \ Q : table'[i] = T[i] /\ file'[i] = T[i] /\ fired'[i] = fired[i]
      BY <1>4, <1>8
    <2> QED BY <1>1, <1>4, <1>8, <2>1, <2>2, <2>3, <2>4
  <1>9. ASSUME NEW i \in Q \ over, T[i].attempts < MaxAttempts,
               table' = Reached(P, i, O), file' = table', queue' = Q \ (over \cup {i}),
               orphans' = O \ over, current' = {i},
               fired' = [fired EXCEPT ![i] = @ + 1], UNCHANGED <<stopped, writes>>
        PROVE  Facts
    <2>1. /\ table' \in Table /\ file' \in Table
          /\ \A j \in Ids : j # i => table'[j] = P[j]
          /\ i \in O => table'[i] = P[i]
          /\ i \notin O => table'[i].state = "RUNNING" /\ Owed(table'[i]) + 1 = Owed(P[i])
      BY <1>6, <1>7, <1>9
    <2>2. fired' \in Runs /\ Covered(fired', table', A, O \ {i})
      BY <1>1, <1>4, <1>5, <1>9, <2>1, CoveredCall
    <2>3. Covered(fired', table', A, orphans' \cap queue') /\ Covered(fired', file', A, {})
      <3>1. orphans' \cap queue' \subseteq O \ {i}
        BY <1>9
      <3>2. \A j \in Ids : Owed(table'[j]) <= Owed(table'[j])
        <4> TAKE j \in Ids
        <4>1. table'[j] \in Row
          BY <2>1 DEF Table
        <4>2. Owed(table'[j]) \in 0 .. MaxAttempts
          BY <4>1, OwedType
        <4> QED BY <4>2, Constants
      <3>3. Covered(fired', table', A, orphans' \cap queue')
        BY <2>1, <2>2, <3>1, <3>2, CoveredLess
      <3>4. Covered(fired', table', A, {})
        BY <2>1, <2>2, <3>2, CoveredLess
      <3> QED BY <1>9, <3>3, <3>4
    <2>4. PassShape'
      <3>1. \A j \in queue' : table'[j].state = "WAITING"
        BY <1>4, <1>9, <2>1
      <3>2. \A j \in current' \ orphans' : table'[j].state = "RUNNING"
        BY <1>9, <2>1
      <3>3. (\A j, k \in current' : j = k) /\ queue' \cap current' = {} /\ current' # {}
        BY <1>9
      <3> QED BY <3>1, <3>2, <3>3 DEF PassShape
    <2>5. \A j \in Ids \ Q : table'[j] = T[j] /\ file'[j] = T[j] /\ fired'[j] = fired[j]
      <3> TAKE j \in Ids \ Q
      <3>1. j # i /\ j \notin over
        BY <1>4, <1>9
      <3>2. fired'[j] = fired[j]
        BY <1>1, <1>9, <3>1 DEF Runs
      <3> QED BY <1>4, <1>9, <2>1, <3>1, <3>2
    <2>6. orphans' \subseteq queue' \cup current' /\ queue' \cup current' \subseteq Ids
      BY <1>9
    <2> QED BY <1>1, <1>9, <2>1, <2>2, <2>3, <2>4, <2>5, <2>6
  <1>10. ASSUME NEW i \in Q \ over, WriteFails, table' = Reached(P, i, O), file' = P, PassEnds,
                stopped' \in {stopped, TRUE}, UNCHANGED fired
         PROVE  Facts
    <2>1. queue' = {} /\ orphans' = {} /\ current' = {}
      BY <1>10 DEF PassEnds
    <2>2. PassShape'
      BY <2>1 DEF PassShape
    <2>3. /\ table' \in Table
          /\ \A j \in Ids : j # i => table'[j] = P[j]
          /\ Owed(table'[i]) <= Owed(P[i])
      BY <1>7, <1>10
    <2>4. \A j \in Ids : Owed(table'[j]) <= Owed(P[j])
      <3> TAKE j \in Ids
      <3>1. P[j] \in Row
        BY <1>4 DEF Table
      <3>2. Owed(P[j]) \in 0 .. MaxAttempts
        BY <3>1, OwedType
      <3>3. Owed(P[j]) <= Owed(P[j])
        BY <3>2, Constants
      <3> QED BY <2>3, <3>3
    <2>5. Covered(fired, table', A, {})
      BY <1>1, <1>4, <1>5, <2>3, <2>4, CoveredLess
    <2>6. Covered(fired', table', A, orphans' \cap queue') /\ Covered(fired', file', A, {})
      <3>1. orphans' \cap queue' = {}
        BY <2>1
      <3> QED BY <1>5, <1>10, <2>5, <3>1
    <2>7. writes' \in 0 .. MaxWriteFailures /\ writes' # 0
      BY <1>1, <1>2, <1>10 DEF WriteFails
    <2>8. \A j \in Ids \ Q : table'[j] = T[j] /\ file'[j] = T[j] /\ fired'[j] = fired[j]
      BY <1>4, <1>10, <2>3
    <2>9. stopped' \in BOOLEAN
      BY <1>1, <1>10
    <2> QED BY <1>1, <1>4, <1>10, <2>1, <2>2, <2>3, <2>6, <2>7, <2>8, <2>9
  <1> QED
    <2>1. Facts
      BY <1>3, <1>8, <1>9, <1>10 DEF P
    <2> QED BY <1>0, <2>1

(***************************************************************************)
(* The actions                                                             *)
(***************************************************************************)

Counters == [{"schedules", "duplicates", "resumes", "restarts"} -> Nat]

LEMMA Typed ==
    ASSUME TypeOK
    PROVE  /\ table \in Table /\ file \in Table
           /\ orphans \subseteq queue \cup current /\ queue \subseteq Ids /\ current \subseteq Ids
           /\ stopped \in BOOLEAN /\ armed \in BOOLEAN /\ writes \in 0 .. MaxWriteFailures
           /\ fired \in Runs /\ allowance \in Runs
           /\ settled \subseteq Ids /\ used \in Counters
  BY DEF TypeOK, Table, Row, Runs, Counters

\* What FiresOnce says of one step.
NotFiredAgain == used.duplicates = 0 /\ writes = 0 =>
                    \A i \in settled \cap settled' : fired'[i] = fired[i]

\* A step that runs the loop on a map and on collected records that satisfy the invariant.
LEMMA LoopStep ==
    ASSUME TypeOK, NEW T \in Table, NEW Q \in SUBSET Ids, NEW O \in SUBSET Q,
           \A i \in Q : T[i].state = "WAITING",
           Covered(fired, T, allowance', O),
           Loop(T, Q, O),
           allowance' \in Runs, settled' \subseteq Ids, used' \in Counters,
           used.duplicates = 0 /\ writes = 0 => \A i \in settled' : T[i].state = "GONE",
           used'.duplicates = 0 /\ writes = 0 => O = {} /\ used.duplicates = 0
    PROVE  RInv' /\ NotFiredAgain
  <1>1. /\ table' \in Table /\ file' \in Table
        /\ orphans' \subseteq queue' \cup current' /\ queue' \cup current' \subseteq Ids
        /\ stopped' \in BOOLEAN /\ armed' \in BOOLEAN /\ writes' \in 0 .. MaxWriteFailures
        /\ fired' \in Runs
        /\ PassShape'
        /\ Covered(fired', table', allowance', orphans' \cap queue')
        /\ Covered(fired', file', allowance', {})
        /\ O = {} => orphans' = {}
        /\ \A i \in Ids \ Q : table'[i] = T[i] /\ file'[i] = T[i] /\ fired'[i] = fired[i]
        /\ writes' = 0 => writes = 0
    BY LoopOutcome
  <1>2. TypeOK'
    BY <1>1 DEF TypeOK, Table, Row, Runs, Counters
  <1>3. ASSUME used.duplicates = 0, writes = 0, NEW i \in settled'
        PROVE  i \in Ids \ Q /\ T[i].state = "GONE"
    BY <1>3
  <1>4. DoneIsGone'
    <2> SUFFICES ASSUME used'.duplicates = 0, writes' = 0
                 PROVE  /\ orphans' = {}
                        /\ \A i \in settled' : table'[i].state = "GONE" /\ file'[i].state = "GONE"
      BY DEF DoneIsGone
    <2>1. writes = 0 /\ O = {} /\ used.duplicates = 0
      BY <1>1
    <2> QED BY <1>1, <1>3, <2>1
  <1>5. NotFiredAgain
    BY <1>1, <1>3 DEF NotFiredAgain
  <1> QED BY <1>1, <1>2, <1>4, <1>5 DEF RInv

\* Between two passes nothing is collected and nothing is replaced.
LEMMA Idle ==
    ASSUME RInv, ~Active
    PROVE  queue = {} /\ orphans = {} /\ current = {}
  BY Typed DEF RInv, PassShape, Active

LEMMA TimerStep ==
    ASSUME RInv, TimerFires
    PROVE  RInv' /\ NotFiredAgain
  <1>1. /\ TypeOK /\ Loop(table, Due(table), {}) /\ ~Active
        /\ allowance' = allowance /\ settled' = settled /\ used' = used
    BY DEF RInv, TimerFires
  <1>2. /\ table \in Table /\ allowance \in Runs /\ settled \subseteq Ids /\ used \in Counters
    BY <1>1, Typed
  <1>3. queue = {} /\ orphans = {}
    BY <1>1, Idle
  <1>4. Covered(fired, table, allowance', {})
    <2>1. orphans \cap queue = {}
      BY <1>3
    <2> QED BY <1>1, <2>1 DEF RInv
  <1>5. Due(table) \in SUBSET Ids /\ \A i \in Due(table) : table[i].state = "WAITING"
    BY DEF Due
  <1>6. used.duplicates = 0 /\ writes = 0 => \A i \in settled' : table[i].state = "GONE"
    BY <1>1 DEF RInv, DoneIsGone
  <1>7. allowance' \in Runs /\ settled' \subseteq Ids /\ used' \in Counters
    BY <1>1, <1>2
  <1>8. used'.duplicates = 0 /\ writes = 0 => {} = {} /\ used.duplicates = 0
    BY <1>1
  <1> QED BY <1>1, <1>2, <1>4, <1>5, <1>6, <1>7, <1>8, LoopStep

LEMMA SettleStep ==
    ASSUME RInv, NEW result \in {"done", "retry", "pause"}, NEW due \in BOOLEAN, Settle(result, due)
    PROVE  RInv' /\ NotFiredAgain
  <1>0. TypeOK /\ PassShape /\ DoneIsGone /\ allowance' = allowance /\ used' = used
    BY DEF RInv, Settle
  <1>1. /\ table \in Table /\ file \in Table /\ fired \in Runs /\ allowance \in Runs
        /\ settled \subseteq Ids /\ used \in Counters /\ queue \subseteq Ids /\ current \subseteq Ids
        /\ orphans \subseteq queue \cup current
    BY <1>0, Typed
  <1> DEFINE T(i) == [table EXCEPT ![i] = Answered(i, result, due)]
  <1>2. PICK i \in current :
          /\ settled' = IF result = "done" THEN settled \cup {i} ELSE settled
          /\ \/ i \in orphans /\ Loop(table, queue, orphans \ {i})
             \/ i \notin orphans /\ Loop(T(i), queue, orphans)
             \/ /\ i \notin orphans
                /\ WriteFails
                /\ table' = T(i)
                /\ PassEnds
                /\ stopped' \in {stopped, TRUE}
                /\ Arm
                /\ UNCHANGED <<file, fired>>
    BY DEF Settle
  <1>3. /\ i \in Ids /\ current = {i} /\ i \notin queue
        /\ settled' \subseteq Ids /\ settled' \subseteq settled \cup {i}
    BY <1>0, <1>1, <1>2 DEF PassShape
  <1>4. allowance' \in Runs /\ used' \in Counters
    BY <1>0, <1>1
  <1>5. CASE i \in orphans /\ Loop(table, queue, orphans \ {i})
    <2>1. orphans \ {i} = orphans \cap queue
      BY <1>1, <1>3
    <2>2. Covered(fired, table, allowance', orphans \ {i})
      BY <1>0, <2>1 DEF RInv
    <2>3. \A j \in queue : table[j].state = "WAITING"
      BY <1>0 DEF PassShape
    <2>4. ~(used.duplicates = 0 /\ writes = 0) /\ ~(used'.duplicates = 0 /\ writes = 0)
      BY <1>0, <1>5 DEF DoneIsGone
    <2>5. orphans \ {i} \in SUBSET queue /\ queue \in SUBSET Ids
      BY <1>1, <2>1
    <2> DEFINE O == orphans \ {i}
    <2> HIDE DEF O
    <2>6. /\ O \in SUBSET queue /\ Covered(fired, table, allowance', O) /\ Loop(table, queue, O)
          /\ used.duplicates = 0 /\ writes = 0 => \A j \in settled' : table[j].state = "GONE"
          /\ used'.duplicates = 0 /\ writes = 0 => O = {} /\ used.duplicates = 0
      BY <1>5, <2>2, <2>4, <2>5 DEF O
    <2> QED BY <1>0, <1>1, <1>3, <1>4, <2>3, <2>5, <2>6, LoopStep
  <1>6. ASSUME i \notin orphans
        PROVE  /\ table[i].state = "RUNNING"
               /\ T(i) \in Table /\ T(i)[i] = Answered(i, result, due)
               /\ \A j \in Ids : j # i => T(i)[j] = table[j]
               /\ \A j \in Ids : Owed(T(i)[j]) <= Owed(table[j])
               /\ result = "done" => T(i)[i].state = "GONE"
    <2>1. table[i].state = "RUNNING" /\ table[i] \in Row
      BY <1>0, <1>1, <1>3, <1>6 DEF PassShape, Table
    <2>2. /\ Answered(i, result, due) \in Row
          /\ Answered(i, result, due) = Gone \/
               Answered(i, result, due) = [table[i] EXCEPT !.state = "WAITING", !.due = due] \/
               Answered(i, result, due) = PausedRow(table[i])
          /\ result = "done" => Answered(i, result, due) = Gone
      <3>1. [table[i] EXCEPT !.state = "WAITING", !.due = due] \in Row
        BY <2>1 DEF Row
      <3> QED BY <2>1, <3>1, GoneRow, PausedIsRow DEF Answered, PausedRow
    <2>3. Owed([table[i] EXCEPT !.state = "WAITING", !.due = due]) = Owed(table[i])
      <3>1. /\ [table[i] EXCEPT !.state = "WAITING", !.due = due].state = "WAITING"
            /\ [table[i] EXCEPT !.state = "WAITING", !.due = due].attempts = table[i].attempts
        BY <2>1 DEF Row
      <3> HIDE DEF T
      <3> QED BY <2>1, <3>1 DEF Owed
    <2>4. \A j \in Ids : Owed(table[j]) \in Nat
      <3> TAKE j \in Ids
      <3>1. table[j] \in Row
        BY <1>1 DEF Table
      <3>2. Owed(table[j]) \in 0 .. MaxAttempts
        BY <3>1, OwedType
      <3> QED BY <3>2, Constants
    <2>5. Owed(Answered(i, result, due)) <= Owed(table[i])
      <3>1. Owed(table[i]) \in Nat
        BY <1>3, <2>4
      <3>2. CASE Answered(i, result, due) = Gone
        BY <3>1, <3>2, GoneRow
      <3>3. CASE Answered(i, result, due) = [table[i] EXCEPT !.state = "WAITING", !.due = due]
        BY <2>3, <3>1, <3>3
      <3>4. CASE Answered(i, result, due) = PausedRow(table[i])
        BY <2>1, <3>1, <3>4, PausedIsRow
      <3> QED BY <2>2, <3>2, <3>3, <3>4
    <2>6. /\ T(i) \in Table /\ T(i)[i] = Answered(i, result, due)
          /\ \A j \in Ids : j # i => T(i)[j] = table[j]
      BY <1>1, <1>3, <2>2 DEF Table
    <2> HIDE DEF T
    <2>7. \A j \in Ids : Owed(T(i)[j]) <= Owed(table[j])
      <3> TAKE j \in Ids
      <3>1. CASE j = i
        BY <2>5, <2>6, <3>1
      <3>2. CASE j # i
        BY <2>4, <2>6, <3>2
      <3> QED BY <3>1, <3>2
    <2> QED BY <2>1, <2>2, <2>6, <2>7 DEF Gone
  <1>7. ASSUME i \notin orphans, used.duplicates = 0, writes = 0
        PROVE  orphans = {} /\ \A j \in settled' : T(i)[j].state = "GONE"
    <2>1. orphans = {} /\ \A j \in settled : table[j].state = "GONE"
      BY <1>0, <1>7 DEF DoneIsGone
    <2>2. i \notin settled
      BY <1>6, <1>7, <2>1
    <2> HIDE DEF T
    <2> QED BY <1>1, <1>2, <1>6, <1>7, <2>1, <2>2
  <1>8. CASE i \notin orphans /\ Loop(T(i), queue, orphans)
    <2>1. orphans \in SUBSET queue /\ queue \in SUBSET Ids /\ orphans \cap queue = orphans
      BY <1>1, <1>3, <1>8
    <2> HIDE DEF T
    <2>2. Covered(fired, T(i), allowance', orphans)
      <3>1. Covered(fired, table, allowance, orphans)
        BY <2>1 DEF RInv
      <3> QED BY <1>0, <1>1, <1>6, <1>8, <3>1, CoveredLess
    <2>3. \A j \in queue : T(i)[j].state = "WAITING"
      BY <1>0, <1>1, <1>3, <1>6, <1>8 DEF PassShape
    <2>4. /\ used.duplicates = 0 /\ writes = 0 => \A j \in settled' : T(i)[j].state = "GONE"
          /\ used'.duplicates = 0 /\ writes = 0 => orphans = {} /\ used.duplicates = 0
      BY <1>0, <1>7, <1>8
    <2>5. T(i) \in Table
      BY <1>6, <1>8
    <2> QED BY <1>0, <1>3, <1>4, <1>8, <2>1, <2>2, <2>3, <2>4, <2>5, LoopStep
  <1>9. CASE /\ i \notin orphans /\ WriteFails /\ table' = T(i) /\ PassEnds
             /\ stopped' \in {stopped, TRUE} /\ Arm /\ UNCHANGED <<file, fired>>
    <2> HIDE DEF T
    <2>1. queue' = {} /\ orphans' = {} /\ current' = {}
      BY <1>9 DEF PassEnds
    <2>2. writes' \in 0 .. MaxWriteFailures /\ writes' # 0
      BY <1>0, <1>9, Typed, Constants DEF WriteFails
    <2>3. table' \in Table /\ stopped' \in BOOLEAN /\ armed' \in BOOLEAN
      <3>1. stopped \in BOOLEAN
        BY <1>0, Typed
      <3>2. armed' \in BOOLEAN
        BY <1>9, ArmTyped
      <3> QED BY <1>6, <1>9, <3>1, <3>2
    <2>4. TypeOK'
      BY <1>0, <1>1, <1>3, <1>4, <1>9, <2>1, <2>2, <2>3 DEF TypeOK, Table, Row, Runs, Counters
    <2>5. PassShape' /\ DoneIsGone'
      BY <2>1, <2>2 DEF PassShape, DoneIsGone
    <2>6. Covered(fired', table', allowance', orphans' \cap queue')
      <3>1. Covered(fired, table, allowance, orphans \cap queue)
        BY DEF RInv
      <3>2. orphans' \cap queue' = {} /\ {} \subseteq orphans \cap queue
        BY <2>1
      <3>3. Covered(fired, table', allowance, {})
        BY <1>1, <1>6, <1>9, <3>1, <3>2, CoveredLess
      <3> QED BY <1>0, <1>9, <3>2, <3>3
    <2>7. Covered(fired', file', allowance', {})
      BY <1>0, <1>9 DEF RInv
    <2>8. NotFiredAgain
      BY <1>9 DEF NotFiredAgain
    <2> QED BY <2>4, <2>5, <2>6, <2>7, <2>8 DEF RInv
  <1> QED BY <1>2, <1>5, <1>8, <1>9

\* A record that is created or resumed has its calls granted; nothing was owed before.
Granted(A, G) == [i \in Ids |-> IF i \in G THEN A[i] + MaxAttempts ELSE A[i]]

LEMMA CoveredGrant ==
    ASSUME NEW F \in Runs, NEW A \in Runs, NEW T \in Table, NEW U \in Table, NEW S, NEW G,
           Covered(F, T, A, S), \A i \in G : i \notin S, \A i \in G \cap Ids : Owed(T[i]) = 0,
           \A i \in Ids : i \notin G => U[i] = T[i]
    PROVE  /\ Granted(A, G) \in Runs /\ \A i \in Ids : A[i] <= Granted(A, G)[i]
           /\ Covered(F, U, Granted(A, G), S)
  <1> DEFINE B == Granted(A, G)
  <1>1. /\ B \in Runs /\ \A i \in Ids : A[i] <= B[i]
        /\ \A i \in Ids : B[i] = IF i \in G THEN A[i] + MaxAttempts ELSE A[i]
    BY Constants DEF Runs, Granted
  <1> HIDE DEF B
  <1>2. ASSUME NEW j \in Ids
        PROVE  F[j] + Owed(U[j]) + (IF j \in S THEN 1 ELSE 0) <= B[j]
    <2>1. F[j] + Owed(T[j]) + (IF j \in S THEN 1 ELSE 0) <= A[j]
      BY DEF Covered
    <2>2. F[j] \in Nat /\ A[j] \in Nat
      BY DEF Runs
    <2>3. Owed(U[j]) \in 0 .. MaxAttempts
      <3>1. U[j] \in Row
        BY DEF Table
      <3> QED BY <3>1, OwedType
    <2>4. CASE j \notin G
      BY <1>1, <2>1, <2>4
    <2>5. CASE j \in G
      <3>1. (IF j \in S THEN 1 ELSE 0) = 0 /\ Owed(T[j]) = 0
        BY <2>5
      <3>2. F[j] <= A[j]
        BY <2>1, <2>2, <3>1
      <3>3. F[j] + Owed(U[j]) <= A[j] + MaxAttempts
        BY <2>2, <2>3, <3>2, Constants
      <3> QED BY <1>1, <2>2, <2>3, <2>5, <3>1, <3>3, Constants
    <2> QED BY <2>4, <2>5
  <1> QED BY <1>1, <1>2 DEF Covered, B

\* A larger allowance covers the same calls; one call more covers one more replaced object.
LEMMA CoveredMore ==
    ASSUME NEW F \in Runs, NEW A \in Runs, NEW B \in Runs, NEW T \in Table, NEW U \in Table,
           NEW S, NEW R,
           Covered(F, T, A, S),
           \A j \in Ids : Owed(U[j]) = Owed(T[j]),
           \A j \in Ids : A[j] <= B[j],
           \A j \in Ids : j \in R /\ j \notin S => A[j] + 1 <= B[j]
    PROVE  Covered(F, U, B, R)
  <1> SUFFICES ASSUME NEW j \in Ids
               PROVE  F[j] + Owed(U[j]) + (IF j \in R THEN 1 ELSE 0) <= B[j]
    BY DEF Covered
  <1>1. F[j] + Owed(T[j]) + (IF j \in S THEN 1 ELSE 0) <= A[j]
    BY DEF Covered
  <1>2. F[j] \in Nat /\ A[j] \in Nat /\ B[j] \in Nat /\ A[j] <= B[j] /\ Owed(U[j]) = Owed(T[j])
    BY DEF Runs
  <1>3. Owed(T[j]) \in Nat
    <2>1. T[j] \in Row
      BY DEF Table
    <2>2. Owed(T[j]) \in 0 .. MaxAttempts
      BY <2>1, OwedType
    <2> QED BY <2>2, Constants
  <1>4. CASE j \in R /\ j \notin S
    BY <1>1, <1>2, <1>3, <1>4
  <1>5. CASE j \notin R \/ j \in S
    BY <1>1, <1>2, <1>3, <1>5
  <1> QED BY <1>4, <1>5

LEMMA TimePassesStep ==
    ASSUME RInv, NEW i \in Ids, TimePasses(i)
    PROVE  RInv' /\ NotFiredAgain
  <1>0. /\ TypeOK /\ PassShape /\ DoneIsGone
        /\ table[i].state = "WAITING"
        /\ table' = [table EXCEPT ![i].due = TRUE]
        /\ file' = IF file[i] = table[i] THEN [file EXCEPT ![i].due = TRUE] ELSE file
        /\ UNCHANGED <<queue, orphans, current, stopped, armed, fired, allowance, settled, writes,
                       used>>
    BY DEF RInv, TimePasses, pass
  <1>1. table \in Table /\ file \in Table /\ fired \in Runs /\ allowance \in Runs
    BY <1>0, Typed
  <1>2. ASSUME NEW T \in Table
        PROVE  /\ [T EXCEPT ![i].due = TRUE] \in Table
               /\ \A j \in Ids : /\ [T EXCEPT ![i].due = TRUE][j].state = T[j].state
                                /\ Owed([T EXCEPT ![i].due = TRUE][j]) = Owed(T[j])
    <2> DEFINE row == [T[i] EXCEPT !.due = TRUE]
    <2>1. T[i] \in Row
      BY DEF Table
    <2>2. row \in Row /\ row.state = T[i].state /\ row.attempts = T[i].attempts
      BY <2>1 DEF Row
    <2> HIDE DEF row
    <2>3. Owed(row) = Owed(T[i])
      BY <2>2 DEF Owed
    <2>4. [T EXCEPT ![i].due = TRUE] = [T EXCEPT ![i] = row]
      BY DEF row
    <2>5. [T EXCEPT ![i] = row] \in Table
      BY <2>2 DEF Table
    <2>6. \A j \in Ids : [T EXCEPT ![i] = row][j] = IF j = i THEN row ELSE T[j]
      BY DEF Table
    <2> QED BY <2>2, <2>3, <2>4, <2>5, <2>6
  <1>3. /\ table' \in Table
        /\ \A j \in Ids : table'[j].state = table[j].state /\ Owed(table'[j]) = Owed(table[j])
    BY <1>0, <1>1, <1>2
  <1>4. /\ file' \in Table
        /\ \A j \in Ids : file'[j].state = file[j].state /\ Owed(file'[j]) = Owed(file[j])
    BY <1>0, <1>1, <1>2
  <1>5. TypeOK'
    BY <1>0, <1>3, <1>4 DEF TypeOK, Table, Row
  <1>6. PassShape' /\ DoneIsGone'
    BY <1>0, <1>3, <1>4, Typed DEF PassShape, DoneIsGone
  <1>7. \A j \in Ids : allowance[j] <= allowance[j]
    BY <1>1 DEF Runs
  <1>8. Covered(fired', table', allowance', orphans' \cap queue')
    <2>1. Covered(fired, table', allowance, orphans \cap queue)
      BY <1>1, <1>3, <1>7, CoveredMore DEF RInv
    <2> QED BY <1>0, <2>1
  <1>9. Covered(fired', file', allowance', {})
    <2>1. Covered(fired, file', allowance, {})
      BY <1>1, <1>4, <1>7, CoveredMore DEF RInv
    <2> QED BY <1>0, <2>1
  <1>10. NotFiredAgain
    BY <1>0 DEF NotFiredAgain
  <1> QED BY <1>5, <1>6, <1>8, <1>9, <1>10 DEF RInv

LEMMA Counted ==
    ASSUME used \in Counters, NEW what \in {"schedules", "duplicates", "resumes", "restarts"},
           NEW limit, Use(what, limit)
    PROVE  /\ used' \in Counters
           /\ what # "duplicates" => used'.duplicates = used.duplicates
           /\ what = "duplicates" => used'.duplicates # 0
  <1>1. /\ used' = [used EXCEPT ![what] = @ + 1]
        /\ \A w \in {"schedules", "duplicates", "resumes", "restarts"} : used[w] \in Nat
    BY DEF Use, Counters
  <1>2. used' \in Counters
    BY <1>1 DEF Counters
  <1>3. used'["duplicates"] = IF what = "duplicates" THEN used["duplicates"] + 1 ELSE used["duplicates"]
    BY <1>1 DEF Counters
  <1> QED BY <1>1, <1>2, <1>3

\* A resumed or scheduled record was not done: while nothing was refused or replaced, the
\* wakeups that are done are GONE.
LEMMA ResumeStep ==
    ASSUME RInv, NEW S \in SUBSET Ids, Resume(S)
    PROVE  RInv' /\ NotFiredAgain
  <1>0. /\ TypeOK /\ PassShape /\ DoneIsGone
        /\ \A i \in S : table[i].state = "PAUSED"
        /\ Use("resumes", MaxResumes)
        /\ table' = [i \in Ids |-> IF i \in S
                                   THEN [table[i] EXCEPT !.state = "WAITING", !.attempts = 0]
                                   ELSE table[i]]
        /\ (file' = table' /\ Arm /\ UNCHANGED writes) \/ (WriteFails /\ UNCHANGED <<file, armed>>)
        /\ allowance' = Granted(allowance, S)
        /\ UNCHANGED <<queue, orphans, current, stopped, fired, settled>>
    BY DEF RInv, Resume, pass, Granted
  <1>1. /\ table \in Table /\ file \in Table /\ fired \in Runs /\ allowance \in Runs
        /\ used \in Counters /\ settled \subseteq Ids /\ writes \in 0 .. MaxWriteFailures
        /\ queue \subseteq Ids /\ current \subseteq Ids /\ armed \in BOOLEAN
    BY <1>0, Typed
  <1>2. /\ used' \in Counters /\ used'.duplicates = used.duplicates
    BY <1>0, <1>1, Counted
  <1>3. ASSUME NEW i \in S
        PROVE  /\ table'[i] \in Row /\ Owed(table[i]) = 0
               /\ i \notin queue /\ i \notin current \ orphans
    <2> DEFINE row == [table[i] EXCEPT !.state = "WAITING", !.attempts = 0]
    <2>1. table[i] \in Row /\ table[i].state = "PAUSED"
      BY <1>0, <1>1 DEF Table
    <2>2. 0 \in 0 .. MaxAttempts
      BY Constants
    <2>3. row \in Row /\ table'[i] = row
      BY <1>0, <2>1, <2>2 DEF Row
    <2> QED BY <1>0, <2>1, <2>3 DEF Owed, PassShape
  <1>4. \A i \in Ids : i \notin S => table'[i] = table[i]
    BY <1>0
  <1>5. table' \in Table
    <2>1. \A i \in Ids : table'[i] \in Row
      BY <1>1, <1>3, <1>4 DEF Table
    <2> QED BY <1>0, <2>1 DEF Table
  <1>6. /\ allowance' \in Runs /\ \A j \in Ids : allowance[j] <= allowance'[j]
        /\ Covered(fired, table', allowance', orphans \cap queue)
        /\ Covered(fired, table', allowance', {})
    <2>1. /\ Covered(fired, table, allowance, orphans \cap queue)
          /\ \A i \in S : i \notin orphans \cap queue
          /\ \A i \in S \cap Ids : Owed(table[i]) = 0
      BY <1>3 DEF RInv
    <2>2. /\ Granted(allowance, S) \in Runs
          /\ \A j \in Ids : allowance[j] <= Granted(allowance, S)[j]
          /\ Covered(fired, table', Granted(allowance, S), orphans \cap queue)
      BY <1>1, <1>4, <1>5, <2>1, CoveredGrant
    <2>3. /\ allowance' \in Runs /\ \A j \in Ids : allowance[j] <= allowance'[j]
          /\ Covered(fired, table', allowance', orphans \cap queue)
      BY <1>0, <2>2
    <2>4. \A j \in Ids : Owed(table'[j]) <= Owed(table'[j])
      <3> TAKE j \in Ids
      <3>1. table'[j] \in Row
        BY <1>5 DEF Table
      <3>2. Owed(table'[j]) \in 0 .. MaxAttempts
        BY <3>1, OwedType
      <3> QED BY <3>2, Constants
    <2>5. Covered(fired, table', allowance', {})
      BY <1>1, <1>5, <2>3, <2>4, CoveredLess
    <2> QED BY <2>3, <2>5
  <1>7. Covered(fired, file, allowance', {})
    <2>1. Covered(fired, file, allowance, {})
      BY DEF RInv
    <2> QED BY <1>1, <1>6, <2>1, CoveredMore
  <1>8. /\ file' \in Table /\ writes' \in 0 .. MaxWriteFailures /\ armed' \in BOOLEAN
        /\ Covered(fired', file', allowance', {})
    <2>1. CASE file' = table' /\ Arm /\ UNCHANGED writes
      BY <1>0, <1>1, <1>5, <1>6, <2>1, ArmTyped
    <2>2. CASE WriteFails /\ UNCHANGED <<file, armed>>
      <3>1. writes' \in 0 .. MaxWriteFailures
        BY <1>1, <2>2, Constants DEF WriteFails
      <3> QED BY <1>0, <1>1, <1>7, <2>2, <3>1
    <2> QED BY <1>0, <2>1, <2>2
  <1>9. TypeOK'
    BY <1>0, <1>2, <1>5, <1>6, <1>8 DEF TypeOK, Table, Row, Runs, Counters
  <1>10. PassShape'
    <2>1. \A j \in queue' : table'[j].state = "WAITING"
      BY <1>0, <1>1, <1>3, <1>4 DEF PassShape
    <2>2. \A j \in current' \ orphans' : table'[j].state = "RUNNING"
      BY <1>0, <1>1, <1>3, <1>4 DEF PassShape
    <2> QED BY <1>0, <2>1, <2>2 DEF PassShape
  <1>11. DoneIsGone'
    <2> SUFFICES ASSUME used'.duplicates = 0, writes' = 0
                 PROVE  /\ orphans' = {}
                        /\ \A j \in settled' : table'[j].state = "GONE" /\ file'[j].state = "GONE"
      BY DEF DoneIsGone
    <2>1. file' = table' /\ writes = 0
      <3>1. WriteFails => writes' # 0
        BY <1>1, Constants DEF WriteFails
      <3> QED BY <1>0, <3>1
    <2>2. orphans = {} /\ \A j \in settled : table[j].state = "GONE"
      BY <1>0, <1>2, <2>1 DEF DoneIsGone
    <2>3. \A j \in settled : j \notin S
      BY <1>0, <2>2
    <2> QED BY <1>0, <1>1, <1>4, <2>1, <2>2, <2>3
  <1>12. Covered(fired', table', allowance', orphans' \cap queue')
    BY <1>0, <1>6
  <1>13. NotFiredAgain
    BY <1>0 DEF NotFiredAgain
  <1> QED BY <1>8, <1>9, <1>10, <1>11, <1>12, <1>13 DEF RInv

LEMMA RestartStep ==
    ASSUME RInv, Restart
    PROVE  RInv' /\ NotFiredAgain
  <1>0. /\ TypeOK /\ DoneIsGone
        /\ Use("restarts", MaxRestarts)
        /\ table' = [i \in Ids |-> IF file[i].state = "RUNNING"
                                   THEN [file[i] EXCEPT !.state = "WAITING"] ELSE file[i]]
        /\ queue' = {} /\ orphans' = {} /\ current' = {} /\ stopped' = FALSE
        /\ armed' \in BOOLEAN
        /\ UNCHANGED <<file, fired, allowance, settled, writes>>
    BY ArmTyped DEF RInv, Restart, PassEnds
  <1>1. /\ file \in Table /\ fired \in Runs /\ allowance \in Runs /\ used \in Counters
        /\ settled \subseteq Ids
    BY <1>0, Typed
  <1>2. used' \in Counters /\ used'.duplicates = used.duplicates
    BY <1>0, <1>1, Counted
  <1>3. ASSUME NEW i \in Ids
        PROVE  /\ table'[i] \in Row
               /\ Owed(table'[i]) = Owed(file[i])
               /\ file[i].state = "GONE" => table'[i].state = "GONE"
    <2>1. file[i] \in Row
      BY <1>1 DEF Table
    <2> DEFINE row == [file[i] EXCEPT !.state = "WAITING"]
    <2>2. row \in Row /\ row.state = "WAITING" /\ row.attempts = file[i].attempts
      BY <2>1 DEF Row
    <2> HIDE DEF row
    <2>3. table'[i] = IF file[i].state = "RUNNING" THEN row ELSE file[i]
      BY <1>0 DEF row
    <2>4. file[i].state = "RUNNING" => Owed(row) = Owed(file[i])
      BY <2>2 DEF Owed
    <2> QED BY <2>1, <2>2, <2>3, <2>4
  <1>4. table' \in Table
    BY <1>0, <1>3 DEF Table
  <1>5. TypeOK'
    BY <1>0, <1>2, <1>4 DEF TypeOK, Table, Row, Runs, Counters
  <1>6. PassShape'
    BY <1>0 DEF PassShape
  <1>7. DoneIsGone'
    BY <1>0, <1>1, <1>2, <1>3 DEF DoneIsGone
  <1>8. Covered(fired, table', allowance, {})
    <2>1. \A j \in Ids : allowance[j] <= allowance[j]
      BY <1>1 DEF Runs
    <2>2. Covered(fired, file, allowance, {})
      BY DEF RInv
    <2> QED BY <1>1, <1>3, <1>4, <2>1, <2>2, CoveredMore
  <1>9. orphans' \cap queue' = {}
    BY <1>0
  <1>10. Covered(fired', table', allowance', orphans' \cap queue') /\ Covered(fired', file', allowance', {})
    BY <1>0, <1>8, <1>9 DEF RInv
  <1>11. NotFiredAgain
    BY <1>0 DEF NotFiredAgain
  <1> QED BY <1>5, <1>6, <1>7, <1>10, <1>11 DEF RInv

LEMMA ScheduleStep ==
    ASSUME RInv, NEW i \in Ids, NEW due \in BOOLEAN, Schedule(i, due)
    PROVE  RInv' /\ NotFiredAgain
  <1> DEFINE new == Replaced(i, due)
             left == orphans \cup ({i} \cap queue)
  <1>0. /\ TypeOK /\ PassShape /\ DoneIsGone
        /\ \/ /\ table[i].state = "GONE"
              /\ Use("schedules", MaxSchedules)
              /\ allowance' = [allowance EXCEPT ![i] = @ + MaxAttempts]
           \/ /\ table[i].state = "WAITING"
              /\ Use("duplicates", MaxDuplicates)
              /\ allowance' = [allowance EXCEPT ![i] = IF i \in queue THEN @ + 1 ELSE @]
        /\ settled' = settled \ {i}
        /\ \/ ~Active /\ Loop(new, Due(new), {})
           \/ /\ table' = new /\ file' = new /\ orphans' = left
              /\ UNCHANGED <<queue, current, stopped, fired, writes>>
              /\ Arm
           \/ /\ WriteFails
              /\ table' = new /\ orphans' = left
              /\ UNCHANGED <<file, queue, current, stopped, armed, fired>>
    BY DEF RInv, Schedule
  <1>1. /\ table \in Table /\ file \in Table /\ fired \in Runs /\ allowance \in Runs
        /\ used \in Counters /\ settled \subseteq Ids /\ writes \in 0 .. MaxWriteFailures
        /\ queue \subseteq Ids /\ current \subseteq Ids /\ orphans \subseteq queue \cup current
        /\ stopped \in BOOLEAN /\ armed \in BOOLEAN
    BY <1>0, Typed
  <1>2. /\ new \in Table
        /\ new[i].state = "WAITING" /\ new[i].attempts = table[i].attempts
        /\ \A j \in Ids : j # i => new[j] = table[j]
    <2> DEFINE row == [state |-> "WAITING", due |-> due \/ table[i].due, attempts |-> table[i].attempts]
    <2>1. table[i] \in Row
      BY <1>1 DEF Table
    <2>2. (due \/ table[i].due) \in BOOLEAN /\ table[i].attempts \in 0 .. MaxAttempts
      BY <2>1 DEF Row
    <2>3. row \in Row /\ row.state = "WAITING" /\ row.attempts = table[i].attempts
      BY <2>2 DEF Row
    <2>4. new = [table EXCEPT ![i] = row]
      BY DEF Replaced
    <2> HIDE DEF row, new
    <2> QED BY <1>1, <2>3, <2>4 DEF Table
  <1> HIDE DEF new
  <1>3. table[i] \in Row /\ i \notin current \ orphans
    BY <1>0, <1>1 DEF PassShape, Table
  <1>4. allowance' \in Runs /\ \A j \in Ids : allowance[j] <= allowance'[j]
    BY <1>0, <1>1, Constants DEF Runs
  <1>5. used' \in Counters /\ (table[i].state = "WAITING" => used'.duplicates # 0)
        /\ (table[i].state = "GONE" => used'.duplicates = used.duplicates)
    BY <1>0, <1>1, Counted
  <1>6. table[i].state = "GONE" => i \notin queue
    BY <1>0 DEF PassShape
  <1>7. Covered(fired, table, allowance, orphans \cap queue) /\ Covered(fired, file, allowance, {})
    BY DEF RInv
  <1>8. Covered(fired, new, allowance', left \cap queue)
    <2>1. CASE table[i].state = "GONE"
      <3>1. Owed(table[i]) = 0 /\ left \cap queue = orphans \cap queue /\ i \notin orphans \cap queue
        BY <1>6, <2>1 DEF Owed
      <3>2. allowance' = Granted(allowance, {i})
        BY <1>0, <1>1, <2>1 DEF Granted, Runs
      <3> HIDE DEF left
      <3>3. Covered(fired, new, Granted(allowance, {i}), orphans \cap queue)
        BY <1>1, <1>2, <1>7, <3>1, CoveredGrant
      <3> QED BY <3>1, <3>2, <3>3
    <2>2. CASE table[i].state = "WAITING"
      <3>1. allowance' = [allowance EXCEPT ![i] = IF i \in queue THEN @ + 1 ELSE @]
        BY <1>0, <2>2
      <3>2. \A j \in Ids : Owed(new[j]) = Owed(table[j])
        BY <1>2, <2>2 DEF Owed
      <3>3. \A j \in Ids : j \in left \cap queue /\ j \notin orphans \cap queue => j = i /\ i \in queue
        OBVIOUS
      <3>4. i \in queue => allowance[i] + 1 <= allowance'[i]
        BY <1>1, <3>1 DEF Runs
      <3>5. \A j \in Ids : j \in left \cap queue /\ j \notin orphans \cap queue
                            => allowance[j] + 1 <= allowance'[j]
        BY <3>3, <3>4
      <3> HIDE DEF left
      <3> QED BY <1>1, <1>2, <1>4, <1>7, <3>2, <3>5, CoveredMore
    <2> QED BY <1>0, <2>1, <2>2
  <1>9. Covered(fired, new, allowance', {})
    <2>1. \A j \in Ids : Owed(new[j]) <= Owed(new[j])
      <3> TAKE j \in Ids
      <3>1. new[j] \in Row
        BY <1>2 DEF Table
      <3>2. Owed(new[j]) \in 0 .. MaxAttempts
        BY <3>1, OwedType
      <3> QED BY <3>2, Constants
    <2>2. {} \subseteq left \cap queue
      OBVIOUS
    <2> HIDE DEF left
    <2> QED BY <1>1, <1>2, <1>4, <1>8, <2>1, <2>2, CoveredLess
  <1>10. Covered(fired, file, allowance', {})
    BY <1>1, <1>4, <1>7, CoveredMore
  <1>11. settled' \subseteq Ids /\ i \notin settled' /\ settled' \subseteq settled
    BY <1>0, <1>1
  <1>12. ASSUME used.duplicates = 0, writes = 0
         PROVE  orphans = {} /\ \A j \in settled' : new[j].state = "GONE"
    BY <1>0, <1>1, <1>2, <1>11, <1>12 DEF DoneIsGone
  <1>13. used'.duplicates = 0 => used.duplicates = 0 /\ table[i].state = "GONE"
    BY <1>0, <1>5
  <1>14. CASE ~Active /\ Loop(new, Due(new), {})
    <2>1. Due(new) \in SUBSET Ids /\ \A j \in Due(new) : new[j].state = "WAITING"
      BY DEF Due
    <2>2. used'.duplicates = 0 /\ writes = 0 => {} = {} /\ used.duplicates = 0
      BY <1>13
    <2>3. used.duplicates = 0 /\ writes = 0 => \A j \in settled' : new[j].state = "GONE"
      BY <1>12
    <2> QED BY <1>0, <1>2, <1>4, <1>5, <1>9, <1>11, <1>14, <2>1, <2>2, <2>3, LoopStep
  <1>15. ASSUME table' = new, orphans' = left, UNCHANGED <<queue, current, stopped, fired>>,
                armed' \in BOOLEAN, writes' \in 0 .. MaxWriteFailures,
                (file' = new /\ writes' = writes) \/ (file' = file /\ writes' # 0)
         PROVE  RInv' /\ NotFiredAgain
    <2>1. file' \in Table /\ Covered(fired', file', allowance', {})
      BY <1>1, <1>2, <1>9, <1>10, <1>15
    <2>2. left \subseteq queue \cup current
      BY <1>1
    <2>3. TypeOK'
      BY <1>0, <1>1, <1>2, <1>4, <1>5, <1>11, <1>15, <2>1, <2>2 DEF TypeOK, Table, Row, Runs, Counters
    <2>4. PassShape'
      <3>1. \A j \in queue' : table'[j].state = "WAITING"
        BY <1>0, <1>1, <1>2, <1>15 DEF PassShape
      <3>2. \A j \in current' \ orphans' : table'[j].state = "RUNNING"
        <4> TAKE j \in current' \ orphans'
        <4>1. j \in current \ orphans /\ j \in Ids
          BY <1>1, <1>15
        <4> QED BY <1>0, <1>2, <1>3, <1>15, <4>1 DEF PassShape
      <3> QED BY <1>0, <1>15, <3>1, <3>2 DEF PassShape
    <2>5. Covered(fired', table', allowance', orphans' \cap queue')
      BY <1>8, <1>15
    <2>6. DoneIsGone'
      <3> SUFFICES ASSUME used'.duplicates = 0, writes' = 0
                   PROVE  /\ orphans' = {}
                          /\ \A j \in settled' : table'[j].state = "GONE" /\ file'[j].state = "GONE"
        BY DEF DoneIsGone
      <3>1. writes = 0 /\ file' = new
        BY <1>15
      <3>2. orphans = {} /\ \A j \in settled' : new[j].state = "GONE"
        BY <1>12, <1>13, <3>1
      <3>3. left = {}
        BY <1>6, <1>13, <3>2
      <3> QED BY <1>15, <3>1, <3>2, <3>3
    <2>7. NotFiredAgain
      BY <1>15 DEF NotFiredAgain
    <2> QED BY <2>1, <2>3, <2>4, <2>5, <2>6, <2>7 DEF RInv
  <1>16. CASE /\ table' = new /\ file' = new /\ orphans' = left
              /\ UNCHANGED <<queue, current, stopped, fired, writes>>
              /\ Arm
    BY <1>1, <1>15, <1>16, ArmTyped
  <1>17. CASE /\ WriteFails
              /\ table' = new /\ orphans' = left
              /\ UNCHANGED <<file, queue, current, stopped, armed, fired>>
    <2>1. writes' \in 0 .. MaxWriteFailures /\ writes' # 0
      BY <1>1, <1>17, Constants DEF WriteFails
    <2> QED BY <1>1, <1>15, <1>17, <2>1
  <1> QED BY <1>0, <1>14, <1>16, <1>17

(***************************************************************************)
(* The theorems about the scheduler                                        *)
(***************************************************************************)

LEMMA InitInv == Init => RInv
  <1> SUFFICES ASSUME Init PROVE RInv
    OBVIOUS
  <1>1. /\ table = [i \in Ids |-> Gone] /\ file = table
        /\ queue = {} /\ orphans = {} /\ current = {} /\ stopped = FALSE /\ armed = FALSE
        /\ fired = [i \in Ids |-> 0] /\ allowance = fired /\ settled = {} /\ writes = 0
        /\ used = [schedules |-> 0, duplicates |-> 0, resumes |-> 0, restarts |-> 0]
    BY DEF Init
  <1>2. table \in Table /\ \A i \in Ids : Owed(table[i]) = 0
    BY <1>1, GoneRow DEF Table
  <1>3. used \in Counters
    BY <1>1 DEF Counters
  <1>4. fired \in Runs /\ \A i \in Ids : fired[i] = 0
    BY <1>1 DEF Runs
  <1>5. TypeOK
    <2>1. table \in Table /\ file \in Table /\ fired \in Runs /\ allowance \in Runs
      BY <1>1, <1>2, <1>4
    <2>2. orphans \subseteq queue \cup current /\ queue \cup current \subseteq Ids /\ settled \subseteq Ids
      BY <1>1
    <2>3. stopped \in BOOLEAN /\ armed \in BOOLEAN /\ writes \in 0 .. MaxWriteFailures
      <3>1. stopped = FALSE /\ armed = FALSE /\ writes = 0
        BY <1>1
      <3>2. 0 \in 0 .. MaxWriteFailures
        BY Constants
      <3> QED BY <3>1, <3>2
    <2> QED BY <1>3, <2>1, <2>2, <2>3 DEF TypeOK, Table, Row, Runs, Counters
  <1>6. PassShape /\ DoneIsGone
    BY <1>1 DEF PassShape, DoneIsGone
  <1>7. Covered(fired, table, allowance, {})
    <2> SUFFICES ASSUME NEW i \in Ids
                 PROVE  fired[i] + Owed(table[i]) + (IF i \in {} THEN 1 ELSE 0) <= allowance[i]
      BY DEF Covered
    <2>1. fired[i] = 0 /\ Owed(table[i]) = 0 /\ allowance[i] = 0
      BY <1>1, <1>2, <1>4
    <2> QED BY <2>1
  <1>8. orphans \cap queue = {}
    BY <1>1
  <1> QED BY <1>1, <1>5, <1>6, <1>7, <1>8 DEF RInv

LEMMA StepInv ==
    ASSUME RInv, Next
    PROVE  RInv' /\ NotFiredAgain
  BY TimerStep, TimePassesStep, ResumeStep, ScheduleStep, SettleStep, RestartStep DEF Next, Settles

\* The inductive invariant behind the theorems below.
THEOREM Invariant == Spec => []RInv
  <1>1. RInv /\ UNCHANGED vars => RInv'
    BY DEF vars, pass, RInv, TypeOK, PassShape, DoneIsGone, Covered
  <1>2. RInv /\ [Next]_vars => RInv'
    BY <1>1, StepInv
  <1> QED BY InitInv, <1>2, PTL DEF Spec

\* Both copies of the map, the pass and the counters keep their shape.
THEOREM TypeCorrect == Spec => []TypeOK
  <1>1. RInv => TypeOK
    BY DEF RInv
  <1> QED BY Invariant, <1>1, PTL

\* A wakeup whose handler keeps failing pauses at the ceiling (recovery-scheduler.ts:57),
\* whatever restarts, duplicates, resumes and refused writes come between its attempts.
THEOREM Bounded == Spec => []RunsBounded
  <1>1. RInv => RunsBounded
    <2> SUFFICES ASSUME RInv, NEW i \in Ids PROVE fired[i] <= allowance[i]
      BY DEF RunsBounded
    <2>1. fired[i] + Owed(file[i]) + (IF i \in {} THEN 1 ELSE 0) <= allowance[i]
      BY DEF RInv, Covered
    <2>2. /\ fired[i] \in Nat /\ allowance[i] \in Nat /\ file[i] \in Row
      BY Typed DEF RInv, Runs, Table
    <2>3. Owed(file[i]) \in Nat
      <3>1. Owed(file[i]) \in 0 .. MaxAttempts
        BY <2>2, OwedType
      <3> QED BY <3>1, Constants
    <2> QED BY <2>1, <2>2, <2>3
  <1> QED BY Invariant, <1>1, PTL

\* A wakeup that reported done does not fire again unless it is scheduled again, also after a
\* restart (recovery-scheduler.ts:63-65), as long as no record was replaced while it waited
\* and no write was refused.
THEOREM Once == Spec => FiresOnce
  <1>1. RInv /\ [Next]_vars =>
          [used.duplicates = 0 /\ writes = 0 =>
              \A i \in settled \cap settled' : fired'[i] = fired[i]]_vars
    BY StepInv DEF NotFiredAgain
  <1> QED BY Invariant, <1>1, PTL DEF Spec, FiresOnce

(***************************************************************************)
(* The retry loop: what a call of its supervisor does to a job             *)
(***************************************************************************)

\* The job waits for a deadline.
Waits(j) == ledger.jobs[j].state = "WAITING" /\ ledger.jobs[j].retryAt # "none"

\* A call in flight is alone with its job, which is RUNNING while the dispatch is awaited;
\* neither it nor one that sleeps before the same candidate has a deadline.
Working ==
    \A c \in AllCalls : call[c].pc # "idle" =>
        /\ ledger.jobs[call[c].job].state = IF call[c].pc = "awaiting" THEN "RUNNING" ELSE "WAITING"
        /\ ledger.jobs[call[c].job].retryAt = "none"

\* A job that may not be replayed is never given a deadline.
Undated == \A j \in Jobs \ ReplaySafe : ledger.jobs[j].retryAt = "none"

SupervisorInv == ES!TypeOK /\ ES!SingleFlight /\ Working /\ Undated

\* Call c does not share job j with another one.
Owns(c, j) == \A d \in AllCalls \ {c} : call[d].pc # "idle" => call[d].job # j

\* The step leaves row `row` of job j and makes call c into `new`.
Moves(c, j, row, new) ==
    /\ row \in ES!JobType /\ new \in ES!CallType
    /\ ledger' \in ES!LedgerType /\ ledger'.jobs = [ledger.jobs EXCEPT ![j] = row]
    /\ call' = [call EXCEPT ![c] = new]
    /\ new.pc # "idle" =>
         /\ new.job = j
         /\ row.state = IF new.pc = "awaiting" THEN "RUNNING" ELSE "WAITING"
         /\ row.retryAt = "none"
    /\ j \notin ReplaySafe => row.retryAt = "none"
    /\ launches' \in [Jobs -> Nat] /\ held' \subseteq Jobs /\ erased' \in [Jobs -> Nat]
    /\ UNCHANGED crashes

LEMMA LoopConstants ==
    /\ Jobs # {} /\ NRuntimes \in Nat /\ MaxAttempts \in Nat
    /\ MaxRestarts \in Nat /\ ReplaySafe \subseteq Jobs
  BY LoopAssumption, SchedulerAssumption

LEMMA SupervisorTyped ==
    ASSUME ES!TypeOK
    PROVE  /\ ledger \in ES!LedgerType /\ ledger.jobs \in [Jobs -> ES!JobType]
           /\ call \in [AllCalls -> ES!CallType] /\ launches \in [Jobs -> Nat] /\ held \subseteq Jobs
           /\ erased \in [Jobs -> Nat]
           /\ \A c \in AllCalls : call[c].job \in Jobs
  BY DEF ES!TypeOK, ES!LedgerType, ES!CallType

LEMMA HoldingTyped ==
    ASSUME ES!TypeOK, NEW parked \in SUBSET Jobs, ES!Holding(parked)
    PROVE  held' \subseteq Jobs /\ erased' \in [Jobs -> Nat]
  <1>0. held \subseteq Jobs /\ erased \in [Jobs -> Nat]
    BY SupervisorTyped
  <1>1. \A j \in Jobs : (IF j \in held THEN erased[j] + 1 ELSE erased[j]) \in Nat
    BY <1>0
  <1> QED BY <1>0, <1>1 DEF ES!Holding

LEMMA NoCallType == ES!NoCall \in ES!CallType /\ ES!NoCall.pc = "idle"
  BY LoopConstants DEF ES!NoCall, ES!CallType

\* A step of a call on the job it owns keeps the invariant.
LEMMA MovesKeep ==
    ASSUME SupervisorInv, NEW c \in AllCalls, NEW j \in Jobs, NEW row, NEW new,
           Owns(c, j), Moves(c, j, row, new)
    PROVE  SupervisorInv'
  <1>0. /\ ledger \in ES!LedgerType /\ ledger.jobs \in [Jobs -> ES!JobType]
        /\ call \in [AllCalls -> ES!CallType] /\ \A d \in AllCalls : call[d].job \in Jobs
    BY SupervisorTyped DEF SupervisorInv
  <1>1. /\ ledger'.jobs[j] = row /\ \A i \in Jobs \ {j} : ledger'.jobs[i] = ledger.jobs[i]
        /\ call'[c] = new /\ \A d \in AllCalls \ {c} : call'[d] = call[d]
        /\ call' \in [AllCalls -> ES!CallType]
    BY <1>0 DEF Moves
  <1>2. ES!TypeOK'
    BY <1>1 DEF SupervisorInv, ES!TypeOK, Moves
  <1>3. ES!SingleFlight'
    BY <1>1 DEF SupervisorInv, ES!SingleFlight, Moves, Owns
  <1>4. ASSUME NEW d \in AllCalls, call'[d].pc # "idle"
        PROVE  /\ ledger'.jobs[call'[d].job].state =
                      IF call'[d].pc = "awaiting" THEN "RUNNING" ELSE "WAITING"
               /\ ledger'.jobs[call'[d].job].retryAt = "none"
    <2>1. CASE d = c
      BY <1>1, <1>4, <2>1 DEF Moves
    <2>2. CASE d # c
      <3>1. call'[d] = call[d] /\ call[d].job \in Jobs \ {j}
        BY <1>0, <1>1, <1>4, <2>2 DEF Owns
      <3> QED BY <1>1, <1>4, <3>1 DEF SupervisorInv, Working
    <2> QED BY <2>1, <2>2
  <1>5. Undated'
    BY <1>1 DEF SupervisorInv, Undated, Moves
  <1> QED BY <1>2, <1>3, <1>4, <1>5 DEF SupervisorInv, Working

\* What starting a job writes.
StartRow(L, j) == [state |-> "RUNNING", attempts |-> L.jobs[j].attempts + 1, retryAt |-> "none"]

LEMMA StartedRow ==
    ASSUME NEW L \in ES!LedgerType, NEW j \in Jobs, NEW usesModel \in {0, 1}, ~ES!Exhausted(L, j)
    PROVE  /\ StartRow(L, j) \in ES!JobType
           /\ ES!Started(L, j, usesModel) \in ES!LedgerType
           /\ ES!Started(L, j, usesModel).jobs = [L.jobs EXCEPT ![j] = StartRow(L, j)]
  <1> DEFINE S   == ES!Started(L, j, usesModel)
             row == StartRow(L, j)
  <1>1. L.jobs \in [Jobs -> ES!JobType] /\ L.modelCalls \in Nat /\ L.retries \in Nat
    BY DEF ES!LedgerType
  <1>2. L.jobs[j].attempts \in 0 .. MaxAttempts /\ ~(L.jobs[j].attempts >= MaxAttempts)
    BY <1>1 DEF ES!JobType, ES!Exhausted
  <1>3. row \in ES!JobType
    BY <1>2, LoopConstants DEF ES!JobType, StartRow
  <1>4. S.jobs = [L.jobs EXCEPT ![j] = row]
    BY DEF ES!Started, ES!LedgerType, StartRow
  <1>5. /\ S.modelCalls = L.modelCalls + usesModel
        /\ S.retries = (IF L.jobs[j].attempts = 0 THEN L.retries ELSE L.retries + 1)
        /\ S.nextAction = "WAIT_FOR_RESPONSE" /\ S.mode = L.mode /\ S.provider = L.provider
    BY DEF ES!Started, ES!LedgerType
  <1>6. S.modelCalls \in Nat /\ S.retries \in Nat /\ S.jobs \in [Jobs -> ES!JobType]
    BY <1>1, <1>3, <1>4, <1>5
  <1>7. S \in ES!LedgerType
    BY <1>5, <1>6 DEF ES!Started, ES!LedgerType
  <1> QED BY <1>3, <1>4, <1>7

\* The head of the candidate loop leaves the job as the checkpoint it is given has it and ends
\* the call, or starts the job.
LEMMA HeadMoves ==
    ASSUME ES!TypeOK, NEW c \in AllCalls, NEW j \in Jobs, NEW old \in ES!JobType,
           NEW index \in 0 .. NRuntimes, NEW n \in 0 .. NRuntimes, NEW L \in ES!LedgerType,
           L.jobs = [ledger.jobs EXCEPT ![j] = old], j \notin ReplaySafe => old.retryAt = "none",
           held' \subseteq Jobs, erased' \in [Jobs -> Nat], UNCHANGED crashes,
           ES!TryCandidates(c, j, index, n, L)
    PROVE  \E row, new : /\ Moves(c, j, row, new)
                         /\ \/ row = old /\ new = ES!NoCall
                            \/ row.state = "RUNNING" /\ new.pc = "awaiting"
  <1>0. /\ ledger.jobs \in [Jobs -> ES!JobType] /\ call \in [AllCalls -> ES!CallType]
        /\ launches \in [Jobs -> Nat]
    BY SupervisorTyped
  <1>1. CASE ES!Return(c) /\ UNCHANGED launches /\ ledger' \in ES!LedgerType /\ ledger'.jobs = L.jobs
    <2>1. Moves(c, j, old, ES!NoCall)
      BY <1>0, <1>1, NoCallType DEF Moves, ES!Return
    <2> QED BY <2>1
  <1>2. ASSUME NEW k \in index .. n, NEW usesModel \in {0, 1}, ~ES!Exhausted(L, j),
               ledger' = ES!Started(L, j, usesModel),
               call' = [call EXCEPT ![c] = [pc |-> "awaiting", job |-> j, index |-> k,
                                            n |-> n, before |-> L.jobs[j].attempts]],
               launches' = [launches EXCEPT ![j] = @ + 1]
        PROVE  \E row, new : Moves(c, j, row, new) /\ row.state = "RUNNING" /\ new.pc = "awaiting"
    <2> DEFINE row == StartRow(L, j)
               new == [pc |-> "awaiting", job |-> j, index |-> k, n |-> n,
                       before |-> L.jobs[j].attempts]
    <2>1. /\ row \in ES!JobType /\ ledger' \in ES!LedgerType
          /\ ledger'.jobs = [L.jobs EXCEPT ![j] = row]
      <3>1. /\ StartRow(L, j) \in ES!JobType
            /\ ES!Started(L, j, usesModel) \in ES!LedgerType
            /\ ES!Started(L, j, usesModel).jobs = [L.jobs EXCEPT ![j] = StartRow(L, j)]
        BY <1>2, StartedRow
      <3> QED BY <1>2, <3>1
    <2>2. L.jobs[j].attempts \in 0 .. MaxAttempts
      BY DEF ES!LedgerType, ES!JobType
    <2>3. new \in ES!CallType
      <3>1. k \in 0 .. NRuntimes
        BY <1>2, LoopConstants
      <3> QED BY <2>2, <3>1 DEF ES!CallType
    <2>4. ledger'.jobs = [ledger.jobs EXCEPT ![j] = row]
      BY <1>0, <2>1
    <2>5. launches' \in [Jobs -> Nat]
      BY <1>0, <1>2
    <2>6. row.state = "RUNNING" /\ row.retryAt = "none" /\ new.pc = "awaiting" /\ new.job = j
      BY DEF StartRow
    <2>7. call' = [call EXCEPT ![c] = new]
      BY <1>2
    <2> HIDE DEF row, new
    <2>8. Moves(c, j, row, new)
      BY <2>1, <2>3, <2>4, <2>5, <2>6, <2>7 DEF Moves
    <2> QED BY <2>6, <2>8
  <1>3. /\ [L EXCEPT !.mode = "DETERMINISTIC", !.nextAction = "DEFER_OR_NATIVE_TOOL"] \in ES!LedgerType
        /\ [L EXCEPT !.mode = "DETERMINISTIC", !.nextAction = "DEFER_OR_NATIVE_TOOL"].jobs = L.jobs
    BY DEF ES!LedgerType
  <1> QED BY <1>1, <1>2, <1>3 DEF ES!TryCandidates

(***************************************************************************)
(* Which steps of the scheduler take a wakeup out of recovery.json         *)
(***************************************************************************)

\* A wakeup that map T holds is in recovery.json F too, except for those of S.
Follows(F, T, S) == \A i \in Ids \ S : T[i].state # "GONE" => F[i].state # "GONE"

\* The step removes no wakeup but those of S.
Keeps(S) == \A i \in Ids \ S : table[i].state # "GONE" => table'[i].state # "GONE"

\* The loop pauses and starts wakeups; it removes none.
LEMMA LoopKeeps ==
    ASSUME NEW T \in Table, NEW Q \in SUBSET Ids, NEW O,
           \A i \in Q : T[i].state = "WAITING", Loop(T, Q, O)
    PROVE  Follows(file', table', {}) /\ \A i \in Ids : T[i].state # "GONE" => table'[i].state # "GONE"
  <1>1. PICK over \in SUBSET {i \in Q : T[i].attempts >= MaxAttempts} :
          \/ table' = Exhausted(T, O, over) /\ file' = Exhausted(T, O, over)
          \/ \E i \in Q \ over : /\ table' = Reached(Exhausted(T, O, over), i, O)
                                 /\ file' = table' \/ file' = Exhausted(T, O, over)
    BY DEF Loop, Exhausted
  <1> DEFINE P == Exhausted(T, O, over)
  <1>2. P \in Table /\ \A i \in Ids : i \notin over => P[i] = T[i]
    BY ExhaustedTable
  <1>3. over \subseteq Ids /\ \A i \in over : P[i] = Reached(T, i, O)[i] /\ T[i].attempts >= MaxAttempts
    BY DEF Exhausted
  <1>4. \/ table' = P /\ file' = P
        \/ \E i \in Q \ over : table' = Reached(P, i, O) /\ (file' = table' \/ file' = P)
    BY <1>1
  <1> HIDE DEF P
  <1>5. ASSUME NEW i \in Ids, NEW U \in Table, U[i].state # "GONE"
        PROVE  Reached(U, i, O)[i].state # "GONE"
    <2>1. U[i] \in Row /\ PausedRow(U[i]).state # "GONE"
      BY <1>5, PausedIsRow DEF Table
    <2>2. RunningRow(U[i]).state # "GONE"
      BY <2>1 DEF RunningRow, Row
    <2>3. U[i].attempts >= MaxAttempts \/ U[i].attempts < MaxAttempts
      BY <2>1, Constants DEF Row
    <2> QED BY <1>5, <2>1, <2>2, <2>3, ReachedRow DEF Table
  <1>6. \A i \in Ids : T[i].state # "GONE" => P[i].state # "GONE"
    BY <1>2, <1>3, <1>5
  <1>7. ASSUME NEW i \in Q \ over
        PROVE  \A k \in Ids : /\ T[k].state # "GONE" => Reached(P, i, O)[k].state # "GONE"
                              /\ Reached(P, i, O)[k].state # "GONE" => P[k].state # "GONE"
    <2>1. \A k \in Ids : k # i => Reached(P, i, O)[k] = P[k]
      BY <1>2 DEF Reached, Table
    <2>2. i \in Ids /\ P[i].state # "GONE"
      BY <1>2, <1>7
    <2>3. Reached(P, i, O)[i].state # "GONE"
      BY <1>2, <1>5, <2>2
    <2> QED BY <1>6, <2>1, <2>2, <2>3
  <1> QED BY <1>4, <1>6, <1>7 DEF Follows

LEMMA TimerKeeps ==
    ASSUME RInv, TimerFires
    PROVE  Follows(file', table', {}) /\ Keeps({})
  <1>1. Due(table) \subseteq Ids /\ \A i \in Due(table) : table[i].state = "WAITING"
    BY DEF Due
  <1>2. table \in Table
    BY Typed DEF RInv
  <1> QED BY <1>1, <1>2, LoopKeeps DEF TimerFires, Keeps

LEMMA TimePassesKeeps ==
    ASSUME RInv, NEW S, Follows(file, table, S), NEW i \in Ids, TimePasses(i)
    PROVE  Follows(file', table', S) /\ Keeps({})
  <1>1. table \in Table /\ file \in Table
    BY Typed DEF RInv
  <1>2. \A k \in Ids : table'[k].state = table[k].state /\ file'[k].state = file[k].state
    BY <1>1 DEF TimePasses, Table, Row
  <1> QED BY <1>2 DEF Follows, Keeps

LEMMA ResumeKeeps ==
    ASSUME RInv, NEW S, Follows(file, table, S), NEW R \in SUBSET Ids, Resume(R)
    PROVE  Follows(file', table', S) /\ Keeps({})
  <1>1. table \in Table
    BY Typed DEF RInv
  <1>2. /\ \A i \in R : table[i].state = "PAUSED"
        /\ file' \in {table', file}
    BY DEF Resume
  <1>3. ASSUME NEW i \in Ids
        PROVE  IF i \in R THEN table'[i].state = "WAITING" ELSE table'[i] = table[i]
    <2>1. table[i] \in Row
      BY <1>1 DEF Table
    <2>2. [table[i] EXCEPT !.state = "WAITING", !.attempts = 0].state = "WAITING"
      BY <2>1 DEF Row
    <2> QED BY <2>2 DEF Resume
  <1>4. \A i \in R : i \in Ids /\ table[i].state # "GONE" /\ table'[i].state # "GONE"
    BY <1>2, <1>3
  <1> QED BY <1>2, <1>3, <1>4 DEF Follows, Keeps

\* A restart takes up what recovery.json holds.
LEMMA RestartKeeps ==
    ASSUME RInv, NEW S, Follows(file, table, S), Restart
    PROVE  Follows(file', table', {}) /\ Keeps(S) /\ current' = {}
  <1>1. file \in Table
    BY Typed DEF RInv
  <1>2. ASSUME NEW i \in Ids
        PROVE  table'[i].state = "GONE" <=> file[i].state = "GONE"
    <2>1. file[i] \in Row
      BY <1>1 DEF Table
    <2>2. [file[i] EXCEPT !.state = "WAITING"].state = "WAITING"
      BY <2>1 DEF Row
    <2>3. table'[i] = IF file[i].state = "RUNNING" THEN [file[i] EXCEPT !.state = "WAITING"] ELSE file[i]
      BY DEF Restart
    <2> QED BY <2>2, <2>3
  <1>3. file' = file /\ current' = {}
    BY DEF Restart, PassEnds
  <1> QED BY <1>2, <1>3 DEF Follows, Keeps

\* A schedule() without a deadline that has passed leaves the pass alone; when its write is
\* refused, recovery.json may lack the wakeup.
LEMMA ScheduleKeeps ==
    ASSUME RInv, NEW S, Follows(file, table, S), NEW i \in Ids, Schedule(i, FALSE)
    PROVE  /\ Follows(file', table', IF writes' # writes /\ file[i].state = "GONE" THEN S \cup {i} ELSE S)
           /\ Keeps({}) /\ table'[i].state # "GONE" /\ UNCHANGED current
  <1>1. table \in Table /\ writes \in Nat
    BY Typed, Constants DEF RInv
  <1>2. /\ table' = Replaced(i, FALSE) /\ UNCHANGED current
        /\ file' = table' \/ (file' = file /\ writes' # writes)
    <2>1. WriteFails => writes' # writes
      BY <1>1, SMT DEF WriteFails
    <2>2. \/ /\ table' = Replaced(i, FALSE) /\ file' = Replaced(i, FALSE) /\ UNCHANGED current
          \/ /\ WriteFails
             /\ table' = Replaced(i, FALSE) /\ UNCHANGED <<file, current>>
      BY Zenon DEF Schedule
    <2> QED BY <2>1, <2>2
  <1>3. table'[i].state = "WAITING" /\ \A k \in Ids : k # i => table'[k] = table[k]
    BY <1>1, <1>2 DEF Replaced, Table
  <1> QED BY <1>2, <1>3 DEF Follows, Keeps

\* Only a handler that reports done takes its wakeup out.
LEMMA SettleKeeps ==
    ASSUME RInv, NEW S, Follows(file, table, S), NEW result, NEW due \in BOOLEAN, Settle(result, due)
    PROVE  Follows(file', table', S) /\ Keeps(IF result = "done" THEN current ELSE {})
  <1>1. /\ PassShape /\ table \in Table /\ current \subseteq Ids /\ queue \subseteq Ids
    BY Typed DEF RInv
  <1>2. PICK i \in current :
          \/ Loop(table, queue, orphans \ {i})
          \/ i \notin orphans /\ Loop([table EXCEPT ![i] = Answered(i, result, due)], queue, orphans)
          \/ /\ i \notin orphans /\ file' = file
             /\ table' = [table EXCEPT ![i] = Answered(i, result, due)]
    BY DEF Settle
  <1>3. i \in Ids /\ table[i] \in Row
    BY <1>1 DEF Table
  <1>4. CASE Loop(table, queue, orphans \ {i})
    <2>1. \A k \in queue : table[k].state = "WAITING"
      BY <1>1 DEF PassShape
    <2> QED BY <1>1, <1>4, <2>1, LoopKeeps DEF Follows, Keeps
  <1> DEFINE a == Answered(i, result, due)
             T == [table EXCEPT ![i] = a]
  <1>5. a \in Row /\ (result # "done" => a.state # "GONE")
    BY <1>3, GoneRow DEF Answered, Row
  <1>6. CASE i \notin orphans /\ Loop(T, queue, orphans)
    <2> HIDE DEF a
    <2>1. T \in Table /\ T[i] = a /\ \A k \in Ids : k # i => T[k] = table[k]
      BY <1>1, <1>3, <1>5 DEF Table
    <2> HIDE DEF T
    <2>2. \A k \in queue : T[k].state = "WAITING"
      BY <1>1, <2>1 DEF PassShape
    <2>3. Follows(file', table', {}) /\ \A k \in Ids : T[k].state # "GONE" => table'[k].state # "GONE"
      BY <1>1, <1>6, <2>1, <2>2, LoopKeeps
    <2> QED BY <1>5, <2>1, <2>3 DEF Follows, Keeps
  <1>7. CASE i \notin orphans /\ file' = file /\ table' = T
    <2> HIDE DEF a
    <2>1. T[i] = a /\ \A k \in Ids : k # i => T[k] = table[k]
      BY <1>1, <1>3, <1>5 DEF Table
    <2>2. table[i].state = "RUNNING"
      BY <1>1, <1>7 DEF PassShape
    <2> HIDE DEF T
    <2> QED BY <1>5, <1>7, <2>1, <2>2 DEF Follows, Keeps
  <1> QED BY <1>2, <1>4, <1>6, <1>7

(***************************************************************************)
(* The steps of a call                                                     *)
(***************************************************************************)

LEMMA InFlight ==
    ASSUME SupervisorInv, NEW c \in AllCalls, call[c].pc # "idle"
    PROVE  /\ call[c].job \in Jobs /\ Owns(c, call[c].job)
           /\ ledger.jobs[call[c].job] \in ES!JobType
           /\ ledger.jobs[call[c].job].state # "COMPLETED"
           /\ ledger.jobs[call[c].job].retryAt = "none"
  <1>1. call[c].job \in Jobs /\ ledger.jobs[call[c].job] \in ES!JobType
    BY SupervisorTyped DEF SupervisorInv
  <1>2. /\ ledger.jobs[call[c].job].state # "COMPLETED"
        /\ ledger.jobs[call[c].job].retryAt = "none"
    BY DEF SupervisorInv, Working
  <1>3. Owns(c, call[c].job)
    BY DEF SupervisorInv, ES!SingleFlight, Owns
  <1> QED BY <1>1, <1>2, <1>3

LEMMA ExecuteMoves ==
    ASSUME SupervisorInv, NEW c \in AllCalls, NEW j \in Jobs, ES!Execute(c, j)
    PROVE  /\ Owns(c, j) /\ call[c].pc = "idle" /\ ledger.jobs[j].state # "COMPLETED"
           /\ \E row, new : /\ Moves(c, j, row, new)
                            /\ \/ row = ledger.jobs[j] /\ new = ES!NoCall
                               \/ row.state = "RUNNING" /\ new.pc = "awaiting"
  <1>1. /\ call[c].pc = "idle" /\ ~ES!Active(j) /\ ledger.jobs[j].state # "COMPLETED"
        /\ ES!Holding({}) /\ UNCHANGED crashes
    BY DEF ES!Execute
  <1>2. PICK n \in 1 .. NRuntimes : ES!TryCandidates(c, j, 1, n, ledger)
    BY DEF ES!Execute
  <1>3. /\ ES!TypeOK /\ ledger \in ES!LedgerType /\ ledger.jobs \in [Jobs -> ES!JobType]
        /\ held \subseteq Jobs
    BY SupervisorTyped DEF SupervisorInv
  <1>4. /\ ledger.jobs[j] \in ES!JobType
        /\ ledger.jobs = [ledger.jobs EXCEPT ![j] = ledger.jobs[j]]
    BY <1>3
  <1>5. j \notin ReplaySafe => ledger.jobs[j].retryAt = "none"
    BY DEF SupervisorInv, Undated
  <1>6. 1 \in 0 .. NRuntimes /\ n \in 0 .. NRuntimes
    BY <1>2, LoopConstants
  <1>7. held' \subseteq Jobs /\ erased' \in [Jobs -> Nat] /\ UNCHANGED crashes
    BY <1>1, <1>3, HoldingTyped
  <1>8. \E row, new : /\ Moves(c, j, row, new)
                      /\ \/ row = ledger.jobs[j] /\ new = ES!NoCall
                         \/ row.state = "RUNNING" /\ new.pc = "awaiting"
    BY <1>2, <1>3, <1>4, <1>5, <1>6, <1>7, HeadMoves
  <1>9. Owns(c, j)
    BY <1>1 DEF ES!Active, Owns
  <1> QED BY <1>1, <1>8, <1>9

\* A call that ends with its job as `row`.
LEMMA EndMoves ==
    ASSUME ES!TypeOK, NEW c \in AllCalls, NEW j \in Jobs, NEW row \in ES!JobType,
           ledger' \in ES!LedgerType, ledger'.jobs = [ledger.jobs EXCEPT ![j] = row],
           row.retryAt # "none" => j \in ReplaySafe, ES!Return(c),
           UNCHANGED <<launches, crashes>>, held' \subseteq Jobs, erased' \in [Jobs -> Nat]
    PROVE  Moves(c, j, row, ES!NoCall)
  <1>1. launches' \in [Jobs -> Nat]
    BY SupervisorTyped
  <1>2. call' = [call EXCEPT ![c] = ES!NoCall]
    BY DEF ES!Return
  <1> QED BY <1>1, <1>2, NoCallType DEF Moves

LEMMA SucceedMoves ==
    ASSUME SupervisorInv, NEW c \in AllCalls, ES!Succeed(c)
    PROVE  /\ call[c].pc # "idle"
           /\ \E row : /\ Moves(c, call[c].job, row, ES!NoCall)
                       /\ row.state = "COMPLETED" /\ row.retryAt = "none"
  <1> DEFINE j   == call[c].job
             row == [ledger.jobs[j] EXCEPT !.state = "COMPLETED"]
  <1>0. call[c].pc # "idle" /\ j \in Jobs /\ ledger.jobs[j] \in ES!JobType
        /\ ledger.jobs[j].retryAt = "none"
    BY InFlight DEF ES!Succeed
  <1>1. ES!TypeOK /\ ledger \in ES!LedgerType /\ held \subseteq Jobs
    BY SupervisorTyped DEF SupervisorInv
  <1>2. row \in ES!JobType /\ row.state = "COMPLETED" /\ row.retryAt = "none"
    BY <1>0 DEF ES!JobType
  <1> HIDE DEF j
  <1>3. ledger'.jobs = [ledger.jobs EXCEPT ![j] = row] /\ ledger' \in ES!LedgerType
    <2>1. ledger' = [[[[ledger EXCEPT !.jobs = [ledger.jobs EXCEPT ![j] = row]]
                         EXCEPT !.nextAction = "NEXT_STEP"] EXCEPT !.mode = "NORMAL"]
                         EXCEPT !.provider = "none"]
      BY <1>1 DEF ES!Succeed, j, ES!LedgerType
    <2> HIDE DEF row
    <2>2. [ledger.jobs EXCEPT ![j] = row] \in [Jobs -> ES!JobType]
      BY <1>1, <1>2 DEF ES!LedgerType
    <2> QED BY <1>1, <2>1, <2>2 DEF ES!LedgerType
  <1> HIDE DEF row
  <1>4. /\ ES!Return(c) /\ UNCHANGED <<launches, crashes>>
        /\ held' \subseteq Jobs /\ erased' \in [Jobs -> Nat]
    BY <1>1, HoldingTyped DEF ES!Succeed
  <1>5. Moves(c, j, row, ES!NoCall)
    BY <1>0, <1>1, <1>2, <1>3, <1>4, EndMoves
  <1> QED BY <1>0, <1>2, <1>5 DEF j

LEMMA CancelledMoves ==
    ASSUME SupervisorInv, NEW c \in AllCalls, ES!Cancelled(c)
    PROVE  /\ call[c].pc # "idle"
           /\ \E row, new : Moves(c, call[c].job, row, new) /\ row.retryAt = "none"
  <1> DEFINE j   == call[c].job
             row == [ledger.jobs[j] EXCEPT !.state = "WAITING"]
  <1>0. call[c].pc # "idle" /\ j \in Jobs /\ ledger.jobs[j] \in ES!JobType
        /\ ledger.jobs[j].retryAt = "none"
    BY InFlight DEF ES!Cancelled
  <1>1. ES!TypeOK /\ ledger \in ES!LedgerType /\ held \subseteq Jobs
    BY SupervisorTyped DEF SupervisorInv
  <1>2. row \in ES!JobType /\ row.retryAt = "none"
    BY <1>0 DEF ES!JobType
  <1> HIDE DEF j
  <1>3. ledger'.jobs = [ledger.jobs EXCEPT ![j] = row] /\ ledger' \in ES!LedgerType
    <2>1. ledger' = [[[[ledger EXCEPT !.jobs = [ledger.jobs EXCEPT ![j] = row]]
                         EXCEPT !.nextAction = "HUMAN_REQUIRED"] EXCEPT !.mode = "PAUSED"]
                         EXCEPT !.provider = "PAUSED_PROVIDER"]
      BY <1>1 DEF ES!Cancelled, j, ES!LedgerType
    <2> HIDE DEF row
    <2>2. [ledger.jobs EXCEPT ![j] = row] \in [Jobs -> ES!JobType]
      BY <1>1, <1>2 DEF ES!LedgerType
    <2> QED BY <1>1, <2>1, <2>2 DEF ES!LedgerType, ES!Actions, ES!Holds
  <1> HIDE DEF row
  <1>4. /\ ES!Return(c) /\ UNCHANGED <<launches, crashes>>
        /\ held' \subseteq Jobs /\ erased' \in [Jobs -> Nat]
    <2>1. ES!Holding({j}) /\ {j} \in SUBSET Jobs
      BY <1>0 DEF ES!Cancelled, j
    <2> QED BY <1>1, <2>1, HoldingTyped DEF ES!Cancelled
  <1>5. Moves(c, j, row, ES!NoCall)
    BY <1>0, <1>1, <1>2, <1>3, <1>4, EndMoves
  <1> QED BY <1>0, <1>2, <1>5 DEF j

LEMMA WakeMoves ==
    ASSUME SupervisorInv, NEW c \in AllCalls, ES!Wake(c)
    PROVE  /\ call[c].pc # "idle"
           /\ \E row, new : Moves(c, call[c].job, row, new) /\ row.retryAt = "none"
  <1> DEFINE j == call[c].job
  <1>0. /\ call[c].pc # "idle" /\ j \in Jobs /\ ledger.jobs[j] \in ES!JobType
        /\ ledger.jobs[j].retryAt = "none"
        /\ ES!TryCandidates(c, j, call[c].index, call[c].n, ledger)
        /\ ES!Holding({}) /\ UNCHANGED crashes
    BY InFlight DEF ES!Wake
  <1>1. /\ ES!TypeOK /\ ledger \in ES!LedgerType /\ held \subseteq Jobs
        /\ ledger.jobs \in [Jobs -> ES!JobType] /\ call \in [AllCalls -> ES!CallType]
    BY SupervisorTyped DEF SupervisorInv
  <1>2. call[c].index \in 0 .. NRuntimes /\ call[c].n \in 0 .. NRuntimes
    BY <1>1 DEF ES!CallType
  <1>3. /\ ledger.jobs = [ledger.jobs EXCEPT ![j] = ledger.jobs[j]]
        /\ held' \subseteq Jobs /\ erased' \in [Jobs -> Nat]
    BY <1>0, <1>1, HoldingTyped
  <1> HIDE DEF j
  <1>4. \E row, new : /\ Moves(c, j, row, new)
                      /\ \/ row = ledger.jobs[j] /\ new = ES!NoCall
                         \/ row.state = "RUNNING" /\ new.pc = "awaiting"
    BY <1>0, <1>1, <1>2, <1>3, HeadMoves
  <1>5. \A row, new : Moves(c, j, row, new) /\ new.pc = "awaiting" => row.retryAt = "none"
    BY DEF Moves
  <1> QED BY <1>0, <1>4, <1>5 DEF j

\* What the supervisor does with a dispatch that failed.
FailAction(c, kind)   == ES!RecoveryFor(kind, call[c].before + 1, call[c].job \notin ReplaySafe)
TriesNext(c, kind)    == /\ FailAction(c, kind) \notin ES!Holds /\ FailAction(c, kind) # "WAIT"
                         /\ call[c].index < call[c].n
LeavesWakeup(c, kind) == ~TriesNext(c, kind) /\ FailAction(c, kind) \in {"WAIT", "RETRY"}

LEMMA FailActions ==
    ASSUME NEW c \in AllCalls, NEW kind \in ES!Failures
    PROVE  /\ FailAction(c, kind) \in ES!Actions
           /\ call[c].job \notin ReplaySafe => FailAction(c, kind) \notin {"WAIT", "RETRY"}
           /\ kind = "transient" /\ FailAction(c, kind) \in ES!Holds => call[c].job \notin ReplaySafe
  BY DEF FailAction, ES!RecoveryFor, ES!Failures, ES!Actions, ES!Holds

\* A deadline is left with a wakeup to come, or by a call that went on to the next candidate
\* and found none.
LEMMA FailMoves ==
    ASSUME SupervisorInv, NEW c \in AllCalls, NEW kind \in ES!Failures, ES!Fail(c, kind)
    PROVE  /\ call[c].pc # "idle"
           /\ \E row, new :
                /\ Moves(c, call[c].job, row, new)
                /\ LeavesWakeup(c, kind) => new.pc = "idle"
                /\ ~LeavesWakeup(c, kind) /\ row.retryAt # "none" =>
                     TriesNext(c, kind) /\ FailAction(c, kind) = "RETRY" /\ new.pc = "idle"
  <1> DEFINE j      == call[c].job
             action == FailAction(c, kind)
             L      == ES!Interrupted(ledger, j, action)
             old    == [ledger.jobs[j] EXCEPT !.state = "WAITING",
                          !.retryAt = IF action \in {"WAIT", "RETRY"} THEN "pending" ELSE "none"]
             sleep  == /\ ~(TRUE /\ action \in {"WAIT", "RETRY"})
                       /\ action \in {"RETRY", "RECONSTRUCT"} /\ call[c].before + 1 < MaxAttempts
  <1>0. /\ call[c].pc = "awaiting" /\ call[c].pc # "idle" /\ j \in Jobs
        /\ ledger.jobs[j] \in ES!JobType
    BY InFlight DEF ES!Fail
  <1>1. /\ ES!TypeOK /\ ledger \in ES!LedgerType /\ held \subseteq Jobs
        /\ ledger.jobs \in [Jobs -> ES!JobType] /\ call \in [AllCalls -> ES!CallType]
        /\ launches \in [Jobs -> Nat]
    BY SupervisorTyped DEF SupervisorInv
  <1>2. /\ action \in ES!Actions
        /\ j \notin ReplaySafe => action \notin {"WAIT", "RETRY"}
    BY FailActions
  <1>3. /\ ES!Holding({j})
        /\ \/ TriesNext(c, kind) /\ ES!TryCandidates(c, j, call[c].index + 1, call[c].n, L)
           \/ /\ ~TriesNext(c, kind)
              /\ ledger' = L
              /\ IF action \notin ES!Holds /\ sleep
                 THEN call' = [call EXCEPT ![c].pc = "sleeping"]
                 ELSE ES!Return(c)
              /\ UNCHANGED launches
        /\ UNCHANGED crashes
    BY DEF ES!Fail, TriesNext, FailAction
  <1> HIDE DEF action
  <1>4. /\ old \in ES!JobType /\ old.state = "WAITING"
        /\ old.retryAt = IF action \in {"WAIT", "RETRY"} THEN "pending" ELSE "none"
    BY <1>0 DEF ES!JobType
  <1> HIDE DEF j
  <1>5. L.jobs = [ledger.jobs EXCEPT ![j] = old] /\ L \in ES!LedgerType
    <2>1. L.jobs = [ledger.jobs EXCEPT ![j] = old]
      BY <1>0, <1>1 DEF ES!Interrupted, ES!LedgerType, ES!JobType
    <2> HIDE DEF old
    <2>2. L.jobs \in [Jobs -> ES!JobType]
      BY <1>1, <1>4, <2>1
    <2> QED BY <1>1, <1>2, <2>1, <2>2 DEF ES!Interrupted, ES!LedgerType, ES!Actions, ES!Holds
  <1> HIDE DEF old, L
  <1>6. j \notin ReplaySafe => old.retryAt = "none"
    BY <1>2, <1>4
  <1>7. held' \subseteq Jobs /\ erased' \in [Jobs -> Nat]
    <2>1. {j} \in SUBSET Jobs
      BY <1>0 DEF j
    <2> QED BY <1>1, <1>3, <2>1, HoldingTyped
  <1>8. CASE TriesNext(c, kind) /\ ES!TryCandidates(c, j, call[c].index + 1, call[c].n, L)
    <2>1. call[c].index + 1 \in 0 .. NRuntimes /\ call[c].n \in 0 .. NRuntimes
      BY <1>1, <1>8, LoopConstants DEF ES!CallType, TriesNext
    <2>2. PICK row, new : /\ Moves(c, j, row, new)
                          /\ \/ row = old /\ new = ES!NoCall
                             \/ row.state = "RUNNING" /\ new.pc = "awaiting"
      <3> DEFINE k == call[c].index + 1
                 n    == call[c].n
      <3>1. ES!TypeOK /\ UNCHANGED crashes
        BY <1>1, <1>3
      <3>2. k \in 0 .. NRuntimes /\ n \in 0 .. NRuntimes
        BY <2>1
      <3>3. ES!TryCandidates(c, j, k, n, L)
        BY <1>8
      <3>4. j \in Jobs /\ old \in ES!JobType
        BY <1>0, <1>4
      <3> HIDE DEF k, n, sleep, action
      <3> QED BY <1>5, <1>6, <1>7, <3>1, <3>2, <3>3, <3>4, HeadMoves, SMTT(60)
    <2>3. new.pc # "idle" => row.retryAt = "none"
      BY <2>2 DEF Moves
    <2>4. row.retryAt # "none" => action = "RETRY" /\ new.pc = "idle"
      BY <1>4, <1>8, <2>2, <2>3, NoCallType DEF TriesNext, action
    <2>5. ~LeavesWakeup(c, kind)
      BY <1>8 DEF LeavesWakeup
    <2> QED BY <1>0, <1>8, <2>2, <2>4, <2>5 DEF j, action
  <1>9. CASE /\ ~TriesNext(c, kind) /\ ledger' = L /\ UNCHANGED launches
             /\ IF action \notin ES!Holds /\ sleep
                THEN call' = [call EXCEPT ![c].pc = "sleeping"]
                ELSE ES!Return(c)
    <2>1. LeavesWakeup(c, kind) <=> action \in {"WAIT", "RETRY"}
      BY <1>9 DEF LeavesWakeup, action
    <2>2. CASE action \notin ES!Holds /\ sleep
      <3> DEFINE new == [call[c] EXCEPT !.pc = "sleeping"]
      <3>1. call[c] \in ES!CallType
        BY <1>1
      <3>2. new \in ES!CallType /\ new.pc = "sleeping" /\ new.job = j
        BY <3>1 DEF ES!CallType, j
      <3>3. call' = [call EXCEPT ![c] = new]
        BY <1>9, <2>2
      <3>4. action \notin {"WAIT", "RETRY"} /\ old.retryAt = "none"
        BY <1>4, <2>2
      <3> HIDE DEF new
      <3>5. launches' \in [Jobs -> Nat]
        BY <1>1, <1>9
      <3>6. Moves(c, j, old, new)
        BY <1>3, <1>4, <1>5, <1>7, <1>9, <3>2, <3>3, <3>4, <3>5 DEF Moves
      <3> QED BY <1>0, <2>1, <3>4, <3>6 DEF j
    <2>3. CASE ES!Return(c)
      <3>1. Moves(c, j, old, ES!NoCall)
        BY <1>0, <1>1, <1>3, <1>4, <1>5, <1>6, <1>7, <1>9, <2>3, EndMoves
      <3>2. ~LeavesWakeup(c, kind) => old.retryAt = "none"
        BY <1>4, <2>1
      <3> QED BY <1>0, <3>1, <3>2, NoCallType DEF j
    <2> QED BY <1>9, <2>2, <2>3
  <1> QED BY <1>3, <1>8, <1>9

(***************************************************************************)
(* The invariant of the loop                                               *)
(***************************************************************************)

\* A handler runs exactly while a wakeup is in its pass, and its own call only while it awaits.
Handling ==
    /\ handler \in {"idle", "refreshing", "executing", "finishing"}
    /\ (handler = "idle") = (current = {})
    /\ call[WakeCall].pc # "idle" => Awaits(call[WakeCall].job)

\* What runs next without an await: the answer of the handler that awaited the call, or the
\* schedule() of a call that ended in failure -- or, unreviewed, in success, which takes the
\* handler that awaits it past the deadline.
Continuation ==
    /\ next \in [do : {"nothing", "schedule", "answer"}, job : Jobs]
    /\ next.do # "nothing" /\ Awaits(next.job) => call[WakeCall].pc = "idle"
    /\ next.do = "answer" => Awaits(next.job) /\ (status = "final" => task = "final")
    /\ next.do = "schedule" =>
         /\ status \in {"success", "failure"}
         /\ Awaits(next.job) /\ status = "success" => next.job \in unwatched

\* A handler about to report done leaves no deadline behind.
Finishing ==
    handler = "finishing" =>
        \A j \in current : ledger.jobs[j].state = "COMPLETED" \/ j \notin ReplaySafe \/ j \in unwatched

\* A deadline in the ledger has its wakeup, from the schedule() on that follows its write.
WatchedAt(j) ==
    /\ j \notin unwatched /\ task # "final"
    /\ next # [do |-> "schedule", job |-> j]
    /\ Waits(j)
    => table[j].state # "GONE"

Watched == Follows(file, table, unwatched) /\ \A j \in Jobs : WatchedAt(j)

LInv == RInv /\ SupervisorInv /\ Handling /\ Continuation /\ Finishing /\ Watched

LEMMA NothingType ==
    /\ Nothing \in [do : {"nothing", "schedule", "answer"}, job : Jobs]
    /\ Nothing.do = "nothing"
    /\ \A j \in Jobs : Nothing # [do |-> "schedule", job |-> j]
  BY LoopConstants DEF Nothing

LEMMA Stutters ==
    ASSUME RInv, UNCHANGED vars
    PROVE  RInv' /\ UNCHANGED <<table, file, current>>
  BY DEF vars, pass, RInv, TypeOK, PassShape, DoneIsGone, Covered

LEMMA SupervisorStutters ==
    ASSUME SupervisorInv, UNCHANGED supervisor
    PROVE  SupervisorInv' /\ UNCHANGED <<ledger, call>>
  BY DEF supervisor, SupervisorInv, ES!TypeOK, ES!SingleFlight, Working, Undated

\* One handler is awaited.
LEMMA OneCurrent ==
    ASSUME RInv
    PROVE  current \subseteq Jobs /\ \A i, j \in current : i = j
  BY Typed DEF RInv, PassShape, Jobs

\* What a step of a call does to the other jobs and calls.
LEMMA MovesOthers ==
    ASSUME SupervisorInv, NEW c \in AllCalls, NEW j \in Jobs, NEW row, NEW new,
           Moves(c, j, row, new)
    PROVE  /\ ledger'.jobs[j] = row /\ \A i \in Jobs \ {j} : ledger'.jobs[i] = ledger.jobs[i]
           /\ call'[c] = new /\ \A d \in AllCalls \ {c} : call'[d] = call[d]
  BY SupervisorTyped DEF SupervisorInv, Moves

\* When the call of the awaited job is over, the handler's own call is too.
LEMMA WakeCallOver ==
    ASSUME RInv, SupervisorInv, Handling, NEW c \in AllCalls, NEW j \in Jobs, NEW row, NEW new,
           Moves(c, j, row, new), Owns(c, j), new.pc = "idle", Awaits(j)
    PROVE  call'[WakeCall].pc = "idle"
  <1>1. CASE c = WakeCall
    BY <1>1, MovesOthers
  <1>2. CASE c # WakeCall
    <2>1. WakeCall \in AllCalls /\ call'[WakeCall] = call[WakeCall]
      BY <1>2, MovesOthers DEF AllCalls
    <2>2. call[WakeCall].pc # "idle" => call[WakeCall].job = j
      BY OneCurrent DEF Handling, Awaits
    <2> QED BY <1>2, <2>1, <2>2 DEF Owns
  <1> QED BY <1>1, <1>2

LEMMA WakeCallAwaits ==
    ASSUME SupervisorInv, Handling, NEW c \in AllCalls, NEW j \in Jobs, NEW row, NEW new,
           Moves(c, j, row, new), c = WakeCall /\ new.pc # "idle" => Awaits(j)
    PROVE  call'[WakeCall].pc # "idle" => Awaits(call'[WakeCall].job)
  <1>1. CASE c = WakeCall
    <2>1. call'[WakeCall] = new
      BY <1>1, MovesOthers
    <2>2. new.pc # "idle" => new.job = j
      BY DEF Moves
    <2> QED BY <1>1, <2>1, <2>2 DEF Awaits
  <1>2. CASE c # WakeCall
    BY <1>2, MovesOthers DEF Handling, AllCalls
  <1> QED BY <1>1, <1>2

(***************************************************************************)
(* The actions of the loop: execute()                                      *)
(***************************************************************************)

LEMMA UserExecutesStep ==
    ASSUME LInv, NEW c \in UserCalls, NEW j \in Jobs, UserExecutes(c, j)
    PROVE  LInv'
  <1>0. /\ RInv /\ SupervisorInv /\ Handling /\ Continuation /\ Finishing /\ Watched
        /\ ES!Execute(c, j) /\ UNCHANGED vars /\ next = Nothing
        /\ UNCHANGED <<handler, next, status, task, unwatched>>
        /\ c \in AllCalls /\ c # WakeCall
    BY LoopAssumption DEF LInv, UserExecutes, Quiet, handling, AllCalls
  <1>1. PICK row, new : /\ Moves(c, j, row, new)
                        /\ \/ row = ledger.jobs[j] /\ new = ES!NoCall
                           \/ row.state = "RUNNING" /\ new.pc = "awaiting"
    BY <1>0, ExecuteMoves
  <1>2. Owns(c, j) /\ ledger.jobs[j].state # "COMPLETED"
    BY <1>0, ExecuteMoves
  <1>3. SupervisorInv'
    BY <1>0, <1>1, <1>2, MovesKeep
  <1>4. RInv' /\ UNCHANGED <<table, file, current>>
    BY <1>0, Stutters
  <1>5. /\ ledger'.jobs[j] = row /\ \A i \in Jobs \ {j} : ledger'.jobs[i] = ledger.jobs[i]
        /\ call'[WakeCall] = call[WakeCall]
    BY <1>0, <1>1, MovesOthers DEF AllCalls
  <1>6. Handling' /\ Continuation'
    BY <1>0, <1>4, <1>5 DEF Handling, Continuation, Awaits
  <1>7. Finishing'
    BY <1>0, <1>2, <1>4, <1>5, OneCurrent DEF Finishing
  <1>8. \A i \in Jobs : Waits(i)' => Waits(i)
    BY <1>1, <1>5 DEF Waits
  <1>9. Watched'
    BY <1>0, <1>4, <1>8 DEF Watched, WatchedAt, Follows
  <1> QED BY <1>3, <1>4, <1>6, <1>7, <1>9 DEF LInv

\* A step after which the handler that awaited the call, if any, goes on.
LEMMA AfterStepKeeps ==
    ASSUME LInv, Quiet, NEW c \in AllCalls, call[c].pc # "idle", NEW row, NEW new,
           Moves(c, call[c].job, row, new), NEW st \in {"success", "failure"}, AfterStep(c, st),
           UNCHANGED vars, UNCHANGED task, unwatched \subseteq unwatched',
           new.pc = "idle" /\ st = "success" =>
             row.state = "COMPLETED" \/ call[c].job \notin ReplaySafe \/ call[c].job \in unwatched',
           row.retryAt = "none" \/ call[c].job \in unwatched'
    PROVE  LInv'
  <1> DEFINE j == call[c].job
  <1>0. /\ RInv /\ SupervisorInv /\ Handling /\ Continuation /\ Finishing /\ Watched
        /\ next = Nothing /\ j \in Jobs /\ Owns(c, j) /\ ledger.jobs[j].state # "COMPLETED"
    BY InFlight DEF LInv, Quiet
  <1>1. RInv' /\ UNCHANGED <<table, file, current>>
    BY <1>0, Stutters
  <1>2. /\ ledger'.jobs[j] = row /\ \A i \in Jobs \ {j} : ledger'.jobs[i] = ledger.jobs[i]
        /\ call'[c] = new
    BY <1>0, MovesOthers
  <1>3. SupervisorInv'
    BY <1>0, MovesKeep
  <1>4. \/ new.pc # "idle" /\ next' = Nothing /\ UNCHANGED <<handler, status>>
        \/ /\ new.pc = "idle" /\ Awaits(j) /\ st = "success"
           /\ status' = st /\ handler' = "finishing" /\ next' = Nothing
        \/ /\ new.pc = "idle" /\ ~(Awaits(j) /\ st = "success") /\ status' = st /\ UNCHANGED handler
           /\ next' = IF Awaits(j) THEN [do |-> "answer", job |-> j] ELSE Nothing
    BY <1>2 DEF AfterStep, Continue
  <1>5. new.pc = "idle" /\ Awaits(j) => call'[WakeCall].pc = "idle"
    BY <1>0, WakeCallOver
  <1>6. call'[WakeCall].pc # "idle" => Awaits(call'[WakeCall].job)
    <2>1. c = WakeCall /\ new.pc # "idle" => Awaits(j)
      BY <1>0 DEF Handling
    <2> QED BY <1>0, <2>1, WakeCallAwaits
  <1> HIDE DEF j
  <1>7. Handling'
    <2>1. handler' = "finishing" => current # {}
      BY <1>0, <1>4 DEF Awaits, Handling
    <2>2. call'[WakeCall].pc # "idle" => handler' = handler
      BY <1>4, <1>5
    <2> QED BY <1>0, <1>1, <1>4, <1>6, <2>1, <2>2 DEF Handling, Awaits
  <1>8. Continuation'
    <2>1. next' = Nothing \/ (next' = [do |-> "answer", job |-> j] /\ Awaits(j) /\ new.pc = "idle"
                              /\ handler' = handler /\ status' # "final")
      BY <1>4
    <2> QED BY <1>0, <1>1, <1>5, <2>1, NothingType DEF Continuation, Awaits
  <1>9. Finishing'
    <2> SUFFICES ASSUME handler' = "finishing", NEW i \in current
                 PROVE  ledger'.jobs[i].state = "COMPLETED" \/ i \notin ReplaySafe \/ i \in unwatched'
      BY <1>1 DEF Finishing
    <2>1. i \in Jobs
      BY <1>0, OneCurrent
    <2>2. CASE handler = "finishing"
      BY <1>0, <1>2, <2>1, <2>2 DEF Finishing
    <2>3. CASE handler # "finishing"
      <3>1. i = j /\ new.pc = "idle" /\ st = "success"
        BY <1>0, <1>4, <2>3, OneCurrent DEF Awaits
      <3> QED BY <1>2, <3>1 DEF j
    <2> QED BY <2>2, <2>3
  <1>10. Watched'
    <2> SUFFICES ASSUME NEW i \in Jobs PROVE WatchedAt(i)'
      BY <1>0, <1>1 DEF Watched, Follows
    <2>1. CASE i = j
      BY <1>2, <2>1 DEF WatchedAt, Waits, j
    <2>2. CASE i # j
      BY <1>0, <1>1, <1>2, <2>2, NothingType DEF WatchedAt, Waits, Watched
    <2> QED BY <2>1, <2>2
  <1> QED BY <1>1, <1>3, <1>7, <1>8, <1>9, <1>10 DEF LInv

LEMMA SucceedStep ==
    ASSUME LInv, NEW c \in AllCalls, Succeed(c)
    PROVE  LInv'
  <1>1. /\ Quiet /\ ES!Succeed(c) /\ AfterStep(c, "success") /\ UNCHANGED vars
        /\ UNCHANGED <<task, unwatched>> /\ SupervisorInv
    BY DEF Succeed, LInv
  <1>2. PICK row : /\ Moves(c, call[c].job, row, ES!NoCall)
                   /\ row.state = "COMPLETED" /\ row.retryAt = "none"
    BY <1>1, SucceedMoves
  <1>3. call[c].pc # "idle"
    BY <1>1, SucceedMoves
  <1> QED BY <1>1, <1>2, <1>3, AfterStepKeeps

LEMMA StepOnStep ==
    ASSUME LInv, NEW c \in AllCalls, StepOn(c)
    PROVE  LInv'
  <1>1. /\ Quiet /\ (ES!Cancelled(c) \/ ES!Wake(c))
        /\ AfterStep(c, "failure") /\ UNCHANGED vars
        /\ UNCHANGED <<task, unwatched>> /\ SupervisorInv
    BY DEF StepOn, LInv
  <1>2. PICK row, new : Moves(c, call[c].job, row, new) /\ row.retryAt = "none"
    BY <1>1, CancelledMoves, WakeMoves
  <1>3. call[c].pc # "idle"
    BY <1>1, CancelledMoves, WakeMoves
  <1> QED BY <1>1, <1>2, <1>3, AfterStepKeeps

LEMMA FailStep ==
    ASSUME LInv, NEW c \in AllCalls, NEW kind \in ES!Failures, NEW unreviewed \in BOOLEAN,
           Fail(c, kind, unreviewed)
    PROVE  LInv'
  <1> DEFINE j  == call[c].job
             st == IF unreviewed /\ (LeavesWakeup(c, kind) \/ FailAction(c, kind) \in ES!Holds)
                   THEN "success" ELSE "failure"
  <1>1. /\ Quiet /\ (unreviewed => kind = "transient") /\ ES!Fail(c, kind)
        /\ IF LeavesWakeup(c, kind)
           THEN next' = [do |-> "schedule", job |-> j] /\ status' = st /\ UNCHANGED handler
           ELSE AfterStep(c, st)
        /\ unwatched' =
             IF \/ TriesNext(c, kind) /\ FailAction(c, kind) = "RETRY" /\ call'[c].pc = "idle"
                \/ LeavesWakeup(c, kind) /\ st = "success" /\ Awaits(j)
             THEN unwatched \cup {j} ELSE unwatched
        /\ UNCHANGED vars /\ UNCHANGED task
    BY DEF Fail, LeavesWakeup, TriesNext, FailAction
  <1>2. /\ RInv /\ SupervisorInv /\ Handling /\ Continuation /\ Finishing /\ Watched
        /\ next = Nothing
    BY <1>1 DEF LInv, Quiet
  <1>3. /\ call[c].pc # "idle" /\ j \in Jobs /\ Owns(c, j) /\ ledger.jobs[j].state # "COMPLETED"
    BY <1>1, <1>2, FailMoves, InFlight
  <1>4. PICK row, new :
          /\ Moves(c, j, row, new)
          /\ LeavesWakeup(c, kind) => new.pc = "idle"
          /\ ~LeavesWakeup(c, kind) /\ row.retryAt # "none" =>
               TriesNext(c, kind) /\ FailAction(c, kind) = "RETRY" /\ new.pc = "idle"
    BY <1>1, <1>2, FailMoves
  <1>5. /\ ledger'.jobs[j] = row /\ \A i \in Jobs \ {j} : ledger'.jobs[i] = ledger.jobs[i]
        /\ call'[c] = new
    BY <1>2, <1>3, <1>4, MovesOthers
  <1>6. unwatched \subseteq unwatched' /\ st \in {"success", "failure"}
    BY <1>1
  <1>7. CASE ~LeavesWakeup(c, kind)
    <2>1. row.retryAt = "none" \/ j \in unwatched'
      BY <1>1, <1>4, <1>5, <1>7
    <2>2. st = "success" => j \notin ReplaySafe
      BY <1>1, <1>7, FailActions
    <2>3. AfterStep(c, st)
      BY <1>1, <1>7
    <2> HIDE DEF j, st
    <2> QED BY <1>1, <1>3, <1>4, <1>6, <2>1, <2>2, <2>3, AfterStepKeeps DEF j
  <1>8. CASE LeavesWakeup(c, kind)
    <2>1. /\ next' = [do |-> "schedule", job |-> j] /\ status' = st /\ UNCHANGED handler
          /\ st = "success" /\ Awaits(j) => j \in unwatched'
      BY <1>1, <1>8
    <2> HIDE DEF j, st
    <2>2. RInv' /\ UNCHANGED <<table, file, current>>
      BY <1>1, <1>2, Stutters
    <2>3. SupervisorInv'
      BY <1>2, <1>3, <1>4, MovesKeep
    <2>4. Awaits(j) => call'[WakeCall].pc = "idle"
      BY <1>2, <1>3, <1>4, <1>8, WakeCallOver
    <2>5. call'[WakeCall].pc # "idle" => Awaits(call'[WakeCall].job)
      BY <1>2, <1>3, <1>4, <1>8, WakeCallAwaits
    <2>6. Handling'
      BY <1>2, <2>1, <2>2, <2>5 DEF Handling, Awaits
    <2>7. Continuation'
      BY <1>3, <1>6, <2>1, <2>2, <2>4 DEF Continuation, Awaits
    <2>8. Finishing'
      BY <1>2, <1>3, <1>5, <1>6, <2>1, <2>2, OneCurrent DEF Finishing
    <2>9. Watched'
      <3> SUFFICES ASSUME NEW i \in Jobs PROVE WatchedAt(i)'
        BY <1>2, <1>6, <2>2 DEF Watched, Follows
      <3>1. CASE i = j
        BY <2>1, <3>1 DEF WatchedAt
      <3>2. CASE i # j
        BY <1>1, <1>2, <1>5, <1>6, <2>2, <3>2, NothingType DEF WatchedAt, Waits, Watched
      <3> QED BY <3>1, <3>2
    <2> QED BY <2>2, <2>3, <2>6, <2>7, <2>8, <2>9 DEF LInv
  <1> QED BY <1>7, <1>8

(***************************************************************************)
(* The actions of the loop: the wakeup                                     *)
(***************************************************************************)

\* Wakeups stay for the jobs that wait for them.
LEMMA WatchedKept ==
    ASSUME Watched, Follows(file', table', unwatched'), NEW S, Keeps(S), unwatched \subseteq unwatched',
           task' # "final" => task # "final",
           \A i \in Jobs : Waits(i)' => Waits(i),
           \A i \in Jobs : next = [do |-> "schedule", job |-> i] =>
                             i \in unwatched' \/ table'[i].state # "GONE",
           \A i \in Jobs : i \in S => task' = "final" \/ i \in unwatched' \/ ~Waits(i)'
    PROVE  Watched'
  <1> SUFFICES ASSUME NEW i \in Jobs PROVE WatchedAt(i)'
    BY DEF Watched
  <1>1. WatchedAt(i) /\ (i \notin S /\ table[i].state # "GONE" => table'[i].state # "GONE")
    BY DEF Watched, Keeps, Jobs
  <1> QED BY <1>1 DEF WatchedAt

LEMMA CallScheduleStep ==
    ASSUME LInv, NEW j \in Jobs, CallSchedule(j)
    PROVE  LInv'
  <1> DEFINE st == IF writes' = writes THEN status ELSE "threw"
  <1>0. /\ RInv /\ SupervisorInv /\ Handling /\ Continuation /\ Finishing /\ Watched
        /\ next = [do |-> "schedule", job |-> j] /\ j \in Ids
        /\ \/ table[j].state \in {"RUNNING", "PAUSED"} /\ UNCHANGED vars
           \/ Schedule(j, FALSE)
        /\ Continue(j, st)
        /\ unwatched' = IF writes' # writes /\ file[j].state = "GONE"
                        THEN unwatched \cup {j} ELSE unwatched
        /\ UNCHANGED supervisor /\ UNCHANGED task
    BY DEF CallSchedule, LInv, Jobs
  <1> HIDE DEF st
  <1>1. /\ RInv' /\ Follows(file', table', unwatched') /\ Keeps({})
        /\ table'[j].state # "GONE" /\ UNCHANGED current
    <2>1. CASE table[j].state \in {"RUNNING", "PAUSED"} /\ UNCHANGED vars
      BY <1>0, <2>1, Stutters DEF Keeps, Follows, Watched
    <2>2. CASE Schedule(j, FALSE)
      BY <1>0, <2>2, ScheduleStep, ScheduleKeeps DEF Watched
    <2> QED BY <1>0, <2>1, <2>2
  <1>2. SupervisorInv' /\ UNCHANGED <<ledger, call>>
    BY <1>0, SupervisorStutters
  <1>3. /\ st \in {"success", "failure", "threw"} /\ status' = st
        /\ Awaits(j) /\ st = "success" => j \in unwatched
        /\ unwatched \subseteq unwatched'
        /\ Awaits(j) => call[WakeCall].pc = "idle"
        /\ \/ /\ Awaits(j) /\ st = "success" /\ handler' = "finishing" /\ next' = Nothing
           \/ /\ ~(Awaits(j) /\ st = "success") /\ UNCHANGED handler
              /\ next' = IF Awaits(j) THEN [do |-> "answer", job |-> j] ELSE Nothing
    BY <1>0 DEF Continuation, Continue, st
  <1>4. Handling'
    BY <1>0, <1>1, <1>2, <1>3 DEF Handling, Awaits
  <1>5. Continuation'
    BY <1>1, <1>2, <1>3, NothingType DEF Continuation, Awaits
  <1>6. Finishing'
    BY <1>0, <1>1, <1>2, <1>3, OneCurrent DEF Finishing, Awaits
  <1>7. Watched'
    <2>1. \A i \in Jobs : Waits(i)' => Waits(i)
      BY <1>2 DEF Waits
    <2>2. \A i \in Jobs : next = [do |-> "schedule", job |-> i] => table'[i].state # "GONE"
      BY <1>0, <1>1
    <2> QED BY <1>0, <1>1, <1>3, <2>1, <2>2, WatchedKept
  <1> QED BY <1>1, <1>2, <1>4, <1>5, <1>6, <1>7 DEF LInv

\* A handler that is entered waits for no call yet, and answers what it knows.
LEMMA EnteredKeeps ==
    ASSUME RInv', SupervisorInv, UNCHANGED supervisor, UNCHANGED task,
           call[WakeCall].pc = "idle", Entered
    PROVE  SupervisorInv' /\ Handling' /\ Continuation' /\ Finishing' /\ UNCHANGED ledger
  <1>1. SupervisorInv' /\ UNCHANGED <<ledger, call>>
    BY SupervisorStutters
  <1>2. current' \subseteq Jobs
    BY Typed DEF RInv, Jobs, TypeOK
  <1>3. \/ current' = {} /\ handler' = "idle" /\ next' = Nothing
        \/ current' # {} /\ handler' = "refreshing" /\ next' = Nothing
        \/ /\ current' # {} /\ handler' = "executing" /\ status' = task
           /\ \E j \in current' : next' = [do |-> "answer", job |-> j]
    BY DEF Entered
  <1>4. Handling' /\ Finishing'
    BY <1>1, <1>3 DEF Handling, Finishing
  <1>5. Continuation'
    BY <1>1, <1>2, <1>3, NothingType DEF Continuation, Awaits
  <1> QED BY <1>1, <1>4, <1>5

LEMMA TimerLoopStep ==
    ASSUME LInv, Timer
    PROVE  LInv'
  <1>0. /\ RInv /\ SupervisorInv /\ Handling /\ Watched
        /\ next = Nothing /\ TimerFires /\ Entered
        /\ UNCHANGED supervisor /\ UNCHANGED <<task, unwatched>>
    BY DEF Timer, LInv, Quiet
  <1>1. call[WakeCall].pc = "idle"
    BY <1>0 DEF TimerFires, Active, Handling, Awaits
  <1>2. RInv' /\ Follows(file', table', unwatched') /\ Keeps({})
    BY <1>0, TimerStep, TimerKeeps DEF Follows
  <1>3. SupervisorInv' /\ Handling' /\ Continuation' /\ Finishing' /\ UNCHANGED ledger
    BY <1>0, <1>1, <1>2, EnteredKeeps
  <1>4. \A i \in Jobs : Waits(i)' => Waits(i)
    BY <1>3 DEF Waits
  <1>5. Watched'
    BY <1>0, <1>2, <1>4, NothingType, WatchedKept
  <1> QED BY <1>2, <1>3, <1>5 DEF LInv

LEMMA HandlerCallsStep ==
    ASSUME LInv, NEW j \in Jobs, HandlerCalls(j)
    PROVE  LInv'
  <1>0. /\ RInv /\ SupervisorInv /\ Handling /\ Continuation /\ Finishing /\ Watched
        /\ next = Nothing /\ handler = "refreshing" /\ j \in current
        /\ UNCHANGED vars /\ UNCHANGED <<task, unwatched>>
        /\ WakeCall \in AllCalls
    BY DEF HandlerCalls, LInv, Quiet, AllCalls
  <1>1. RInv' /\ UNCHANGED <<table, file, current>>
    BY <1>0, Stutters
  <1>2. call[WakeCall].pc = "idle"
    BY <1>0 DEF Handling, Awaits
  <1>3. \/ /\ handler' = "executing" /\ UNCHANGED supervisor /\ next' = Nothing
        \/ /\ ledger.jobs[j].state = "COMPLETED" /\ handler' = "finishing"
           /\ UNCHANGED supervisor /\ next' = Nothing
        \/ /\ \/ UNCHANGED supervisor
              \/ ES!Execute(WakeCall, j) /\ call'[WakeCall].pc = "idle"
           /\ handler' = "executing" /\ status' = "failure"
           /\ next' = [do |-> "answer", job |-> j]
        \/ ES!Execute(WakeCall, j) /\ handler' = "executing" /\ next' = Nothing
    BY <1>0 DEF HandlerCalls
  <1>4. \/ SupervisorInv' /\ UNCHANGED <<ledger, call>>
        \/ /\ SupervisorInv' /\ (\A i \in Jobs : Waits(i)' => Waits(i))
           /\ call'[WakeCall].pc # "idle" => call'[WakeCall].job = j
    <2>1. CASE UNCHANGED supervisor
      BY <1>0, <2>1, SupervisorStutters
    <2>2. CASE ES!Execute(WakeCall, j)
      <3>1. PICK row, new : /\ Moves(WakeCall, j, row, new)
                            /\ \/ row = ledger.jobs[j] /\ new = ES!NoCall
                               \/ row.state = "RUNNING" /\ new.pc = "awaiting"
        BY <1>0, <2>2, ExecuteMoves
      <3>2. SupervisorInv'
        BY <1>0, <2>2, <3>1, ExecuteMoves, MovesKeep
      <3>3. /\ ledger'.jobs[j] = row /\ \A i \in Jobs \ {j} : ledger'.jobs[i] = ledger.jobs[i]
            /\ call'[WakeCall] = new
        BY <1>0, <3>1, MovesOthers
      <3>4. new.pc # "idle" => new.job = j
        BY <3>1 DEF Moves
      <3>5. \A i \in Jobs : Waits(i)' => Waits(i)
        BY <3>1, <3>3 DEF Waits
      <3> QED BY <3>2, <3>3, <3>4, <3>5
    <2> QED BY <1>3, <2>1, <2>2
  <1>5. (\A i \in Jobs : Waits(i)' => Waits(i)) /\ SupervisorInv'
    BY <1>4 DEF Waits
  <1>6. call'[WakeCall].pc # "idle" => call'[WakeCall].job = j /\ handler' = "executing" /\ next' = Nothing
    <2>1. UNCHANGED supervisor => UNCHANGED call
      BY DEF supervisor
    <2> QED BY <1>2, <1>3, <1>4, <2>1
  <1>7. Handling'
    BY <1>0, <1>1, <1>3, <1>6 DEF Handling, Awaits
  <1>8. Continuation'
    BY <1>0, <1>1, <1>3, <1>6, NothingType DEF Continuation, Awaits
  <1>9. Finishing'
    <2>1. UNCHANGED supervisor => UNCHANGED ledger
      BY DEF supervisor
    <2> QED BY <1>0, <1>1, <1>3, <2>1, OneCurrent DEF Finishing
  <1>10. Watched'
    BY <1>0, <1>1, <1>5, NothingType DEF Watched, WatchedAt, Follows
  <1> QED BY <1>1, <1>5, <1>7, <1>8, <1>9, <1>10 DEF LInv

LEMMA AnswerStep ==
    ASSUME LInv, NEW j \in Jobs, Answer(j)
    PROVE  LInv'
  <1>0. /\ RInv /\ SupervisorInv /\ Handling /\ Continuation /\ Watched
        /\ next = [do |-> "answer", job |-> j] /\ Entered
        /\ UNCHANGED supervisor /\ UNCHANGED <<task, unwatched>>
    BY DEF Answer, LInv
  <1>1. /\ Awaits(j) /\ call[WakeCall].pc = "idle" /\ (status = "final" => task = "final")
    BY <1>0 DEF Continuation
  <1>2. PICK result \in {"done", "retry", "pause"}, due \in BOOLEAN :
          Settle(result, due) /\ (result = "done" => status = "final")
    <2> DEFINE late == ledger.jobs[j].retryAt = "due"
    <2>1. CASE status = "final"
      BY <2>1 DEF Answer
    <2>2. CASE status = "stopped"
      BY <2>2 DEF Answer
    <2>3. CASE status = "threw"
      BY <2>3 DEF Answer
    <2>4. CASE status \notin {"final", "stopped", "threw"}
      <3>1. late \in BOOLEAN
        OBVIOUS
      <3>2. Settle("pause", FALSE) \/ Settle("retry", late)
        BY <2>4 DEF Answer
      <3> HIDE DEF late
      <3> QED BY <3>1, <3>2
    <2> QED BY <2>1, <2>2, <2>3, <2>4
  <1>3. /\ RInv' /\ Follows(file', table', unwatched')
        /\ Keeps(IF result = "done" THEN current ELSE {})
    BY <1>0, <1>2, SettleStep, SettleKeeps DEF Watched
  <1>4. SupervisorInv' /\ Handling' /\ Continuation' /\ Finishing' /\ UNCHANGED ledger
    BY <1>0, <1>1, <1>3, EnteredKeeps
  <1>5. \A i \in Jobs : Waits(i)' => Waits(i)
    BY <1>4 DEF Waits
  <1>6. result = "done" => task' = "final"
    BY <1>0, <1>1, <1>2
  <1>7. \A i \in Jobs : next # [do |-> "schedule", job |-> i]
    BY <1>0
  <1>8. Watched'
    <2> DEFINE S == IF result = "done" THEN current ELSE {}
    <2>1. \A i \in Jobs : i \in S => task' = "final"
      BY <1>6
    <2>2. Keeps(S)
      BY <1>3
    <2> HIDE DEF S
    <2> QED BY <1>0, <1>3, <1>5, <1>7, <2>1, <2>2, WatchedKept
  <1> QED BY <1>3, <1>4, <1>8 DEF LInv

LEMMA FinishStep ==
    ASSUME LInv, Finish
    PROVE  LInv'
  <1>0. /\ RInv /\ SupervisorInv /\ Handling /\ Finishing /\ Watched
        /\ next = Nothing /\ handler = "finishing" /\ Entered
        /\ UNCHANGED supervisor /\ UNCHANGED <<task, unwatched>>
    BY DEF Finish, LInv, Quiet
  <1>1. call[WakeCall].pc = "idle"
    BY <1>0 DEF Handling, Awaits
  <1>2. PICK result \in {"done", "retry"} : Settle(result, FALSE)
    BY DEF Finish
  <1>3. /\ RInv' /\ Follows(file', table', unwatched')
        /\ Keeps(IF result = "done" THEN current ELSE {})
    BY <1>0, <1>2, SettleStep, SettleKeeps DEF Watched
  <1>4. SupervisorInv' /\ Handling' /\ Continuation' /\ Finishing' /\ UNCHANGED ledger
    BY <1>0, <1>1, <1>3, EnteredKeeps
  <1>5. \A i \in Jobs : Waits(i)' => Waits(i)
    BY <1>4 DEF Waits
  <1>6. \A i \in current : i \in Jobs /\ (i \in unwatched' \/ ~Waits(i)')
    <2> SUFFICES ASSUME NEW i \in current PROVE i \in Jobs /\ (i \in unwatched \/ ~Waits(i))
      BY <1>0, <1>5
    <2>1. i \in Jobs
      BY <1>0, OneCurrent
    <2>2. ledger.jobs[i].state = "COMPLETED" \/ i \notin ReplaySafe \/ i \in unwatched
      BY <1>0 DEF Finishing
    <2> QED BY <1>0, <2>1, <2>2 DEF Waits, SupervisorInv, Undated
  <1>7. Watched'
    BY <1>0, <1>3, <1>5, <1>6, NothingType, WatchedKept
  <1> QED BY <1>3, <1>4, <1>7 DEF LInv

(***************************************************************************)
(* The actions of the loop: time, users and crashes                        *)
(***************************************************************************)

LEMMA ClockStep ==
    ASSUME LInv, NEW j \in Jobs, Clock(j)
    PROVE  LInv'
  <1>0. /\ RInv /\ SupervisorInv /\ Handling /\ Continuation /\ Finishing /\ Watched
        /\ next = Nothing /\ UNCHANGED <<handler, next, status, task, unwatched>> /\ j \in Ids
        /\ ES!DeadlinePasses(j) \/ UNCHANGED supervisor
        /\ TimePasses(j) \/ UNCHANGED vars
    BY DEF Clock, LInv, Quiet, handling, Jobs
  <1>1. RInv' /\ Follows(file', table', unwatched') /\ Keeps({}) /\ UNCHANGED current
    <2>1. CASE TimePasses(j)
      BY <1>0, <2>1, TimePassesStep, TimePassesKeeps DEF Watched, TimePasses, pass
    <2>2. CASE UNCHANGED vars
      BY <1>0, <2>2, Stutters DEF Keeps, Follows, Watched
    <2> QED BY <1>0, <2>1, <2>2
  <1>2. /\ SupervisorInv' /\ UNCHANGED call
        /\ \A i \in Jobs : /\ ledger'.jobs[i].state = ledger.jobs[i].state
                           /\ Waits(i)' => Waits(i)
    <2>1. CASE ES!DeadlinePasses(j)
      <3> DEFINE row == [ledger.jobs[j] EXCEPT !.retryAt = "due"]
      <3>1. /\ ledger \in ES!LedgerType /\ ledger.jobs \in [Jobs -> ES!JobType]
            /\ \A c \in AllCalls : call[c].job \in Jobs
        BY <1>0, SupervisorTyped DEF SupervisorInv
      <3>2. /\ ledger.jobs[j].retryAt = "pending"
            /\ UNCHANGED <<call, launches, held, erased, crashes>>
        BY <2>1 DEF ES!DeadlinePasses
      <3>3. row \in ES!JobType /\ row.retryAt = "due" /\ row.state = ledger.jobs[j].state
        BY <3>1 DEF ES!JobType
      <3>4. ledger' = [ledger EXCEPT !.jobs = [ledger.jobs EXCEPT ![j] = row]]
        BY <2>1, <3>1 DEF ES!DeadlinePasses, ES!LedgerType
      <3> HIDE DEF row
      <3>5. /\ ledger'.jobs = [ledger.jobs EXCEPT ![j] = row]
            /\ ledger' \in ES!LedgerType
        BY <3>1, <3>3, <3>4 DEF ES!LedgerType
      <3>6. ledger'.jobs[j] = row /\ \A i \in Jobs \ {j} : ledger'.jobs[i] = ledger.jobs[i]
        BY <3>1, <3>5
      <3>7. j \in ReplaySafe /\ \A c \in AllCalls : call[c].pc # "idle" => call[c].job # j
        BY <1>0, <3>2 DEF SupervisorInv, Undated, Working
      <3>8. ES!TypeOK' /\ ES!SingleFlight'
        BY <1>0, <3>2, <3>5 DEF SupervisorInv, ES!TypeOK, ES!SingleFlight
      <3>9. Working' /\ Undated'
        BY <1>0, <3>1, <3>2, <3>6, <3>7 DEF SupervisorInv, Working, Undated
      <3>10. \A i \in Jobs : /\ ledger'.jobs[i].state = ledger.jobs[i].state
                             /\ Waits(i)' => Waits(i)
        BY <3>2, <3>3, <3>6 DEF Waits
      <3> QED BY <3>2, <3>8, <3>9, <3>10 DEF SupervisorInv
    <2>2. CASE UNCHANGED supervisor
      BY <1>0, <2>2, SupervisorStutters DEF Waits
    <2> QED BY <1>0, <2>1, <2>2
  <1>3. Handling' /\ Continuation'
    BY <1>0, <1>1, <1>2 DEF Handling, Continuation, Awaits
  <1>4. Finishing'
    BY <1>0, <1>1, <1>2, OneCurrent DEF Finishing
  <1>5. Watched'
    BY <1>0, <1>1, <1>2, NothingType, WatchedKept
  <1> QED BY <1>1, <1>2, <1>3, <1>4, <1>5 DEF LInv

\* A change of the task writes the next action, and nothing of a job or a call.
LEMMA TransitionKeeps ==
    ASSUME SupervisorInv, ES!TaskTransition
    PROVE  SupervisorInv' /\ UNCHANGED call /\ ledger'.jobs = ledger.jobs
  <1>1. PICK action \in TaskActions : ledger' = [ledger EXCEPT !.nextAction = action]
    BY DEF ES!TaskTransition
  <1>2. ES!Holding({}) /\ UNCHANGED <<call, launches, crashes>>
    BY DEF ES!TaskTransition
  <1>3. ES!TypeOK /\ ledger \in ES!LedgerType
    BY DEF SupervisorInv, ES!TypeOK
  <1>4. action \in {"HUMAN_REQUIRED", "NEXT_STEP"}
    BY <1>1, LoopAssumption
  <1>5. ledger' \in ES!LedgerType /\ ledger'.jobs = ledger.jobs
    BY <1>1, <1>3, <1>4 DEF ES!LedgerType, ES!Actions, ES!Holds
  <1>6. held' \subseteq Jobs /\ erased' \in [Jobs -> Nat]
    BY <1>2, <1>3, HoldingTyped
  <1>7. ES!TypeOK'
    BY <1>2, <1>3, <1>5, <1>6 DEF ES!TypeOK
  <1>8. ES!SingleFlight' /\ Working' /\ Undated'
    BY <1>2, <1>5 DEF SupervisorInv, ES!SingleFlight, Working, Undated
  <1> QED BY <1>2, <1>5, <1>7, <1>8 DEF SupervisorInv

LEMMA TaskEndsStep ==
    ASSUME LInv, TaskEnds
    PROVE  LInv'
  <1>0. /\ RInv /\ SupervisorInv /\ Handling /\ Continuation /\ Finishing /\ Watched
        /\ next = Nothing /\ task = "active"
        /\ ES!TaskTransition /\ UNCHANGED vars
        /\ UNCHANGED <<handler, next, status, unwatched>>
    BY DEF TaskEnds, LInv, Quiet
  <1>1. RInv' /\ UNCHANGED <<table, file, current>>
    BY <1>0, Stutters
  <1>2. SupervisorInv' /\ UNCHANGED call /\ ledger'.jobs = ledger.jobs
    BY <1>0, TransitionKeeps
  <1>3. Handling' /\ Finishing'
    BY <1>0, <1>1, <1>2 DEF Handling, Finishing, Awaits
  <1>4. Continuation'
    BY <1>0, <1>1, <1>2, NothingType DEF Continuation, Awaits
  <1>5. Watched'
    BY <1>0, <1>1, <1>2 DEF Watched, WatchedAt, Waits, Follows
  <1> QED BY <1>1, <1>2, <1>3, <1>4, <1>5 DEF LInv

LEMMA ResumeTaskStep ==
    ASSUME LInv, ResumeTask
    PROVE  LInv'
  <1> DEFINE paused == {j \in Jobs : table[j].state = "PAUSED"}
  <1>0. /\ RInv /\ SupervisorInv /\ Handling /\ Continuation /\ Finishing /\ Watched
        /\ next = Nothing /\ task # "final" /\ (Resume(paused) \/ UNCHANGED vars)
        /\ ES!TaskTransition /\ UNCHANGED <<handler, next, status, unwatched>>
    BY DEF ResumeTask, LInv, Quiet
  <1>1. paused \in SUBSET Ids
    BY DEF Jobs
  <1> HIDE DEF paused
  <1>2. RInv' /\ Follows(file', table', unwatched') /\ Keeps({}) /\ UNCHANGED current
    <2>1. CASE Resume(paused)
      <3>1. UNCHANGED current
        BY <2>1 DEF Resume, pass
      <3> QED BY <1>0, <1>1, <2>1, <3>1, ResumeStep, ResumeKeeps DEF Watched
    <2>2. CASE UNCHANGED vars
      BY <1>0, <2>2, Stutters DEF Keeps, Follows, Watched
    <2> QED BY <1>0, <2>1, <2>2
  <1>3. SupervisorInv' /\ UNCHANGED call /\ ledger'.jobs = ledger.jobs
    BY <1>0, TransitionKeeps
  <1>4. Handling' /\ Finishing'
    BY <1>0, <1>2, <1>3 DEF Handling, Finishing, Awaits
  <1>5. Continuation'
    BY <1>0, <1>2, <1>3, NothingType DEF Continuation, Awaits
  <1>6. \A i \in Jobs : Waits(i)' => Waits(i)
    BY <1>3 DEF Waits
  <1>7. Watched'
    BY <1>0, <1>2, <1>6, NothingType, WatchedKept
  <1> QED BY <1>2, <1>3, <1>4, <1>5, <1>7 DEF LInv

LEMMA TaskTransitionStep ==
    ASSUME LInv, TaskTransition
    PROVE  LInv'
  <1>0. /\ RInv /\ SupervisorInv /\ Handling /\ Continuation /\ Finishing /\ Watched
        /\ ES!TaskTransition /\ UNCHANGED vars
        /\ UNCHANGED <<handler, next, status, task, unwatched>>
    BY DEF TaskTransition, LInv, handling
  <1>1. RInv' /\ UNCHANGED <<table, file, current>>
    BY <1>0, Stutters
  <1>2. SupervisorInv' /\ UNCHANGED call /\ ledger'.jobs = ledger.jobs
    BY <1>0, TransitionKeeps
  <1>3. Handling' /\ Continuation' /\ Finishing'
    BY <1>0, <1>1, <1>2 DEF Handling, Continuation, Finishing, Awaits
  <1>4. Watched'
    BY <1>0, <1>1, <1>2 DEF Watched, WatchedAt, Waits, Follows
  <1> QED BY <1>1, <1>2, <1>3, <1>4 DEF LInv

\* A rejected job leaves no deadline, and no call is in flight for it.
LEMMA RejectOutputStep ==
    ASSUME LInv, NEW j \in Jobs, RejectOutput(j)
    PROVE  LInv'
  <1>0. /\ RInv /\ SupervisorInv /\ Handling /\ Continuation /\ Finishing /\ Watched
        /\ next = Nothing /\ ES!RejectOutput(j) /\ UNCHANGED vars
        /\ unwatched' = IF handler = "finishing" /\ j \in current
                        THEN unwatched \cup {j} ELSE unwatched
        /\ UNCHANGED <<handler, next, status, task>>
    BY DEF RejectOutput, LInv, Quiet
  <1>1. RInv' /\ UNCHANGED <<table, file, current>>
    BY <1>0, Stutters
  <1>2. /\ ledger \in ES!LedgerType /\ ledger.jobs \in [Jobs -> ES!JobType]
        /\ j \in ReplaySafe /\ ledger.jobs[j].state = "COMPLETED"
        /\ UNCHANGED <<call, launches, held, erased, crashes>>
        /\ \A c \in AllCalls : call[c].job \in Jobs
    BY <1>0, SupervisorTyped DEF SupervisorInv, ES!RejectOutput
  <1> DEFINE row == [ledger.jobs[j] EXCEPT !.state = "FAILED"]
  <1>3. row \in ES!JobType /\ row.state = "FAILED"
    BY <1>2 DEF ES!JobType
  <1>4. ledger' = [ledger EXCEPT !.jobs = [ledger.jobs EXCEPT ![j] = row]]
    BY <1>0, <1>2 DEF ES!RejectOutput, ES!LedgerType
  <1> HIDE DEF row
  <1>5. /\ ledger' \in ES!LedgerType
        /\ ledger'.jobs[j] = row /\ \A i \in Jobs \ {j} : ledger'.jobs[i] = ledger.jobs[i]
    BY <1>2, <1>3, <1>4 DEF ES!LedgerType
  <1>6. SupervisorInv'
    <2>1. \A c \in AllCalls : call[c].pc # "idle" => call[c].job # j
      BY <1>0, <1>2 DEF SupervisorInv, Working
    <2>2. ES!TypeOK' /\ ES!SingleFlight'
      BY <1>0, <1>2, <1>5 DEF SupervisorInv, ES!TypeOK, ES!SingleFlight
    <2>3. Working' /\ Undated'
      BY <1>0, <1>2, <1>5, <2>1 DEF SupervisorInv, Working, Undated
    <2> QED BY <2>2, <2>3 DEF SupervisorInv
  <1>7. Handling' /\ Continuation'
    BY <1>0, <1>1, <1>2, NothingType DEF Handling, Continuation, Awaits
  <1>8. Finishing'
    BY <1>0, <1>1, <1>5, OneCurrent DEF Finishing
  <1>9. \A i \in Jobs : Waits(i)' => Waits(i)
    BY <1>3, <1>5 DEF Waits
  <1>10. Watched'
    BY <1>0, <1>1, <1>9, NothingType DEF Watched, WatchedAt, Follows
  <1> QED BY <1>1, <1>6, <1>7, <1>8, <1>10 DEF LInv

LEMMA CrashStep ==
    ASSUME LInv, Crash
    PROVE  LInv'
  <1>0. /\ RInv /\ SupervisorInv /\ Continuation /\ Watched
        /\ ES!Crash /\ Restart /\ handler' = "idle" /\ next' = Nothing
        /\ unwatched' = IF next.do = "schedule" THEN unwatched \cup {next.job} ELSE unwatched
        /\ UNCHANGED <<status, task>>
    BY DEF Crash, LInv
  <1>1. RInv' /\ Follows(file', table', unwatched') /\ Keeps(unwatched) /\ current' = {}
    BY <1>0, RestartStep, RestartKeeps DEF Watched, Follows
  <1>2. /\ crashes < MaxRestarts /\ crashes' = crashes + 1
        /\ call' = [c \in AllCalls |-> ES!NoCall]
        /\ UNCHANGED <<ledger, launches, held, erased>>
    BY <1>0 DEF ES!Crash
  <1>3. call' \in [AllCalls -> ES!CallType] /\ \A c \in AllCalls : call'[c].pc = "idle"
    BY <1>2, NoCallType
  <1>4. SupervisorInv'
    <2>1. ES!TypeOK /\ crashes \in 0 .. MaxRestarts
      BY <1>0 DEF SupervisorInv, ES!TypeOK
    <2>2. crashes' \in 0 .. MaxRestarts
      BY <1>2, <2>1, LoopConstants
    <2>3. ES!TypeOK'
      BY <1>2, <1>3, <2>1, <2>2 DEF ES!TypeOK
    <2>4. ES!SingleFlight' /\ Working' /\ Undated'
      BY <1>0, <1>2, <1>3 DEF SupervisorInv, ES!SingleFlight, Working, Undated
    <2> QED BY <2>3, <2>4 DEF SupervisorInv
  <1>5. call'[WakeCall].pc = "idle"
    BY <1>3 DEF AllCalls
  <1>6. Handling' /\ Continuation' /\ Finishing'
    BY <1>0, <1>1, <1>5, NothingType DEF Handling, Continuation, Finishing
  <1>7. \A i \in Jobs : Waits(i)' => Waits(i)
    BY <1>2 DEF Waits
  <1>8. Watched'
    BY <1>0, <1>1, <1>7, WatchedKept
  <1> QED BY <1>1, <1>4, <1>6, <1>8 DEF LInv

(***************************************************************************)
(* The theorems about the loop                                             *)
(***************************************************************************)

LEMMA LoopInitInv == LoopInit => LInv
  <1> SUFFICES ASSUME LoopInit PROVE LInv
    OBVIOUS
  <1>1. /\ ES!Init /\ Init /\ handler = "idle" /\ next = Nothing
    BY DEF LoopInit
  <1>2. RInv /\ current = {} /\ Follows(file, table, unwatched)
    BY <1>1, InitInv DEF Init, Follows
  <1>3. /\ ledger.jobs = [j \in Jobs |-> [state |-> "NONE", attempts |-> 0, retryAt |-> "none"]]
        /\ ledger.nextAction = "COMPILE" /\ ledger.mode = "NORMAL" /\ ledger.provider = "none"
        /\ ledger.modelCalls = 0 /\ ledger.retries = 0
        /\ ledger = [jobs |-> ledger.jobs, nextAction |-> ledger.nextAction, mode |-> ledger.mode,
                     provider |-> ledger.provider, modelCalls |-> ledger.modelCalls,
                     retries |-> ledger.retries]
        /\ call = [c \in AllCalls |-> ES!NoCall]
        /\ launches = [j \in Jobs |-> 0] /\ held = {} /\ erased = launches
        /\ crashes = 0
    BY <1>1 DEF ES!Init
  <1>4. ledger.jobs \in [Jobs -> ES!JobType]
    BY <1>3, LoopConstants DEF ES!JobType
  <1>5. ledger \in ES!LedgerType
    BY <1>3, <1>4 DEF ES!LedgerType
  <1>6. call \in [AllCalls -> ES!CallType] /\ \A c \in AllCalls : call[c].pc = "idle"
    BY <1>3, NoCallType
  <1>7. ES!TypeOK
    BY <1>3, <1>5, <1>6, LoopConstants DEF ES!TypeOK
  <1>8. SupervisorInv
    BY <1>3, <1>6, <1>7, LoopConstants DEF SupervisorInv, ES!SingleFlight, Working, Undated
  <1>9. Handling /\ Continuation /\ Finishing
    BY <1>1, <1>2, <1>6, NothingType DEF Handling, Continuation, Finishing, AllCalls
  <1>10. Watched
    BY <1>2, <1>3 DEF Watched, WatchedAt, Waits
  <1> QED BY <1>2, <1>8, <1>9, <1>10 DEF LInv

LEMMA LoopStutters ==
    ASSUME LInv, UNCHANGED loopVars
    PROVE  LInv'
  <1>1. /\ UNCHANGED supervisor /\ UNCHANGED vars
        /\ UNCHANGED <<handler, next, status, task, unwatched>>
        /\ RInv /\ SupervisorInv
    BY DEF loopVars, handling, LInv
  <1>2. RInv' /\ UNCHANGED <<table, file, current>>
    BY <1>1, Stutters
  <1>3. SupervisorInv' /\ UNCHANGED <<ledger, call>>
    BY <1>1, SupervisorStutters
  <1> QED BY <1>1, <1>2, <1>3 DEF LInv, Handling, Continuation, Finishing, Watched, WatchedAt,
                                   Waits, Follows, Awaits

LEMMA LoopStepInv ==
    ASSUME LInv, LoopNext
    PROVE  LInv'
  <1>1. ASSUME NEW c \in UserCalls, NEW j \in Jobs, UserExecutes(c, j)
        PROVE  LInv'
    BY <1>1, UserExecutesStep
  <1>2. ASSUME NEW c \in AllCalls, CallStep(c)
        PROVE  LInv'
    BY <1>2, SucceedStep, StepOnStep, FailStep DEF CallStep
  <1>3. ASSUME NEW j \in Jobs,
               CallSchedule(j) \/ HandlerCalls(j) \/ Answer(j) \/ Clock(j) \/ RejectOutput(j)
        PROVE  LInv'
    BY <1>3, CallScheduleStep, HandlerCallsStep, AnswerStep, ClockStep, RejectOutputStep
  <1>4. CASE Timer \/ Finish \/ TaskEnds \/ ResumeTask \/ TaskTransition \/ Crash
    BY <1>4, TimerLoopStep, FinishStep, TaskEndsStep, ResumeTaskStep, TaskTransitionStep, CrashStep
  <1> QED BY <1>1, <1>2, <1>3, <1>4 DEF LoopNext

\* The inductive invariant behind the theorems about the loop.
THEOREM LoopInvariant == LoopSpec => []LInv
  <1>1. LInv /\ [LoopNext]_loopVars => LInv'
    BY LoopStepInv, LoopStutters
  <1> QED BY LoopInitInv, <1>1, PTL DEF LoopSpec

\* The parts keep their shape: a handler runs exactly while a wakeup is in its pass, and its
\* own call of execute() is in flight only while it awaits one (main-commander.ts:133-146).
THEOREM LoopTypeCorrect == LoopSpec => []LoopTypeOK
  <1>1. LInv => LoopTypeOK
    BY DEF LInv, RInv, SupervisorInv, Handling, Continuation, LoopTypeOK
  <1> QED BY LoopInvariant, <1>1, PTL

\* A job that waits for a deadline has its wakeup in recovery.json, whatever user calls,
\* wakeups, crashes and resumes come between the writes of the two files
\* (execution-supervisor.ts:94, recovery-scheduler.ts:26-39).
THEOREM DeadlineWatched == LoopSpec => []WaitingIsWatched
  <1>1. LInv => WaitingIsWatched
    <2> SUFFICES ASSUME LInv, NEW j \in Jobs \ unwatched, Quiet, task # "final",
                        ledger.jobs[j].state = "WAITING", ledger.jobs[j].retryAt # "none"
                 PROVE  table[j].state # "GONE" /\ file[j].state # "GONE"
      BY DEF WaitingIsWatched
    <2>1. Waits(j) /\ j \in Ids /\ next # [do |-> "schedule", job |-> j]
      BY NothingType DEF Waits, Quiet, Jobs
    <2> QED BY <2>1 DEF LInv, Watched, WatchedAt, Follows
  <1> QED BY LoopInvariant, <1>1, PTL

(***************************************************************************)
(* The loop and its components                                             *)
(***************************************************************************)

LEMMA SchedulerSteps ==
    ASSUME LoopNext
    PROVE  [Next]_vars
  <1>1. ASSUME NEW c \in UserCalls, NEW j \in Jobs, UserExecutes(c, j)
        PROVE  UNCHANGED vars
    BY <1>1 DEF UserExecutes
  <1>2. ASSUME NEW c \in AllCalls, CallStep(c)
        PROVE  UNCHANGED vars
    BY <1>2 DEF CallStep, Succeed, StepOn, Fail
  <1>3. ASSUME NEW j \in Jobs, CallSchedule(j) \/ Clock(j)
        PROVE  [Next]_vars
    BY <1>3 DEF CallSchedule, Clock, Next, Jobs
  <1>4. ASSUME NEW j \in Jobs, HandlerCalls(j)
        PROVE  UNCHANGED vars
    BY <1>4 DEF HandlerCalls
  <1>5. ASSUME NEW j \in Jobs, Answer(j)
        PROVE  Next
    <2> DEFINE late == ledger.jobs[j].retryAt = "due"
    <2>1. \/ Settle("done", FALSE) \/ Settle("pause", FALSE)
          \/ Settle("retry", FALSE) \/ Settle("retry", late)
      BY <1>5 DEF Answer
    <2>2. late \in BOOLEAN
      OBVIOUS
    <2> HIDE DEF late
    <2>3. Settles
      BY <2>1, <2>2 DEF Settles
    <2> QED BY <2>3 DEF Next
  <1>6. CASE Timer \/ Crash
    BY <1>6 DEF Timer, Crash, Next
  <1>7. CASE Finish
    <2>1. Settles
      BY <1>7 DEF Finish, Settles
    <2> QED BY <2>1 DEF Next
  <1>8. CASE TaskEnds \/ TaskTransition \/ \E j \in Jobs : RejectOutput(j)
    BY <1>8 DEF TaskEnds, TaskTransition, RejectOutput
  <1>9. CASE ResumeTask
    <2> DEFINE paused == {j \in Jobs : table[j].state = "PAUSED"}
    <2>1. Resume(paused) \/ UNCHANGED vars
      BY <1>9 DEF ResumeTask
    <2>2. paused \in SUBSET Ids
      BY DEF Jobs
    <2> HIDE DEF paused
    <2> QED BY <2>1, <2>2 DEF Next
  <1> QED BY <1>1, <1>2, <1>3, <1>4, <1>5, <1>6, <1>7, <1>8, <1>9 DEF LoopNext

LEMMA SupervisorSteps ==
    ASSUME LoopNext
    PROVE  [ES!Next]_supervisor
  <1>1. ASSUME NEW c \in UserCalls, NEW j \in Jobs, UserExecutes(c, j)
        PROVE  ES!Next
    BY <1>1 DEF UserExecutes, ES!Next, AllCalls
  <1>2. ASSUME NEW c \in AllCalls, CallStep(c)
        PROVE  ES!Next
    <2>1. ES!Step(c)
      BY <1>2 DEF CallStep, Succeed, StepOn, Fail, ES!Step
    <2> QED BY <2>1 DEF ES!Next
  <1>3. ASSUME NEW j \in Jobs, HandlerCalls(j)
        PROVE  [ES!Next]_supervisor
    <2>1. WakeCall \in AllCalls
      BY DEF AllCalls
    <2> QED BY <1>3, <2>1 DEF HandlerCalls, ES!Next
  <1>4. ASSUME NEW j \in Jobs, Clock(j)
        PROVE  [ES!Next]_supervisor
    BY <1>4 DEF Clock, ES!Next
  <1>5. ASSUME NEW j \in Jobs, CallSchedule(j) \/ Answer(j)
        PROVE  UNCHANGED supervisor
    BY <1>5 DEF CallSchedule, Answer
  <1>6. CASE \/ TaskEnds \/ ResumeTask \/ TaskTransition \/ Crash
             \/ \E j \in Jobs : RejectOutput(j)
    BY <1>6 DEF TaskEnds, ResumeTask, TaskTransition, RejectOutput, Crash, ES!Next
  <1>7. CASE Timer \/ Finish
    BY <1>7 DEF Timer, Finish
  <1> QED BY <1>1, <1>2, <1>3, <1>4, <1>5, <1>6, <1>7 DEF LoopNext

\* What the loop does to recovery.json is what the scheduler alone may do: the handler settles
\* once, with an answer the scheduler knows (the safety part of ImplementsScheduler).
THEOREM LoopImplementsScheduler == LoopSpec => Spec
  <1>1. [LoopNext]_loopVars => [Next]_vars
    BY SchedulerSteps DEF loopVars
  <1>2. LoopInit => Init
    BY DEF LoopInit
  <1> QED BY <1>1, <1>2, PTL DEF LoopSpec, Spec

\* And what it does to the task ledger is what the supervisor alone may do, with one more call:
\* the one the handler makes.
THEOREM LoopImplementsSupervisor == LoopSpec => ES!Spec
  <1>1. [LoopNext]_loopVars => [ES!Next]_supervisor
    BY SupervisorSteps DEF loopVars
  <1>2. LoopInit => ES!Init
    BY DEF LoopInit
  <1> QED BY <1>1, <1>2, PTL DEF LoopSpec, ES!Spec, ES!vars, supervisor

\* The ceiling of the handler calls holds in the loop too.
COROLLARY LoopRunsBounded == LoopSpec => []RunsBounded
  BY LoopImplementsScheduler, Bounded, PTL

\* And a wakeup that reported done does not fire again there.
COROLLARY LoopFiresOnce == LoopSpec => FiresOnce
  BY LoopImplementsScheduler, Once, PTL
=============================================================================
