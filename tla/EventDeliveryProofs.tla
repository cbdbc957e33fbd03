------------------------ MODULE EventDeliveryProofs ------------------------
(***************************************************************************)
(* What EventDelivery guarantees for every number of subscribers, passes,  *)
(* rows, batch sizes, faults and recovery-tool calls.                      *)
(*                                                                         *)
(* Window is what type correctness rests on: the rows a pass still has to  *)
(* deliver lie right after its position and within the events it may still *)
(* take.  Backed is what the cursor rests on: every row up to the durable  *)
(* cursor, and up to the position of each pass, is accounted for, and a    *)
(* pass holds every row of its window that is not in quarantine.  Ordered, *)
(* Marked and FreshMarked say the same of what each subscriber completed,  *)
(* of the markers and of the replay flag.                                  *)
(***************************************************************************)
EXTENDS EventDelivery, TLAPS

Window ==
    \A p \in Passes : pass[p].pc = "awaiting" =>
        pass[p].todo \subseteq pass[p].pos + 1 .. pass[p].pos + pass[p].left

PassesBacked ==
    \A p \in Passes : pass[p].pc = "awaiting" =>
        /\ \A r \in 1 .. pass[p].pos : AccountedFor(r)
        /\ \A e \in pass[p].todo : \A r \in pass[p].pos + 1 .. e :
                r \in pass[p].todo \/ r \in quarantined

Backed == NoEventLost /\ PassesBacked

Row == 1 .. MaxEvents
PassType == [pc : {"idle", "awaiting"}, pos : 0 .. MaxEvents, todo : SUBSET Row,
             left : 0 .. Limit, fresh : BOOLEAN]
SeenType == [Subs -> SUBSET Row]

\* The arguments with which deliver() goes on, and what it leaves alone.
ContinueArgs(from, rest, left, saw) ==
    /\ from \in 0 .. MaxEvents
    /\ rest \subseteq Row
    /\ left \in 0 .. Limit
    /\ saw \in SeenType
    /\ rest \subseteq from + 1 .. from + left

(***************************************************************************)
(* Type correctness                                                        *)
(***************************************************************************)

\* journal.read() returns rows of the journal, after the position asked for and
\* no more than the pass may still take.
LEMMA RowsReadInWindow ==
    ASSUME head \in 0 .. MaxEvents, NEW after \in 0 .. MaxEvents, NEW left \in 0 .. Limit
    PROVE  /\ RowsRead(after, left) \subseteq Row
           /\ RowsRead(after, left) \subseteq after + 1 .. after + left
  <1>1. MaxEvents \in Nat /\ BatchSize \in Nat /\ Limit \in Nat
    BY DeliveryAssumption
  <1> QED BY <1>1 DEF RowsRead, Row

\* Adding a row to what some subscribers completed stays well-typed.
LEMMA SawByType ==
    ASSUME NEW saw \in SeenType, NEW S, NEW e \in Row
    PROVE  SawBy(saw, S, e) \in SeenType
  BY DEF SawBy, SeenType

\* The rest of a delivery loop, from well-typed arguments, changes the state in
\* a well-typed way and keeps every pass within its window.
LEMMA ContinueType ==
    ASSUME TypeOK, Window, NEW p \in Passes, NEW from, NEW rest, NEW left, NEW saw,
           NEW hasRow, ContinueArgs(from, rest, left, saw),
           Continue(p, from, rest, left, saw, hasRow)
    PROVE  /\ quarantined' \subseteq Row
           /\ failures' \in Nat
           /\ pass' \in [Passes -> PassType]
           /\ seen' \in SeenType
           /\ forwarded' \subseteq Row
           /\ faults' \in 0 .. MaxFaults
           /\ Window'
  <1> DEFINE rows == IF rest = {} THEN RowsRead(from, left) ELSE {}
             todo == IF rest = {} THEN rows \ damaged ELSE rest
  <1>0. /\ MaxEvents \in Nat /\ Limit \in Nat /\ MaxFaults \in Nat
        /\ from \in 0 .. MaxEvents /\ left \in 0 .. Limit
    BY DeliveryAssumption DEF ContinueArgs
  <1>1. rows \subseteq Row /\ rows \subseteq from + 1 .. from + left
    BY RowsReadInWindow, <1>0 DEF TypeOK
  <1>2. todo \subseteq Row /\ todo \subseteq from + 1 .. from + left
    BY <1>1 DEF ContinueArgs
  <1>3. quarantined' \subseteq Row
    BY <1>1 DEF Continue, TypeOK, Row
  <1>4. pass \in [Passes -> PassType]
    BY DEF TypeOK, PassType, Row
  <1>5. saw \in SeenType
    BY DEF ContinueArgs
  <1>6. Idle \in PassType /\ Idle.pc = "idle"
    BY <1>0 DEF Idle, PassType, Row
  <1>7. CASE /\ todo = {}
             /\ pass' = [pass EXCEPT ![p] = Idle]
             /\ seen' = saw
             /\ UNCHANGED <<failures, faults, forwarded>>
    <2>1. pass' \in [Passes -> PassType]
      BY <1>4, <1>6, <1>7
    <2>2. Window'
      BY <1>4, <1>6, <1>7 DEF Window
    <2> QED BY <1>3, <1>5, <1>7, <2>1, <2>2 DEF TypeOK, Row
  <1>8. ASSUME NEW e \in todo, HandlerAwaits(p, from, todo, left, saw, e)
        PROVE  /\ failures' \in Nat
               /\ pass' \in [Passes -> PassType]
               /\ seen' \in SeenType
               /\ forwarded' \subseteq Row
               /\ faults' \in 0 .. MaxFaults
               /\ Window'
    <2> DEFINE new == [pc |-> "awaiting", pos |-> from, todo |-> todo,
                       left |-> left, fresh |-> e \notin handled]
    <2> HIDE DEF todo
    <2>1. new \in PassType
      BY <1>0, <1>2 DEF PassType
    <2>2. pass' = [pass EXCEPT ![p] = new]
      BY <1>8 DEF HandlerAwaits
    <2>3. pass' \in [Passes -> PassType]
      BY <1>4, <2>1, <2>2
    <2>4. Window'
      <3> SUFFICES ASSUME NEW q \in Passes, pass'[q].pc = "awaiting"
                   PROVE  pass'[q].todo \subseteq pass'[q].pos + 1 .. pass'[q].pos + pass'[q].left
        BY DEF Window
      <3>1. CASE q = p
        BY <1>2, <1>4, <2>2, <3>1
      <3>2. CASE q # p
        BY <1>4, <2>2, <3>2 DEF Window
      <3> QED BY <3>1, <3>2
    <2>5. seen' \in SeenType
      BY <1>2, <1>5, <1>8, SawByType DEF HandlerAwaits
    <2>6. forwarded' \subseteq Row
      BY <1>2, <1>8 DEF HandlerAwaits, TypeOK, Row
    <2> QED BY <1>8, <2>3, <2>4, <2>5, <2>6 DEF HandlerAwaits, TypeOK
  <1>9. ASSUME NEW e \in todo, HandlerThrows(p, saw, e, hasRow)
        PROVE  /\ failures' \in Nat
               /\ pass' \in [Passes -> PassType]
               /\ seen' \in SeenType
               /\ forwarded' \subseteq Row
               /\ faults' \in 0 .. MaxFaults
               /\ Window'
    <2> HIDE DEF todo
    <2>1. pass' = [pass EXCEPT ![p] = Idle]
      BY <1>9 DEF HandlerThrows
    <2>2. pass' \in [Passes -> PassType] /\ Window'
      BY <1>4, <1>6, <2>1 DEF Window
    <2>3. seen' \in SeenType
      BY <1>2, <1>5, <1>9, SawByType DEF HandlerThrows
    <2>4. failures' \in Nat
      BY <1>0, <1>2, <1>9 DEF HandlerThrows, CountFailure, TypeOK, Row
    <2>5. faults' \in 0 .. MaxFaults
      BY <1>0, <1>9 DEF HandlerThrows, TypeOK
    <2> QED BY <1>9, <2>2, <2>3, <2>4, <2>5 DEF HandlerThrows, TypeOK, Row
  <1> QED BY <1>3, <1>7, <1>8, <1>9 DEF Continue

\* TypeOK together with Window is preserved by every step.
LEMMA TypeStep == TypeOK /\ Window /\ [Next]_vars => TypeOK' /\ Window'
  <1> SUFFICES ASSUME TypeOK, Window, [Next]_vars PROVE TypeOK' /\ Window'
    OBVIOUS
  <1>0. /\ MaxEvents \in Nat /\ Limit \in Nat /\ MaxFaults \in Nat /\ MaxTools \in Nat
        /\ NSubs \in Nat
    BY DeliveryAssumption
  <1>1. /\ pass \in [Passes -> PassType] /\ seen \in SeenType
        /\ Position \in 0 .. MaxEvents /\ head \in 0 .. MaxEvents
        /\ Idle \in PassType /\ Idle.pc = "idle"
    BY <1>0 DEF TypeOK, PassType, SeenType, Row, Position, Idle, NoRow
  <1>2. CASE Append
    BY <1>0, <1>2 DEF Append, TypeOK, Window, durable
  <1>3. ASSUME NEW r \in 1 .. MaxEvents, Damage(r) PROVE TypeOK' /\ Window'
    BY <1>0, <1>3 DEF Damage, TypeOK, Window, durable
  <1>4. ASSUME NEW p \in Passes, Pump(p) PROVE TypeOK' /\ Window'
    <2>1. ContinueArgs(Position, {}, Limit, seen)
      BY <1>0, <1>1 DEF ContinueArgs
    <2>2. Continue(p, Position, {}, Limit, seen, TRUE)
      BY <1>4 DEF Pump
    <2>3. /\ quarantined' \subseteq Row /\ failures' \in Nat /\ pass' \in [Passes -> PassType]
          /\ seen' \in SeenType /\ forwarded' \subseteq Row
          /\ faults' \in 0 .. MaxFaults /\ Window'
      BY <2>1, <2>2, ContinueType
    <2> QED BY <1>1, <1>4, <2>3 DEF Pump, TypeOK, PassType, SeenType, Row
  <1>5. ASSUME NEW p \in Passes, Resume(p) PROVE TypeOK' /\ Window'
    <2>1. PICK e \in pass[p].todo :
            /\ First(e, pass[p].todo)
            /\ handled' = handled \cup {e}
            /\ cursor' = IF cursor = NoRow THEN NoRow ELSE e
            /\ freshRuns' = Told(freshRuns, p, e)
            /\ Continue(p, e, pass[p].todo \ {e}, pass[p].left - 1,
                        SawBy(seen, Called, e), cursor # NoRow)
      BY <1>5 DEF Resume
    <2> DEFINE rest == pass[p].todo \ {e}
    <2>2. /\ e \in Row
          /\ pass[p].todo \subseteq Row /\ pass[p].pos \in 0 .. MaxEvents
          /\ pass[p].left \in 0 .. Limit
      BY <1>1, <2>1 DEF PassType
    <2>3. pass[p].todo \subseteq pass[p].pos + 1 .. pass[p].pos + pass[p].left
      BY <1>5 DEF Window, Resume
    <2>4. ContinueArgs(e, rest, pass[p].left - 1, SawBy(seen, Called, e))
      <3>1. pass[p].left - 1 \in 0 .. Limit
        BY <1>0, <2>1, <2>2, <2>3
      <3>2. rest \subseteq e + 1 .. e + (pass[p].left - 1)
        BY <1>0, <2>1, <2>2, <2>3 DEF First, Row
      <3>3. SawBy(seen, Called, e) \in SeenType
        BY <1>1, <2>2, SawByType
      <3>4. e \in 0 .. MaxEvents
        BY <1>0, <2>2 DEF Row
      <3> QED BY <2>2, <3>1, <3>2, <3>3, <3>4 DEF ContinueArgs
    <2>5. /\ quarantined' \subseteq Row /\ failures' \in Nat /\ pass' \in [Passes -> PassType]
          /\ seen' \in SeenType /\ forwarded' \subseteq Row
          /\ faults' \in 0 .. MaxFaults /\ Window'
      BY <2>1, <2>4, ContinueType
    <2>6. handled' \subseteq Row /\ cursor' \in {NoRow} \cup 0 .. MaxEvents
      BY <1>0, <2>1, <2>2 DEF TypeOK, Row
    <2>7. freshRuns' \in [Row -> Nat]
      BY <2>1, <2>2 DEF Told, TypeOK, Row
    <2> QED BY <1>5, <2>5, <2>6, <2>7 DEF Resume, TypeOK, PassType, SeenType, Row
  <1>6. ASSUME NEW p \in Passes, Reject(p) PROVE TypeOK' /\ Window'
    <2>3. failures' \in Nat
      BY <1>0, <1>6 DEF Reject, CountFailure, TypeOK
    <2>4. pass' \in [Passes -> PassType] /\ Window'
      BY <1>1, <1>6 DEF Reject, Window
    <2>5. faults' \in 0 .. MaxFaults
      BY <1>0, <1>6 DEF Reject, TypeOK
    <2> QED BY <1>6, <2>3, <2>4, <2>5 DEF Reject, TypeOK, PassType, Row
  <1>13. ASSUME NEW p \in Passes, NEW e \in pass[p].todo, Unrecorded(p, e)
         PROVE  /\ seen' \in SeenType
                /\ freshRuns' \in [Row -> Nat] /\ unrecorded' \in [Row -> Nat]
    <2>1. e \in Row
      BY <1>1 DEF PassType
    <2>2. seen' \in SeenType
      BY <1>1, <1>13, <2>1, SawByType DEF Unrecorded
    <2>3. freshRuns' \in [Row -> Nat] /\ unrecorded' \in [Row -> Nat]
      BY <1>13, <2>1 DEF Unrecorded, Told, TypeOK, Row
    <2> QED BY <2>2, <2>3
  <1>7. ASSUME NEW p \in Passes, RecordFails(p) PROVE TypeOK' /\ Window'
    <2>1. PICK e \in pass[p].todo : Unrecorded(p, e)
      BY <1>7 DEF RecordFails
    <2>2. seen' \in SeenType /\ freshRuns' \in [Row -> Nat] /\ unrecorded' \in [Row -> Nat]
      BY <1>13, <2>1
    <2>3. pass' \in [Passes -> PassType] /\ Window'
      BY <1>1, <1>7 DEF RecordFails, Window
    <2>4. faults' \in 0 .. MaxFaults
      BY <1>0, <1>7 DEF RecordFails, TypeOK
    <2> QED BY <1>7, <2>2, <2>3, <2>4 DEF RecordFails, TypeOK, PassType, SeenType, Row, durable
  <1>8. CASE Crash
    <2>2. seen' \in SeenType /\ freshRuns' \in [Row -> Nat] /\ unrecorded' \in [Row -> Nat]
      BY <1>1, <1>8, <1>13 DEF Crash, TypeOK, Row
    <2>3. pass' \in [Passes -> PassType] /\ Window'
      BY <1>1, <1>8 DEF Crash, Window
    <2>4. faults' \in 0 .. MaxFaults
      BY <1>0, <1>8 DEF Crash, TypeOK
    <2> QED BY <1>8, <2>2, <2>3, <2>4 DEF Crash, TypeOK, PassType, SeenType, Row, durable
  <1>9. ASSUME NEW n \in 0 .. MaxEvents, Seek(n) PROVE TypeOK' /\ Window'
    <2>1. Window'
      BY <1>1, <1>9 DEF Seek, Window
    <2>2. /\ cursor' \in {NoRow} \cup 0 .. MaxEvents /\ waived' \subseteq 1 .. MaxEvents
          /\ tools' \in 0 .. MaxTools
      BY <1>0, <1>1, <1>9 DEF Seek, TypeOK
    <2> QED BY <1>9, <2>1, <2>2 DEF Seek, TypeOK
  <1>10. ASSUME NEW r \in 1 .. MaxEvents, MarkHandled(r) PROVE TypeOK' /\ Window'
    <2>1. Window'
      BY <1>1, <1>10 DEF MarkHandled, Window
    <2>2. /\ cursor' \in {NoRow} \cup 0 .. MaxEvents /\ handled' \subseteq 1 .. MaxEvents
          /\ tools' \in 0 .. MaxTools
      BY <1>0, <1>1, <1>10 DEF MarkHandled, TypeOK
    <2> QED BY <1>10, <2>1, <2>2 DEF MarkHandled, TypeOK
  <1>11. CASE Reset
    BY <1>0, <1>11 DEF Reset, TypeOK, Window, NoRow
  <1>12. CASE UNCHANGED vars
    BY <1>12 DEF vars, durable, TypeOK, Window
  <1> QED BY <1>2, <1>3, <1>4, <1>5, <1>6, <1>7, <1>8, <1>9, <1>10, <1>11, <1>12 DEF Next, Tool

\* The journal, the cursor, the markers and the passes in flight keep their
\* shape, and no pass holds more rows than its limit allows.
THEOREM TypeCorrect == Spec => []TypeOK
  <1>1. Init => TypeOK /\ Window
    <2> SUFFICES ASSUME Init PROVE TypeOK /\ Window
      OBVIOUS
    <2>1. MaxEvents \in Nat /\ Limit \in Nat /\ MaxFaults \in Nat /\ MaxTools \in Nat
      BY DeliveryAssumption
    <2> QED BY <2>1 DEF Init, TypeOK, Window, Idle, NoRow
  <1>2. Spec => [](TypeOK /\ Window)
    BY <1>1, TypeStep, PTL DEF Spec
  <1> QED BY <1>2, PTL

(***************************************************************************)
(* No event is lost                                                        *)
(***************************************************************************)

\* Those whom pump() calls are subscribers.
LEMMA CalledAreSubs == Called \subseteq Subs
  BY DEF Called

\* What is accounted for stays so while quarantine, waivers and completions grow.
LEMMA AccountedForStays ==
    ASSUME quarantined \subseteq quarantined', waived \subseteq waived',
           \A s \in Subs : seen[s] \subseteq seen'[s],
           NEW r, AccountedFor(r)
    PROVE  AccountedFor(r)'
  BY CalledAreSubs DEF AccountedFor

\* A subscriber that completes a row keeps what it had completed.
LEMMA SawByGrows ==
    ASSUME NEW saw \in SeenType, NEW S, NEW e, NEW s \in Subs
    PROVE  /\ saw[s] \subseteq SawBy(saw, S, e)[s]
           /\ s \in S => e \in SawBy(saw, S, e)[s]
  BY DEF SawBy, SeenType

\* The rows read are contiguous: none below a row read is left out.
LEMMA RowsReadContiguous ==
    ASSUME head \in 0 .. MaxEvents, NEW after \in 0 .. MaxEvents, NEW left \in 0 .. Limit,
           NEW e \in RowsRead(after, left), NEW r \in after + 1 .. e
    PROVE  r \in RowsRead(after, left)
  <1>1. MaxEvents \in Nat /\ BatchSize \in Nat /\ Limit \in Nat
    BY DeliveryAssumption
  <1> QED BY <1>1 DEF RowsRead

\* The rest of a delivery loop that starts with every row up to `from` accounted
\* for, and holds or has set aside every row of its window, loses nothing.
LEMMA ContinueBacked ==
    ASSUME TypeOK, PassesBacked, NEW p \in Passes, NEW from, NEW rest, NEW left, NEW saw,
           NEW hasRow, ContinueArgs(from, rest, left, saw),
           Continue(p, from, rest, left, saw, hasRow), waived' = waived,
           \A s \in Subs : seen[s] \subseteq saw[s],
           \A r \in 1 .. from : \/ r \in quarantined \/ r \in waived
                                \/ \A s \in Called : r \in saw[s],
           \A e \in rest : \A r \in from + 1 .. e : r \in rest \/ r \in quarantined
    PROVE  /\ \A r : AccountedFor(r) => AccountedFor(r)'
           /\ \A r \in 1 .. from : AccountedFor(r)'
           /\ PassesBacked'
  <1> DEFINE rows == IF rest = {} THEN RowsRead(from, left) ELSE {}
             todo == IF rest = {} THEN rows \ damaged ELSE rest
  <1>1. quarantined' = quarantined \cup (rows \cap damaged)
    BY DEF Continue
  <1>2. saw \in SeenType /\ from \in 0 .. MaxEvents /\ left \in 0 .. Limit
    BY DEF ContinueArgs
  <1>3. \A s \in Subs : saw[s] \subseteq seen'[s]
    BY <1>2, SawByGrows DEF Continue, HandlerAwaits, HandlerThrows
  <1>4. \A r : AccountedFor(r) => AccountedFor(r)'
    BY <1>1, <1>3, AccountedForStays
  <1>5. \A r \in 1 .. from : AccountedFor(r)'
    BY <1>1, <1>3, CalledAreSubs DEF AccountedFor
  <1>6. \A e \in todo : \A r \in from + 1 .. e : r \in todo \/ r \in quarantined'
    <2> SUFFICES ASSUME NEW e \in todo, NEW r \in from + 1 .. e
                 PROVE  r \in todo \/ r \in quarantined'
      OBVIOUS
    <2>1. CASE rest = {}
      BY <1>1, <1>2, <2>1, RowsReadContiguous DEF TypeOK
    <2>2. CASE rest # {}
      BY <1>1, <2>2
    <2> QED BY <2>1, <2>2
  <1>7. pass \in [Passes -> PassType]
    BY DEF TypeOK, PassType, Row
  <1>8. \/ pass' = [pass EXCEPT ![p] = Idle]
        \/ \E e \in todo : pass' = [pass EXCEPT ![p] =
                [pc |-> "awaiting", pos |-> from, todo |-> todo,
                 left |-> left, fresh |-> e \notin handled]]
    BY DEF Continue, HandlerAwaits, HandlerThrows
  <1>9. PassesBacked'
    <2> HIDE DEF todo
    <2> SUFFICES ASSUME NEW q \in Passes, pass'[q].pc = "awaiting"
                 PROVE  /\ \A r \in 1 .. pass'[q].pos : AccountedFor(r)'
                        /\ \A e \in pass'[q].todo : \A r \in pass'[q].pos + 1 .. e :
                                r \in pass'[q].todo \/ r \in quarantined'
      BY DEF PassesBacked
    <2>1. CASE q # p
      <3>1. pass'[q] = pass[q]
        BY <1>7, <1>8, <2>1
      <3> QED BY <1>1, <1>4, <3>1 DEF PassesBacked
    <2>2. CASE q = p
      <3>1. pass'[q].pos = from /\ pass'[q].todo = todo
        BY <1>7, <1>8, <2>2 DEF Idle
      <3> QED BY <1>5, <1>6, <3>1
    <2> QED BY <2>1, <2>2
  <1> QED BY <1>4, <1>5, <1>9

\* A step that leaves cursor and passes alone, or ends passes, keeps Backed.
LEMMA BackedStays ==
    ASSUME TypeOK, Backed, quarantined \subseteq quarantined', waived \subseteq waived',
           \A s \in Subs : seen[s] \subseteq seen'[s],
           Position' = Position,
           \A q \in Passes : pass'[q] = pass[q] \/ pass'[q] = Idle
    PROVE  Backed'
  <1>1. NoEventLost'
    BY AccountedForStays DEF Backed, NoEventLost
  <1>2. PassesBacked'
    <2> SUFFICES ASSUME NEW q \in Passes, pass'[q].pc = "awaiting"
                 PROVE  /\ \A r \in 1 .. pass'[q].pos : AccountedFor(r)'
                        /\ \A e \in pass'[q].todo : \A r \in pass'[q].pos + 1 .. e :
                                r \in pass'[q].todo \/ r \in quarantined'
      BY DEF PassesBacked
    <2>1. pass'[q] = pass[q]
      BY DEF Idle
    <2> QED BY <2>1, AccountedForStays DEF Backed, PassesBacked
  <1> QED BY <1>1, <1>2 DEF Backed

\* Backed is preserved by every step when every subscriber is called.
LEMMA BackedStep ==
    ASSUME TypeOK, Window, Backed, [Next]_vars
    PROVE  Backed'
  <1>1. /\ pass \in [Passes -> PassType] /\ seen \in SeenType
        /\ MaxEvents \in Nat /\ Position \in 0 .. MaxEvents /\ Limit \in Nat
    BY DeliveryAssumption DEF TypeOK, PassType, SeenType, Row, Position, NoRow
  <1>2. CASE Append
    BY <1>2, BackedStays DEF Append, durable, Position
  <1>3. ASSUME NEW r \in 1 .. MaxEvents, Damage(r) PROVE Backed'
    BY <1>3, BackedStays DEF Damage, durable, Position
  <1>4. ASSUME NEW p \in Passes, Pump(p) PROVE Backed'
    <2>1. ContinueArgs(Position, {}, Limit, seen)
      BY <1>1 DEF ContinueArgs
    <2>2. Continue(p, Position, {}, Limit, seen, TRUE) /\ waived' = waived
      BY <1>4 DEF Pump
    <2>3. \A r \in 1 .. Position : \/ r \in quarantined \/ r \in waived
                                   \/ \A s \in Called : r \in seen[s]
      BY DEF Backed, NoEventLost, AccountedFor
    <2>4. PassesBacked' /\ \A r \in 1 .. Position : AccountedFor(r)'
      <3> DEFINE rest == {}
      <3>1. /\ \A s \in Subs : seen[s] \subseteq seen[s]
            /\ \A e \in rest : \A r \in Position + 1 .. e : r \in rest \/ r \in quarantined
        OBVIOUS
      <3>2. PassesBacked
        BY DEF Backed
      <3>3. ContinueArgs(Position, rest, Limit, seen)
            /\ Continue(p, Position, rest, Limit, seen, TRUE)
        BY <2>1, <2>2
      <3> HIDE DEF rest
      <3> QED BY <2>2, <2>3, <3>1, <3>2, <3>3, ContinueBacked
    <2>5. Position' = Position
      BY <1>1, <1>4 DEF Pump, Position, NoRow
    <2> QED BY <2>4, <2>5 DEF Backed, NoEventLost
  <1>5. ASSUME NEW p \in Passes, Resume(p) PROVE Backed'
    <2>1. PICK e \in pass[p].todo :
            /\ First(e, pass[p].todo)
            /\ cursor' = IF cursor = NoRow THEN NoRow ELSE e
            /\ Continue(p, e, pass[p].todo \ {e}, pass[p].left - 1,
                        SawBy(seen, Called, e), cursor # NoRow)
      BY <1>5 DEF Resume
    <2> DEFINE rest == pass[p].todo \ {e}
               saw  == SawBy(seen, Called, e)
    <2>2. /\ e \in Row
          /\ pass[p].todo \subseteq Row /\ pass[p].pos \in 0 .. MaxEvents
          /\ pass[p].left \in 0 .. Limit
          /\ pass[p].todo \subseteq pass[p].pos + 1 .. pass[p].pos + pass[p].left
      BY <1>1, <1>5, <2>1 DEF PassType, Window, Resume
    <2>3. ContinueArgs(e, rest, pass[p].left - 1, saw)
      <3>1. pass[p].left - 1 \in 0 .. Limit
        BY <1>1, <2>1, <2>2
      <3>2. rest \subseteq e + 1 .. e + (pass[p].left - 1)
        BY <1>1, <2>1, <2>2 DEF First, Row
      <3>3. saw \in SeenType
        BY <1>1, <2>2, SawByType
      <3>4. e \in 0 .. MaxEvents
        BY <1>1, <2>2 DEF Row
      <3> QED BY <2>2, <3>1, <3>2, <3>3, <3>4 DEF ContinueArgs
    <2>4. /\ \A s \in Subs : seen[s] \subseteq saw[s]
          /\ \A s \in Called : e \in saw[s]
      BY <1>1, SawByGrows, CalledAreSubs
    <2>5. /\ \A r \in 1 .. pass[p].pos : AccountedFor(r)
          /\ \A d \in pass[p].todo : \A r \in pass[p].pos + 1 .. d :
                r \in pass[p].todo \/ r \in quarantined
      BY <1>5 DEF Backed, PassesBacked, Resume
    <2>6. \A r \in 1 .. e : \/ r \in quarantined \/ r \in waived
                            \/ \A s \in Called : r \in saw[s]
      <3> SUFFICES ASSUME NEW r \in 1 .. e
                   PROVE  \/ r \in quarantined \/ r \in waived
                          \/ \A s \in Called : r \in saw[s]
        OBVIOUS
      <3> HIDE DEF saw
      <3>1. CASE r \in 1 .. pass[p].pos
        BY <2>4, <2>5, <3>1, CalledAreSubs DEF AccountedFor
      <3>2. CASE r \in pass[p].pos + 1 .. e /\ r # e
        <4>1. r \notin pass[p].todo
          BY <2>1, <2>2, <3>2 DEF First, Row
        <4> QED BY <2>1, <2>5, <3>2, <4>1
      <3>3. CASE r = e
        BY <2>4, <3>3
      <3> QED BY <2>2, <3>1, <3>2, <3>3 DEF Row
    <2>7. \A d \in rest : \A r \in e + 1 .. d : r \in rest \/ r \in quarantined
      BY <2>1, <2>2, <2>5 DEF Row
    <2>8. waived' = waived
      BY <1>5 DEF Resume
    <2>9. PassesBacked' /\ \A r \in 1 .. e : AccountedFor(r)'
      <3> HIDE DEF rest, saw
      <3>1. Continue(p, e, rest, pass[p].left - 1, saw, cursor # NoRow)
        BY <2>1 DEF rest, saw
      <3> QED BY <2>3, <2>4, <2>6, <2>7, <2>8, <3>1, ContinueBacked DEF Backed
    <2>10. Position' = 0 \/ Position' = e
      BY <2>1 DEF Position
    <2> QED BY <2>9, <2>10 DEF Backed, NoEventLost
  <1>6. ASSUME NEW p \in Passes, Reject(p) PROVE Backed'
    BY <1>1, <1>6, BackedStays DEF Reject, Position
  <1>7. ASSUME NEW p \in Passes, RecordFails(p) PROVE Backed'
    <2>1. \A s \in Subs : seen[s] \subseteq seen'[s]
      BY <1>1, <1>7, SawByGrows DEF RecordFails, Unrecorded
    <2> QED BY <1>1, <1>7, <2>1, BackedStays DEF RecordFails, durable, Position
  <1>8. CASE Crash
    <2>1. \A s \in Subs : seen[s] \subseteq seen'[s]
      BY <1>1, <1>8, SawByGrows DEF Crash, Unrecorded
    <2> QED BY <1>1, <1>8, <2>1, BackedStays DEF Crash, durable, Position
  <1>9. ASSUME NEW n \in 0 .. MaxEvents, Seek(n) PROVE Backed'
    <2>1. /\ waived' = waived \cup (Position + 1 .. n)
          /\ UNCHANGED <<quarantined, seen, pass>> /\ cursor' = n
      BY <1>9 DEF Seek
    <2>2. \A r : AccountedFor(r) => AccountedFor(r)'
      BY <2>1, AccountedForStays
    <2>3. Position' = n
      BY <1>1, <2>1 DEF Position, NoRow
    <2>4. \A r \in 1 .. n : r \in 1 .. Position \/ r \in waived'
      BY <1>1, <2>1
    <2>5. NoEventLost'
      BY <2>2, <2>3, <2>4 DEF Backed, NoEventLost, AccountedFor
    <2>6. PassesBacked'
      BY <2>1, <2>2 DEF Backed, PassesBacked
    <2> QED BY <2>5, <2>6 DEF Backed
  <1>10. ASSUME NEW r \in 1 .. MaxEvents, MarkHandled(r) PROVE Backed'
    <2>1. Position' = Position
      BY <1>1, <1>10 DEF MarkHandled, Position, NoRow
    <2> QED BY <1>10, <2>1, BackedStays DEF MarkHandled
  <1>11. CASE Reset
    <2>1. Position' = 0 /\ UNCHANGED <<quarantined, waived, seen, pass>>
      BY <1>11 DEF Reset, Position
    <2>2. \A r : AccountedFor(r) => AccountedFor(r)'
      BY <2>1, AccountedForStays
    <2>3. PassesBacked'
      BY <2>1, <2>2 DEF Backed, PassesBacked
    <2> QED BY <2>1, <2>3 DEF Backed, NoEventLost
  <1>12. CASE UNCHANGED vars
    BY <1>12, BackedStays DEF vars, durable, Position
  <1> QED BY <1>2, <1>3, <1>4, <1>5, <1>6, <1>7, <1>8, <1>9, <1>10, <1>11, <1>12 DEF Next, Tool

\* The durable cursor never passes a committed row that a called subscriber missed,
\* however many passes overlap, wherever the asynchronous subscribers stand, and
\* whatever crashes, failures, damaged rows and recovery-tool calls come between.
THEOREM NothingIsLost == Spec => []NoEventLost
  <1>1. Init => TypeOK /\ Window /\ Backed
    <2> SUFFICES ASSUME Init PROVE TypeOK /\ Window /\ Backed
      OBVIOUS
    <2>1. MaxEvents \in Nat /\ Limit \in Nat /\ MaxFaults \in Nat /\ MaxTools \in Nat
      BY DeliveryAssumption
    <2>2. TypeOK
      BY <2>1 DEF Init, TypeOK, Idle, NoRow
    <2>3. Window /\ PassesBacked
      BY DEF Init, Window, PassesBacked, Idle
    <2>4. NoEventLost
      BY DEF Init, NoEventLost, Position
    <2> QED BY <2>2, <2>3, <2>4 DEF Backed
  <1>2. TypeOK /\ Window /\ Backed /\ [Next]_vars => (TypeOK /\ Window /\ Backed)'
    BY TypeStep, BackedStep
  <1>3. TypeOK /\ Window /\ Backed => NoEventLost
    BY DEF Backed
  <1> QED BY <1>1, <1>2, <1>3, PTL DEF Spec

(***************************************************************************)
(* One pass at a time, until a recovery tool is used                       *)
(***************************************************************************)

SinglePass == \E q : Passes = {q}

\* Between two steps of a single pass the cursor stands where the pass stands.
Aligned == tools = 0 => \A p \in Passes : pass[p].pc = "awaiting" => cursor = pass[p].pos

\* What Continue leaves in the pass it is given.
LEMMA ContinuePass ==
    ASSUME TypeOK, NEW p \in Passes, NEW from, NEW rest, NEW left, NEW saw, NEW hasRow,
           Continue(p, from, rest, left, saw, hasRow)
    PROVE  pass'[p].pc = "awaiting" => pass'[p].pos = from
  <1>1. pass \in [Passes -> PassType]
    BY DEF TypeOK, PassType, Row
  <1>2. \/ pass' = [pass EXCEPT ![p] = Idle]
        \/ \E t, f : pass' = [pass EXCEPT ![p] =
                [pc |-> "awaiting", pos |-> from, todo |-> t, left |-> left, fresh |-> f]]
    BY DEF Continue, HandlerAwaits, HandlerThrows
  <1> QED BY <1>1, <1>2 DEF Idle

\* A step of a single pass keeps it aligned and moves the cursor forward only.
LEMMA AlignedStep ==
    ASSUME SinglePass, TypeOK, Window, Aligned, [Next]_vars
    PROVE  Aligned' /\ (tools' = 0 => Position' >= Position)
  <1>1. /\ pass \in [Passes -> PassType]
        /\ MaxEvents \in Nat /\ Limit \in Nat /\ Position \in 0 .. MaxEvents
        /\ cursor \in {NoRow} \cup 0 .. MaxEvents
    BY DeliveryAssumption DEF TypeOK, PassType, Row, Position, NoRow
  <1>2. PICK q : Passes = {q}
    BY DEF SinglePass
  <1>3. ASSUME NEW p \in Passes, Pump(p) PROVE Aligned' /\ (tools' = 0 => Position' >= Position)
    <2>1. cursor' = Position /\ Continue(p, Position, {}, Limit, seen, TRUE)
      BY <1>3 DEF Pump
    <2>2. pass'[p].pc = "awaiting" => pass'[p].pos = Position
      BY <2>1, ContinuePass
    <2> QED BY <1>1, <1>2, <2>1, <2>2 DEF Aligned, Position, NoRow
  <1>4. ASSUME NEW p \in Passes, Resume(p) PROVE Aligned' /\ (tools' = 0 => Position' >= Position)
    <2>1. PICK e \in pass[p].todo :
            /\ cursor' = IF cursor = NoRow THEN NoRow ELSE e
            /\ Continue(p, e, pass[p].todo \ {e}, pass[p].left - 1,
                        SawBy(seen, Called, e), cursor # NoRow)
      BY <1>4 DEF Resume
    <2>2. tools' = tools
      BY <1>4 DEF Resume
    <2>3. CASE tools # 0
      BY <2>2, <2>3 DEF Aligned
    <2>4. CASE tools = 0
      <3>1. cursor = pass[p].pos /\ pass[p].pos \in 0 .. MaxEvents
        BY <1>1, <1>4, <2>4 DEF Aligned, Resume, PassType
      <3>2. e \in Row /\ e > pass[p].pos
        BY <1>1, <1>4, <2>1 DEF Window, Resume, PassType, Row
      <3>3. cursor' = e
        BY <2>1, <3>1 DEF NoRow
      <3>4. pass'[p].pc = "awaiting" => pass'[p].pos = e
        BY <2>1, ContinuePass
      <3>5. Aligned'
        BY <1>2, <3>3, <3>4 DEF Aligned
      <3> QED BY <1>1, <3>1, <3>2, <3>3, <3>5 DEF Position, NoRow, Row
    <2> QED BY <2>3, <2>4
  <1>5. ASSUME cursor' = cursor, tools' = tools,
               \A p \in Passes : pass'[p] = pass[p] \/ pass'[p].pc = "idle"
        PROVE  Aligned' /\ (tools' = 0 => Position' >= Position)
    BY <1>1, <1>5 DEF Aligned, Position, NoRow
  <1>6. CASE Append \/ \E r \in 1 .. MaxEvents : Damage(r)
    BY <1>5, <1>6 DEF Append, Damage, durable
  <1>7. ASSUME NEW p \in Passes, Reject(p) \/ RecordFails(p)
        PROVE  Aligned' /\ (tools' = 0 => Position' >= Position)
    BY <1>1, <1>5, <1>7 DEF Reject, RecordFails, durable, Idle
  <1>8. CASE Crash
    BY <1>1, <1>5, <1>8 DEF Crash, durable, Idle
  <1>9. CASE Tool
    <2>1. tools \in Nat /\ tools' = tools + 1
      BY <1>9, DeliveryAssumption DEF Tool, Seek, MarkHandled, Reset, TypeOK
    <2> QED BY <2>1 DEF Aligned
  <1>10. CASE UNCHANGED vars
    BY <1>5, <1>10 DEF vars, durable
  <1> QED BY <1>3, <1>4, <1>6, <1>7, <1>8, <1>9, <1>10 DEF Next

\* While passes do not overlap and until somebody seeks or resets, the durable
\* cursor only moves forward: no crash and no failure makes it fall back.
THEOREM SinglePassMonotone == ASSUME SinglePass PROVE Spec => CursorMonotone
  <1>1. Init => TypeOK /\ Window /\ Aligned
    <2> SUFFICES ASSUME Init PROVE TypeOK /\ Window /\ Aligned
      OBVIOUS
    <2>1. MaxEvents \in Nat /\ Limit \in Nat /\ MaxFaults \in Nat /\ MaxTools \in Nat
      BY DeliveryAssumption
    <2> QED BY <2>1 DEF Init, TypeOK, Window, Aligned, Idle, NoRow
  <1>2. TypeOK /\ Window /\ Aligned /\ [Next]_vars => (TypeOK /\ Window /\ Aligned)'
    BY TypeStep, AlignedStep
  <1>3. TypeOK /\ Window /\ Aligned /\ [Next]_vars => [tools' = 0 => Position' >= Position]_vars
    BY AlignedStep
  <1> QED BY <1>1, <1>2, <1>3, PTL DEF Spec, CursorMonotone

(***************************************************************************)
(* What a pass holds                                                       *)
(***************************************************************************)

\* A pass holds every row of its window that is not in quarantine.
Dense ==
    \A p \in Passes : pass[p].pc = "awaiting" =>
        \A e \in pass[p].todo : \A r \in pass[p].pos + 1 .. e :
            r \in pass[p].todo \/ r \in quarantined

\* A pass that now waits for the first of the rows it holds.
Awaits(p, from, todo, left) ==
    \E e \in todo :
        /\ First(e, todo)
        /\ pass' = [pass EXCEPT ![p] = [pc |-> "awaiting", pos |-> from, todo |-> todo,
                                       left |-> left, fresh |-> e \notin handled]]

\* The rows a delivery loop goes on with: all of its window but the quarantined ones.
\* Only the first of them is shown to subscribers.
LEMMA ContinueRows ==
    ASSUME TypeOK, NEW p \in Passes, NEW from, NEW rest, NEW left, NEW saw, NEW hasRow,
           ContinueArgs(from, rest, left, saw), Continue(p, from, rest, left, saw, hasRow),
           \A e \in rest : \A r \in from + 1 .. e : r \in rest \/ r \in quarantined
    PROVE  /\ quarantined \subseteq quarantined'
           /\ \E todo \in SUBSET Row :
                /\ todo \subseteq from + 1 .. from + left
                /\ \A e \in todo : \A r \in from + 1 .. e : r \in todo \/ r \in quarantined'
                /\ pass' = [pass EXCEPT ![p] = Idle] \/ Awaits(p, from, todo, left)
                /\ \/ seen' = saw
                   \/ \E e \in todo : First(e, todo) /\ \E S : seen' = SawBy(saw, S, e)
  <1> DEFINE rows == IF rest = {} THEN RowsRead(from, left) ELSE {}
             todo == IF rest = {} THEN rows \ damaged ELSE rest
  <1>1. quarantined' = quarantined \cup (rows \cap damaged)
    BY DEF Continue
  <1>2. head \in 0 .. MaxEvents /\ from \in 0 .. MaxEvents /\ left \in 0 .. Limit
    BY DEF ContinueArgs, TypeOK
  <1>3. todo \in SUBSET Row /\ todo \subseteq from + 1 .. from + left
    BY <1>2, RowsReadInWindow DEF ContinueArgs
  <1>4. \A e \in todo : \A r \in from + 1 .. e : r \in todo \/ r \in quarantined'
    <2> SUFFICES ASSUME NEW e \in todo, NEW r \in from + 1 .. e
                 PROVE  r \in todo \/ r \in quarantined'
      OBVIOUS
    <2>1. CASE rest = {}
      BY <1>1, <1>2, <2>1, RowsReadContiguous
    <2>2. CASE rest # {}
      BY <1>1, <2>2
    <2> QED BY <2>1, <2>2
  <1>5. \/ pass' = [pass EXCEPT ![p] = Idle] /\ seen' = saw
        \/ \E e \in todo : /\ First(e, todo)
                           /\ \/ HandlerAwaits(p, from, todo, left, saw, e)
                              \/ HandlerThrows(p, saw, e, hasRow)
    BY DEF Continue
  <1> HIDE DEF todo
  <1>6. pass' = [pass EXCEPT ![p] = Idle] \/ Awaits(p, from, todo, left)
    BY <1>5 DEF HandlerAwaits, HandlerThrows, Awaits
  <1>7. seen' = saw \/ \E e \in todo : First(e, todo) /\ \E S : seen' = SawBy(saw, S, e)
    BY <1>5 DEF HandlerAwaits, HandlerThrows
  <1> QED BY <1>1, <1>3, <1>4, <1>6, <1>7

\* The row a pass waits for, and what is left for it afterwards.
LEMMA ResumeArgs ==
    ASSUME TypeOK, Window, Dense, NEW p \in Passes, pass[p].pc = "awaiting",
           NEW e \in pass[p].todo, First(e, pass[p].todo)
    PROVE  /\ e \in Row /\ pass[p].pos \in 0 .. MaxEvents /\ e > pass[p].pos
           /\ ContinueArgs(e, pass[p].todo \ {e}, pass[p].left - 1, SawBy(seen, Called, e))
           /\ \A d \in pass[p].todo \ {e} : \A r \in e + 1 .. d :
                  r \in pass[p].todo \ {e} \/ r \in quarantined
           /\ \A r \in pass[p].pos + 1 .. e - 1 : r \in quarantined
  <1>1. /\ pass \in [Passes -> PassType] /\ seen \in SeenType
        /\ MaxEvents \in Nat /\ Limit \in Nat
    BY DeliveryAssumption DEF TypeOK, PassType, SeenType, Row
  <1> DEFINE todo == pass[p].todo
             pos  == pass[p].pos
             left == pass[p].left
  <1>2. /\ e \in Row /\ todo \subseteq Row /\ pos \in 0 .. MaxEvents /\ left \in 0 .. Limit
        /\ todo \subseteq pos + 1 .. pos + left
    BY <1>1 DEF PassType, Window
  <1>3. \A d \in todo : \A r \in pos + 1 .. d : r \in todo \/ r \in quarantined
    BY DEF Dense
  <1>4. \A d \in todo : e <= d
    BY DEF First
  <1>5. SawBy(seen, Called, e) \in SeenType
    BY <1>1, <1>2, SawByType
  <1> HIDE DEF todo, pos, left
  <1>6. e \in pos + 1 .. pos + left
    BY <1>2 DEF todo
  <1>7. left - 1 \in 0 .. Limit /\ e \in 0 .. MaxEvents /\ e > pos
    BY <1>1, <1>2, <1>6 DEF Row
  <1>8. todo \ {e} \subseteq e + 1 .. e + (left - 1)
    BY <1>1, <1>2, <1>4, <1>6 DEF Row
  <1>9. \A d \in todo \ {e} : \A r \in e + 1 .. d : r \in todo \ {e} \/ r \in quarantined
    BY <1>2, <1>3, <1>6 DEF Row
  <1>10. \A r \in pos + 1 .. e - 1 : r \in quarantined
    <2>1. \A r \in pos + 1 .. e - 1 : r \in pos + 1 .. e /\ r < e
      BY <1>2 DEF Row
    <2>2. e \in todo
      BY DEF todo
    <2>3. \A r \in pos + 1 .. e - 1 : r \notin todo
      BY <1>2, <1>4, <2>1 DEF Row
    <2> QED BY <1>3, <2>1, <2>2, <2>3
  <1>11. ContinueArgs(e, todo \ {e}, left - 1, SawBy(seen, Called, e))
    BY <1>2, <1>5, <1>7, <1>8 DEF ContinueArgs
  <1> QED BY <1>2, <1>7, <1>9, <1>10, <1>11 DEF todo, pos, left

\* One segment of deliver(): it goes on from `from` with what is completed so far (saw),
\* and holds the readable rows of its window (todo).
Segment(p, from, todo, left, saw) ==
    /\ from \in 0 .. MaxEvents /\ todo \subseteq Row /\ todo \subseteq from + 1 .. from + left
    /\ \A e \in todo : \A r \in from + 1 .. e : r \in todo \/ r \in quarantined'
    /\ pass' = [pass EXCEPT ![p] = Idle] \/ Awaits(p, from, todo, left)
    /\ \/ seen' = saw
       \/ \E e \in todo : First(e, todo) /\ \E S : seen' = SawBy(saw, S, e)
    /\ saw \in SeenType /\ quarantined \subseteq quarantined' /\ UNCHANGED <<waived, tools>>

\* The first segment of a pass starts at the durable cursor.
Starts(from, saw) ==
    /\ from = Position /\ saw = seen
    /\ cursor' = Position /\ UNCHANGED <<handled, freshRuns, unrecorded>>

\* The next one starts by recording the row the pass waited for.
Records(p, from, saw) ==
    /\ pass[p].pc = "awaiting" /\ from \in pass[p].todo /\ First(from, pass[p].todo)
    /\ saw = SawBy(seen, Called, from)
    /\ cursor' = IF cursor = NoRow THEN NoRow ELSE from
    /\ handled' = handled \cup {from}
    /\ freshRuns' = Told(freshRuns, p, from) /\ unrecorded' = unrecorded

LEMMA LoopStep ==
    ASSUME TypeOK, Window, Dense, NEW p \in Passes, Pump(p) \/ Resume(p)
    PROVE  \E from, todo, left, saw : /\ Segment(p, from, todo, left, saw)
                                      /\ Starts(from, saw) \/ Records(p, from, saw)
  <1>1. ASSUME NEW from, NEW rest, NEW left, NEW saw, NEW hasRow,
               ContinueArgs(from, rest, left, saw), Continue(p, from, rest, left, saw, hasRow),
               \A e \in rest : \A r \in from + 1 .. e : r \in rest \/ r \in quarantined,
               UNCHANGED <<waived, tools>>
        PROVE  \E todo : Segment(p, from, todo, left, saw)
    <2>1. /\ quarantined \subseteq quarantined'
          /\ \E todo \in SUBSET Row :
                /\ todo \subseteq from + 1 .. from + left
                /\ \A e \in todo : \A r \in from + 1 .. e : r \in todo \/ r \in quarantined'
                /\ pass' = [pass EXCEPT ![p] = Idle] \/ Awaits(p, from, todo, left)
                /\ \/ seen' = saw
                   \/ \E e \in todo : First(e, todo) /\ \E S : seen' = SawBy(saw, S, e)
      BY <1>1, ContinueRows
    <2> QED BY <1>1, <2>1 DEF Segment, ContinueArgs
  <1>2. CASE Pump(p)
    <2> DEFINE rest == {}
    <2>1. /\ Continue(p, Position, rest, Limit, seen, TRUE)
          /\ cursor' = Position /\ UNCHANGED <<handled, freshRuns, unrecorded, waived, tools>>
      BY <1>2 DEF Pump
    <2>2. ContinueArgs(Position, rest, Limit, seen)
      <3>1. seen \in SeenType
        BY DEF TypeOK, SeenType, Row
      <3>2. Position \in 0 .. MaxEvents /\ Limit \in 0 .. Limit
        BY DeliveryAssumption DEF TypeOK, Position, NoRow
      <3> QED BY <3>1, <3>2 DEF ContinueArgs
    <2>3. \A e \in rest : \A r \in Position + 1 .. e : r \in rest \/ r \in quarantined
      OBVIOUS
    <2> HIDE DEF rest
    <2>4. \E todo : Segment(p, Position, todo, Limit, seen)
      BY <1>1, <2>1, <2>2, <2>3
    <2> QED BY <2>1, <2>4 DEF Starts
  <1>3. CASE Resume(p)
    <2>1. PICK e \in pass[p].todo :
            /\ First(e, pass[p].todo)
            /\ handled' = handled \cup {e}
            /\ cursor' = IF cursor = NoRow THEN NoRow ELSE e
            /\ freshRuns' = Told(freshRuns, p, e)
            /\ Continue(p, e, pass[p].todo \ {e}, pass[p].left - 1,
                        SawBy(seen, Called, e), cursor # NoRow)
      BY <1>3 DEF Resume
    <2> DEFINE rest == pass[p].todo \ {e}
               left == pass[p].left - 1
               saw  == SawBy(seen, Called, e)
    <2>2. /\ ContinueArgs(e, rest, left, saw) /\ Continue(p, e, rest, left, saw, cursor # NoRow)
          /\ \A d \in rest : \A r \in e + 1 .. d : r \in rest \/ r \in quarantined
      BY <1>3, <2>1, ResumeArgs DEF Resume
    <2>3. UNCHANGED <<waived, tools>> /\ Records(p, e, saw)
      BY <1>3, <2>1 DEF Resume, Records
    <2> HIDE DEF rest, left, saw
    <2>4. \E todo : Segment(p, e, todo, left, saw)
      BY <1>1, <2>2, <2>3
    <2> QED BY <2>3, <2>4
  <1> QED BY <1>2, <1>3

\* No step makes a pass leave out a readable row.
LEMMA DenseStep == ASSUME TypeOK, Window, Dense, [Next]_vars PROVE Dense'
  <1>1. pass \in [Passes -> PassType] /\ Position \in 0 .. MaxEvents /\ Limit \in Nat
    BY DeliveryAssumption DEF TypeOK, PassType, Row, Position, NoRow
  <1>2. ASSUME quarantined \subseteq quarantined',
               \A p \in Passes : pass'[p] = pass[p] \/ pass'[p] = Idle
        PROVE  Dense'
    BY <1>2 DEF Dense, Idle
  <1>3. ASSUME NEW p \in Passes, Pump(p) \/ Resume(p) PROVE Dense'
    <2>1. PICK from, todo, left, saw : Segment(p, from, todo, left, saw)
      BY <1>3, LoopStep
    <2>2. quarantined \subseteq quarantined'
      BY <2>1 DEF Segment
    <2>3. CASE pass' = [pass EXCEPT ![p] = Idle]
      BY <1>1, <1>2, <2>2, <2>3
    <2>4. CASE Awaits(p, from, todo, left)
      <3> SUFFICES ASSUME NEW q \in Passes, pass'[q].pc = "awaiting"
                   PROVE  \A e \in pass'[q].todo : \A r \in pass'[q].pos + 1 .. e :
                              r \in pass'[q].todo \/ r \in quarantined'
        BY DEF Dense
      <3>1. CASE q = p
        <4>1. pass'[p].todo = todo /\ pass'[p].pos = from
          BY <1>1, <2>4 DEF Awaits
        <4>2. \A e \in todo : \A r \in from + 1 .. e : r \in todo \/ r \in quarantined'
          BY <2>1 DEF Segment
        <4> QED BY <3>1, <4>1, <4>2
      <3>2. CASE q # p
        <4>1. pass'[q] = pass[q]
          BY <1>1, <2>4, <3>2 DEF Awaits
        <4> QED BY <2>2, <4>1 DEF Dense
      <3> QED BY <3>1, <3>2
    <2> QED BY <2>1, <2>3, <2>4 DEF Segment
  <1>6. CASE Append \/ Tool \/ \E r \in 1 .. MaxEvents : Damage(r)
    BY <1>2, <1>6 DEF Append, Damage, Tool, Seek, MarkHandled, Reset
  <1>7. ASSUME NEW p \in Passes, Reject(p) \/ RecordFails(p) PROVE Dense'
    BY <1>1, <1>2, <1>7 DEF Reject, RecordFails
  <1>8. CASE Crash
    BY <1>1, <1>2, <1>8 DEF Crash
  <1>9. CASE UNCHANGED vars
    BY <1>2, <1>9 DEF vars
  <1> QED BY <1>3, <1>6, <1>7, <1>8, <1>9 DEF Next

LEMMA InitDense == ASSUME Init PROVE TypeOK /\ Window /\ Dense /\ Aligned
  <1>1. MaxEvents \in Nat /\ Limit \in Nat /\ MaxFaults \in Nat /\ MaxTools \in Nat
    BY DeliveryAssumption
  <1> QED BY <1>1 DEF Init, TypeOK, Window, Dense, Aligned, Idle, NoRow

(***************************************************************************)
(* The order in which a subscriber meets the rows                          *)
(***************************************************************************)

\* With what each subscriber has completed (saw), nobody is ahead of a row owed to him.
Ordered(saw, Q, W) == \A s \in Called : \A r \in saw[s] : \A d \in 1 .. r : d \in saw[s] \cup Q \cup W

\* A row may be completed once every row before it is accounted for.
LEMMA SawInOrder ==
    ASSUME NEW saw \in SeenType, NEW Q, NEW W, Ordered(saw, Q, W), NEW S, NEW e \in Row,
           \A d \in 1 .. e - 1 : d \in Q \/ d \in W \/ \A s \in Called : d \in saw[s]
    PROVE  Ordered(SawBy(saw, S, e), Q, W)
  <1> SUFFICES ASSUME NEW s \in Called, NEW r \in SawBy(saw, S, e)[s], NEW d \in 1 .. r
               PROVE  d \in SawBy(saw, S, e)[s] \cup Q \cup W
    BY DEF Ordered
  <1>1. saw[s] \subseteq SawBy(saw, S, e)[s]
    BY SawByGrows, CalledAreSubs
  <1>2. CASE r \in saw[s]
    BY <1>1, <1>2 DEF Ordered
  <1>3. CASE r \notin saw[s]
    <2>1. r = e /\ SawBy(saw, S, e)[s] = saw[s] \cup {e}
      BY <1>3, CalledAreSubs DEF SawBy, SeenType
    <2>2. MaxEvents \in Nat
      BY DeliveryAssumption
    <2>3. d = e \/ d \in 1 .. e - 1
      BY <2>1, <2>2 DEF Row
    <2> QED BY <2>1, <2>3
  <1> QED BY <1>2, <1>3

\* The row a pass shows to subscribers comes when every earlier one is accounted for.
LEMMA OrderedStep ==
    ASSUME TypeOK, Window, Dense, Backed, InOrder, [Next]_vars PROVE InOrder'
  <1>0. /\ seen \in SeenType /\ Position \in 0 .. MaxEvents /\ MaxEvents \in Nat
        /\ pass \in [Passes -> PassType]
    BY DeliveryAssumption DEF TypeOK, SeenType, PassType, Row, Position, NoRow
  <1>1. ASSUME seen' = seen, quarantined \subseteq quarantined', waived \subseteq waived'
        PROVE  InOrder'
    BY <1>1 DEF InOrder
  <1>2. ASSUME NEW p \in Passes, pass[p].pc = "awaiting",
               NEW e \in pass[p].todo, First(e, pass[p].todo)
        PROVE  /\ e \in Row
               /\ \A d \in 1 .. e - 1 : \/ d \in quarantined \/ d \in waived
                                        \/ \A s \in Called : d \in seen[s]
    <2>1. /\ e \in Row /\ pass[p].pos \in 0 .. MaxEvents /\ e > pass[p].pos
          /\ \A r \in pass[p].pos + 1 .. e - 1 : r \in quarantined
      BY <1>2, ResumeArgs
    <2>2. \A d \in 1 .. pass[p].pos : AccountedFor(d)
      BY <1>2 DEF Backed, PassesBacked
    <2>3. \A d \in 1 .. e - 1 : d \in 1 .. pass[p].pos \/ d \in pass[p].pos + 1 .. e - 1
      BY <1>0, <2>1 DEF Row
    <2> QED BY <2>1, <2>2, <2>3 DEF AccountedFor
  <1>3. ASSUME NEW p \in Passes, pass[p].pc = "awaiting",
               NEW e \in pass[p].todo, First(e, pass[p].todo)
        PROVE  Ordered(SawBy(seen, Called, e), quarantined, waived)
    <2>1. Ordered(seen, quarantined, waived)
      BY DEF InOrder, Ordered
    <2> QED BY <1>0, <1>2, <1>3, <2>1, SawInOrder
  <1>4. ASSUME NEW p \in Passes, Pump(p) \/ Resume(p) PROVE InOrder'
    <2>1. PICK from, todo, left, saw : /\ Segment(p, from, todo, left, saw)
                                       /\ Starts(from, saw) \/ Records(p, from, saw)
      BY <1>4, LoopStep
    <2>2. /\ from \in 0 .. MaxEvents /\ todo \subseteq Row /\ saw \in SeenType
          /\ \A e \in todo : \A r \in from + 1 .. e : r \in todo \/ r \in quarantined'
          /\ quarantined \subseteq quarantined' /\ waived' = waived
      BY <2>1 DEF Segment
    <2>3. /\ Ordered(saw, quarantined, waived)
          /\ \A d \in 1 .. from : \/ d \in quarantined \/ d \in waived
                                  \/ \A s \in Called : d \in saw[s]
      <3>1. CASE Starts(from, saw)
        BY <3>1 DEF Starts, InOrder, Ordered, Backed, NoEventLost, AccountedFor
      <3>2. CASE Records(p, from, saw)
        <4>1. /\ pass[p].pc = "awaiting" /\ from \in pass[p].todo /\ First(from, pass[p].todo)
              /\ saw = SawBy(seen, Called, from)
          BY <3>2 DEF Records
        <4>2. /\ \A s \in Subs : seen[s] \subseteq saw[s]
              /\ \A s \in Called : from \in saw[s]
          BY <1>0, <4>1, SawByGrows, CalledAreSubs
        <4>3. \A d \in 1 .. from : d = from \/ d \in 1 .. from - 1
          BY <2>2
        <4>4. \A d \in 1 .. from - 1 : \/ d \in quarantined \/ d \in waived
                                       \/ \A s \in Called : d \in seen[s]
          BY <1>2, <4>1
        <4>5. Ordered(saw, quarantined, waived)
          BY <1>3, <4>1
        <4> QED BY <4>2, <4>3, <4>4, <4>5, CalledAreSubs
      <3> QED BY <2>1, <3>1, <3>2
    <2>4. Ordered(saw, quarantined', waived')
      BY <2>2, <2>3 DEF Ordered
    <2>5. ASSUME NEW e \in todo, First(e, todo)
          PROVE  \A d \in 1 .. e - 1 : \/ d \in quarantined' \/ d \in waived'
                                       \/ \A s \in Called : d \in saw[s]
      <3> SUFFICES ASSUME NEW d \in 1 .. e - 1
                   PROVE  d \in quarantined' \/ d \in waived' \/ \A s \in Called : d \in saw[s]
        OBVIOUS
      <3>1. CASE d \in 1 .. from
        BY <2>2, <2>3, <3>1
      <3>2. CASE d \in from + 1 .. e
        <4>1. d \notin todo
          BY <1>0, <2>2, <2>5 DEF First, Row
        <4> QED BY <2>2, <2>5, <3>2, <4>1
      <3> QED BY <1>0, <2>2, <2>5, <3>1, <3>2 DEF Row
    <2>6. seen' = saw \/ \E e \in todo : First(e, todo) /\ \E S : seen' = SawBy(saw, S, e)
      BY <2>1 DEF Segment
    <2>7. Ordered(seen', quarantined', waived')
      BY <2>2, <2>4, <2>5, <2>6, SawInOrder
    <2> QED BY <2>7 DEF Ordered, InOrder
  <1>5. ASSUME NEW p \in Passes, RecordFails(p) PROVE InOrder'
    <2>1. PICK e \in pass[p].todo : First(e, pass[p].todo) /\ seen' = SawBy(seen, Called, e)
      BY <1>5 DEF RecordFails, Unrecorded
    <2>2. Ordered(SawBy(seen, Called, e), quarantined, waived)
      BY <1>3, <1>5, <2>1 DEF RecordFails
    <2> QED BY <1>5, <2>1, <2>2 DEF RecordFails, Ordered, InOrder
  <1>6. CASE Crash
    <2>1. PICK p \in Passes :
            /\ pass[p].pc = "awaiting"
            /\ \/ UNCHANGED seen
               \/ \E e \in pass[p].todo :
                    First(e, pass[p].todo) /\ seen' = SawBy(seen, Called, e)
      BY <1>6 DEF Crash, Unrecorded
    <2>2. CASE UNCHANGED seen
      BY <1>1, <1>6, <2>2 DEF Crash
    <2>3. ASSUME NEW e \in pass[p].todo, First(e, pass[p].todo), seen' = SawBy(seen, Called, e)
          PROVE  InOrder'
      <3>1. Ordered(SawBy(seen, Called, e), quarantined, waived)
        BY <1>3, <2>1, <2>3
      <3> QED BY <1>6, <2>3, <3>1 DEF Crash, Ordered, InOrder
    <2> QED BY <2>1, <2>2, <2>3
  <1>7. CASE Append \/ Tool \/ \E r \in 1 .. MaxEvents : Damage(r)
    BY <1>1, <1>7 DEF Append, Damage, Tool, Seek, MarkHandled, Reset
  <1>8. ASSUME NEW p \in Passes, Reject(p) PROVE InOrder'
    BY <1>1, <1>8 DEF Reject
  <1>9. CASE UNCHANGED vars
    BY <1>1, <1>9 DEF vars
  <1> QED BY <1>4, <1>5, <1>6, <1>7, <1>8, <1>9 DEF Next

\* Subscribers meet the rows in commit order, whatever passes overlap and whatever crashes,
\* failures, damaged rows and recovery-tool calls come between, wherever the asynchronous
\* subscribers stand (event-bus-bridge.ts:127-150).
THEOREM MetInOrder == Spec => []InOrder
  <1>1. Init => TypeOK /\ Window /\ Dense /\ Backed /\ InOrder
    BY InitDense, CalledAreSubs DEF Init, Backed, PassesBacked, NoEventLost, Position, InOrder, Idle
  <1>2. TypeOK /\ Window /\ Dense /\ Backed /\ InOrder /\ [Next]_vars
            => (TypeOK /\ Window /\ Dense /\ Backed /\ InOrder)'
    BY TypeStep, DenseStep, BackedStep, OrderedStep
  <1> QED BY <1>1, <1>2, PTL DEF Spec

(***************************************************************************)
(* Markers and the replay flag, one pass at a time                         *)
(***************************************************************************)

\* Until a recovery tool is used, the markers are the readable rows up to the cursor.
Marked ==
    tools = 0 => /\ \A r \in handled : r <= Position
                 /\ \A r \in 1 .. Position : r \in handled \/ r \in quarantined

\* All but one of the runs announced as new went unrecorded, all of them while the row has
\* no marker; the row a pass will announce as new has no recorded such run.
FreshMarked ==
    /\ \A r \in Row : \/ freshRuns[r] <= unrecorded[r]
                      \/ freshRuns[r] <= 1 + unrecorded[r] /\ r \in handled
    /\ \A p \in Passes : pass[p].pc = "awaiting" /\ pass[p].fresh =>
          \A e \in pass[p].todo : First(e, pass[p].todo) => freshRuns[e] <= unrecorded[e]

LEMMA MarkedStep ==
    ASSUME SinglePass, TypeOK, Window, Dense, Aligned, Marked, [Next]_vars PROVE Marked'
  <1>0. Position \in 0 .. MaxEvents /\ MaxEvents \in Nat /\ handled \subseteq Row /\ tools \in Nat
    BY DeliveryAssumption DEF TypeOK, Row, Position, NoRow
  <1>1. ASSUME Position' = Position, handled' = handled, quarantined \subseteq quarantined',
               tools' = tools
        PROVE  Marked'
    BY <1>1 DEF Marked
  <1>2. ASSUME NEW p \in Passes, Pump(p) \/ Resume(p) PROVE Marked'
    <2>1. PICK from, todo, left, saw : /\ Segment(p, from, todo, left, saw)
                                       /\ Starts(from, saw) \/ Records(p, from, saw)
      BY <1>2, LoopStep
    <2>2. quarantined \subseteq quarantined' /\ tools' = tools
      BY <2>1 DEF Segment
    <2>3. CASE Starts(from, saw)
      <3>1. Position' = Position /\ handled' = handled
        BY <1>0, <2>3 DEF Starts, Position, NoRow
      <3> QED BY <1>1, <2>2, <3>1
    <2>4. CASE Records(p, from, saw) /\ tools = 0
      <3>1. /\ pass[p].pc = "awaiting" /\ from \in pass[p].todo /\ First(from, pass[p].todo)
            /\ cursor' = (IF cursor = NoRow THEN NoRow ELSE from)
            /\ handled' = handled \cup {from}
        BY <2>4 DEF Records
      <3>2. /\ from \in Row /\ pass[p].pos \in 0 .. MaxEvents /\ from > pass[p].pos
            /\ \A r \in pass[p].pos + 1 .. from - 1 : r \in quarantined
        BY <3>1, ResumeArgs
      <3>3. cursor = pass[p].pos
        BY <2>4, <3>1 DEF Aligned
      <3>4. Position = pass[p].pos /\ Position' = from
        BY <3>1, <3>2, <3>3 DEF Position, NoRow, Row
      <3>5. \A r \in handled' : r <= from
        <4>1. \A r \in handled : r \in Nat /\ r <= pass[p].pos
          BY <1>0, <2>4, <3>4 DEF Marked, Row
        <4>2. from \in Nat /\ pass[p].pos \in Nat
          BY <1>0, <3>2 DEF Row
        <4>3. \A r \in handled : r <= from
          BY <3>2, <4>1, <4>2
        <4> QED BY <3>1, <4>2, <4>3
      <3>6. \A r \in 1 .. from : r \in handled' \/ r \in quarantined'
        <4>1. \A r \in 1 .. from : \/ r \in 1 .. pass[p].pos \/ r = from
                                   \/ r \in pass[p].pos + 1 .. from - 1
          BY <1>0, <3>2 DEF Row
        <4> QED BY <2>2, <2>4, <3>1, <3>2, <3>4, <4>1 DEF Marked
      <3> QED BY <3>4, <3>5, <3>6 DEF Marked
    <2> QED BY <2>1, <2>2, <2>3, <2>4 DEF Marked
  <1>3. CASE Append \/ \E r \in 1 .. MaxEvents : Damage(r)
    BY <1>1, <1>3 DEF Append, Damage, durable, Position
  <1>4. CASE Tool
    <2>1. tools' = tools + 1
      BY <1>4 DEF Tool, Seek, MarkHandled, Reset
    <2> QED BY <1>0, <2>1 DEF Marked
  <1>5. ASSUME NEW p \in Passes, Reject(p) \/ RecordFails(p) PROVE Marked'
    BY <1>1, <1>5 DEF Reject, RecordFails, durable, Position
  <1>6. CASE Crash
    BY <1>1, <1>6 DEF Crash, durable, Position
  <1>7. CASE UNCHANGED vars
    BY <1>1, <1>7 DEF vars, durable, Position
  <1> QED BY <1>2, <1>3, <1>4, <1>5, <1>6, <1>7 DEF Next

\* "The cursor and the handled marker can never disagree about whether this event completed"
\* (event-consumer.ts:146-147): true until a recovery tool is used, and with one pass at a
\* time, through every crash, failure and damaged row.
THEOREM CursorAndMarkers == ASSUME SinglePass PROVE Spec => []CursorAgreesWithMarkers
  <1>1. Init => TypeOK /\ Window /\ Dense /\ Aligned /\ Marked
    BY InitDense DEF Init, Marked, Position
  <1>2. TypeOK /\ Window /\ Dense /\ Aligned /\ Marked /\ [Next]_vars
            => (TypeOK /\ Window /\ Dense /\ Aligned /\ Marked)'
    BY TypeStep, DenseStep, AlignedStep, MarkedStep
  <1>3. Marked => CursorAgreesWithMarkers
    BY DEF Marked, CursorAgreesWithMarkers
  <1> QED BY <1>1, <1>2, <1>3, PTL DEF Spec

LEMMA FreshStep ==
    ASSUME SinglePass, TypeOK, Window, Dense, FreshMarked, [Next]_vars PROVE FreshMarked'
  <1>0. pass \in [Passes -> PassType] /\ freshRuns \in [Row -> Nat] /\ unrecorded \in [Row -> Nat]
    BY DEF TypeOK, PassType, Row
  <1>1. ASSUME handled \subseteq handled', freshRuns' = freshRuns, unrecorded' = unrecorded,
               \A p \in Passes : pass'[p] = pass[p] \/ pass'[p] = Idle
        PROVE  FreshMarked'
    BY <1>1 DEF FreshMarked, Idle
  <1>2. ASSUME NEW p \in Passes, Pump(p) \/ Resume(p) PROVE FreshMarked'
    <2>1. PICK from, todo, left, saw : /\ Segment(p, from, todo, left, saw)
                                       /\ Starts(from, saw) \/ Records(p, from, saw)
      BY <1>2, LoopStep
    <2>2. /\ todo \subseteq Row /\ todo \subseteq from + 1 .. from + left /\ from \in 0 .. MaxEvents
          /\ pass' = [pass EXCEPT ![p] = Idle] \/ Awaits(p, from, todo, left)
      BY <2>1 DEF Segment
    <2>3. \A q \in Passes : q = p
      BY DEF SinglePass
    <2>4. /\ \A r \in Row : \/ freshRuns'[r] <= unrecorded'[r]
                            \/ freshRuns'[r] <= 1 + unrecorded'[r] /\ r \in handled'
          /\ \A r \in Row : r # from /\ r \notin handled => freshRuns'[r] <= unrecorded'[r]
      <3>1. CASE Starts(from, saw)
        BY <3>1 DEF Starts, FreshMarked
      <3>2. CASE Records(p, from, saw)
        <4>1. /\ pass[p].pc = "awaiting" /\ from \in pass[p].todo /\ First(from, pass[p].todo)
              /\ handled' = handled \cup {from}
              /\ freshRuns' = Told(freshRuns, p, from) /\ unrecorded' = unrecorded
          BY <3>2 DEF Records
        <4>2. CASE pass[p].fresh
          <5>0. freshRuns[from] <= unrecorded[from]
            BY <4>1, <4>2 DEF FreshMarked
          <5>1. freshRuns' = [freshRuns EXCEPT ![from] = @ + 1] /\ from \in handled'
            BY <4>1, <4>2 DEF Told
          <5> QED BY <1>0, <4>1, <5>0, <5>1 DEF FreshMarked
        <4>3. CASE ~pass[p].fresh
          BY <4>1, <4>3 DEF FreshMarked, Told
        <4> QED BY <4>2, <4>3
      <3> QED BY <2>1, <3>1, <3>2
    <2>5. \A q \in Passes : pass'[q].pc = "awaiting" /\ pass'[q].fresh =>
            \A e \in pass'[q].todo : First(e, pass'[q].todo) => freshRuns'[e] <= unrecorded'[e]
      <3>1. CASE pass' = [pass EXCEPT ![p] = Idle]
        BY <1>0, <2>3, <3>1 DEF Idle
      <3>2. CASE Awaits(p, from, todo, left)
        <4>1. PICK e \in todo :
                /\ First(e, todo)
                /\ pass'[p] = [pc |-> "awaiting", pos |-> from, todo |-> todo,
                               left |-> left, fresh |-> e \notin handled]
          BY <1>0, <3>2 DEF Awaits
        <4>2. pass'[p].todo = todo /\ pass'[p].fresh = (e \notin handled)
          BY <4>1
        <4>3. e \in Row /\ e # from
          BY <2>2
        <4>4. \A d \in todo : First(d, todo) => d = e
          BY <2>2, <4>1, <4>3, DeliveryAssumption DEF First, Row
        <4>5. pass'[p].fresh => freshRuns'[e] <= unrecorded'[e]
          BY <2>4, <4>2, <4>3
        <4> QED BY <2>3, <4>2, <4>4, <4>5
      <3> QED BY <2>2, <3>1, <3>2
    <2> QED BY <2>4, <2>5 DEF FreshMarked
  <1>3. CASE Append \/ \E r \in 1 .. MaxEvents : Damage(r)
    BY <1>1, <1>3 DEF Append, Damage, durable
  <1>4. CASE \/ \E n \in 0 .. MaxEvents : Seek(n)
             \/ \E r \in 1 .. MaxEvents : MarkHandled(r)
    BY <1>1, <1>4 DEF Seek, MarkHandled
  <1>5. CASE Reset
    <2>1. /\ freshRuns' = [r \in Row |-> 0] /\ unrecorded' = [r \in Row |-> 0]
          /\ pass' = pass
      BY <1>5 DEF Reset, Row
    <2>2. \A p \in Passes : pass[p].todo \subseteq Row
      BY <1>0 DEF PassType
    <2> QED BY <2>1, <2>2 DEF FreshMarked
  <1>6. ASSUME NEW p \in Passes, NEW e \in pass[p].todo, Unrecorded(p, e), handled' = handled,
               pass' = [q \in Passes |-> Idle] \/ pass' = [pass EXCEPT ![p] = Idle]
        PROVE  FreshMarked'
    <2>1. \A r \in Row : freshRuns'[r] - unrecorded'[r] = freshRuns[r] - unrecorded[r]
      BY <1>0, <1>6 DEF Unrecorded, Told, PassType
    <2>2. \A r \in Row : /\ freshRuns'[r] \in Int /\ unrecorded'[r] \in Int
                         /\ freshRuns[r] \in Int /\ unrecorded[r] \in Int
      BY <1>0, <1>6 DEF Unrecorded, Told, PassType
    <2>3. \A q \in Passes : pass'[q] = Idle
      BY <1>0, <1>6 DEF SinglePass
    <2> QED BY <1>6, <2>1, <2>2, <2>3 DEF FreshMarked, Idle
  <1>7. ASSUME NEW p \in Passes, Reject(p) \/ RecordFails(p) PROVE FreshMarked'
    <2>1. CASE Reject(p)
      BY <1>0, <1>1, <2>1 DEF Reject
    <2>2. CASE RecordFails(p)
      BY <1>6, <2>2 DEF RecordFails, durable
    <2> QED BY <1>7, <2>1, <2>2
  <1>9. CASE Crash
    <2>1. CASE UNCHANGED <<seen, freshRuns, unrecorded>>
      BY <1>0, <1>1, <1>9, <2>1 DEF Crash, durable
    <2>2. ASSUME NEW p \in Passes, NEW e \in pass[p].todo, Unrecorded(p, e) PROVE FreshMarked'
      BY <1>6, <1>9, <2>2 DEF Crash, durable
    <2> QED BY <1>9, <2>1, <2>2 DEF Crash
  <1>8. CASE UNCHANGED vars
    BY <1>1, <1>8 DEF vars, durable
  <1> QED BY <1>2, <1>3, <1>4, <1>5, <1>7, <1>8, <1>9 DEF Next, Tool

\* While passes do not overlap, a row is announced as new once more only after a completed run
\* announced so whose record was refused or lost in a crash (event-consumer.ts:130-157): no
\* other failure, seek or early marker repeats the announcement.
THEOREM FreshOnce == ASSUME SinglePass PROVE Spec => []FreshRunOnce
  <1>1. Init => TypeOK /\ Window /\ Dense /\ FreshMarked
    BY InitDense DEF Init, FreshMarked, Row, Idle
  <1>2. TypeOK /\ Window /\ Dense /\ FreshMarked /\ [Next]_vars
            => (TypeOK /\ Window /\ Dense /\ FreshMarked)'
    BY TypeStep, DenseStep, FreshStep
  <1>3. TypeOK /\ FreshMarked => FreshRunOnce
    <2> SUFFICES ASSUME TypeOK, FreshMarked, NEW r \in Row
                 PROVE  freshRuns[r] <= 1 + unrecorded[r]
      BY DEF FreshRunOnce, Row
    <2>1. freshRuns[r] \in Nat /\ unrecorded[r] \in Nat
      BY DEF TypeOK, Row
    <2> QED BY <2>1 DEF FreshMarked
  <1> QED BY <1>1, <1>2, <1>3, PTL DEF Spec

=============================================================================
