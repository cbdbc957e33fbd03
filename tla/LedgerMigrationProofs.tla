----------------------- MODULE LedgerMigrationProofs -----------------------
(***************************************************************************)
(* Theorems about LedgerMigration, for any decisions, batches, faults,     *)
(* demotions and degraded starts.                                          *)
(*                                                                         *)
(* Sides says which side an append in progress may be writing, Progress    *)
(* what its commits have reached so far, and Kept where the acknowledged   *)
(* decisions are until the first demotion.                                 *)
(***************************************************************************)
EXTENDS LedgerMigration, TLAPS

RegType == [authority : {"json", "database"},
            phase : {"shadow-disabled", "shadow-comparing", "ready-to-promote",
                     "migrated", "diverged"},
            clean : 0 .. RequiredClean]

OpType == [pc : {"none", "json", "put", "publish", "compare"},
           batch : SUBSET Entries, todo : SUBSET Entries]

OnDatabase == op.pc \in {"put", "publish", "compare"}

Sides ==
    /\ SingleAuthority
    /\ reg.phase = "ready-to-promote" => reg.clean = RequiredClean
    /\ mode = "down" => op.pc = "none"
    /\ OnDatabase => mode = "active"
    /\ op.pc = "json" /\ mode = "active" => reg.authority = "json"
    /\ op.pc = "compare" => reg.authority = "json"

Progress ==
    /\ published \subseteq db
    /\ op.todo \subseteq op.batch
    /\ op.pc = "put" => op.batch \ op.todo \subseteq db
    /\ op.pc \in {"publish", "compare"} => op.batch \subseteq db
    /\ op.pc = "publish" => op.batch \ op.todo \subseteq published

Kept ==
    /\ mode # "down" => json \subseteq mem
    /\ OnDatabase /\ reg.authority = "json" => op.batch \subseteq json
    /\ demotes = 0 =>
        /\ reg.authority = "json" => acked \subseteq json
        /\ acked \subseteq db \cup json
        /\ mode = "active" /\ reg.authority = "database" => acked \subseteq db
        /\ mode = "active" /\ reg.phase = "ready-to-promote" => acked \subseteq db

IInv == TypeOK /\ Sides /\ Progress /\ Kept

\* A comparison never moves authority; a clean one keeps the phase "migrated"
\* apart from the others, an unclean one ends in "diverged".
LEMMA ComparisonResult ==
    ASSUME reg \in RegType, NEW clean \in BOOLEAN,
           reg.phase = "ready-to-promote" => reg.clean = RequiredClean
    PROVE  /\ AfterComparison(reg, clean) \in RegType
           /\ AfterComparison(reg, clean).authority = reg.authority
           /\ ~clean => AfterComparison(reg, clean).phase = "diverged"
           /\ clean => (AfterComparison(reg, clean).phase = "migrated" <=> reg.phase = "migrated")
           /\ AfterComparison(reg, clean).phase = "ready-to-promote" =>
                clean /\ AfterComparison(reg, clean).clean = RequiredClean
  <1>1. RequiredClean \in Nat
    BY MigrationAssumption
  <1> DEFINE n == Min2(reg.clean + 1, RequiredClean)
  <1>2. /\ n \in 0 .. RequiredClean
        /\ reg.clean + 1 >= RequiredClean => n = RequiredClean
    BY <1>1 DEF Min2, RegType
  <1>3. CASE ~clean
    <2>1. AfterComparison(reg, clean) = [reg EXCEPT !.phase = "diverged", !.clean = 0]
      BY <1>3 DEF AfterComparison
    <2>2. AfterComparison(reg, clean) \in RegType
      <3>1. \A z \in 0 .. RequiredClean : [reg EXCEPT !.phase = "diverged", !.clean = z] \in RegType
        BY DEF RegType
      <3>2. 0 \in 0 .. RequiredClean
        BY <1>1
      <3>3. [reg EXCEPT !.phase = "diverged", !.clean = 0] \in RegType
        BY <3>1, <3>2
      <3> QED BY <2>1, <3>3
    <2>3. AfterComparison(reg, clean).authority = reg.authority
      BY <2>1 DEF RegType
    <2>4. AfterComparison(reg, clean).phase = "diverged"
      BY <2>1 DEF RegType
    <2> QED BY <1>3, <2>2, <2>3, <2>4
  <1>4. CASE clean /\ reg.phase \in {"ready-to-promote", "migrated"}
    <2>1. AfterComparison(reg, clean) = [reg EXCEPT !.clean = n]
      BY <1>4 DEF AfterComparison
    <2>2. reg.phase = "ready-to-promote" => n = RequiredClean
      BY <1>1, <1>2
    <2> HIDE DEF n
    <2> QED BY <1>2, <1>4, <2>1, <2>2 DEF RegType
  <1>5. CASE clean /\ reg.phase \notin {"ready-to-promote", "migrated"}
    <2> DEFINE ph == IF reg.clean + 1 >= RequiredClean THEN "ready-to-promote"
                                                       ELSE "shadow-comparing"
    <2>1. AfterComparison(reg, clean) = [reg EXCEPT !.clean = n, !.phase = ph]
      BY <1>5 DEF AfterComparison
    <2>2. /\ ph \in {"ready-to-promote", "shadow-comparing"}
          /\ ph = "ready-to-promote" => n = RequiredClean
      BY <1>2
    <2> HIDE DEF n, ph
    <2> QED BY <1>2, <1>5, <2>1, <2>2 DEF RegType
  <1> QED BY <1>3, <1>4, <1>5

\* The record and the append in progress, taken out of the type invariant.
LEMMA Typed ==
    ASSUME TypeOK
    PROVE  /\ reg \in RegType /\ op \in OpType
           /\ demotes \in Nat /\ faults \in Nat /\ degraded \in Nat
  BY MigrationAssumption DEF TypeOK, RegType, OpType

\* The process starts: nothing is migrated and nothing is in progress.
LEMMA InitOK == Init => IInv
  <1> SUFFICES ASSUME Init PROVE IInv
    OBVIOUS
  <1>1. TypeOK
    BY MigrationAssumption DEF Init, TypeOK, NoOp
  <1>2. Sides
    BY DEF Init, Sides, SingleAuthority, OnDatabase, NoOp
  <1>3. Progress /\ Kept
    BY DEF Init, Progress, Kept, OnDatabase, NoOp
  <1> QED BY <1>1, <1>2, <1>3 DEF IInv

\* A restart, a shutdown or a start without the database touches neither the
\* record nor an acknowledged decision.
LEMMA BootStep ==
    ASSUME IInv, Boot \/ BootDies \/ BootDegraded \/ Stop
    PROVE  IInv'
  <1>1. TypeOK /\ Sides /\ Progress /\ Kept
    BY DEF IInv
  <1>2. reg \in RegType /\ op \in OpType /\ MaxFaults \in Nat /\ MaxDegraded \in Nat
    BY <1>1, Typed, MigrationAssumption
  <1>3. CASE Boot
    <2>1. reg' \in RegType
      BY <1>2, <1>3 DEF Boot, RegType
    <2>2. TypeOK'
      BY <1>1, <1>3, <2>1 DEF Boot, TypeOK, RegType, bounds
    <2>3. Sides'
      BY <1>1, <1>2, <1>3 DEF Boot, Sides, SingleAuthority, OnDatabase, RegType
    <2>4. Progress' /\ Kept'
      BY <1>1, <1>2, <1>3 DEF Boot, Sides, SingleAuthority, Progress, Kept, OnDatabase, bounds, RegType
    <2> QED BY <2>2, <2>3, <2>4 DEF IInv
  <1>4. CASE BootDies
    <2>1. PICK part \in SUBSET (json \ db) : db' = db \cup part
      BY <1>4 DEF BootDies
    <2>2. TypeOK'
      BY <1>1, <1>2, <1>4, <2>1 DEF BootDies, TypeOK, Fault
    <2>3. Sides' /\ Progress' /\ Kept'
      BY <1>1, <1>4, <2>1 DEF BootDies, Sides, SingleAuthority, Progress, Kept, OnDatabase, Fault
    <2> QED BY <2>2, <2>3 DEF IInv
  <1>5. CASE BootDegraded
    <2>1. TypeOK'
      BY <1>1, <1>2, <1>5 DEF BootDegraded, TypeOK
    <2>2. Sides' /\ Progress' /\ Kept'
      BY <1>1, <1>5 DEF BootDegraded, Sides, SingleAuthority, Progress, Kept, OnDatabase
    <2> QED BY <2>1, <2>2 DEF IInv
  <1>6. CASE Stop
    <2>1. TypeOK'
      BY <1>1, <1>2, <1>6 DEF Stop, TypeOK, Fault, NoOp
    <2>2. Sides' /\ Progress' /\ Kept'
      BY <1>1, <1>6 DEF Stop, Sides, SingleAuthority, Progress, Kept, OnDatabase, Fault, NoOp
    <2> QED BY <2>1, <2>2 DEF IInv
  <1> QED BY <1>3, <1>4, <1>5, <1>6

\* What an append leaves behind when it returns, and when it goes on.
LEMMA ReturnGoTo ==
    ASSUME TypeOK, NEW ok \in BOOLEAN
    PROVE  /\ Return(ok) => /\ op' \in OpType /\ op'.pc = "none" /\ op'.todo \subseteq op'.batch
                            /\ acked' \subseteq acked \cup op.batch /\ acked' \subseteq Entries
           /\ \A pc \in {"put", "publish", "compare"}, todo \in SUBSET op.batch :
                GoTo(pc, todo) => /\ op' \in OpType /\ op'.pc = pc
                                  /\ op'.batch = op.batch /\ op'.todo = todo
  <1>1. op \in OpType /\ acked \subseteq Entries
    BY Typed DEF TypeOK
  <1>2. ASSUME Return(ok)
        PROVE  /\ op' \in OpType /\ op'.pc = "none" /\ op'.todo \subseteq op'.batch
               /\ acked' \subseteq acked \cup op.batch /\ acked' \subseteq Entries
    BY <1>1, <1>2 DEF Return, NoOp, OpType
  <1>3. ASSUME NEW pc \in {"put", "publish", "compare"}, NEW todo \in SUBSET op.batch,
               GoTo(pc, todo)
        PROVE  op' \in OpType /\ op'.pc = pc /\ op'.batch = op.batch /\ op'.todo = todo
    BY <1>1, <1>3 DEF GoTo, OpType
  <1> QED BY <1>2, <1>3

\* An append begins on the side that has authority.
LEMMA AppendBegins ==
    ASSUME IInv, NEW B \in SUBSET Entries, Append(B)
    PROVE  IInv'
  <1>1. TypeOK /\ Sides /\ Progress /\ Kept
    BY DEF IInv
  <1>2. reg \in RegType /\ op \in OpType
    BY <1>1, Typed
  <1>3. op' \in OpType /\ op'.batch = B /\ op'.todo = B /\ op'.pc \in {"put", "json"}
    BY DEF Append, OpType
  <1>4. /\ op'.pc = "put" => mode = "active" /\ reg.authority = "database"
        /\ op'.pc = "json" /\ mode = "active" => reg.authority = "json"
    BY <1>2 DEF Append, RegType
  <1>5. TypeOK'
    BY <1>1, <1>3 DEF Append, TypeOK, OpType, bounds
  <1>6. Sides'
    BY <1>1, <1>2, <1>3, <1>4 DEF Append, At, Sides, SingleAuthority, OnDatabase, RegType
  <1>7. Progress' /\ Kept'
    BY <1>1, <1>2, <1>3, <1>4 DEF Append, Progress, Kept, OnDatabase, bounds, RegType
  <1> QED BY <1>5, <1>6, <1>7 DEF IInv

\* The legacy store refuses the batch, or holds it in the file, or holds it in
\* memory only and answers with an error.
LEMMA JsonStep ==
    ASSUME IInv, JsonAppend
    PROVE  IInv'
  <1>1. TypeOK /\ Sides /\ Progress /\ Kept
    BY DEF IInv
  <1>2. reg \in RegType /\ op \in OpType /\ MaxFaults \in Nat /\ op.pc = "json" /\ mode # "down"
        /\ UNCHANGED <<reg, db, published, mode, predates>>
    BY <1>1, Typed, MigrationAssumption DEF JsonAppend, At
  <1>3. CASE op.batch \cap mem # {}
    <2>1. Return(FALSE) /\ UNCHANGED <<json, mem, bounds>>
      BY <1>3 DEF JsonAppend
    <2>2. op' \in OpType /\ op'.pc = "none" /\ op'.todo \subseteq op'.batch /\ acked' = acked
      BY <1>1, <2>1, ReturnGoTo DEF Return
    <2>3. TypeOK'
      BY <1>1, <1>2, <2>1, <2>2 DEF TypeOK, OpType, bounds
    <2>4. Sides' /\ Progress' /\ Kept'
      BY <1>1, <1>2, <2>1, <2>2 DEF Sides, SingleAuthority, Progress, Kept, OnDatabase, bounds
    <2> QED BY <2>3, <2>4 DEF IInv
  <1>4. CASE mem' = mem \cup op.batch /\ json' = mem' /\ UNCHANGED bounds
             /\ mode = "degraded" /\ Return(TRUE)
    <2>1. /\ op' \in OpType /\ op'.pc = "none" /\ op'.todo \subseteq op'.batch
          /\ acked' \subseteq acked \cup op.batch /\ acked' \subseteq Entries
      BY <1>1, <1>4, ReturnGoTo
    <2>2. TypeOK'
      BY <1>1, <1>2, <1>4, <2>1 DEF TypeOK, OpType, bounds
    <2>3. Sides' /\ Progress'
      BY <1>1, <1>2, <1>4, <2>1 DEF Sides, SingleAuthority, Progress, OnDatabase
    <2>4. Kept'
      BY <1>1, <1>2, <1>4, <2>1 DEF Kept, OnDatabase, bounds
    <2> QED BY <2>2, <2>3, <2>4 DEF IInv
  <1>5. CASE mem' = mem \cup op.batch /\ json' = mem' /\ UNCHANGED bounds
             /\ mode # "degraded" /\ GoTo("put", op.batch) /\ UNCHANGED acked
    <2>1. op' \in OpType /\ op'.pc = "put" /\ op'.batch = op.batch /\ op'.todo = op.batch
      BY <1>1, <1>5, ReturnGoTo
    <2>2. mode = "active"
      BY <1>1, <1>2, <1>5 DEF TypeOK
    <2>3. TypeOK'
      BY <1>1, <1>2, <1>5, <2>1 DEF TypeOK, OpType, bounds
    <2>4. Sides' /\ Progress'
      BY <1>1, <1>2, <2>1, <2>2 DEF Sides, SingleAuthority, Progress, OnDatabase
    <2>5. Kept'
      BY <1>1, <1>2, <1>5, <2>1 DEF Kept, OnDatabase, bounds
    <2> QED BY <2>3, <2>4, <2>5 DEF IInv
  <1>6. CASE mem' = mem \cup op.batch /\ Fault /\ Return(FALSE) /\ UNCHANGED json
    <2>1. op' \in OpType /\ op'.pc = "none" /\ op'.todo \subseteq op'.batch /\ acked' = acked
      BY <1>1, <1>6, ReturnGoTo DEF Return
    <2>2. TypeOK'
      BY <1>1, <1>2, <1>6, <2>1 DEF TypeOK, OpType, Fault
    <2>3. Sides' /\ Progress' /\ Kept'
      BY <1>1, <1>2, <1>6, <2>1 DEF Sides, SingleAuthority, Progress, Kept, OnDatabase, Fault
    <2> QED BY <2>2, <2>3 DEF IInv
  <1> QED BY <1>3, <1>4, <1>5, <1>6 DEF JsonAppend

\* Rows are put one by one, then their events are published one by one.
LEMMA PutPublishStep ==
    ASSUME IInv, NEW e \in Entries, Put(e) \/ Publish(e)
    PROVE  IInv'
  <1>1. TypeOK /\ Sides /\ Progress /\ Kept
    BY DEF IInv
  <1>2. reg \in RegType /\ op \in OpType /\ mode = "active"
    BY <1>1, Typed DEF Sides, OnDatabase, Put, Publish, At
  <1>3. CASE Put(e)
    <2>1. op.pc = "put" /\ e \in op.todo /\ db' = db \cup {e}
          /\ UNCHANGED <<reg, published, json, mem, mode, acked, predates, bounds>>
      BY <1>3 DEF Put, At
    <2>2. CASE op.todo = {e} /\ GoTo("publish", op.batch)
      <3>1. op' \in OpType /\ op'.pc = "publish" /\ op'.batch = op.batch /\ op'.todo = op.batch
        BY <1>1, <2>2, ReturnGoTo
      <3>2. TypeOK'
        BY <1>1, <2>1, <3>1 DEF TypeOK, OpType, bounds
      <3>3. Sides' /\ Progress' /\ Kept'
        BY <1>1, <1>2, <2>1, <2>2, <3>1 DEF Sides, SingleAuthority, Progress, Kept, OnDatabase, bounds
      <3> QED BY <3>2, <3>3 DEF IInv
    <2>3. CASE op.todo # {e} /\ GoTo("put", op.todo \ {e})
      <3>1. op' \in OpType /\ op'.pc = "put" /\ op'.batch = op.batch /\ op'.todo = op.todo \ {e}
        BY <1>1, <2>3, ReturnGoTo DEF Progress
      <3>2. TypeOK'
        BY <1>1, <2>1, <3>1 DEF TypeOK, OpType, bounds
      <3>3. Sides' /\ Progress' /\ Kept'
        BY <1>1, <1>2, <2>1, <3>1 DEF Sides, SingleAuthority, Progress, Kept, OnDatabase, bounds
      <3> QED BY <3>2, <3>3 DEF IInv
    <2> QED BY <1>3, <2>2, <2>3 DEF Put
  <1>4. CASE Publish(e)
    <2>1. op.pc = "publish" /\ e \in op.todo /\ published' = published \cup {e} /\ op.batch \subseteq db
          /\ UNCHANGED <<reg, db, json, mem, mode, predates, bounds>>
      BY <1>1, <1>4 DEF Publish, At, Progress
    <2>2. published' \subseteq db
      BY <1>1, <2>1 DEF Progress
    <2>3. CASE op.todo # {e} /\ GoTo("publish", op.todo \ {e}) /\ UNCHANGED acked
      <3>1. op' \in OpType /\ op'.pc = "publish" /\ op'.batch = op.batch /\ op'.todo = op.todo \ {e}
        BY <1>1, <2>3, ReturnGoTo DEF Progress
      <3>2. TypeOK'
        BY <1>1, <2>1, <2>3, <3>1 DEF TypeOK, OpType, bounds
      <3>3. Sides' /\ Progress' /\ Kept'
        BY <1>1, <1>2, <2>1, <2>2, <2>3, <3>1 DEF Sides, SingleAuthority, Progress, Kept, OnDatabase, bounds
      <3> QED BY <3>2, <3>3 DEF IInv
    <2>4. CASE Comparing /\ GoTo("compare", {}) /\ UNCHANGED acked
      <3>1. op' \in OpType /\ op'.pc = "compare" /\ op'.batch = op.batch /\ op'.todo = {}
        <4>1. {} \in SUBSET op.batch /\ GoTo("compare", {})
          BY <2>4
        <4> QED BY <1>1, <4>1, ReturnGoTo, Zenon
      <3>2. reg.authority = "json"
        BY <1>1, <1>2, <2>4 DEF Comparing, Sides, SingleAuthority, RegType
      <3>3. TypeOK'
        BY <1>1, <2>1, <2>4, <3>1 DEF TypeOK, OpType, bounds
      <3>4. Sides' /\ Progress' /\ Kept'
        BY <1>1, <1>2, <2>1, <2>2, <2>4, <3>1, <3>2
        DEF Sides, SingleAuthority, Progress, Kept, OnDatabase, bounds
      <3> QED BY <3>3, <3>4 DEF IInv
    <2>5. CASE ~Comparing /\ Return(TRUE)
      <3>1. /\ op' \in OpType /\ op'.pc = "none" /\ op'.todo \subseteq op'.batch
            /\ acked' \subseteq acked \cup op.batch /\ acked' \subseteq Entries
        BY <1>1, <2>5, ReturnGoTo
      <3>2. reg.phase # "ready-to-promote"
        BY <2>5 DEF Comparing
      <3>3. TypeOK'
        BY <1>1, <2>1, <2>5, <3>1 DEF TypeOK, OpType, bounds
      <3>4. Sides' /\ Progress'
        BY <1>1, <1>2, <2>1, <2>2, <3>1 DEF Sides, SingleAuthority, Progress, OnDatabase
      <3>5. Kept'
        BY <1>1, <1>2, <2>1, <3>1, <3>2 DEF Kept, OnDatabase, bounds
      <3> QED BY <3>3, <3>4, <3>5 DEF IInv
    <2> QED BY <1>4, <2>3, <2>4, <2>5 DEF Publish
  <1> QED BY <1>3, <1>4

\* A record with the same authority that claims readiness only for equal sides.
LEMMA ComparedStep ==
    ASSUME IInv, mode = "active", NEW clean \in BOOLEAN, clean => mem = db,
           reg' = AfterComparison(reg, clean), SingleSide(reg') \/ reg.authority = "json",
           op' \in OpType, op'.pc = "none", op'.todo \subseteq op'.batch,
           acked' \subseteq acked \cup op.batch, acked' \subseteq Entries,
           op.pc \in {"put", "publish", "compare"} \/ acked' = acked,
           clean => op.pc = "compare" \/ acked' = acked,
           UNCHANGED <<db, published, json, mem, mode, predates, demotes, degraded>>,
           faults' \in 0 .. MaxFaults,
           acked' # acked => reg.authority = "json"
    PROVE  IInv'
  <1>1. TypeOK /\ Sides /\ Progress /\ Kept
    BY DEF IInv
  <1>2. reg \in RegType /\ (reg.phase = "ready-to-promote" => reg.clean = RequiredClean)
    BY <1>1, Typed DEF Sides
  <1>3. /\ reg' \in RegType /\ reg'.authority = reg.authority
        /\ ~clean => reg'.phase = "diverged"
        /\ clean => (reg'.phase = "migrated" <=> reg.phase = "migrated")
        /\ reg'.phase = "ready-to-promote" => clean /\ reg'.clean = RequiredClean
    BY <1>2, ComparisonResult
  <1>4. TypeOK'
    BY <1>1, <1>3 DEF TypeOK, RegType, OpType
  <1>5. SingleAuthority'
    <2>1. CASE clean
      BY <1>1, <1>3, <2>1 DEF Sides, SingleAuthority
    <2>2. CASE ~clean
      BY <1>3, <2>2 DEF SingleAuthority, SingleSide, RegType
    <2> QED BY <2>1, <2>2
  <1>6. Sides' /\ Progress'
    BY <1>1, <1>3, <1>5 DEF Sides, Progress, OnDatabase
  <1>7. reg.authority = "json" /\ demotes = 0 => acked' \subseteq json
    BY <1>1 DEF Kept, OnDatabase
  <1>8. reg'.phase = "ready-to-promote" /\ demotes = 0 => acked' \subseteq db
    <2> SUFFICES ASSUME reg'.phase = "ready-to-promote", demotes = 0 PROVE acked' \subseteq db
      OBVIOUS
    <2>1. clean /\ mem = db
      BY <1>3
    <2>2. reg.authority = "json"
      BY <1>1, <1>3, <1>5 DEF SingleAuthority, RegType
    <2> QED BY <1>1, <1>7, <2>1, <2>2 DEF Kept
  <1>9. Kept'
    BY <1>1, <1>3, <1>7, <1>8 DEF Kept, OnDatabase
  <1> QED BY <1>4, <1>6, <1>9 DEF IInv

\* The comparison that ends an append, and the one an operator asks for.
LEMMA CompareStep ==
    ASSUME IInv, CompareAppend \/ Compare
    PROVE  IInv'
  <1>1. TypeOK /\ Sides /\ Progress
    BY DEF IInv
  <1>2. faults \in 0 .. MaxFaults /\ op \in OpType /\ acked \subseteq Entries
    BY <1>1, Typed DEF TypeOK
  <1>3. CASE CompareAppend
    <2>1. /\ op.pc = "compare" /\ mode = "active" /\ reg.authority = "json"
          /\ reg' = AfterComparison(reg, mem = db) /\ Return(TRUE)
          /\ UNCHANGED <<db, published, json, mem, mode, predates, bounds>>
      BY <1>1, <1>3 DEF CompareAppend, At, Sides, OnDatabase
    <2>2. /\ op' \in OpType /\ op'.pc = "none" /\ op'.todo \subseteq op'.batch
          /\ acked' \subseteq acked \cup op.batch /\ acked' \subseteq Entries
      BY <1>1, <2>1, ReturnGoTo
    <2> QED BY <1>2, <2>1, <2>2, ComparedStep DEF bounds
  <1>4. CASE Compare
    <2>1. /\ mode = "active" /\ op.pc = "none" /\ SingleSide(reg')
          /\ reg' = AfterComparison(reg, mem = db)
          /\ UNCHANGED <<db, published, json, mem, mode, op, acked, predates, bounds>>
      BY <1>4 DEF Compare, Store, At
    <2>2. op.todo \subseteq op.batch
      BY <1>1 DEF Progress
    <2> QED BY <1>2, <2>1, <2>2, ComparedStep DEF bounds
  <1> QED BY <1>3, <1>4

\* A refused database write: absorbed with a divergence while JSON has
\* authority, an error for the caller otherwise.
LEMMA DatabaseFailsStep ==
    ASSUME IInv, DatabaseFails
    PROVE  IInv'
  <1>1. TypeOK /\ Sides /\ Progress /\ Kept
    BY DEF IInv
  <1>2. /\ op.pc \in {"put", "publish", "compare"} /\ mode = "active"
        /\ UNCHANGED <<db, published, json, mem, mode, predates, demotes, degraded>>
        /\ faults' \in 0 .. MaxFaults
    BY <1>1, MigrationAssumption DEF DatabaseFails, Fault, TypeOK
  <1>3. CASE reg.authority = "json" /\ reg' = AfterComparison(reg, FALSE) /\ Return(TRUE)
    <2>1. /\ op' \in OpType /\ op'.pc = "none" /\ op'.todo \subseteq op'.batch
          /\ acked' \subseteq acked \cup op.batch /\ acked' \subseteq Entries
      BY <1>1, <1>3, ReturnGoTo
    <2> QED BY <1>2, <1>3, <2>1, ComparedStep
  <1>4. CASE Return(FALSE) /\ UNCHANGED reg
    <2>1. op' \in OpType /\ op'.pc = "none" /\ op'.todo \subseteq op'.batch /\ acked' = acked
      BY <1>1, <1>4, ReturnGoTo DEF Return
    <2>2. TypeOK'
      BY <1>1, <1>2, <1>4, <2>1 DEF TypeOK, OpType
    <2>3. Sides' /\ Progress' /\ Kept'
      BY <1>1, <1>2, <1>4, <2>1 DEF Sides, SingleAuthority, Progress, Kept, OnDatabase
    <2> QED BY <2>2, <2>3 DEF IInv
  <1> QED BY <1>3, <1>4 DEF DatabaseFails

\* The calls of an operator that move authority, or repair.
LEMMA OperatorStep ==
    ASSUME IInv, BeginShadow \/ Promote \/ Demote \/ Reconcile
    PROVE  IInv'
  <1>1. TypeOK /\ Sides /\ Progress /\ Kept
    BY DEF IInv
  <1>2. reg \in RegType /\ op \in OpType /\ op.pc = "none" /\ mode = "active"
        /\ demotes \in Nat /\ MaxDemotes \in Nat
    BY <1>1, Typed, MigrationAssumption DEF BeginShadow, Promote, Demote, Reconcile, At
  <1>3. CASE BeginShadow
    <2>1. reg' \in RegType /\ reg' = [reg EXCEPT !.phase = "shadow-comparing"] /\ SingleSide(reg')
          /\ UNCHANGED <<db, published, json, mem, mode, op, acked, predates, bounds>>
      BY <1>2, <1>3 DEF BeginShadow, Store, RegType
    <2>2. reg.authority = "json" /\ reg'.authority = "json" /\ reg'.phase = "shadow-comparing"
      BY <1>2, <2>1 DEF SingleSide, RegType
    <2>3. TypeOK'
      BY <1>1, <2>1 DEF TypeOK, RegType, bounds
    <2>4. Sides' /\ Progress' /\ Kept'
      BY <1>1, <1>2, <2>1, <2>2 DEF Sides, SingleAuthority, Progress, Kept, OnDatabase, bounds
    <2> QED BY <2>3, <2>4 DEF IInv
  <1>4. CASE Promote
    <2>1. /\ reg.phase = "ready-to-promote"
          /\ \E made \in SUBSET Entries : predates' = db \cup mem \cup made
          /\ reg' = [reg EXCEPT !.authority = "database", !.phase = "migrated"]
          /\ UNCHANGED <<db, published, json, mem, mode, op, acked, bounds>>
      BY <1>4 DEF Promote, Store
    <2>2. reg' \in RegType /\ reg'.authority = "database" /\ reg'.phase = "migrated"
      BY <1>2, <2>1 DEF RegType
    <2>3. TypeOK'
      BY <1>1, <2>1, <2>2 DEF TypeOK, RegType, bounds
    <2>4. Sides' /\ Progress' /\ Kept'
      BY <1>1, <1>2, <2>1, <2>2 DEF Sides, SingleAuthority, Progress, Kept, OnDatabase, bounds
    <2> QED BY <2>3, <2>4 DEF IInv
  <1>5. CASE Demote
    <2>1. /\ reg' = [reg EXCEPT !.authority = "json", !.phase = "diverged", !.clean = 0]
          /\ demotes' = demotes + 1 /\ demotes < MaxDemotes
          /\ UNCHANGED <<db, published, json, mem, mode, op, acked, predates, faults, degraded>>
      BY <1>5 DEF Demote, Store
    <2>2. 0 \in 0 .. RequiredClean
      BY MigrationAssumption
    <2>3. reg' \in RegType /\ reg'.authority = "json" /\ reg'.phase = "diverged"
      BY <1>2, <2>1, <2>2 DEF RegType
    <2>4. demotes' \in 0 .. MaxDemotes /\ demotes' # 0
      BY <1>2, <2>1
    <2>5. TypeOK'
      BY <1>1, <2>1, <2>3, <2>4 DEF TypeOK, RegType
    <2>6. Sides' /\ Progress' /\ Kept'
      BY <1>1, <1>2, <2>1, <2>3, <2>4 DEF Sides, SingleAuthority, Progress, Kept, OnDatabase
    <2> QED BY <2>5, <2>6 DEF IInv
  <1>6. CASE Reconcile
    <2>1. published' = published \cup (db \ predates)
          /\ UNCHANGED <<reg, db, json, mem, mode, op, acked, predates, bounds>>
      BY <1>6 DEF Reconcile
    <2>2. TypeOK'
      BY <1>1, <2>1 DEF TypeOK, bounds
    <2>3. Sides' /\ Progress' /\ Kept'
      BY <1>1, <2>1 DEF Sides, SingleAuthority, Progress, Kept, OnDatabase, bounds
    <2> QED BY <2>2, <2>3 DEF IInv
  <1> QED BY <1>3, <1>4, <1>5, <1>6

\* Every step keeps the invariant.
LEMMA IInvStep == IInv /\ [Next]_vars => IInv'
  <1> SUFFICES ASSUME IInv, [Next]_vars PROVE IInv'
    OBVIOUS
  <1>1. CASE Boot \/ BootDies \/ BootDegraded \/ Stop
    BY <1>1, BootStep
  <1>2. ASSUME NEW B \in SUBSET Entries, Append(B) PROVE IInv'
    BY <1>2, AppendBegins
  <1>3. CASE AppendStep
    BY <1>3, JsonStep, PutPublishStep, CompareStep DEF AppendStep
  <1>4. CASE DatabaseFails
    BY <1>4, DatabaseFailsStep
  <1>5. CASE Compare
    BY <1>5, CompareStep
  <1>6. CASE BeginShadow \/ Promote \/ Demote \/ Reconcile
    BY <1>6, OperatorStep
  <1>7. CASE UNCHANGED vars
    BY <1>7 DEF vars, bounds, IInv, TypeOK, Sides, SingleAuthority, Progress, Kept, OnDatabase
  <1> QED BY <1>1, <1>2, <1>3, <1>4, <1>5, <1>6, <1>7 DEF Next

\* Every variable keeps its shape.
THEOREM TypeCorrect == Spec => []TypeOK
  <1>1. IInv => TypeOK
    BY DEF IInv
  <1> QED BY <1>1, InitOK, IInvStep, PTL DEF Spec

\* There is never a second authoritative side: the database owns the ledger
\* exactly in the phase "migrated".
THEOREM OneSide == Spec => []SingleAuthority
  <1>1. IInv => SingleAuthority
    BY DEF IInv, Sides
  <1> QED BY <1>1, InitOK, IInvStep, PTL DEF Spec

\* No event announces a decision the ledger does not durably hold.
THEOREM EventsBacked == Spec => []PublishedIsRecorded
  <1>1. IInv => PublishedIsRecorded
    BY DEF IInv, Progress, PublishedIsRecorded
  <1> QED BY <1>1, InitOK, IInvStep, PTL DEF Spec

\* Until the first demotion an acknowledged decision is in the list the owner
\* reads, whatever crashes, refused writes and degraded starts there were.
THEOREM NothingAckedIsLost == Spec => []AckedIsListed
  <1>1. IInv => AckedIsListed
    BY Typed DEF IInv, Kept, AckedIsListed, Listed, Authoritative, RegType
  <1> QED BY <1>1, InitOK, IInvStep, PTL DEF Spec

\* While the database is authoritative and in use, the JSON file is frozen.
THEOREM FileFrozen == Spec => JsonFrozen
  <1>1. IInv /\ [Next]_vars =>
            [reg.authority = "database" /\ mode # "degraded" => json' = json]_vars
    <2> SUFFICES ASSUME IInv, Next, reg.authority = "database", mode # "degraded"
                 PROVE  json' = json
      OBVIOUS
    <2>1. ~JsonAppend
      BY Typed DEF IInv, Sides, JsonAppend, At, TypeOK
    <2> QED BY <2>1
      DEF Next, AppendStep, Boot, BootDies, BootDegraded, Stop, Append, Put, Publish, CompareAppend,
          DatabaseFails, Compare, BeginShadow, Promote, Demote, Reconcile
  <1> QED BY <1>1, InitOK, IInvStep, PTL DEF Spec, JsonFrozen

\* Authority moves to the database only after a full run of agreements.
THEOREM PromotionsEarned == Spec => PromotionEarned
  <1>1. IInv /\ [Next]_vars =>
            [reg'.authority = "database" /\ reg.authority = "json" => reg.clean = RequiredClean]_vars
    <2> SUFFICES ASSUME IInv, Next, reg'.authority = "database", reg.authority = "json"
                 PROVE  reg.clean = RequiredClean
      OBVIOUS
    <2>1. reg \in RegType /\ (reg.phase = "ready-to-promote" => reg.clean = RequiredClean)
      BY Typed DEF IInv, Sides
    <2>2. \A clean \in BOOLEAN : AfterComparison(reg, clean).authority = "json"
      BY <2>1, ComparisonResult
    <2>3. CASE Promote
      BY <2>1, <2>3 DEF Promote
    <2>4. CASE ~Promote
      <3>1. reg'.authority = reg.authority
        BY <2>1, <2>2, <2>4
        DEF Next, AppendStep, Boot, BootDies, BootDegraded, Stop, Append, JsonAppend, Put, Publish,
            CompareAppend, DatabaseFails, Compare, BeginShadow, Demote, Reconcile, Store, RegType
      <3> QED BY <3>1
    <2> QED BY <2>3, <2>4
  <1> QED BY <1>1, InitOK, IInvStep, PTL DEF Spec, PromotionEarned

\* While the database has authority and is in use, whoever is answered has his row and his
\* event: the two commits of an append are done before it returns.
THEOREM AnsweredIsAnnounced == Spec => AckedIsAnnounced
  <1>1. IInv /\ [Next]_vars =>
            [reg.authority = "database" /\ mode = "active"
                => acked' \ acked \subseteq db' \cap published']_vars
    <2> SUFFICES ASSUME IInv, Next, reg.authority = "database", mode = "active"
                 PROVE  acked' \ acked \subseteq db' \cap published'
      OBVIOUS
    <2>1. op.pc # "json" /\ op.pc # "compare"
      BY DEF IInv, Sides
    <2>2. ASSUME NEW e \in Entries, Publish(e) PROVE acked' \ acked \subseteq db' \cap published'
      BY <2>2 DEF Publish, At, Return, GoTo, IInv, Progress
    <2>3. CASE DatabaseFails
      BY <2>3 DEF DatabaseFails, Return
    <2>4. CASE ~DatabaseFails /\ ~\E e \in Entries : Publish(e)
      <3>1. acked' = acked
        BY <2>1, <2>4
        DEF Next, AppendStep, Boot, BootDies, BootDegraded, Stop, Append, JsonAppend, Put, CompareAppend,
            Compare, BeginShadow, Promote, Demote, Reconcile, At
      <3> QED BY <3>1
    <2> QED BY <2>2, <2>3, <2>4
  <1> QED BY <1>1, InitOK, IInvStep, PTL DEF Spec, AckedIsAnnounced
=============================================================================
