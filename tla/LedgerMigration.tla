-------------------------- MODULE LedgerMigration --------------------------
(***************************************************************************)
(* The migration of the decision ledger from its JSON file to the state    *)
(* database: the authority record (state-core/namespace-migration.ts), the *)
(* routed append with its shadow comparison (decision-ledger-migration.ts, *)
(* shadow-compare.ts), the legacy store (commander/                        *)
(* decision-ledger-store.ts) and the boot module (bootstrap/state-core.ts).*)
(*                                                                         *)
(* All of it is synchronous code, so one append never interleaves with     *)
(* another; but each step below is a commit of its own, and the process    *)
(* may die, or the database refuse a write, between any two of them.       *)
(* An entry is its id: the ledger never changes an entry.                  *)
(***************************************************************************)
EXTENDS Naturals, FiniteSets

CONSTANTS Entries,        \* decision ids
          Baseline,       \* those in the JSON file before the first migrating boot
          MaxBatch,       \* bound: entries of one appendAll
          RequiredClean,  \* comparisons before promotion (10 in the code)
          MaxFaults,      \* bound: crashes and refused writes
          MaxDemotes,     \* bound: demote calls
          MaxDegraded     \* bound: boots that cannot use the database

ASSUME MigrationAssumption ==
    /\ Baseline \subseteq Entries
    /\ {MaxBatch, RequiredClean, MaxFaults, MaxDemotes, MaxDegraded} \subseteq Nat

VARIABLES
    reg,        \* the durable migration record
    db,         \* decision-ledger rows of state_record (durable)
    published,  \* DECISION_RECORDED rows of event_journal (durable)
    json,       \* decision-ledger.json (durable)
    mem,        \* DecisionLedgerStore.entries (volatile)
    mode,       \* "down", "active" or "degraded"
    op,         \* the append in progress (volatile)
    acked,      \* history: entries whose append returned to its caller
    predates,   \* entries with createdAt before reg's promotedAt
    faults, demotes, degraded

vars == <<reg, db, published, json, mem, mode, op, acked, predates,
          faults, demotes, degraded>>
bounds == <<faults, demotes, degraded>>

NoOp == [pc |-> "none", batch |-> {}, todo |-> {}]

Min2(a, b) == IF a < b THEN a ELSE b

\* assertSingleAuthority(): what registry.write() accepts.
SingleSide(r) ==
    /\ r.phase = "migrated" => r.authority = "database"
    /\ r.authority = "database" => r.phase \in {"migrated", "ready-to-promote"}

\* The three phases in which appends write both sides.
Comparing == reg.phase \in {"shadow-comparing", "ready-to-promote", "diverged"}

\* Mutant: one agreement too few makes the namespace ready.
AfterComparisonEarly(r, clean) ==
    LET n == Min2(r.clean + 1, RequiredClean)
    IN  IF ~clean THEN [r EXCEPT !.phase = "diverged", !.clean = 0]
        ELSE [r EXCEPT !.clean = n, !.phase =
                IF r.phase = "migrated" THEN @
                ELSE IF r.clean + 2 >= RequiredClean THEN "ready-to-promote" ELSE @]

\* recordComparison(): consecutiveClean saturates here at RequiredClean.
AfterComparison(r, clean) ==
    LET n == Min2(r.clean + 1, RequiredClean)
    IN  IF ~clean THEN [r EXCEPT !.phase = "diverged", !.clean = 0]
        ELSE IF r.phase \in {"ready-to-promote", "migrated"} THEN [r EXCEPT !.clean = n]
        ELSE [r EXCEPT !.clean = n, !.phase =
                IF r.clean + 1 >= RequiredClean THEN "ready-to-promote"
                                                ELSE "shadow-comparing"]

Authoritative == IF reg.authority = "database" THEN db ELSE mem

\* What list() answers; a degraded boot routes it to the legacy store.
Listed == IF mode = "degraded" THEN mem ELSE Authoritative

Init ==
    /\ reg = [authority |-> "json", phase |-> "shadow-disabled", clean |-> 0]
    /\ db = {}
    /\ published = {}
    /\ json = Baseline
    /\ mem = {}
    /\ mode = "down"
    /\ op = NoOp
    /\ acked = Baseline
    /\ predates = {}
    /\ faults = 0
    /\ demotes = 0
    /\ degraded = 0

Fault == faults < MaxFaults /\ faults' = faults + 1 /\ UNCHANGED <<demotes, degraded>>

(***************************************************************************)
(* Boot                                                                    *)
(***************************************************************************)

\* Restore the legacy store, import it (one commit per entry), and begin the
\* shadow window if it never began.
Boot ==
    /\ mode = "down"
    /\ mode' = "active"
    /\ mem' = json
    /\ db' = db \cup json
    /\ reg' = IF reg.phase = "shadow-disabled" THEN [reg EXCEPT !.phase = "shadow-comparing"]
                                               ELSE reg
    /\ UNCHANGED <<published, json, op, acked, predates, bounds>>

\* The process dies after importing only some of the legacy entries.
BootDies ==
    /\ mode = "down"
    /\ Fault
    /\ \E part \in SUBSET (json \ db) : part # {} /\ db' = db \cup part
    /\ UNCHANGED <<reg, published, json, mem, mode, op, acked, predates>>

\* The database cannot be opened or is refused: the ledger is the JSON store.
BootDegraded ==
    /\ mode = "down"
    /\ degraded < MaxDegraded
    /\ degraded' = degraded + 1
    /\ mode' = "degraded"
    /\ mem' = json
    /\ UNCHANGED <<reg, db, published, json, op, acked, predates, faults, demotes>>

\* Exit or crash, also in the middle of an append.
Stop ==
    /\ mode # "down"
    /\ Fault
    /\ mode' = "down"
    /\ mem' = {}
    /\ op' = NoOp
    /\ UNCHANGED <<reg, db, published, json, acked, predates>>

(***************************************************************************)
(* One routed append, commit by commit                                     *)
(***************************************************************************)

At(pc) == mode # "down" /\ op.pc = pc

\* Mutant: the event is published before its row is put.
GoToPublishFirst(pc, todo) ==
    op' = [op EXCEPT !.pc = IF op.pc = "json" THEN "publish" ELSE pc, !.todo = todo]

GoTo(pc, todo) == op' = [op EXCEPT !.pc = pc, !.todo = todo]

Return(ok) ==
    /\ op' = NoOp
    /\ acked' = IF ok THEN acked \cup op.batch ELSE acked

\* append / appendAll: the first write goes to the authoritative side.
Append(B) ==
    /\ At("none")
    /\ op' = [pc |-> IF mode = "active" /\ reg.authority = "database" THEN "put" ELSE "json",
              batch |-> B, todo |-> B]
    /\ UNCHANGED <<reg, db, published, json, mem, mode, acked, predates, bounds>>

\* legacy.appendAll: refuses a known id, changes the map, replaces the file.
JsonAppend ==
    /\ At("json")
    /\ UNCHANGED <<reg, db, published, mode, predates>>
    /\ \/ /\ op.batch \cap mem # {}
          /\ Return(FALSE)
          /\ UNCHANGED <<json, mem, bounds>>
       \/ /\ op.batch \cap mem = {}
          /\ mem' = mem \cup op.batch
          /\ \/ /\ json' = mem'
                /\ IF mode = "degraded" THEN Return(TRUE)
                   ELSE GoTo("put", op.batch) /\ UNCHANGED acked
                /\ UNCHANGED bounds
             \/ /\ Fault                     \* writeJson throws after the map changed
                /\ Return(FALSE)
                /\ UNCHANGED json

\* putDatabase for one entry of the batch, a transaction of its own.
Put(e) ==
    /\ At("put")
    /\ e \in op.todo
    /\ db' = db \cup {e}
    /\ IF op.todo = {e} THEN GoTo("publish", op.batch) ELSE GoTo("put", op.todo \ {e})
    /\ UNCHANGED <<reg, published, json, mem, mode, acked, predates, bounds>>

\* publish for one entry: idempotent on the entry id.
Publish(e) ==
    /\ At("publish")
    /\ e \in op.todo
    /\ published' = published \cup {e}
    /\ IF op.todo # {e} THEN GoTo("publish", op.todo \ {e}) /\ UNCHANGED acked
       ELSE IF Comparing THEN GoTo("compare", {}) /\ UNCHANGED acked
       ELSE Return(TRUE)
    /\ UNCHANGED <<reg, db, json, mem, mode, predates, bounds>>

\* The comparison that closes a write of both sides.
CompareAppend ==
    /\ At("compare")
    /\ reg' = AfterComparison(reg, mem = db)
    /\ Return(TRUE)
    /\ UNCHANGED <<db, published, json, mem, mode, predates, bounds>>

\* Mutant: a refused event is a shadow divergence whichever side has authority.
DatabaseFailsAnswered ==
    /\ op.pc \in {"put", "publish", "compare"}
    /\ mode = "active"
    /\ Fault
    /\ \/ /\ op.pc = "publish"
          /\ reg' = AfterComparison(reg, FALSE)
          /\ Return(TRUE)
       \/ Return(FALSE) /\ UNCHANGED reg
    /\ UNCHANGED <<db, published, json, mem, mode, predates>>

\* The database refuses a write.  While JSON is authoritative a put or publish
\* is only a shadow write: it is recorded as a divergence and the caller is
\* answered; if even that record is refused, or the failing write was the
\* authoritative one or the comparison's, the error reaches the caller.
DatabaseFails ==
    /\ op.pc \in {"put", "publish", "compare"}
    /\ mode = "active"
    /\ Fault
    /\ \/ /\ reg.authority = "json"
          /\ op.pc # "compare"
          /\ reg' = AfterComparison(reg, FALSE)
          /\ Return(TRUE)
       \/ Return(FALSE) /\ UNCHANGED reg
    /\ UNCHANGED <<db, published, json, mem, mode, predates>>

(***************************************************************************)
(* Operator calls                                                          *)
(***************************************************************************)

\* registry.write throws AuthorityConflictError instead of storing a record
\* with two sides, so nothing changes then.
Store(r) == SingleSide(r) /\ reg' = r

\* A comparison without a write.
Compare ==
    /\ At("none") /\ mode = "active"
    /\ Store(AfterComparison(reg, mem = db))
    /\ UNCHANGED <<db, published, json, mem, mode, op, acked, predates, bounds>>

BeginShadow ==
    /\ At("none") /\ mode = "active"
    /\ reg.phase # "migrated"
    /\ Store([reg EXCEPT !.phase = "shadow-comparing"])
    /\ UNCHANGED <<db, published, json, mem, mode, op, acked, predates, bounds>>

\* Mutant: promotion does not ask for the phase ready-to-promote.
PromoteAnyPhase ==
    /\ At("none") /\ mode = "active"
    /\ Store([reg EXCEPT !.authority = "database", !.phase = "migrated"])
    /\ predates' = db \cup mem
    /\ UNCHANGED <<db, published, json, mem, mode, op, acked, bounds>>

\* Mutant: authority and phase change places.
PromoteSwapped ==
    /\ At("none") /\ mode = "active"
    /\ reg.phase = "ready-to-promote"
    /\ Store([reg EXCEPT !.authority = "migrated", !.phase = "database"])
    /\ predates' = db \cup mem
    /\ UNCHANGED <<db, published, json, mem, mode, op, acked, bounds>>

\* What is recorded so far has a createdAt before the new promotedAt, and so may have
\* an entry that its caller made but has not appended yet.
Promote ==
    /\ At("none") /\ mode = "active"
    /\ reg.phase = "ready-to-promote"
    /\ Store([reg EXCEPT !.authority = "database", !.phase = "migrated"])
    /\ \E made \in SUBSET Entries : predates' = db \cup mem \cup made
    /\ UNCHANGED <<db, published, json, mem, mode, op, acked, bounds>>

Demote ==
    /\ At("none") /\ mode = "active"
    /\ demotes < MaxDemotes
    /\ demotes' = demotes + 1
    /\ Store([reg EXCEPT !.authority = "json", !.phase = "diverged", !.clean = 0])
    /\ UNCHANGED <<db, published, json, mem, mode, op, acked, predates, faults, degraded>>

\* Re-emit the events of rows written since promotion.
Reconcile ==
    /\ At("none") /\ mode = "active"
    /\ reg.authority = "database"
    /\ published' = published \cup (db \ predates)
    /\ UNCHANGED <<reg, db, json, mem, mode, op, acked, predates, bounds>>

AppendStep == \/ JsonAppend
              \/ \E e \in Entries : Put(e) \/ Publish(e)
              \/ CompareAppend

Next ==
    \/ Boot \/ BootDies \/ BootDegraded \/ Stop
    \/ \E B \in SUBSET Entries : B # {} /\ Cardinality(B) <= MaxBatch /\ Append(B)
    \/ AppendStep
    \/ DatabaseFails
    \/ Compare \/ BeginShadow \/ Promote \/ Demote \/ Reconcile

Spec == Init /\ [][Next]_vars

(***************************************************************************)
(* Properties                                                              *)
(***************************************************************************)

\* Every variable keeps its shape and an append in progress its batch.
TypeOK ==
    /\ reg \in [authority : {"json", "database"},
                phase : {"shadow-disabled", "shadow-comparing", "ready-to-promote",
                         "migrated", "diverged"},
                clean : 0 .. RequiredClean]
    /\ db \subseteq Entries /\ published \subseteq Entries
    /\ json \subseteq Entries /\ mem \subseteq Entries
    /\ mode \in {"down", "active", "degraded"}
    /\ op \in [pc : {"none", "json", "put", "publish", "compare"},
               batch : SUBSET Entries, todo : SUBSET Entries]
    /\ acked \subseteq Entries /\ predates \subseteq Entries
    /\ faults \in 0 .. MaxFaults /\ demotes \in 0 .. MaxDemotes
    /\ degraded \in 0 .. MaxDegraded

\* There is never a second authoritative side (namespace-migration.ts:98-103):
\* the database owns the namespace exactly in the phase "migrated".
SingleAuthority == reg.authority = "database" <=> reg.phase = "migrated"

\* A decision whose append returned is in the ledger the owner audits, across
\* crashes, refused writes, the shadow window, the promotion and starts without
\* the database (which list the JSON side only while they last).  A demotion
\* gives authority to a side that was not written meanwhile: what it loses is
\* outside this property.
AckedIsListed ==
    mode = "active" /\ demotes = 0 => acked \subseteq Listed

\* An event announces only what the ledger durably holds.
PublishedIsRecorded == published \subseteq db

\* "The JSON side is never written again once authority moves"
\* (decision-ledger-migration.ts:34-35), while the database is in use.
JsonFrozen ==
    [][reg.authority = "database" /\ mode # "degraded" => json' = json]_vars

\* No promotion without RequiredClean full agreements in a row: the clean run
\* counts upwards by comparisons only and promotion needs all of it.
PromotionEarned == [][reg'.authority = "database" /\ reg.authority = "json"
                        => reg.clean = RequiredClean]_vars

\* While the database has authority and is in use, an append that returns has both its
\* commits behind it for every entry of the batch, row and event, whatever was refused
\* on the way: only an append that nobody was answered for can leave a row that waits
\* for reconcile() (decision-ledger-migration.ts:83-90), which nothing calls by itself.
AckedIsAnnounced ==
    [][reg.authority = "database" /\ mode = "active"
         => acked' \ acked \subseteq db' \cap published']_vars
=============================================================================
