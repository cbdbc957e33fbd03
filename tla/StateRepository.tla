-------------------------- MODULE StateRepository --------------------------
(***************************************************************************)
(* The records of one namespace of the state database                      *)
(* (state-core/state-repository.ts) and the quarantine that moves          *)
(* undecodable ones aside and back (state-core/state-quarantine.ts).       *)
(*                                                                         *)
(* Every operation is one transaction (module Transaction), so a crash     *)
(* falls between two of them and changes nothing here.  Which rows a       *)
(* caller's decoder refuses is left open: a restored row was refused by a  *)
(* bad reader.  Every write has a value of its own.                        *)
(***************************************************************************)
EXTENDS Naturals, FiniteSets, FiniteSetsExt

CONSTANTS Keys, Owners,
          MaxWrites,   \* bound: put and append
          MaxRemovals, \* bound: remove and clear
          MaxMoves     \* bound: quarantine, scan and restore

ASSUME RepositoryAssumption == {MaxWrites, MaxRemovals, MaxMoves} \subseteq Nat

VARIABLES
    namespace, \* state_namespace: the owner, "none" before the declaration, and the revision
    record,    \* state_record by key
    aside,     \* state_quarantine
    writes,    \* writes so far; the value of the newest one
    kept,      \* history: <<key, value>> written, and neither replaced nor removed
    removals, moves

vars == <<namespace, record, aside, writes, kept, removals, moves>>

\* `since` is history: the write that inserted the row, 0 when a restore did.
NoRow == [position |-> 0, value |-> 0, since |-> 0]
Live  == {k \in Keys : record[k] # NoRow}

Init ==
    /\ namespace = [owner |-> "none", revision |-> 0]
    /\ record = [k \in Keys |-> NoRow]
    /\ aside = {}
    /\ writes = 0
    /\ kept = {}
    /\ removals = 0 /\ moves = 0

\* Mutant: COUNT(*) + 1.
NextPositionByCount == Cardinality(Live) + 1

\* COALESCE(MAX(position), 0) + 1.
NextPosition == Max({record[k].position : k \in Keys}) + 1

\* Mutant: a namespace that becomes empty keeps its revision.
BumpUnlessEmpty ==
    namespace' = IF \E k \in Keys : record'[k] # NoRow
                 THEN [namespace EXCEPT !.revision = @ + 1] ELSE namespace

Bump == namespace' = [namespace EXCEPT !.revision = @ + 1]

(***************************************************************************)
(* Actions                                                                 *)
(***************************************************************************)

\* declareNamespace: the first owner stays the owner.
Declare(o) ==
    /\ namespace.owner \in {"none", o}
    /\ namespace' = [namespace EXCEPT !.owner = o]
    /\ UNCHANGED <<record, aside, writes, kept, removals, moves>>

\* The row of key k is inserted or its payload replaced, and the revision moves.
Store(k) ==
    /\ namespace.owner # "none"
    /\ writes < MaxWrites
    /\ writes' = writes + 1
    /\ record' = [record EXCEPT ![k] =
                    IF k \in Live THEN [@ EXCEPT !.value = writes + 1]
                    ELSE [position |-> NextPosition, value |-> writes + 1, since |-> writes + 1]]
    /\ kept' = (kept \ {<<k, record[k].value>>}) \cup {<<k, writes + 1>>}
    /\ Bump
    /\ UNCHANGED <<aside, removals, moves>>

\* put.
Put(k) == Store(k)

\* append: the INSERT refuses a key that is taken.
AppendRow(k) == k \notin Live /\ Store(k)

\* DELETE of existing rows.
Delete(S) ==
    /\ S # {} /\ removals < MaxRemovals
    /\ removals' = removals + 1
    /\ record' = [k \in Keys |-> IF k \in S THEN NoRow ELSE record[k]]
    /\ kept' = kept \ {<<k, record[k].value>> : k \in S}
    /\ Bump
    /\ UNCHANGED <<aside, writes, moves>>

\* remove.
Remove(k) == k \in Live /\ Delete({k})

\* clear.
Clear == Delete(Live)

Entry(k) == [key |-> k, position |-> record[k].position, value |-> record[k].value]

\* Rows are moved to the quarantine; the revision stays.
SetAside(S) ==
    /\ S # {} /\ moves < MaxMoves
    /\ moves' = moves + 1
    /\ aside' = aside \cup {Entry(k) : k \in S}
    /\ record' = [k \in Keys |-> IF k \in S THEN NoRow ELSE record[k]]
    /\ UNCHANGED <<namespace, writes, kept, removals>>

\* Mutant: "no such record" is not an error.
QuarantineAbsent(k) == SetAside({k})

\* quarantine: a record that exists.
Quarantine(k) == k \in Live /\ SetAside({k})

\* scan: one quarantine per refused row; after a crash, the first few of them.
Scan == \E S \in SUBSET Live : SetAside(S)

\* Mutant: the row takes the place of the live one.
RestoreOverLive(e) ==
    /\ e \in aside
    /\ moves < MaxMoves
    /\ moves' = moves + 1
    /\ record' = [record EXCEPT ![e.key] =
                    [position |-> e.position, value |-> e.value, since |-> 0]]
    /\ aside' = aside \ {e}
    /\ UNCHANGED <<namespace, writes, kept, removals>>

\* restore: the row returns to its old position unless its key is taken.
Restore(e) ==
    /\ e \in aside
    /\ e.key \notin Live
    /\ moves < MaxMoves
    /\ moves' = moves + 1
    /\ record' = [record EXCEPT ![e.key] =
                    [position |-> e.position, value |-> e.value, since |-> 0]]
    /\ aside' = aside \ {e}
    /\ UNCHANGED <<namespace, writes, kept, removals>>

Next ==
    \/ \E o \in Owners : Declare(o)
    \/ \E k \in Keys : Put(k) \/ AppendRow(k) \/ Remove(k) \/ Quarantine(k)
    \/ Clear
    \/ Scan
    \/ \E e \in aside : Restore(e)

Spec == Init /\ [][Next]_vars

(***************************************************************************)
(* Properties                                                              *)
(***************************************************************************)

RowType == [position : 0 .. MaxWrites, value : 0 .. MaxWrites, since : 0 .. MaxWrites]

\* Namespace, rows and quarantine keep their shape; positions never outrun the writes.
TypeOK ==
    /\ namespace \in [owner : Owners \cup {"none"}, revision : 0 .. MaxWrites + MaxRemovals]
    /\ record \in [Keys -> RowType]
    /\ aside \subseteq [key : Keys, position : 1 .. MaxWrites, value : 1 .. MaxWrites]
    /\ writes \in 0 .. MaxWrites
    /\ kept \subseteq Keys \X (1 .. MaxWrites)
    /\ removals \in 0 .. MaxRemovals /\ moves \in 0 .. MaxMoves

\* Records that stayed where they were written are listed in the order of their
\* writes, whatever was removed, moved aside or restored around them
\* (state-repository.ts:21-26).
StayersInOrder ==
    \A a, b \in Live :
        0 < record[a].since /\ record[a].since < record[b].since
            => record[a].position < record[b].position

\* Every write that was neither replaced nor removed is in exactly one of the two
\* tables: quarantining, scanning and restoring lose and duplicate nothing.
NothingVanishes ==
    LET live == {<<k, record[k].value>> : k \in Live}
        put  == {<<e.key, e.value>> : e \in aside}
    IN live \cup put = kept /\ live \cap put = {}

\* The revision tells "changed and changed back" from "unchanged"
\* (state-repository.ts:117-118): outside the quarantine no change keeps it.
RevisionTells ==
    [][record' # record => namespace'.revision > namespace.revision \/ aside' # aside]_vars
=============================================================================
