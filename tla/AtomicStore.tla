---------------------------- MODULE AtomicStore ----------------------------
(***************************************************************************)
(* What withTransaction promises its callers (state-core/transaction.ts:   *)
(* 6-8 and 76-82): the writes of a unit of work become durable all at      *)
(* once, a unit is answered with a value only when it is durable, and      *)
(* nothing of one answered with an error is in the database, then or later.*)
(***************************************************************************)
CONSTANTS Units,   \* units of work ever asked for
          Parts    \* the writes each of them makes

VARIABLES store,   \* writes that are durable
          ok,      \* units answered with a value
          refused  \* units answered with an error

vars == <<store, ok, refused>>

Init == store = {} /\ ok = {} /\ refused = {}

WritesOf(S) == S \X Parts

\* A unit and the units nested in it become durable in one step.
Commit(S) ==
    /\ S # {} /\ S \cap refused = {}
    /\ WritesOf(S) \cap store = {}
    /\ store' = store \cup WritesOf(S)
    /\ UNCHANGED <<ok, refused>>

Answer(S) ==
    /\ WritesOf(S) \subseteq store
    /\ ok' = ok \cup S
    /\ UNCHANGED <<store, refused>>

Refuse(u) ==
    /\ WritesOf({u}) \cap store = {}
    /\ refused' = refused \cup {u}
    /\ UNCHANGED <<store, ok>>

Next == \/ \E S \in SUBSET Units : Commit(S) \/ Answer(S)
        \/ \E u \in Units : Refuse(u)

Spec == Init /\ [][Next]_vars
=============================================================================
