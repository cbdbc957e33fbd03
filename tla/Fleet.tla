------------------------------- MODULE Fleet -------------------------------
(***************************************************************************)
(* TenxFleetController (electron/tenx/fleet-controller.ts) with the rules  *)
(* of src/shared/tenx/fleet.ts: members known by their heartbeats, task    *)
(* leases, dropout of a node, takeover by another.                         *)
(*                                                                         *)
(* Every operation changes the maps and then writes the whole state to the *)
(* file.  A refused write throws: the maps keep the change, the file stays *)
(* behind until the next write, and what the operation would have returned *)
(* is lost, the list of dropped nodes of refreshStates() among it.  Time   *)
(* is what the code reads of it: the age class of a heartbeat and whether  *)
(* a lease has expired, which move independently (both are options).       *)
(***************************************************************************)
EXTENDS Naturals

CONSTANTS Nodes, Tasks,
          MaxLeases,   \* bound: leases granted by lease()
          MaxCrashes,  \* bound: restarts of the controller
          MaxRefused   \* bound: refused writes of the file

ASSUME FleetAssumption == {MaxLeases, MaxCrashes, MaxRefused} \subseteq Nat

VARIABLES
    member,   \* members: stored state ("absent" without a record), age of the heartbeat
    lease,    \* leases by task
    dropped,  \* nodes reported by refreshStates(), handleDropout() not called yet (volatile)
    memberFile, leaseFile,  \* what the file holds of both
    behind,   \* the last write was refused
    revived,  \* history: tasks reported on after they had settled, since their lease
    lost,     \* history: nodes that went OFFLINE and whose report or handling was lost
    grants, crashes, refused

disk == <<memberFile, leaseFile, behind, refused>>

vars == <<member, lease, dropped, disk, revived, lost, grants, crashes>>

Absent == [state |-> "absent", age |-> 0]

NoLease == [state |-> "none", owner |-> "nobody", expired |-> TRUE,
            checkpoint |-> FALSE, takeover |-> FALSE, replay |-> "unknown"]

Init ==
    /\ member = [n \in Nodes |-> Absent]
    /\ lease = [t \in Tasks |-> NoLease]
    /\ dropped = {}
    /\ memberFile = member /\ leaseFile = lease /\ behind = FALSE
    /\ revived = {} /\ lost = {}
    /\ grants = 0 /\ crashes = 0 /\ refused = 0

Written == /\ memberFile' = member' /\ leaseFile' = lease' /\ behind' = FALSE
           /\ UNCHANGED refused

WriteRefused == /\ refused < MaxRefused /\ refused' = refused + 1
                /\ behind' = TRUE
                /\ UNCHANGED <<memberFile, leaseFile>>

\* persist, which every operation ends with.
Persist == Written \/ WriteRefused

\* controllerNodeStateFor: READY and DEGRADED count as online.
Online(n) == member[n].state # "absent" /\ member[n].age < 2

Settled(L) == L.state \in {"COMPLETED", "FAILED"}
Exists(t)  == lease[t].state # "none"

\* canReplay.
CanReplay(L) ==
    \/ L.replay = "replaySafe"
    \/ L.replay = "replayUnsafe" /\ L.checkpoint

\* planTakeover(...).allowed.
TakeoverAllowed(L) == ~Settled(L) /\ L.expired /\ L.takeover /\ CanReplay(L)

(***************************************************************************)
(* Members                                                                 *)
(***************************************************************************)

SetMember(n, m) ==
    /\ member' = [member EXCEPT ![n] = m]
    /\ lost' = lost \ {n}
    /\ UNCHANGED <<lease, dropped, revived, grants, crashes>>
    /\ Persist

\* join.
Join(n) == SetMember(n, [state |-> "READY", age |-> 0])

\* heartbeat: a node that is registered.
Heartbeat(n) == member[n].state # "absent" /\ SetMember(n, [state |-> "READY", age |-> 0])

\* deregister: the leases of the node stay.
Deregister(n) == member[n].state # "absent" /\ SetMember(n, Absent)

Older(m, age) == IF m.state = "absent" \/ m.age >= age THEN m ELSE [m EXCEPT !.age = age]

\* A heartbeat gets older: READY, DEGRADED, OFFLINE.  The file has the same or an earlier one.
HeartbeatAges(n) ==
    /\ member[n].state # "absent" /\ member[n].age < 2
    /\ member' = [member EXCEPT ![n] = Older(@, member[n].age + 1)]
    /\ memberFile' = [memberFile EXCEPT ![n] = Older(@, member[n].age + 1)]
    /\ UNCHANGED <<lease, dropped, leaseFile, behind, refused, revived, lost, grants, crashes>>

\* refreshStates: nodes that are OFFLINE now and were not are stored as such and reported,
\* unless the write is refused: then they are stored in the map and never reported.
RefreshStates ==
    LET gone == {n \in Nodes : member[n].state = "READY" /\ member[n].age = 2}
    IN /\ member' = [n \in Nodes |-> IF n \in gone THEN [member[n] EXCEPT !.state = "OFFLINE"]
                                                   ELSE member[n]]
       /\ UNCHANGED <<lease, revived, grants, crashes>>
       /\ \/ Written /\ dropped' = dropped \cup gone /\ UNCHANGED lost
          \/ WriteRefused /\ lost' = lost \cup gone /\ UNCHANGED dropped

(***************************************************************************)
(* Leases                                                                  *)
(***************************************************************************)

SetLease(t, L) ==
    /\ lease' = [lease EXCEPT ![t] = L]
    /\ UNCHANGED <<member, dropped, lost, crashes>>
    /\ Persist

Granted(n, takeover, replay) ==
    [state |-> "LEASED", owner |-> n, expired |-> FALSE, checkpoint |-> FALSE,
     takeover |-> takeover, replay |-> replay]

\* Mutant: an expired lease counts as free.
LeaseWhenExpired(t, n, takeover, replay) ==
    /\ grants < MaxLeases
    /\ Online(n)
    /\ ~Exists(t) \/ Settled(lease[t]) \/ lease[t].expired
    /\ SetLease(t, Granted(n, takeover, replay))
    /\ revived' = revived \ {t}
    /\ grants' = grants + 1

\* lease: to an online node, for a task that has no unsettled lease.
Lease(t, n, takeover, replay) ==
    /\ grants < MaxLeases
    /\ Online(n)
    /\ ~Exists(t) \/ Settled(lease[t])
    /\ SetLease(t, Granted(n, takeover, replay))
    /\ revived' = revived \ {t}
    /\ grants' = grants + 1

Expired(L) == IF L.expired THEN L ELSE [L EXCEPT !.expired = TRUE]

\* Time passes; the file has the same or an earlier expiry.
LeaseExpires(t) ==
    /\ ~lease[t].expired
    /\ lease' = [lease EXCEPT ![t] = Expired(@)]
    /\ leaseFile' = [leaseFile EXCEPT ![t] = Expired(@)]
    /\ UNCHANGED <<member, dropped, memberFile, behind, refused, revived, lost, grants, crashes>>

\* checkpoint, activate, complete and fail name a task, not the node that calls:
\* a late report of a node that lost the task, or of a settled one, counts too.
Report(t, state, checkpointed) ==
    /\ Exists(t)
    /\ SetLease(t, [lease[t] EXCEPT !.state = state, !.checkpoint = @ \/ checkpointed])
    /\ revived' = IF Settled(lease[t]) THEN revived \cup {t} ELSE revived
    /\ UNCHANGED grants

Checkpoint(t) == Report(t, "CHECKPOINTED", TRUE)
Activate(t)   == Report(t, "RUNNING", FALSE)
Complete(t)   == Report(t, "COMPLETED", FALSE)
FailTask(t)   == Report(t, "FAILED", FALSE)

\* transfer: an expired lease moves to an online node, with its checkpoint.
Transfer(t, n) ==
    /\ Exists(t) /\ TakeoverAllowed(lease[t])
    /\ Online(n)
    /\ SetLease(t, [lease[t] EXCEPT !.state = "TRANSFERRED", !.owner = n, !.expired = FALSE])
    /\ UNCHANGED <<revived, grants>>

Recoverable(L) == L.checkpoint \/ L.replay = "replaySafe"

\* Mutant: a parked lease has no owner, and a transfer nobody to name.
AfterDropoutUnowned(L) ==
    IF Recoverable(L) /\ L.takeover
    THEN [L EXCEPT !.state = "QUEUED", !.expired = TRUE, !.owner = "nobody"]
    ELSE [L EXCEPT !.state = "FAILED"]

\* What handleDropout makes of a lease of the node: parked for any taker, or failed.
AfterDropout(L) ==
    IF Recoverable(L) /\ L.takeover
    THEN [L EXCEPT !.state = "QUEUED", !.expired = TRUE]
    ELSE [L EXCEPT !.state = "FAILED"]

\* Mutant: a lease that has a checkpoint is left to its expiry.
HandleDropoutUncheckpointed(n) ==
    /\ n \in dropped
    /\ dropped' = dropped \ {n}
    /\ lease' = [t \in Tasks |->
                    IF Exists(t) /\ lease[t].owner = n /\ ~Settled(lease[t]) /\ ~lease[t].checkpoint
                    THEN AfterDropout(lease[t]) ELSE lease[t]]
    /\ UNCHANGED <<member, revived, lost, grants, crashes>>
    /\ Persist

\* handleDropout, called for a reported node; it may be back by then.
HandleDropout(n) ==
    /\ n \in dropped
    /\ dropped' = dropped \ {n}
    /\ lease' = [t \in Tasks |-> IF Exists(t) /\ lease[t].owner = n /\ ~Settled(lease[t])
                                 THEN AfterDropout(lease[t]) ELSE lease[t]]
    /\ UNCHANGED <<member, revived, lost, grants, crashes>>
    /\ Persist

\* The controller restarts from its file.  Of a node the file has as OFFLINE no report is
\* coming: one that was made is gone, and so is a handling that was not written.
Crash ==
    /\ crashes < MaxCrashes
    /\ crashes' = crashes + 1
    /\ member' = memberFile /\ lease' = leaseFile
    /\ behind' = FALSE
    /\ dropped' = {}
    /\ lost' = {n \in Nodes : memberFile[n].state = "OFFLINE" /\ (behind \/ n \in dropped \cup lost)}
    /\ UNCHANGED <<memberFile, leaseFile, refused, revived, grants>>

Safeties == {"replaySafe", "replayUnsafe", "unknown"}

Next ==
    \/ \E n \in Nodes : Join(n) \/ Heartbeat(n) \/ Deregister(n) \/ HeartbeatAges(n) \/ HandleDropout(n)
    \/ RefreshStates
    \/ \E t \in Tasks :
          \/ LeaseExpires(t) \/ Checkpoint(t) \/ Activate(t) \/ Complete(t) \/ FailTask(t)
          \/ \E n \in Nodes : \/ Transfer(t, n)
                              \/ \E b \in BOOLEAN, r \in Safeties : Lease(t, n, b, r)
    \/ Crash

Spec == Init /\ [][Next]_vars

(***************************************************************************)
(* Properties                                                              *)
(***************************************************************************)

LeaseType ==
    [state : {"QUEUED", "LEASED", "RUNNING", "CHECKPOINTED", "TRANSFERRED",
              "COMPLETED", "FAILED"},
     owner : Nodes, expired : BOOLEAN, checkpoint : BOOLEAN, takeover : BOOLEAN,
     replay : Safeties]

\* Members and leases keep their shape; a lease always names an owner.
TypeOK ==
    /\ member \in [Nodes -> [state : {"absent", "READY", "OFFLINE"}, age : 0 .. 2]]
    /\ lease \in [Tasks -> LeaseType \cup {NoLease}]
    /\ memberFile \in [Nodes -> [state : {"absent", "READY", "OFFLINE"}, age : 0 .. 2]]
    /\ leaseFile \in [Tasks -> LeaseType \cup {NoLease}]
    /\ behind \in BOOLEAN
    /\ dropped \subseteq Nodes /\ lost \subseteq Nodes
    /\ revived \subseteq Tasks
    /\ grants \in 0 .. MaxLeases
    /\ crashes \in 0 .. MaxCrashes
    /\ refused \in 0 .. MaxRefused

Unsettled(t) == Exists(t) /\ ~Settled(lease[t])

\* While a task is unsettled it changes hands only if it may be replayed, and its
\* checkpoint goes with it: nothing that was durably reached is done again
\* (fleet-controller.ts:30-31).  Excepted is a restart from a file that a refused write
\* left behind, which goes back to the state before that write.
TakenOverFromCheckpoint ==
    [][\A t \in Tasks : Unsettled(t) =>
          \/ behind /\ crashes' # crashes
          \/ /\ lease'[t].owner # lease[t].owner => CanReplay(lease[t])
             /\ lease[t].checkpoint => lease'[t].checkpoint]_vars

\* A node stored as OFFLINE whose dropout was reported and handled owns no unexpired work:
\* no task waits for a node that is gone.  Two things are excepted: refreshStates() reports
\* a node once, and a refused write in it, or a restart before the handling is written,
\* loses that report (lost); and a late report on a settled task reopens it on its old
\* owner (revived).
DropoutHandled ==
    \A t \in Tasks \ revived :
        /\ Unsettled(t) /\ lease[t].owner \notin dropped \cup lost
        /\ member[lease[t].owner].state = "OFFLINE"
        => lease[t].expired
=============================================================================
