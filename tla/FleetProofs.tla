---------------------------- MODULE FleetProofs ----------------------------
(***************************************************************************)
(* The fleet controller for any number of nodes, tasks, leases, refused    *)
(* writes and restarts.                                                    *)
(*                                                                         *)
(* DropoutHandled rests on OfflineIsOld: a node stored as OFFLINE has an   *)
(* old heartbeat, so neither lease() nor transfer() takes it for online;   *)
(* and on FileIsMap: a restart from a file that is not behind changes      *)
(* nothing.                                                                *)
(***************************************************************************)
EXTENDS Fleet, TLAPS

MemberType == [state : {"absent", "READY", "OFFLINE"}, age : 0 .. 2]
Slot       == LeaseType \cup {NoLease}

Old(M) == \A n \in Nodes : M[n].state = "OFFLINE" => M[n].age = 2

OfflineIsOld == Old(member) /\ Old(memberFile)

FileIsMap == ~behind => memberFile = member /\ leaseFile = lease

FInv == TypeOK /\ OfflineIsOld /\ FileIsMap /\ DropoutHandled

(***************************************************************************)
(* Types                                                                   *)
(***************************************************************************)

LEMMA Typed ==
    ASSUME TypeOK
    PROVE  /\ member \in [Nodes -> MemberType] /\ lease \in [Tasks -> Slot]
           /\ memberFile \in [Nodes -> MemberType] /\ leaseFile \in [Tasks -> Slot]
           /\ behind \in BOOLEAN /\ lost \subseteq Nodes
           /\ dropped \subseteq Nodes /\ revived \subseteq Tasks
           /\ \A t \in Tasks : Exists(t) => lease[t] \in LeaseType
           /\ MaxLeases \in Nat /\ MaxCrashes \in Nat /\ MaxRefused \in Nat
           /\ grants \in 0 .. MaxLeases /\ crashes \in 0 .. MaxCrashes
           /\ refused \in 0 .. MaxRefused
  BY FleetAssumption DEF TypeOK, MemberType, Slot, Exists, NoLease

\* A lease stays a lease when one of its fields changes.
LEMMA LeaseFields ==
    ASSUME NEW L \in LeaseType
    PROVE  /\ \A s \in {"QUEUED", "LEASED", "RUNNING", "CHECKPOINTED", "TRANSFERRED",
                        "COMPLETED", "FAILED"} : [L EXCEPT !.state = s] \in LeaseType
           /\ \A n \in Nodes : [L EXCEPT !.owner = n] \in LeaseType
           /\ \A b \in BOOLEAN : [L EXCEPT !.expired = b] \in LeaseType
           /\ \A b \in BOOLEAN : [L EXCEPT !.checkpoint = b] \in LeaseType
  BY DEF LeaseType

\* handleDropout parks a lease or fails it: type, owner and checkpoint stay.
LEMMA DropoutLease ==
    ASSUME NEW L \in LeaseType
    PROVE  /\ AfterDropout(L) \in LeaseType
           /\ AfterDropout(L).owner = L.owner /\ AfterDropout(L).checkpoint = L.checkpoint
           /\ AfterDropout(L).expired \/ AfterDropout(L).state = "FAILED"
  <1>1. CASE Recoverable(L) /\ L.takeover
    <2> DEFINE K == [L EXCEPT !.state = "QUEUED"]
    <2>1. K \in LeaseType /\ K.owner = L.owner /\ K.checkpoint = L.checkpoint
      BY LeaseFields DEF LeaseType
    <2>2. AfterDropout(L) = [K EXCEPT !.expired = TRUE]
      BY <1>1 DEF AfterDropout
    <2> HIDE DEF K
    <2>3. AfterDropout(L) \in LeaseType
      BY <2>1, <2>2, TRUE \in BOOLEAN, LeaseFields
    <2>4. K.owner = L.owner /\ K.checkpoint = L.checkpoint
      BY <2>1
    <2>5. /\ AfterDropout(L).owner = K.owner /\ AfterDropout(L).checkpoint = K.checkpoint
          /\ AfterDropout(L).expired = TRUE
      BY <2>1, <2>2 DEF LeaseType
    <2> QED BY <2>3, <2>4, <2>5
  <1>2. CASE ~(Recoverable(L) /\ L.takeover)
    <2>1. AfterDropout(L) = [L EXCEPT !.state = "FAILED"]
      BY <1>2 DEF AfterDropout
    <2> QED BY <2>1, LeaseFields DEF LeaseType
  <1> QED BY <1>1, <1>2

\* An older heartbeat is one of the same node state.
LEMMA OlderMember ==
    ASSUME NEW m \in MemberType, NEW age \in 0 .. 2
    PROVE  /\ Older(m, age) \in MemberType /\ Older(m, age).state = m.state
           /\ m.age = 2 => Older(m, age) = m
  BY DEF Older, MemberType

\* A write that takes place or is refused keeps the shape of the file.
LEMMA PersistTyped ==
    ASSUME TypeOK, Persist, member' \in [Nodes -> MemberType], lease' \in [Tasks -> Slot]
    PROVE  /\ memberFile' \in [Nodes -> MemberType] /\ leaseFile' \in [Tasks -> Slot]
           /\ behind' \in BOOLEAN /\ refused' \in 0 .. MaxRefused
  <1>0. /\ memberFile \in [Nodes -> MemberType] /\ leaseFile \in [Tasks -> Slot]
        /\ refused \in 0 .. MaxRefused /\ MaxRefused \in Nat
    BY Typed
  <1>1. CASE Written
    BY <1>0, <1>1 DEF Written
  <1>2. CASE WriteRefused
    <2>1. refused' \in 0 .. MaxRefused /\ behind' = TRUE
      BY <1>0, <1>2 DEF WriteRefused
    <2> QED BY <1>0, <1>2, <2>1 DEF WriteRefused
  <1> QED BY <1>1, <1>2 DEF Persist

\* Every operation on a lease writes one that is well-formed.
LEMMA TypeStep == ASSUME TypeOK, [Next]_vars PROVE TypeOK'
  <1>0. /\ member \in [Nodes -> MemberType] /\ lease \in [Tasks -> Slot]
        /\ memberFile \in [Nodes -> MemberType] /\ leaseFile \in [Tasks -> Slot]
        /\ behind \in BOOLEAN /\ lost \subseteq Nodes
        /\ dropped \subseteq Nodes /\ revived \subseteq Tasks
        /\ \A t \in Tasks : Exists(t) => lease[t] \in LeaseType
        /\ MaxLeases \in Nat /\ MaxCrashes \in Nat /\ MaxRefused \in Nat
        /\ grants \in 0 .. MaxLeases /\ crashes \in 0 .. MaxCrashes
        /\ refused \in 0 .. MaxRefused
    BY Typed
  <1>1. ASSUME member' \in [Nodes -> MemberType], lease' \in [Tasks -> Slot],
               memberFile' \in [Nodes -> MemberType], leaseFile' \in [Tasks -> Slot],
               behind' \in BOOLEAN, lost' \subseteq Nodes,
               dropped' \subseteq Nodes, revived' \subseteq Tasks,
               grants' \in 0 .. MaxLeases, crashes' \in 0 .. MaxCrashes,
               refused' \in 0 .. MaxRefused
        PROVE  TypeOK'
    BY <1>1 DEF TypeOK, MemberType, Slot
  <1>2. ASSUME NEW n \in Nodes, NEW m \in MemberType, SetMember(n, m) PROVE TypeOK'
    <2>1. /\ member' \in [Nodes -> MemberType] /\ lost' \subseteq Nodes /\ Persist
          /\ UNCHANGED <<lease, dropped, revived, grants, crashes>>
      BY <1>0, <1>2 DEF SetMember
    <2> QED BY <1>0, <1>1, <2>1, PersistTyped
  <1>3. ASSUME NEW n \in Nodes, Join(n) \/ Heartbeat(n) \/ Deregister(n) PROVE TypeOK'
    <2>1. [state |-> "READY", age |-> 0] \in MemberType /\ Absent \in MemberType
      BY DEF MemberType, Absent
    <2> QED BY <1>2, <1>3, <2>1 DEF Join, Heartbeat, Deregister
  <1>3a. ASSUME NEW n \in Nodes, HeartbeatAges(n) PROVE TypeOK'
    <2> DEFINE age == member[n].age + 1
    <2>1. age \in 0 .. 2 /\ member[n] \in MemberType /\ memberFile[n] \in MemberType
      BY <1>0, <1>3a DEF HeartbeatAges, MemberType
    <2>2. /\ member' = [member EXCEPT ![n] = Older(@, age)]
          /\ memberFile' = [memberFile EXCEPT ![n] = Older(@, age)]
          /\ UNCHANGED <<lease, dropped, leaseFile, behind, refused, revived, lost, grants, crashes>>
      BY <1>3a DEF HeartbeatAges
    <2> HIDE DEF age
    <2>3. Older(member[n], age) \in MemberType /\ Older(memberFile[n], age) \in MemberType
      BY <2>1, OlderMember
    <2>4. member' \in [Nodes -> MemberType] /\ memberFile' \in [Nodes -> MemberType]
      BY <1>0, <2>2, <2>3
    <2> QED BY <1>0, <1>1, <2>2, <2>4
  <1>4. CASE RefreshStates
    <2>1. /\ member' \in [Nodes -> MemberType] /\ dropped' \subseteq Nodes /\ lost' \subseteq Nodes
          /\ Persist /\ UNCHANGED <<lease, revived, grants, crashes>>
      BY <1>0, <1>4 DEF RefreshStates, MemberType, Persist
    <2> QED BY <1>0, <1>1, <2>1, PersistTyped
  <1>5. ASSUME NEW t \in Tasks, NEW L \in LeaseType, SetLease(t, L), revived' \subseteq Tasks,
               grants' \in 0 .. MaxLeases
        PROVE  TypeOK'
    <2>1. lease' \in [Tasks -> Slot] /\ Persist /\ UNCHANGED <<member, dropped, lost, crashes>>
      BY <1>0, <1>5 DEF SetLease, Slot
    <2> QED BY <1>0, <1>1, <1>5, <2>1, PersistTyped
  <1>6. ASSUME NEW t \in Tasks, NEW n \in Nodes, NEW b \in BOOLEAN, NEW r \in Safeties,
               Lease(t, n, b, r)
        PROVE  TypeOK'
    <2>1. Granted(n, b, r) \in LeaseType
      BY DEF Granted, LeaseType
    <2> QED BY <1>0, <1>5, <1>6, <2>1 DEF Lease
  <1>7. ASSUME NEW t \in Tasks, LeaseExpires(t) PROVE TypeOK'
    <2>0. \A L \in Slot : Expired(L) \in Slot
      <3>1. Expired(NoLease) = NoLease
        BY DEF NoLease, Expired
      <3> QED BY <3>1, LeaseFields DEF Slot, Expired
    <2>1. lease' \in [Tasks -> Slot] /\ leaseFile' \in [Tasks -> Slot]
      BY <1>0, <1>7, <2>0 DEF LeaseExpires
    <2> QED BY <1>0, <1>1, <1>7, <2>1 DEF LeaseExpires
  <1>8. ASSUME NEW t \in Tasks, NEW s \in {"CHECKPOINTED", "RUNNING", "COMPLETED", "FAILED"},
               NEW b \in BOOLEAN, Report(t, s, b)
        PROVE  TypeOK'
    <2> DEFINE L == [lease[t] EXCEPT !.state = s, !.checkpoint = @ \/ b]
               K == [lease[t] EXCEPT !.state = s]
               c == lease[t].checkpoint \/ b
    <2>1. lease[t] \in LeaseType /\ SetLease(t, L)
      BY <1>0, <1>8 DEF Report
    <2>2. K \in LeaseType /\ L = [K EXCEPT !.checkpoint = c] /\ c \in BOOLEAN
      BY <2>1, LeaseFields
    <2> HIDE DEF K, c
    <2>3. L \in LeaseType
      BY <2>2, LeaseFields
    <2>4. revived' \subseteq Tasks /\ grants' = grants
      BY <1>0, <1>8 DEF Report
    <2> HIDE DEF L
    <2> QED BY <1>0, <1>5, <2>1, <2>3, <2>4
  <1>9. ASSUME NEW t \in Tasks, Checkpoint(t) \/ Activate(t) \/ Complete(t) \/ FailTask(t)
        PROVE  TypeOK'
    BY <1>8, <1>9 DEF Checkpoint, Activate, Complete, FailTask
  <1>10. ASSUME NEW t \in Tasks, NEW n \in Nodes, Transfer(t, n) PROVE TypeOK'
    <2> DEFINE L == [lease[t] EXCEPT !.state = "TRANSFERRED", !.owner = n, !.expired = FALSE]
               K == [lease[t] EXCEPT !.state = "TRANSFERRED"]
               J == [K EXCEPT !.owner = n]
    <2>1. lease[t] \in LeaseType /\ SetLease(t, L) /\ UNCHANGED <<revived, grants>>
      BY <1>0, <1>10 DEF Transfer
    <2>2. L = [J EXCEPT !.expired = FALSE]
      OBVIOUS
    <2>3. K \in LeaseType
      BY <2>1, LeaseFields
    <2> HIDE DEF K
    <2>4. J \in LeaseType
      BY <2>3, LeaseFields
    <2> HIDE DEF J
    <2>5. L \in LeaseType
      BY <2>2, <2>4, LeaseFields
    <2> HIDE DEF L
    <2> QED BY <1>0, <1>5, <2>1, <2>5
  <1>11. ASSUME NEW n \in Nodes, HandleDropout(n) PROVE TypeOK'
    <2>1. lease' \in [Tasks -> Slot]
      <3>1. \A t \in Tasks : Exists(t) => AfterDropout(lease[t]) \in Slot
        BY <1>0, DropoutLease DEF Slot
      <3> QED BY <1>0, <1>11, <3>1 DEF HandleDropout
    <2>2. /\ dropped' \subseteq Nodes /\ Persist
          /\ UNCHANGED <<member, revived, lost, grants, crashes>>
      BY <1>0, <1>11 DEF HandleDropout
    <2> QED BY <1>0, <1>1, <2>1, <2>2, PersistTyped
  <1>12. CASE Crash
    <2>1. crashes' \in 0 .. MaxCrashes /\ dropped' \subseteq Nodes /\ lost' \subseteq Nodes
      BY <1>0, <1>12 DEF Crash
    <2> QED BY <1>0, <1>1, <1>12, <2>1 DEF Crash
  <1>13. CASE UNCHANGED vars
    BY <1>13 DEF vars, disk, TypeOK
  <1> QED BY <1>3, <1>3a, <1>4, <1>6, <1>7, <1>9, <1>10, <1>11, <1>12, <1>13 DEF Next

LEMMA InitInv == Init => FInv
  <1> SUFFICES ASSUME Init PROVE FInv
    OBVIOUS
  <1>1. TypeOK
    <2>1. /\ member \in [Nodes -> MemberType] /\ lease \in [Tasks -> Slot]
          /\ memberFile = member /\ leaseFile = lease
      BY DEF Init, Absent, MemberType, Slot
    <2>2. /\ grants \in 0 .. MaxLeases /\ crashes \in 0 .. MaxCrashes
          /\ refused \in 0 .. MaxRefused
      BY FleetAssumption DEF Init
    <2>3. behind \in BOOLEAN /\ dropped = {} /\ lost = {} /\ revived = {}
      BY DEF Init
    <2> QED BY <2>1, <2>2, <2>3 DEF TypeOK, MemberType, Slot
  <1>2. OfflineIsOld /\ FileIsMap /\ DropoutHandled
    BY DEF Init, OfflineIsOld, Old, FileIsMap, DropoutHandled, Unsettled, Exists, Absent, NoLease
  <1> QED BY <1>1, <1>2 DEF FInv

\* Members and leases keep their shape, and a lease always names an owner, also a parked one:
\* transfer() finds whom it takes the task from (fleet-controller.ts:151-169).
THEOREM TypeCorrect == Spec => []TypeOK
  BY InitInv, TypeStep, PTL DEF Spec, FInv

(***************************************************************************)
(* Takeover                                                                *)
(***************************************************************************)

\* A task that is not settled changes hands only if it may be replayed, and no step takes
\* a checkpoint from it (fleet-controller.ts:29-30), but for a restart from a file that is
\* behind.
LEMMA TakeoverStep ==
    ASSUME TypeOK, FileIsMap, Next, NEW t \in Tasks, Unsettled(t), ~(behind /\ crashes' # crashes)
    PROVE  /\ lease'[t].owner # lease[t].owner => CanReplay(lease[t])
           /\ lease[t].checkpoint => lease'[t].checkpoint
  <1> DEFINE Goal == /\ lease'[t].owner # lease[t].owner => CanReplay(lease[t])
                     /\ lease[t].checkpoint => lease'[t].checkpoint
  <1>0. /\ lease \in [Tasks -> Slot] /\ lease[t] \in LeaseType
    BY Typed DEF Unsettled
  <1>1. ASSUME lease'[t] = lease[t] PROVE Goal
    BY <1>1
  <1>2. ASSUME NEW n \in Nodes, Join(n) \/ Heartbeat(n) \/ Deregister(n) \/ HeartbeatAges(n) PROVE Goal
    BY <1>1, <1>2 DEF Join, Heartbeat, Deregister, HeartbeatAges, SetMember
  <1>3. CASE RefreshStates
    BY <1>1, <1>3 DEF RefreshStates
  <1>4. ASSUME NEW u \in Tasks, NEW L, SetLease(u, L), u # t PROVE Goal
    BY <1>0, <1>1, <1>4 DEF SetLease
  <1>5. ASSUME NEW u \in Tasks, NEW n \in Nodes, NEW b \in BOOLEAN, NEW r \in Safeties,
               Lease(u, n, b, r)
        PROVE  Goal
    BY <1>4, <1>5 DEF Lease, Unsettled
  <1>6. ASSUME NEW u \in Tasks, LeaseExpires(u) PROVE Goal
    <2>1. CASE u = t
      <3>1. lease'[t] = [lease[t] EXCEPT !.expired = TRUE]
        BY <1>0, <1>6, <2>1 DEF LeaseExpires, Expired
      <3> QED BY <1>0, <3>1 DEF LeaseType
    <2>2. CASE u # t
      BY <1>0, <1>1, <1>6, <2>2 DEF LeaseExpires
    <2> QED BY <2>1, <2>2
  <1>7. ASSUME NEW u \in Tasks, NEW s, NEW b \in BOOLEAN, Report(u, s, b) PROVE Goal
    <2>1. CASE u = t
      <3>1. lease'[t] = [lease[t] EXCEPT !.state = s, !.checkpoint = @ \/ b]
        BY <1>0, <1>7, <2>1 DEF Report, SetLease
      <3> QED BY <1>0, <3>1 DEF LeaseType
    <2> QED BY <1>4, <1>7, <2>1 DEF Report
  <1>8. ASSUME NEW u \in Tasks, Checkpoint(u) \/ Activate(u) \/ Complete(u) \/ FailTask(u) PROVE Goal
    BY <1>7, <1>8 DEF Checkpoint, Activate, Complete, FailTask
  <1>9. ASSUME NEW u \in Tasks, NEW n \in Nodes, Transfer(u, n) PROVE Goal
    <2>1. CASE u = t
      <3>1. /\ CanReplay(lease[t])
            /\ lease'[t] = [lease[t] EXCEPT !.state = "TRANSFERRED", !.owner = n, !.expired = FALSE]
        BY <1>0, <1>9, <2>1 DEF Transfer, SetLease, TakeoverAllowed
      <3> QED BY <1>0, <3>1 DEF LeaseType
    <2> QED BY <1>4, <1>9, <2>1 DEF Transfer
  <1>10. ASSUME NEW n \in Nodes, HandleDropout(n) PROVE Goal
    <2>1. lease'[t] \in {lease[t], AfterDropout(lease[t])}
      BY <1>10 DEF HandleDropout
    <2> QED BY <1>0, <1>1, <2>1, DropoutLease
  <1>11. CASE Crash
    <2>1. crashes' # crashes /\ ~behind
      BY <1>11, Typed DEF Crash
    <2> QED BY <1>1, <1>11, <2>1 DEF Crash, FileIsMap
  <1> QED BY <1>2, <1>3, <1>5, <1>6, <1>8, <1>9, <1>10, <1>11 DEF Next

\* After an operation the file holds what the maps hold, unless its write was refused.
LEMMA FileStep == ASSUME TypeOK, FileIsMap, [Next]_vars PROVE FileIsMap'
  <1>0. member \in [Nodes -> MemberType] /\ lease \in [Tasks -> Slot]
    BY Typed
  <1>1. ASSUME Persist PROVE FileIsMap'
    BY <1>1 DEF Persist, Written, WriteRefused, FileIsMap
  <1>2. CASE \/ \E n \in Nodes : Join(n) \/ Heartbeat(n) \/ Deregister(n) \/ HandleDropout(n)
             \/ RefreshStates
             \/ \E t \in Tasks :
                  \/ Checkpoint(t) \/ Activate(t) \/ Complete(t) \/ FailTask(t)
                  \/ \E n \in Nodes : \/ Transfer(t, n)
                                      \/ \E b \in BOOLEAN, r \in Safeties : Lease(t, n, b, r)
    <2>1. Persist
      BY <1>2 DEF Join, Heartbeat, Deregister, SetMember, HandleDropout, RefreshStates, Persist,
         Checkpoint, Activate, Complete, FailTask, Report, Transfer, Lease, SetLease
    <2> QED BY <1>1, <2>1
  <1>3. ASSUME NEW n \in Nodes, HeartbeatAges(n) PROVE FileIsMap'
    BY <1>0, <1>3 DEF HeartbeatAges, FileIsMap
  <1>4. ASSUME NEW t \in Tasks, LeaseExpires(t) PROVE FileIsMap'
    BY <1>0, <1>4 DEF LeaseExpires, FileIsMap
  <1>5. CASE Crash \/ UNCHANGED vars
    BY <1>5 DEF Crash, vars, disk, FileIsMap
  <1> QED BY <1>2, <1>3, <1>4, <1>5 DEF Next

\* The rule of a takeover (fleet-controller.ts:29-30), for any nodes and tasks: also when
\* reports of the old owner arrive late, nodes drop out and return, and the controller restarts.
THEOREM Takeover == Spec => TakenOverFromCheckpoint
  <1>1. TypeOK /\ FileIsMap /\ [Next]_vars =>
          [\A t \in Tasks : Unsettled(t) =>
              \/ behind /\ crashes' # crashes
              \/ /\ lease'[t].owner # lease[t].owner => CanReplay(lease[t])
                 /\ lease[t].checkpoint => lease'[t].checkpoint]_vars
    BY TakeoverStep
  <1>2. Init => FileIsMap
    BY InitInv DEF FInv
  <1>3. TypeOK /\ FileIsMap /\ [Next]_vars => FileIsMap'
    BY FileStep
  <1> QED BY <1>1, <1>2, <1>3, TypeCorrect, PTL DEF Spec, TakenOverFromCheckpoint

(***************************************************************************)
(* Dropout                                                                 *)
(***************************************************************************)

LEMMA OldStep == ASSUME TypeOK, OfflineIsOld, [Next]_vars PROVE OfflineIsOld'
  <1>0. member \in [Nodes -> MemberType] /\ memberFile \in [Nodes -> MemberType]
    BY Typed
  <1>a. Old(member) /\ Old(memberFile)
    BY DEF OfflineIsOld
  <1>1. ASSUME Old(member'), memberFile' \in {memberFile, member'} PROVE OfflineIsOld'
    <2>1. Old(memberFile')
      BY <1>1, <1>a
    <2> QED BY <1>1, <2>1 DEF OfflineIsOld, Old
  <1>2. ASSUME Persist, Old(member') PROVE OfflineIsOld'
    BY <1>1, <1>2 DEF Persist, Written, WriteRefused
  <1>3. ASSUME NEW n \in Nodes, Join(n) \/ Heartbeat(n) \/ Deregister(n) PROVE OfflineIsOld'
    <2> DEFINE fresh == [state |-> "READY", age |-> 0]
    <2>1. fresh.state # "OFFLINE" /\ Absent.state # "OFFLINE"
      BY DEF Absent
    <2>2. /\ member' = [member EXCEPT ![n] = fresh] \/ member' = [member EXCEPT ![n] = Absent]
          /\ Persist
      BY <1>3 DEF Join, Heartbeat, Deregister, SetMember
    <2> HIDE DEF fresh
    <2>3. Old(member')
      BY <1>0, <1>a, <2>1, <2>2 DEF Old
    <2> QED BY <1>2, <2>2, <2>3
  <1>4. ASSUME NEW n \in Nodes, HeartbeatAges(n) PROVE OfflineIsOld'
    <2> DEFINE age == member[n].age + 1
    <2>1. age \in 0 .. 2 /\ member[n] \in MemberType /\ memberFile[n] \in MemberType
      BY <1>0, <1>4 DEF HeartbeatAges, MemberType
    <2>2. /\ member' = [member EXCEPT ![n] = Older(@, age)]
          /\ memberFile' = [memberFile EXCEPT ![n] = Older(@, age)]
      BY <1>4 DEF HeartbeatAges
    <2> HIDE DEF age
    <2>3. /\ Older(member[n], age).state = member[n].state
          /\ member[n].age = 2 => Older(member[n], age) = member[n]
          /\ Older(memberFile[n], age).state = memberFile[n].state
          /\ memberFile[n].age = 2 => Older(memberFile[n], age) = memberFile[n]
      BY <2>1, OlderMember
    <2>4. Old(member') /\ Old(memberFile')
      BY <1>0, <1>a, <2>2, <2>3 DEF Old
    <2> QED BY <2>4 DEF OfflineIsOld, Old
  <1>5. CASE RefreshStates
    <2>1. \A n \in Nodes : \/ member'[n] = member[n]
                           \/ /\ member'[n] = [member[n] EXCEPT !.state = "OFFLINE"]
                              /\ member[n].age = 2 /\ member[n] \in MemberType
      BY <1>0, <1>5 DEF RefreshStates
    <2>2. Old(member') /\ Persist
      BY <1>5, <1>a, <2>1 DEF Old, MemberType, RefreshStates, Persist
    <2> QED BY <1>2, <2>2
  <1>6. CASE \/ \E n \in Nodes : HandleDropout(n)
             \/ \E t \in Tasks :
                  \/ LeaseExpires(t) \/ Checkpoint(t) \/ Activate(t) \/ Complete(t) \/ FailTask(t)
                  \/ \E n \in Nodes : \/ Transfer(t, n)
                                      \/ \E b \in BOOLEAN, r \in Safeties : Lease(t, n, b, r)
    <2>1. member' = member /\ memberFile' \in {memberFile, member'}
      BY <1>6 DEF HandleDropout, LeaseExpires, Checkpoint, Activate, Complete, FailTask,
         Report, Transfer, Lease, SetLease, Persist, Written, WriteRefused
    <2> QED BY <1>1, <1>a, <2>1
  <1>7. CASE Crash
    BY <1>1, <1>7, <1>a DEF Crash
  <1>8. CASE UNCHANGED vars
    BY <1>1, <1>8, <1>a DEF vars, disk
  <1> QED BY <1>3, <1>4, <1>5, <1>6, <1>7, <1>8 DEF Next

\* The lease of one task is fine: it waits for no node that is gone.
Waits(t) == /\ t \notin revived /\ Unsettled(t) /\ lease[t].owner \notin dropped \cup lost
            /\ member[lease[t].owner].state = "OFFLINE" /\ ~lease[t].expired

LEMMA DropoutStep ==
    ASSUME TypeOK, OfflineIsOld, FileIsMap, DropoutHandled, [Next]_vars PROVE DropoutHandled'
  <1>0. /\ member \in [Nodes -> MemberType] /\ lease \in [Tasks -> Slot]
        /\ dropped \subseteq Nodes
        /\ \A t \in Tasks : Exists(t) => lease[t] \in LeaseType
        /\ Old(member) /\ behind \in BOOLEAN
    BY Typed DEF OfflineIsOld
  <1> SUFFICES ASSUME NEW t \in Tasks, Waits(t)' PROVE FALSE
    BY DEF DropoutHandled, Waits
  <1>a. ~Waits(t)
    BY DEF DropoutHandled, Waits
  <1>b. lease'[t].state # "none" /\ ~Settled(lease'[t])
    BY DEF Waits, Unsettled, Exists
  <1>1. ASSUME dropped \cup lost \subseteq dropped' \cup lost', revived \subseteq revived',
               lease'[t] = lease[t], lease[t] \in LeaseType
        PROVE  member[lease[t].owner].state # "OFFLINE"
    BY <1>1, <1>a DEF Waits, Unsettled, Exists
  <1>2. ASSUME NEW n \in Nodes, NEW m \in MemberType, m.state # "OFFLINE" \/ m.state = member[n].state,
               member' = [member EXCEPT ![n] = m], lost \ {n} \subseteq lost',
               m.state = "OFFLINE" => lost \subseteq lost',
               UNCHANGED <<lease, dropped, revived>>
        PROVE  FALSE
    <2>1. /\ lease[t] \in LeaseType /\ member'[lease[t].owner].state = "OFFLINE"
          /\ lease[t].owner \in Nodes
      BY <1>0, <1>2, <1>b DEF Waits, Exists, LeaseType
    <2>2. CASE lease[t].owner = n
      <3>1. m.state = "OFFLINE"
        BY <1>0, <1>2, <2>1, <2>2
      <3> QED BY <1>1, <1>2, <2>1, <2>2, <3>1
    <2>3. CASE lease[t].owner # n
      <3>1. member[lease[t].owner].state = "OFFLINE"
        BY <1>0, <1>2, <2>1, <2>3
      <3> QED BY <1>2, <1>a, <2>3, <3>1 DEF Waits, Unsettled, Exists
    <2> QED BY <2>2, <2>3
  <1>3. ASSUME NEW n \in Nodes, Join(n) \/ Heartbeat(n) \/ Deregister(n) \/ HeartbeatAges(n)
        PROVE  FALSE
    <2>1. CASE HeartbeatAges(n)
      <3> DEFINE age == member[n].age + 1
      <3>1. age \in 0 .. 2 /\ member[n] \in MemberType
        BY <1>0, <2>1 DEF HeartbeatAges, MemberType
      <3>2. /\ member' = [member EXCEPT ![n] = Older(member[n], age)]
            /\ UNCHANGED <<lease, dropped, revived, lost>>
        BY <2>1 DEF HeartbeatAges
      <3> HIDE DEF age
      <3>3. Older(member[n], age) \in MemberType /\ Older(member[n], age).state = member[n].state
        BY <3>1, OlderMember
      <3> QED BY <1>2, <3>2, <3>3
    <2>2. CASE Join(n) \/ Heartbeat(n) \/ Deregister(n)
      <3> DEFINE fresh == [state |-> "READY", age |-> 0]
      <3>1. /\ fresh \in MemberType /\ Absent \in MemberType
            /\ fresh.state # "OFFLINE" /\ Absent.state # "OFFLINE"
        BY DEF MemberType, Absent
      <3>2. /\ member' = [member EXCEPT ![n] = fresh] \/ member' = [member EXCEPT ![n] = Absent]
            /\ lost' = lost \ {n} /\ UNCHANGED <<lease, dropped, revived>>
        BY <2>2 DEF Join, Heartbeat, Deregister, SetMember
      <3> HIDE DEF fresh
      <3> QED BY <1>2, <3>1, <3>2
    <2> QED BY <1>3, <2>1, <2>2
  <1>4. CASE RefreshStates
    <2>1. /\ UNCHANGED <<lease, revived>> /\ dropped \cup lost \subseteq dropped' \cup lost'
          /\ \A n \in Nodes : n \in dropped' \cup lost' \/ member'[n] = member[n]
      BY <1>4 DEF RefreshStates
    <2>2. lease[t] \in LeaseType /\ lease[t].owner \in Nodes
      BY <1>0, <1>b, <2>1 DEF Exists, LeaseType
    <2>3. member[lease[t].owner].state = "OFFLINE"
      BY <2>1, <2>2 DEF Waits
    <2> QED BY <1>1, <2>1, <2>2, <2>3
  <1>5. ASSUME UNCHANGED <<member, dropped, lost>>, lease'[t] = lease[t],
               t \in revived => t \in revived'
        PROVE  FALSE
    BY <1>5, <1>a DEF Waits, Unsettled, Exists
  <1>6. ASSUME NEW u \in Tasks, NEW n \in Nodes, NEW b \in BOOLEAN, NEW r \in Safeties,
               Lease(u, n, b, r)
        PROVE  FALSE
    <2>1. CASE u = t
      <3>1. lease'[t].owner = n /\ member'[n] = member[n] /\ member[n].age < 2
        BY <1>0, <1>6, <2>1 DEF Lease, SetLease, Granted, Online
      <3> QED BY <1>0, <3>1 DEF Waits, Old
    <2>2. CASE u # t
      BY <1>0, <1>5, <1>6, <2>2 DEF Lease, SetLease
    <2> QED BY <2>1, <2>2
  <1>7. ASSUME NEW u \in Tasks, LeaseExpires(u) PROVE FALSE
    <2>1. CASE u = t
      <3>1. lease'[t] = [lease[t] EXCEPT !.expired = TRUE]
        BY <1>0, <1>7, <2>1 DEF LeaseExpires, Expired
      <3>2. lease[t] \in LeaseType
        BY <1>0, <1>7, <2>1 DEF LeaseExpires, Slot, NoLease
      <3>3. lease'[t].expired
        BY <3>1, <3>2 DEF LeaseType
      <3> QED BY <3>3 DEF Waits
    <2>2. CASE u # t
      BY <1>0, <1>5, <1>7, <2>2 DEF LeaseExpires
    <2> QED BY <2>1, <2>2
  <1>8. ASSUME NEW u \in Tasks, NEW s, NEW b \in BOOLEAN, Report(u, s, b) PROVE FALSE
    <2>1. CASE u = t
      <3>1. /\ lease'[t] = [lease[t] EXCEPT !.state = s, !.checkpoint = @ \/ b]
            /\ lease[t] \in LeaseType /\ Exists(t)
            /\ revived' = IF Settled(lease[t]) THEN revived \cup {t} ELSE revived
            /\ UNCHANGED <<member, dropped, lost>>
        BY <1>0, <1>8, <2>1 DEF Report, SetLease
      <3>2. lease'[t].owner = lease[t].owner /\ lease'[t].expired = lease[t].expired
        BY <3>1 DEF LeaseType
      <3>3. ~Settled(lease[t]) /\ t \notin revived
        BY <3>1 DEF Waits
      <3> QED BY <1>a, <3>1, <3>2, <3>3 DEF Waits, Unsettled
    <2>2. CASE u # t
      BY <1>0, <1>5, <1>8, <2>2 DEF Report, SetLease
    <2> QED BY <2>1, <2>2
  <1>9. ASSUME NEW u \in Tasks, Checkpoint(u) \/ Activate(u) \/ Complete(u) \/ FailTask(u) PROVE FALSE
    BY <1>8, <1>9 DEF Checkpoint, Activate, Complete, FailTask
  <1>10. ASSUME NEW u \in Tasks, NEW n \in Nodes, Transfer(u, n) PROVE FALSE
    <2>1. CASE u = t
      <3>1. /\ lease'[t] = [lease[t] EXCEPT !.state = "TRANSFERRED", !.owner = n, !.expired = FALSE]
            /\ lease[t] \in LeaseType /\ member' = member /\ member[n].age < 2
        BY <1>0, <1>10, <2>1 DEF Transfer, SetLease, Online
      <3>2. lease'[t].owner = n
        BY <3>1 DEF LeaseType
      <3> QED BY <1>0, <3>1, <3>2 DEF Waits, Old
    <2>2. CASE u # t
      BY <1>0, <1>5, <1>10, <2>2 DEF Transfer, SetLease
    <2> QED BY <2>1, <2>2
  <1>11. ASSUME NEW n \in Nodes, HandleDropout(n) PROVE FALSE
    <2>1. /\ dropped' = dropped \ {n} /\ UNCHANGED <<member, revived, lost>>
          /\ lease'[t] = IF Exists(t) /\ lease[t].owner = n /\ ~Settled(lease[t])
                         THEN AfterDropout(lease[t]) ELSE lease[t]
      BY <1>11 DEF HandleDropout
    <2>2. CASE Exists(t) /\ lease[t].owner = n /\ ~Settled(lease[t])
      <3>1. lease'[t].expired \/ lease'[t].state = "FAILED"
        BY <1>0, <2>1, <2>2, DropoutLease
      <3> QED BY <1>b, <3>1 DEF Waits, Settled
    <2>3. CASE ~(Exists(t) /\ lease[t].owner = n /\ ~Settled(lease[t]))
      BY <1>a, <1>b, <2>1, <2>3 DEF Waits, Unsettled, Exists
    <2> QED BY <2>2, <2>3
  <1>12. CASE Crash
    <2>1. /\ member' = memberFile /\ lease' = leaseFile /\ UNCHANGED revived
          /\ lost' = {n \in Nodes : memberFile[n].state = "OFFLINE" /\ (behind \/ n \in dropped \cup lost)}
      BY <1>12 DEF Crash
    <2>2. leaseFile[t] \in LeaseType
      BY <1>b, <2>1, Typed DEF Slot, NoLease
    <2>3. lease'[t].owner \in Nodes /\ member'[lease'[t].owner].state = "OFFLINE"
      BY <2>1, <2>2 DEF Waits, LeaseType
    <2>4. ~behind /\ lease'[t].owner \notin dropped \cup lost
      BY <2>1, <2>3 DEF Waits
    <2> QED BY <1>a, <2>1, <2>4 DEF FileIsMap, Waits, Unsettled, Exists
  <1>13. CASE UNCHANGED vars
    BY <1>5, <1>13 DEF vars
  <1> QED BY <1>3, <1>4, <1>6, <1>7, <1>9, <1>10, <1>11, <1>12, <1>13 DEF Next

\* No open task waits on an unexpired lease of a node that is stored OFFLINE, once its
\* dropout was reported and handled: what handleDropout() promises the other nodes
\* (fleet-controller.ts:202-238), also through restarts and refused writes.  The reports
\* and handlings these lose are excepted node by node, and reopened tasks by name.
THEOREM Dropout == Spec => []DropoutHandled
  <1>1. FInv /\ [Next]_vars => FInv'
    BY TypeStep, OldStep, FileStep, DropoutStep DEF FInv
  <1>2. FInv => DropoutHandled
    BY DEF FInv
  <1> QED BY InitInv, <1>1, <1>2, PTL DEF Spec
=============================================================================
