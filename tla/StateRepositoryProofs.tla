----------------------- MODULE StateRepositoryProofs -----------------------
(***************************************************************************)
(* The record repository and its quarantine for any keys, owners and       *)
(* bounds.                                                                 *)
(*                                                                         *)
(* The order of the rows rests on MaxIsAbove: the position a new row gets  *)
(* is above that of every row, so it is the last one in the list.  That no *)
(* write vanishes rests on AsideOnce: the rows set aside are writes, and   *)
(* restoring one of them leaves no second copy of it behind.               *)
(***************************************************************************)
EXTENDS StateRepository, WellFoundedInduction, TLAPS

\* Positions, values and insertions come from the writes; rows that exist have one of each.
Bounded ==
    /\ \A k \in Keys : /\ record[k].position <= writes
                       /\ record[k].value <= writes
                       /\ record[k].since <= writes
    /\ \A k \in Live : record[k].position >= 1 /\ record[k].value >= 1
    /\ \A e \in aside : e.position <= writes /\ e.value <= writes
    /\ namespace.revision <= writes + removals

\* One write is set aside once.
AsideOnce == \A e, f \in aside : e.key = f.key /\ e.value = f.value => e = f

InLive(k, v)  == k \in Live /\ record[k].value = v
InAside(k, v) == \E e \in aside : e.key = k /\ e.value = v

\* NothingVanishes, write by write.
Accounted ==
    \A k \in Keys, v \in 0 .. MaxWrites :
        /\ <<k, v>> \in kept <=> InLive(k, v) \/ InAside(k, v)
        /\ ~(InLive(k, v) /\ InAside(k, v))

SRInv == TypeOK /\ Bounded /\ AsideOnce /\ StayersInOrder /\ Accounted

(***************************************************************************)
(* The maximum of a bounded set                                            *)
(***************************************************************************)

LEMMA MaxIsAbove ==
    ASSUME NEW P \in SUBSET Nat, P # {}, NEW w \in Nat, \A p \in P : p <= w
    PROVE  Max(P) \in P /\ \A p \in P : p <= Max(P)
  <1> DEFINE Above == {n \in Nat : \A p \in P : p <= n}
             Less  == OpToRel(<, Nat)
  <1>1. IsWellFoundedOn(Less, Nat)
    BY NatLessThanWellFounded
  <1>2. Above \subseteq Nat /\ Above # {}
    OBVIOUS
  <1>3. \E x \in Above : \A y \in Above : ~(<<y, x>> \in Less)
    <2> HIDE DEF Above, Less
    <2> QED BY <1>1, <1>2, WFMin
  <1>4. PICK x \in Above : \A y \in Above : ~(y < x)
    BY <1>3 DEF OpToRel
  <1>5. x \in P
    <2> SUFFICES ASSUME x \notin P PROVE FALSE
      OBVIOUS
    <2>1. \A p \in P : p < x
      BY <1>4
    <2>2. x - 1 \in Nat /\ \A p \in P : p <= x - 1
      <3>1. PICK p \in P : TRUE
        OBVIOUS
      <3>2. x \in Nat /\ x > p /\ p \in Nat
        BY <2>1, <3>1, <1>4
      <3> QED BY <2>1, <3>2
    <2>3. x - 1 \in Above
      BY <2>2
    <2> QED BY <2>3, <1>4
  <1>6. \A p \in P : x >= p
    BY <1>4
  <1>7. /\ Max(P) \in P
        /\ \A p \in P : Max(P) >= p
    BY <1>5, <1>6 DEF Max
  <1> QED BY <1>7

\* COALESCE(MAX(position), 0) + 1 is above the position of every row, and the writes bound it.
LEMMA NewPosition ==
    ASSUME TypeOK, Bounded, Keys # {}
    PROVE  /\ NextPosition \in 1 .. writes + 1
           /\ \A k \in Keys : record[k].position < NextPosition
  <1> DEFINE P == {record[k].position : k \in Keys}
  <1>1. \A k \in Keys : record[k] \in RowType
    BY DEF TypeOK
  <1>2. P \in SUBSET Nat /\ P # {}
    BY <1>1 DEF RowType
  <1>3. writes \in Nat /\ \A p \in P : p <= writes
    BY DEF TypeOK, Bounded
  <1>4. Max(P) \in P /\ \A p \in P : p <= Max(P)
    <2> HIDE DEF P
    <2> QED BY <1>2, <1>3, MaxIsAbove
  <1>5. NextPosition = Max(P) + 1
    BY DEF NextPosition
  <1>6. Max(P) \in Nat /\ Max(P) <= writes
    BY <1>2, <1>3, <1>4
  <1>7. \A k \in Keys : record[k].position \in P /\ record[k].position \in Nat
    BY <1>1 DEF RowType
  <1> HIDE DEF P
  <1>8. NextPosition \in 1 .. writes + 1
    BY <1>3, <1>5, <1>6
  <1>9. \A k \in Keys : record[k].position < NextPosition
    BY <1>4, <1>5, <1>6, <1>7
  <1> QED BY <1>8, <1>9

(***************************************************************************)
(* Types                                                                   *)
(***************************************************************************)

EntryType == [key : Keys, position : 1 .. MaxWrites, value : 1 .. MaxWrites]

LEMMA Typed ==
    ASSUME TypeOK
    PROVE  /\ MaxWrites \in Nat /\ MaxRemovals \in Nat /\ MaxMoves \in Nat
           /\ writes \in 0 .. MaxWrites /\ removals \in 0 .. MaxRemovals /\ moves \in 0 .. MaxMoves
           /\ namespace \in [owner : Owners \cup {"none"}, revision : 0 .. MaxWrites + MaxRemovals]
           /\ record \in [Keys -> RowType] /\ NoRow \in RowType
           /\ aside \subseteq EntryType
           /\ kept \subseteq Keys \X (1 .. MaxWrites)
           /\ Live \subseteq Keys
  BY RepositoryAssumption DEF TypeOK, RowType, NoRow, EntryType, Live

\* What Store() makes of the row.
Stored(k) == IF k \in Live THEN [record[k] EXCEPT !.value = writes + 1]
             ELSE [position |-> NextPosition, value |-> writes + 1, since |-> writes + 1]

LEMMA StoreRow ==
    ASSUME TypeOK, Bounded, NEW k \in Keys, Store(k)
    PROVE  /\ record' = [record EXCEPT ![k] = Stored(k)]
           /\ Stored(k) \in RowType
           /\ Stored(k).value = writes + 1
           /\ Stored(k).position \in 1 .. writes + 1
           /\ Stored(k).since <= writes + 1
           /\ k \in Live => /\ Stored(k).position = record[k].position
                            /\ Stored(k).since = record[k].since
           /\ k \notin Live => /\ \A l \in Keys : record[l].position < Stored(k).position
                               /\ Stored(k).since = writes + 1
  <1>1. writes \in Nat /\ writes + 1 \in 0 .. MaxWrites /\ MaxWrites \in Nat
    BY Typed DEF Store
  <1>2. record[k] \in RowType
    BY Typed
  <1>3. NextPosition \in 1 .. writes + 1 /\ \A l \in Keys : record[l].position < NextPosition
    BY NewPosition
  <1>4. record' = [record EXCEPT ![k] = Stored(k)]
    BY DEF Store, Stored
  <1>5. CASE k \in Live
    <2>1. Stored(k) = [record[k] EXCEPT !.value = writes + 1]
      BY <1>5 DEF Stored
    <2>2. record[k].position \in 1 .. writes /\ record[k].since <= writes
      BY <1>5, <1>2 DEF Bounded, RowType
    <2>3. /\ Stored(k) \in RowType /\ Stored(k).value = writes + 1
          /\ Stored(k).position = record[k].position /\ Stored(k).since = record[k].since
      BY <1>1, <1>2, <2>1 DEF RowType
    <2>4. Stored(k).position \in 1 .. writes + 1 /\ Stored(k).since <= writes + 1
      BY <1>1, <1>2, <2>2, <2>3 DEF RowType
    <2> QED BY <1>4, <1>5, <2>3, <2>4
  <1>6. CASE k \notin Live
    <2>1. Stored(k) = [position |-> NextPosition, value |-> writes + 1, since |-> writes + 1]
      BY <1>6 DEF Stored
    <2> HIDE DEF NextPosition
    <2>2. /\ Stored(k) \in RowType /\ Stored(k).value = writes + 1
          /\ Stored(k).position = NextPosition /\ Stored(k).since = writes + 1
      BY <1>1, <1>3, <2>1 DEF RowType
    <2> QED BY <1>1, <1>3, <1>4, <1>6, <2>2
  <1> QED BY <1>5, <1>6

(***************************************************************************)
(* The operations                                                          *)
(***************************************************************************)

\* A change outside the quarantine moves the revision, and the bounds leave room for it.
LEMMA Bumped ==
    ASSUME TypeOK, Bounded, Bump, NEW w \in 0 .. MaxWrites, NEW d \in 0 .. MaxRemovals,
           w + d = writes + removals + 1
    PROVE  /\ namespace' \in [owner : Owners \cup {"none"}, revision : 0 .. MaxWrites + MaxRemovals]
           /\ namespace'.revision <= w + d
           /\ namespace'.revision = namespace.revision + 1
  <1>1. /\ MaxWrites \in Nat /\ MaxRemovals \in Nat /\ writes \in Nat /\ removals \in Nat
        /\ namespace \in [owner : Owners \cup {"none"}, revision : 0 .. MaxWrites + MaxRemovals]
        /\ namespace.revision <= writes + removals
    BY Typed DEF Bounded
  <1>2. namespace' = [namespace EXCEPT !.revision = @ + 1]
    BY DEF Bump
  <1>3. namespace.revision \in Nat /\ namespace'.revision = namespace.revision + 1
    BY <1>1, <1>2
  <1>4. namespace.revision + 1 <= w + d /\ w + d <= MaxWrites + MaxRemovals
    BY <1>1, <1>3
  <1>5. namespace.revision + 1 \in 0 .. MaxWrites + MaxRemovals
    BY <1>1, <1>3, <1>4
  <1> QED BY <1>1, <1>2, <1>3, <1>4, <1>5

LEMMA StoreStep ==
    ASSUME SRInv, NEW k \in Keys, Store(k)
    PROVE  SRInv'
  <1>0. TypeOK /\ Bounded /\ AsideOnce /\ StayersInOrder /\ Accounted
    BY DEF SRInv
  <1>1. /\ writes \in Nat /\ writes' = writes + 1 /\ writes' \in 1 .. MaxWrites
        /\ MaxWrites \in Nat /\ removals \in 0 .. MaxRemovals /\ MaxRemovals \in Nat
        /\ UNCHANGED <<aside, removals, moves>>
        /\ kept' = (kept \ {<<k, record[k].value>>}) \cup {<<k, writes + 1>>}
        /\ Bump
    BY <1>0, Typed DEF Store
  <1>2. /\ record \in [Keys -> RowType] /\ NoRow \in RowType /\ aside \subseteq EntryType
        /\ kept \subseteq Keys \X (1 .. MaxWrites)
    BY <1>0, Typed
  <1> DEFINE row == Stored(k)
  <1>3. /\ record' = [record EXCEPT ![k] = row]
        /\ row \in RowType
        /\ row.value = writes + 1
        /\ row.position \in 1 .. writes + 1
        /\ row.since <= writes + 1
        /\ k \in Live => row.position = record[k].position /\ row.since = record[k].since
        /\ k \notin Live => /\ \A l \in Keys : record[l].position < row.position
                            /\ row.since = writes + 1
    BY <1>0, StoreRow
  <1> HIDE DEF row
  <1>4. /\ record'[k] = row
        /\ \A l \in Keys : l # k => record'[l] = record[l]
        /\ record' \in [Keys -> RowType]
    BY <1>2, <1>3
  <1>5. row # NoRow
    BY <1>1, <1>3 DEF NoRow
  <1>6. /\ k \in Live'
        /\ \A l \in Keys : l # k => (l \in Live' <=> l \in Live)
        /\ Live \subseteq Keys /\ Live' \subseteq Keys
    BY <1>4, <1>5 DEF Live
  <1>7. writes + 1 \in 0 .. MaxWrites /\ (writes + 1) + removals = writes + removals + 1
    BY <1>1, <1>0, Typed
  <1>8. /\ namespace' \in [owner : Owners \cup {"none"}, revision : 0 .. MaxWrites + MaxRemovals]
        /\ namespace'.revision <= writes' + removals'
    <2>1. /\ namespace' \in [owner : Owners \cup {"none"}, revision : 0 .. MaxWrites + MaxRemovals]
          /\ namespace'.revision <= (writes + 1) + removals
      BY <1>0, <1>1, <1>7, Bumped
    <2> QED BY <1>1, <2>1, Zenon
  <1>9. TypeOK'
    <2>1. kept' \subseteq Keys \X (1 .. MaxWrites)
      BY <1>1, <1>2
    <2> QED BY <1>0, <1>1, <1>4, <1>8, <2>1 DEF TypeOK
  <1>10. Bounded'
    <2>1. \A l \in Keys : /\ record'[l].position <= writes'
                          /\ record'[l].value <= writes'
                          /\ record'[l].since <= writes'
      <3> TAKE l \in Keys
      <3>1. CASE l = k
        BY <1>1, <1>3, <1>4, <3>1
      <3>2. CASE l # k
        <4>1. record[l] \in RowType /\ record'[l] = record[l]
          BY <1>2, <1>4, <3>2
        <4>2. record[l].position <= writes /\ record[l].value <= writes /\ record[l].since <= writes
          BY <1>0 DEF Bounded
        <4> QED BY <1>1, <4>1, <4>2 DEF RowType
      <3> QED BY <3>1, <3>2
    <2>2. \A l \in Live' : record'[l].position >= 1 /\ record'[l].value >= 1
      <3> TAKE l \in Live'
      <3>1. CASE l = k
        BY <1>1, <1>3, <1>4, <3>1
      <3>2. CASE l # k
        BY <1>0, <1>4, <1>6, <3>2 DEF Bounded
      <3> QED BY <3>1, <3>2
    <2>3. \A e \in aside' : e.position <= writes' /\ e.value <= writes'
      <3> TAKE e \in aside'
      <3>1. e \in aside /\ e \in EntryType
        BY <1>1, <1>2
      <3>2. e.position <= writes /\ e.value <= writes
        BY <1>0, <3>1 DEF Bounded
      <3> QED BY <1>1, <3>1, <3>2 DEF EntryType
    <2> QED BY <1>8, <2>1, <2>2, <2>3 DEF Bounded
  <1>11. AsideOnce'
    BY <1>0, <1>1 DEF AsideOnce
  <1>12. StayersInOrder'
    <2> SUFFICES ASSUME NEW a \in Live', NEW b \in Live',
                        0 < record'[a].since, record'[a].since < record'[b].since
                 PROVE  record'[a].position < record'[b].position
      BY DEF StayersInOrder
    <2>0. a \in Keys /\ b \in Keys /\ record[a] \in RowType /\ record[b] \in RowType
      BY <1>2, <1>6
    <2>1. CASE a # k /\ b # k
      BY <1>0, <1>4, <1>6, <2>0, <2>1 DEF StayersInOrder
    <2>2. CASE k \in Live
      <3>1. /\ a \in Live /\ b \in Live
            /\ record'[a].since = record[a].since /\ record'[b].since = record[b].since
            /\ record'[a].position = record[a].position /\ record'[b].position = record[b].position
        BY <1>3, <1>4, <1>6, <2>0, <2>2
      <3> QED BY <1>0, <3>1 DEF StayersInOrder
    <2>3. CASE k \notin Live /\ a # k /\ b = k
      BY <1>3, <1>4, <2>0, <2>3
    <2>4. CASE k \notin Live /\ a = k
      <3>1. row.since = writes + 1 /\ record'[a] = row
        BY <1>3, <1>4, <2>4
      <3>2. record'[b].since <= writes + 1
        BY <1>1, <1>10, <2>0 DEF Bounded
      <3>3. record'[b].since \in Nat
        BY <1>4, <2>0 DEF RowType
      <3> QED BY <1>1, <3>1, <3>2, <3>3
    <2> QED BY <2>1, <2>2, <2>3, <2>4
  <1>13. Accounted'
    <2> SUFFICES ASSUME NEW l \in Keys, NEW v \in 0 .. MaxWrites
                 PROVE  /\ <<l, v>> \in kept' <=> InLive(l, v)' \/ InAside(l, v)'
                        /\ ~(InLive(l, v)' /\ InAside(l, v)')
      BY DEF Accounted
    <2>1. /\ <<l, v>> \in kept <=> InLive(l, v) \/ InAside(l, v)
          /\ ~(InLive(l, v) /\ InAside(l, v))
      BY <1>0 DEF Accounted
    <2>2. InAside(l, v)' <=> InAside(l, v)
      BY <1>1 DEF InAside
    <2>3. CASE l # k
      <3>1. InLive(l, v)' <=> InLive(l, v)
        BY <1>4, <1>6, <2>3 DEF InLive
      <3>2. <<l, v>> \in kept' <=> <<l, v>> \in kept
        BY <1>1, <2>3
      <3> QED BY <2>1, <2>2, <3>1, <3>2
    <2>4. CASE l = k /\ v = writes + 1
      <3>1. InLive(l, v)' /\ <<l, v>> \in kept'
        BY <1>1, <1>3, <1>4, <1>6, <2>4 DEF InLive
      <3>2. ~InAside(l, v)
        <4> SUFFICES ASSUME NEW e \in aside, e.value = writes + 1 PROVE FALSE
          BY <2>4 DEF InAside
        <4>1. e.value <= writes
          BY <1>0 DEF Bounded
        <4> QED BY <1>1, <4>1
      <3> QED BY <2>2, <3>1, <3>2
    <2>5. CASE l = k /\ v # writes + 1
      <3>1. ~InLive(l, v)'
        BY <1>3, <1>4, <2>5 DEF InLive
      <3>2. <<l, v>> \in kept' <=> <<l, v>> \in kept /\ v # record[k].value
        BY <1>1, <2>5
      <3>3. CASE v = record[k].value /\ k \in Live
        <4>1. InLive(l, v)
          BY <2>5, <3>3 DEF InLive
        <4> QED BY <2>1, <2>2, <3>1, <3>2, <3>3, <4>1
      <3>4. CASE v = record[k].value /\ k \notin Live
        <4>1. v = 0
          BY <2>5, <3>4 DEF Live, NoRow
        <4>2. <<l, v>> \notin kept
          BY <1>2, <4>1
        <4> QED BY <2>1, <2>2, <3>1, <3>2, <3>4, <4>2
      <3>5. CASE v # record[k].value
        <4>1. ~InLive(l, v)
          BY <2>5, <3>5 DEF InLive
        <4> QED BY <2>1, <2>2, <3>1, <3>2, <3>5, <4>1
      <3> QED BY <3>3, <3>4, <3>5
    <2> QED BY <2>3, <2>4, <2>5
  <1> QED BY <1>9, <1>10, <1>11, <1>12, <1>13 DEF SRInv

\* Rows that leave the table: what is said of the rows goes on holding of those that stay.
LEMMA RowsLeave ==
    ASSUME SRInv, NEW S, S \subseteq Live,
           record' = [k \in Keys |-> IF k \in S THEN NoRow ELSE record[k]],
           writes' = writes
    PROVE  /\ record' \in [Keys -> RowType]
           /\ Live' = Live \ S
           /\ \A k \in Live' : record'[k] = record[k]
           /\ \A k \in Keys : /\ record'[k].position <= writes'
                             /\ record'[k].value <= writes'
                             /\ record'[k].since <= writes'
           /\ \A k \in Live' : record'[k].position >= 1 /\ record'[k].value >= 1
           /\ StayersInOrder'
  <1>0. TypeOK /\ Bounded /\ StayersInOrder
    BY DEF SRInv
  <1>1. record \in [Keys -> RowType] /\ NoRow \in RowType /\ writes \in Nat
    BY <1>0, Typed
  <1>2. record' \in [Keys -> RowType]
    BY <1>1
  <1>3. \A k \in Keys : record'[k] = IF k \in S THEN NoRow ELSE record[k]
    OBVIOUS
  <1>4. Live' = Live \ S
    BY <1>3 DEF Live
  <1>5. \A k \in Live' : k \in Live /\ k \in Keys /\ record'[k] = record[k]
    BY <1>3, <1>4 DEF Live
  <1>6. \A k \in Keys : /\ record'[k].position <= writes'
                       /\ record'[k].value <= writes'
                       /\ record'[k].since <= writes'
    <2> TAKE k \in Keys
    <2>1. record[k].position <= writes /\ record[k].value <= writes /\ record[k].since <= writes
      BY <1>0 DEF Bounded
    <2>2. NoRow.position = 0 /\ NoRow.value = 0 /\ NoRow.since = 0
      BY DEF NoRow
    <2> QED BY <1>1, <1>3, <2>1, <2>2
  <1>7. \A k \in Live' : record'[k].position >= 1 /\ record'[k].value >= 1
    BY <1>0, <1>5 DEF Bounded
  <1>8. StayersInOrder'
    BY <1>0, <1>5 DEF StayersInOrder
  <1> QED BY <1>2, <1>4, <1>5, <1>6, <1>7, <1>8

LEMMA DeleteStep ==
    ASSUME SRInv, NEW S, S \subseteq Live, Delete(S)
    PROVE  SRInv'
  <1>0. TypeOK /\ Bounded /\ AsideOnce /\ StayersInOrder /\ Accounted
    BY DEF SRInv
  <1>1. /\ removals < MaxRemovals /\ removals' = removals + 1
        /\ record' = [k \in Keys |-> IF k \in S THEN NoRow ELSE record[k]]
        /\ kept' = kept \ {<<k, record[k].value>> : k \in S}
        /\ Bump
        /\ UNCHANGED <<aside, writes, moves>>
    BY DEF Delete
  <1>2. /\ record' \in [Keys -> RowType]
        /\ Live' = Live \ S
        /\ \A k \in Live' : record'[k] = record[k]
        /\ \A k \in Keys : /\ record'[k].position <= writes'
                          /\ record'[k].value <= writes'
                          /\ record'[k].since <= writes'
        /\ \A k \in Live' : record'[k].position >= 1 /\ record'[k].value >= 1
        /\ StayersInOrder'
    BY <1>1, RowsLeave
  <1>3. /\ removals + 1 \in 0 .. MaxRemovals /\ writes \in 0 .. MaxWrites
        /\ writes + (removals + 1) = writes + removals + 1
    BY <1>0, <1>1, Typed
  <1>4. /\ namespace' \in [owner : Owners \cup {"none"}, revision : 0 .. MaxWrites + MaxRemovals]
        /\ namespace'.revision <= writes' + removals'
    <2>1. /\ namespace' \in [owner : Owners \cup {"none"}, revision : 0 .. MaxWrites + MaxRemovals]
          /\ namespace'.revision <= writes + (removals + 1)
      BY <1>0, <1>1, <1>3, Bumped
    <2> QED BY <1>1, <2>1, Zenon
  <1>5. TypeOK'
    <2>1. kept' \subseteq Keys \X (1 .. MaxWrites)
      BY <1>0, <1>1, Typed
    <2> QED BY <1>0, <1>1, <1>2, <1>3, <1>4, <2>1 DEF TypeOK
  <1>6. Bounded'
    <2>1. \A e \in aside' : e.position <= writes' /\ e.value <= writes'
      BY <1>0, <1>1 DEF Bounded
    <2> QED BY <1>2, <1>4, <2>1 DEF Bounded
  <1>7. AsideOnce'
    BY <1>0, <1>1 DEF AsideOnce
  <1>8. Accounted'
    <2> SUFFICES ASSUME NEW k \in Keys, NEW v \in 0 .. MaxWrites
                 PROVE  /\ <<k, v>> \in kept' <=> InLive(k, v)' \/ InAside(k, v)'
                        /\ ~(InLive(k, v)' /\ InAside(k, v)')
      BY <1>1 DEF Accounted
    <2>1. /\ <<k, v>> \in kept <=> InLive(k, v) \/ InAside(k, v)
          /\ ~(InLive(k, v) /\ InAside(k, v))
      BY <1>0 DEF Accounted
    <2>2. InAside(k, v)' <=> InAside(k, v)
      BY <1>1 DEF InAside
    <2>3. InLive(k, v)' <=> InLive(k, v) /\ k \notin S
      BY <1>2 DEF InLive
    <2>4. <<k, v>> \in kept' <=> <<k, v>> \in kept /\ ~(k \in S /\ v = record[k].value)
      BY <1>1
    <2>5. k \in S /\ v = record[k].value => InLive(k, v)
      BY DEF InLive
    <2>6. k \in S /\ InLive(k, v) => v = record[k].value
      BY DEF InLive
    <2> QED BY <2>1, <2>2, <2>3, <2>4, <2>5, <2>6
  <1> QED BY <1>2, <1>5, <1>6, <1>7, <1>8 DEF SRInv

\* The entries made of rows are new: none of them was in the quarantine already.
LEMMA NewEntries ==
    ASSUME SRInv, NEW k \in Live
    PROVE  /\ Entry(k) \in EntryType
           /\ Entry(k).key = k /\ Entry(k).value = record[k].value
           /\ Entry(k).position <= writes /\ Entry(k).value <= writes
           /\ \A e \in aside : ~(e.key = k /\ e.value = record[k].value)
  <1>1. TypeOK /\ Bounded /\ Accounted
    BY DEF SRInv
  <1>2. k \in Keys /\ record[k] \in RowType /\ writes \in 0 .. MaxWrites /\ MaxWrites \in Nat
    BY <1>1, Typed
  <1>3. /\ record[k].position >= 1 /\ record[k].value >= 1
        /\ record[k].position <= writes /\ record[k].value <= writes
    BY <1>1, <1>2 DEF Bounded
  <1>4. record[k].position \in 1 .. MaxWrites /\ record[k].value \in 1 .. MaxWrites
    BY <1>2, <1>3 DEF RowType
  <1>5. /\ Entry(k) \in EntryType
        /\ Entry(k).key = k /\ Entry(k).value = record[k].value
        /\ Entry(k).position = record[k].position
    BY <1>2, <1>4 DEF Entry, EntryType
  <1>6. InLive(k, record[k].value)
    BY DEF InLive
  <1>7. ~InAside(k, record[k].value)
    <2>1. record[k].value \in 0 .. MaxWrites
      BY <1>2 DEF RowType
    <2> QED BY <1>1, <1>2, <1>6, <2>1 DEF Accounted
  <1> QED BY <1>3, <1>5, <1>7 DEF InAside

LEMMA SetAsideStep ==
    ASSUME SRInv, NEW S, S \subseteq Live, SetAside(S)
    PROVE  SRInv'
  <1>0. TypeOK /\ Bounded /\ AsideOnce /\ StayersInOrder /\ Accounted
    BY DEF SRInv
  <1>1. /\ moves < MaxMoves /\ moves' = moves + 1
        /\ aside' = aside \cup {Entry(k) : k \in S}
        /\ record' = [k \in Keys |-> IF k \in S THEN NoRow ELSE record[k]]
        /\ UNCHANGED <<namespace, writes, kept, removals>>
    BY DEF SetAside
  <1>2. /\ record' \in [Keys -> RowType]
        /\ Live' = Live \ S
        /\ \A k \in Live' : record'[k] = record[k]
        /\ \A k \in Keys : /\ record'[k].position <= writes'
                          /\ record'[k].value <= writes'
                          /\ record'[k].since <= writes'
        /\ \A k \in Live' : record'[k].position >= 1 /\ record'[k].value >= 1
        /\ StayersInOrder'
    BY <1>1, RowsLeave
  <1>3. \A k \in S : /\ Entry(k) \in EntryType
                    /\ Entry(k).key = k /\ Entry(k).value = record[k].value
                    /\ Entry(k).position <= writes /\ Entry(k).value <= writes
                    /\ \A e \in aside : ~(e.key = k /\ e.value = record[k].value)
    BY NewEntries
  <1>4. \A e \in aside' : e \in aside \/ \E k \in S : e = Entry(k)
    BY <1>1
  <1>5. TypeOK'
    <2>1. aside' \subseteq EntryType
      BY <1>0, <1>1, <1>3, Typed
    <2>2. moves' \in 0 .. MaxMoves
      BY <1>0, <1>1, Typed
    <2> QED BY <1>0, <1>1, <1>2, <2>1, <2>2 DEF TypeOK, EntryType
  <1>6. Bounded'
    <2>1. \A e \in aside' : e.position <= writes' /\ e.value <= writes'
      BY <1>0, <1>1, <1>3, <1>4 DEF Bounded
    <2>2. namespace'.revision <= writes' + removals'
      BY <1>0, <1>1 DEF Bounded
    <2> QED BY <1>2, <2>1, <2>2 DEF Bounded
  <1>7. AsideOnce'
    <2> SUFFICES ASSUME NEW e \in aside', NEW f \in aside', e.key = f.key, e.value = f.value
                 PROVE  e = f
      BY DEF AsideOnce
    <2>1. CASE e \in aside /\ f \in aside
      BY <1>0, <2>1 DEF AsideOnce
    <2>2. ASSUME NEW k \in S, e = Entry(k) PROVE e = f
      <3>1. e.key = k /\ e.value = record[k].value
        BY <1>3, <2>2
      <3>2. f \notin aside
        <4>1. f.key = k /\ f.value = record[k].value
          BY <3>1
        <4> QED BY <1>3, <4>1
      <3> QED BY <1>3, <1>4, <2>2, <3>1, <3>2
    <2>3. ASSUME NEW k \in S, f = Entry(k) PROVE e = f
      <3>1. f.key = k /\ f.value = record[k].value
        BY <1>3, <2>3
      <3>2. e \notin aside
        BY <1>3, <3>1
      <3> QED BY <1>3, <1>4, <2>3, <3>1, <3>2
    <2> QED BY <1>4, <2>1, <2>2, <2>3
  <1>8. Accounted'
    <2> SUFFICES ASSUME NEW k \in Keys, NEW v \in 0 .. MaxWrites
                 PROVE  /\ <<k, v>> \in kept' <=> InLive(k, v)' \/ InAside(k, v)'
                        /\ ~(InLive(k, v)' /\ InAside(k, v)')
      BY <1>1 DEF Accounted
    <2>1. /\ <<k, v>> \in kept <=> InLive(k, v) \/ InAside(k, v)
          /\ ~(InLive(k, v) /\ InAside(k, v))
      BY <1>0 DEF Accounted
    <2>2. InAside(k, v)' <=> InAside(k, v) \/ (k \in S /\ record[k].value = v)
      <3>1. ASSUME InAside(k, v)' PROVE InAside(k, v) \/ (k \in S /\ record[k].value = v)
        <4>1. PICK e \in aside' : e.key = k /\ e.value = v
          BY <3>1 DEF InAside
        <4> QED BY <1>3, <1>4, <4>1 DEF InAside
      <3>2. ASSUME InAside(k, v) PROVE InAside(k, v)'
        BY <1>1, <3>2 DEF InAside
      <3>3. ASSUME k \in S, record[k].value = v PROVE InAside(k, v)'
        <4>1. Entry(k) \in aside' /\ Entry(k).key = k /\ Entry(k).value = v
          BY <1>1, <1>3, <3>3
        <4> QED BY <4>1 DEF InAside
      <3> QED BY <3>1, <3>2, <3>3
    <2>3. InLive(k, v)' <=> InLive(k, v) /\ k \notin S
      BY <1>2 DEF InLive
    <2>4. k \in S => (InLive(k, v) <=> record[k].value = v)
      BY DEF InLive
    <2> QED BY <1>1, <2>1, <2>2, <2>3, <2>4
  <1> QED BY <1>2, <1>5, <1>6, <1>7, <1>8 DEF SRInv

LEMMA RestoreStep ==
    ASSUME SRInv, NEW e \in aside, Restore(e)
    PROVE  SRInv'
  <1>0. TypeOK /\ Bounded /\ AsideOnce /\ StayersInOrder /\ Accounted
    BY DEF SRInv
  <1> DEFINE row == [position |-> e.position, value |-> e.value, since |-> 0]
  <1>1. /\ e.key \notin Live
        /\ moves < MaxMoves /\ moves' = moves + 1
        /\ record' = [record EXCEPT ![e.key] = row]
        /\ aside' = aside \ {e}
        /\ UNCHANGED <<namespace, writes, kept, removals>>
    BY DEF Restore
  <1>2. /\ record \in [Keys -> RowType] /\ aside \subseteq EntryType
        /\ writes \in 0 .. MaxWrites /\ MaxWrites \in Nat
    BY <1>0, Typed
  <1>3. e.key \in Keys /\ e.position \in 1 .. MaxWrites /\ e.value \in 1 .. MaxWrites
    BY <1>2 DEF EntryType
  <1>4. /\ row \in RowType /\ row # NoRow
        /\ row.position = e.position /\ row.value = e.value /\ row.since = 0
    BY <1>2, <1>3 DEF RowType, NoRow
  <1>5. e.position <= writes /\ e.value <= writes
    BY <1>0 DEF Bounded
  <1> HIDE DEF row
  <1>6. /\ record'[e.key] = row
        /\ \A k \in Keys : k # e.key => record'[k] = record[k]
        /\ record' \in [Keys -> RowType]
    BY <1>1, <1>2, <1>3, <1>4
  <1>7. /\ e.key \in Live'
        /\ \A k \in Keys : k # e.key => (k \in Live' <=> k \in Live)
        /\ Live \subseteq Keys /\ Live' \subseteq Keys
    BY <1>3, <1>4, <1>6 DEF Live
  <1>8. TypeOK'
    <2>1. moves' \in 0 .. MaxMoves
      BY <1>0, <1>1, Typed
    <2> QED BY <1>0, <1>1, <1>6, <2>1 DEF TypeOK
  <1>9. Bounded'
    <2>1. \A k \in Keys : /\ record'[k].position <= writes'
                         /\ record'[k].value <= writes'
                         /\ record'[k].since <= writes'
      <3> TAKE k \in Keys
      <3>1. CASE k = e.key
        BY <1>1, <1>2, <1>4, <1>5, <1>6, <3>1
      <3>2. CASE k # e.key
        BY <1>0, <1>1, <1>6, <3>2 DEF Bounded
      <3> QED BY <3>1, <3>2
    <2>2. \A k \in Live' : record'[k].position >= 1 /\ record'[k].value >= 1
      <3> TAKE k \in Live'
      <3>1. CASE k = e.key
        BY <1>3, <1>4, <1>6, <3>1
      <3>2. CASE k # e.key
        BY <1>0, <1>6, <1>7, <3>2 DEF Bounded
      <3> QED BY <3>1, <3>2
    <2>3. \A f \in aside' : f.position <= writes' /\ f.value <= writes'
      BY <1>0, <1>1 DEF Bounded
    <2>4. namespace'.revision <= writes' + removals'
      BY <1>0, <1>1 DEF Bounded
    <2> QED BY <2>1, <2>2, <2>3, <2>4 DEF Bounded
  <1>10. AsideOnce'
    BY <1>0, <1>1 DEF AsideOnce
  <1>11. StayersInOrder'
    <2> SUFFICES ASSUME NEW a \in Live', NEW b \in Live',
                        0 < record'[a].since, record'[a].since < record'[b].since
                 PROVE  record'[a].position < record'[b].position
      BY DEF StayersInOrder
    <2>0. a \in Keys /\ b \in Keys
      BY <1>7
    <2>1. record'[a].since \in Nat /\ record'[b].since \in Nat
      BY <1>6, <2>0 DEF RowType
    <2>2. a # e.key /\ b # e.key
      BY <1>4, <1>6, <2>1
    <2> QED BY <1>0, <1>6, <1>7, <2>0, <2>2 DEF StayersInOrder
  <1>12. Accounted'
    <2> SUFFICES ASSUME NEW k \in Keys, NEW v \in 0 .. MaxWrites
                 PROVE  /\ <<k, v>> \in kept' <=> InLive(k, v)' \/ InAside(k, v)'
                        /\ ~(InLive(k, v)' /\ InAside(k, v)')
      BY <1>1 DEF Accounted
    <2>1. /\ <<k, v>> \in kept <=> InLive(k, v) \/ InAside(k, v)
          /\ ~(InLive(k, v) /\ InAside(k, v))
      BY <1>0 DEF Accounted
    <2>2. CASE k = e.key /\ v = e.value
      <3>1. InAside(k, v)
        BY <2>2 DEF InAside
      <3>2. InLive(k, v)'
        BY <1>4, <1>6, <1>7, <2>2 DEF InLive
      <3>3. ~InAside(k, v)'
        BY <1>0, <1>1, <2>2 DEF InAside, AsideOnce
      <3> QED BY <1>1, <2>1, <3>1, <3>2, <3>3
    <2>3. CASE ~(k = e.key /\ v = e.value)
      <3>1. InAside(k, v)' <=> InAside(k, v)
        BY <1>1, <2>3 DEF InAside
      <3>2. InLive(k, v)' <=> InLive(k, v)
        BY <1>1, <1>4, <1>6, <1>7, <2>3 DEF InLive
      <3> QED BY <1>1, <2>1, <3>1, <3>2
    <2> QED BY <2>2, <2>3
  <1> QED BY <1>8, <1>9, <1>10, <1>11, <1>12 DEF SRInv

LEMMA DeclareStep ==
    ASSUME SRInv, NEW o \in Owners, Declare(o)
    PROVE  SRInv'
  <1>1. TypeOK /\ Bounded /\ namespace' = [namespace EXCEPT !.owner = o]
        /\ UNCHANGED <<record, aside, writes, kept, removals, moves>>
    BY DEF SRInv, Declare
  <1>2. /\ namespace' \in [owner : Owners \cup {"none"}, revision : 0 .. MaxWrites + MaxRemovals]
        /\ namespace'.revision = namespace.revision
    BY <1>1, Typed
  <1>3. Live' = Live
    BY <1>1 DEF Live
  <1>4. TypeOK'
    BY <1>1, <1>2 DEF TypeOK
  <1>5. Bounded'
    BY <1>1, <1>2, <1>3 DEF Bounded
  <1>6. AsideOnce' /\ StayersInOrder' /\ Accounted'
    BY <1>1, <1>3 DEF SRInv, AsideOnce, StayersInOrder, Accounted, InLive, InAside
  <1> QED BY <1>4, <1>5, <1>6 DEF SRInv

(***************************************************************************)
(* The theorems                                                            *)
(***************************************************************************)

LEMMA InitInv == Init => SRInv
  <1> SUFFICES ASSUME Init PROVE SRInv
    OBVIOUS
  <1>1. /\ namespace = [owner |-> "none", revision |-> 0] /\ record = [k \in Keys |-> NoRow]
        /\ aside = {} /\ writes = 0 /\ kept = {} /\ removals = 0 /\ moves = 0
    BY DEF Init
  <1>2. MaxWrites \in Nat /\ MaxRemovals \in Nat /\ MaxMoves \in Nat
    BY RepositoryAssumption
  <1>3. Live = {} /\ NoRow \in RowType
    BY <1>1, <1>2 DEF Live, NoRow, RowType
  <1>4. TypeOK
    BY <1>1, <1>2, <1>3 DEF TypeOK
  <1>5. Bounded
    BY <1>1, <1>2, <1>3 DEF Bounded, NoRow
  <1>6. AsideOnce /\ StayersInOrder /\ Accounted
    BY <1>1, <1>3 DEF AsideOnce, StayersInOrder, Accounted, InLive, InAside
  <1> QED BY <1>4, <1>5, <1>6 DEF SRInv

LEMMA StepInv ==
    ASSUME SRInv, [Next]_vars
    PROVE  SRInv'
  <1>0. Live \subseteq Keys
    BY DEF Live
  <1>1. ASSUME NEW o \in Owners, Declare(o) PROVE SRInv'
    BY <1>1, DeclareStep
  <1>2. ASSUME NEW k \in Keys, Put(k) \/ AppendRow(k) PROVE SRInv'
    BY <1>2, StoreStep DEF Put, AppendRow
  <1>3. ASSUME NEW k \in Keys, Remove(k) PROVE SRInv'
    BY <1>3, DeleteStep DEF Remove
  <1>4. ASSUME NEW k \in Keys, Quarantine(k) PROVE SRInv'
    BY <1>4, SetAsideStep DEF Quarantine
  <1>5. ASSUME Clear PROVE SRInv'
    BY <1>5, DeleteStep DEF Clear
  <1>6. ASSUME Scan PROVE SRInv'
    BY <1>6, SetAsideStep DEF Scan
  <1>7. ASSUME NEW e \in aside, Restore(e) PROVE SRInv'
    BY <1>7, RestoreStep
  <1>8. ASSUME UNCHANGED vars PROVE SRInv'
    BY <1>8 DEF vars, SRInv, TypeOK, Bounded, AsideOnce, StayersInOrder, Accounted, InLive, InAside, Live
  <1> QED BY <1>1, <1>2, <1>3, <1>4, <1>5, <1>6, <1>7, <1>8 DEF Next

\* The inductive invariant behind the theorems below: rows, quarantine and counters agree.
THEOREM Invariant == Spec => []SRInv
  BY InitInv, StepInv, PTL DEF Spec

\* Namespace, rows and quarantine keep their shape, and no position outruns the writes.
THEOREM TypeCorrect == Spec => []TypeOK
  <1>1. SRInv => TypeOK
    BY DEF SRInv
  <1> QED BY Invariant, <1>1, PTL

\* Rows that stayed where they were written are listed in the order of their writes
\* (state-repository.ts:21-26), around any removals, quarantines and restores.
THEOREM Order == Spec => []StayersInOrder
  <1>1. SRInv => StayersInOrder
    BY DEF SRInv
  <1> QED BY Invariant, <1>1, PTL

LEMMA AccountedMeansKept ==
    ASSUME TypeOK, Accounted
    PROVE  NothingVanishes
  <1> DEFINE live == {<<k, record[k].value>> : k \in Live}
             put  == {<<e.key, e.value>> : e \in aside}
  <1>1. /\ Live \subseteq Keys /\ record \in [Keys -> RowType] /\ aside \subseteq EntryType
        /\ kept \subseteq Keys \X (1 .. MaxWrites) /\ MaxWrites \in Nat
    BY Typed
  <1>2. live \subseteq Keys \X (0 .. MaxWrites) /\ put \subseteq Keys \X (0 .. MaxWrites)
    BY <1>1 DEF RowType, EntryType
  <1>3. kept \subseteq Keys \X (0 .. MaxWrites)
    BY <1>1
  <1>4. \A k \in Keys, v \in 0 .. MaxWrites :
          /\ <<k, v>> \in live <=> InLive(k, v)
          /\ <<k, v>> \in put <=> InAside(k, v)
    BY DEF InLive, InAside
  <1>5. \A k \in Keys, v \in 0 .. MaxWrites :
          /\ <<k, v>> \in kept <=> <<k, v>> \in live \/ <<k, v>> \in put
          /\ ~(<<k, v>> \in live /\ <<k, v>> \in put)
    BY <1>4 DEF Accounted
  <1>6. live \cup put = kept /\ live \cap put = {}
    <2> HIDE DEF live, put
    <2> QED BY <1>2, <1>3, <1>5
  <1> QED BY <1>6 DEF NothingVanishes

\* Quarantining, scanning and restoring lose and duplicate nothing: a write is in exactly one
\* of the two tables until it is replaced or removed (state-quarantine.ts).
THEOREM Kept == Spec => []NothingVanishes
  <1>1. SRInv => NothingVanishes
    BY AccountedMeansKept DEF SRInv
  <1> QED BY Invariant, <1>1, PTL

LEMMA RevisionStep ==
    ASSUME SRInv, Next, record' # record
    PROVE  namespace'.revision > namespace.revision \/ aside' # aside
  <1>0. TypeOK /\ Live \subseteq Keys
    BY DEF SRInv, Live
  <1>1. namespace \in [owner : Owners \cup {"none"}, revision : 0 .. MaxWrites + MaxRemovals]
    BY <1>0, Typed
  <1>2. Bump => namespace'.revision > namespace.revision
    <2>1. namespace.revision \in Int
      BY <1>1
    <2>2. Bump => namespace'.revision = namespace.revision + 1
      BY <1>1 DEF Bump
    <2> QED BY <2>1, <2>2
  <1>3. ASSUME NEW S, S \subseteq Live, SetAside(S) PROVE aside' # aside
    <2>1. PICK k \in S : k \in Live
      BY <1>3 DEF SetAside
    <2>2. Entry(k) \in aside'
      BY <1>3 DEF SetAside
    <2>3. Entry(k) \notin aside
      BY <2>1, NewEntries
    <2> QED BY <2>2, <2>3
  <1>4. ASSUME NEW o \in Owners, Declare(o) PROVE FALSE
    BY <1>4 DEF Declare
  <1>5. ASSUME NEW k \in Keys, Put(k) \/ AppendRow(k) \/ Remove(k) PROVE Bump
    BY <1>5 DEF Put, AppendRow, Store, Remove, Delete
  <1>6. ASSUME NEW k \in Keys, Quarantine(k) PROVE aside' # aside
    BY <1>3, <1>6 DEF Quarantine
  <1>7. ASSUME Clear PROVE Bump
    BY <1>7 DEF Clear, Delete
  <1>8. ASSUME Scan PROVE aside' # aside
    BY <1>3, <1>8 DEF Scan
  <1>9. ASSUME NEW e \in aside, Restore(e) PROVE aside' # aside
    BY <1>9 DEF Restore
  <1> QED BY <1>2, <1>4, <1>5, <1>6, <1>7, <1>8, <1>9 DEF Next

\* A reader that finds the revision and the quarantine as it left them finds the rows as it
\* left them (state-repository.ts:117-118).
THEOREM Revision == Spec => RevisionTells
  <1>1. SRInv /\ [Next]_vars =>
          [record' # record => namespace'.revision > namespace.revision \/ aside' # aside]_vars
    BY RevisionStep
  <1> QED BY Invariant, <1>1, PTL DEF Spec, RevisionTells
=============================================================================
