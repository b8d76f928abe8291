----------------------------- MODULE RoomProofs -----------------------------
(***************************************************************************)
(* RoomOK is preserved by every composition of Room operators that a       *)
(* handler runs in one critical section.                                   *)
(***************************************************************************)
EXTENDS Room, FiniteSetTheorems, TLAPS

\* Cardinalities are taken of subsets of CIDs only.
LEMMA Finite ==
  ASSUME NEW S \in SUBSET CIDs
  PROVE  IsFiniteSet(S) /\ Cardinality(S) \in Nat
BY RoomAssumption, FS_Subset, FS_CardinalityType

\* bumpEpoch keeps the epoch inside its width.
LEMMA EpochBump ==
  ASSUME NEW e \in 0 .. EpochModulus - 1, NEW n \in Nat
  PROVE  (e + n) % EpochModulus \in 0 .. EpochModulus - 1
<1>1. EpochModulus \in Nat /\ EpochModulus > 0
  BY RoomAssumption
<1> QED
  BY <1>1

\* The smaller of two room sizes is a room size.
LEMMA SmallerType ==
  ASSUME NEW m \in Nat \ {0, 1}, NEW n \in Nat \ {0, 1}
  PROVE  Smaller(m, n) \in Nat \ {0, 1} /\ Smaller(m, n) <= n
BY DEF Smaller

\* No transport is attached exactly when no participant is active.
LEMMA ActiveIffAttached ==
  ASSUME NEW r \in RoomType, IndexesAgree(r)
  PROVE  Active(r) = {} <=> ActiveClients(r) = {}
BY RoomAssumption DEF RoomType, IndexesAgree, Active, ActiveClients

\* RoomOK but for the arming of the no-active timer, which comes last.
AlmostOK(r) ==
  /\ r \in RoomType
  /\ IndexesAgree(r)
  /\ HostIsMember(r)
  /\ SlotsAreTimed(r)
  /\ r.noActive => Active(r) = {}
  /\ DirtyPairsAwaitReturn(r)
  /\ HintsAreOfMembers(r)
  /\ CapacityRespected(r)

\* armNoActiveRoomTimerLocked completes the invariant.
LEMMA ArmNoActiveOK ==
  ASSUME NEW r, AlmostOK(r)
  PROVE  RoomOK(ArmNoActive(r))
<1> USE DEF AlmostOK
<1>1. Active(r) = {} <=> ActiveClients(r) = {}
  BY ActiveIffAttached
<1>2. r.members # {}
  BY DEF HostIsMember
<1>3. CASE ActiveClients(r) # {}
  BY <1>1, <1>3 DEF ArmNoActive, RoomOK, GhostRoomIsTimed
<1>4. CASE ActiveClients(r) = {}
  <2> DEFINE a == [r EXCEPT !.noActive = TRUE]
  <2>1. ArmNoActive(r) = a
    BY <1>2, <1>4 DEF ArmNoActive
  <2>2. a \in RoomType
    BY DEF RoomType
  <2>3. /\ a.client = r.client /\ a.byClient = r.byClient /\ a.members = r.members
        /\ a.host = r.host /\ a.evict = r.evict /\ a.dirty = r.dirty
        /\ a.dwelt = r.dwelt /\ a.seen = r.seen /\ a.max = r.max
        /\ a.locked = r.locked /\ a.noActive = TRUE
    BY DEF RoomType
  <2> HIDE DEF a
  <2>4. IndexesAgree(a)
    BY <2>3 DEF IndexesAgree
  <2>5. HostIsMember(a) /\ SlotsAreTimed(a) /\ HintsAreOfMembers(a)
    BY <2>3 DEF HostIsMember, SlotsAreTimed, HintsAreOfMembers, Suspended
  <2>6. GhostRoomIsTimed(a)
    BY <2>3, <1>1, <1>4 DEF GhostRoomIsTimed, Active
  <2>7. DirtyPairsAwaitReturn(a)
    BY <2>3 DEF DirtyPairsAwaitReturn, Suspended
  <2>8. CapacityRespected(a)
    BY <2>3 DEF CapacityRespected
  <2> QED
    BY <2>1, <2>2, <2>4, <2>5, <2>6, <2>7, <2>8 DEF RoomOK
<1> QED
  BY <1>3, <1>4

\* The epoch takes part in no invariant.
LEMMA BumpEpochOK ==
  ASSUME NEW r, NEW n \in Nat, RoomOK(r)
  PROVE  RoomOK(BumpEpochBy(r, n))
<1> DEFINE a == BumpEpochBy(r, n)
<1>1. r \in RoomType
  BY DEF RoomOK
<1>2. a \in RoomType
  BY <1>1, EpochBump DEF BumpEpochBy, RoomType
<1>3. /\ a.client = r.client /\ a.byClient = r.byClient /\ a.members = r.members
      /\ a.host = r.host /\ a.evict = r.evict /\ a.dirty = r.dirty
      /\ a.dwelt = r.dwelt /\ a.seen = r.seen /\ a.max = r.max
      /\ a.locked = r.locked /\ a.noActive = r.noActive
  BY <1>1 DEF BumpEpochBy, RoomType
<1> HIDE DEF a
<1>4. IndexesAgree(a)
  BY <1>3 DEF RoomOK, IndexesAgree
<1>5. HostIsMember(a) /\ SlotsAreTimed(a) /\ HintsAreOfMembers(a)
  BY <1>3 DEF RoomOK, HostIsMember, SlotsAreTimed, HintsAreOfMembers, Suspended
<1>6. GhostRoomIsTimed(a)
  BY <1>3 DEF RoomOK, GhostRoomIsTimed, Active
<1>7. DirtyPairsAwaitReturn(a)
  BY <1>3 DEF RoomOK, DirtyPairsAwaitReturn, Suspended
<1>8. CapacityRespected(a)
  BY <1>3 DEF RoomOK, CapacityRespected
<1> QED
  BY <1>2, <1>4, <1>5, <1>6, <1>7, <1>8 DEF RoomOK, a

-----------------------------------------------------------------------------
(***************************************************************************)
(* The critical sections.                                                  *)
(***************************************************************************)

\* An heir is one of those who stay.
LEMMA HeirIsMember ==
  ASSUME NEW r, RoomOK(r), NEW gone, r.members \ gone # {},
         NEW heir \in Heirs(r, gone)
  PROVE  heir \in r.members \ gone
BY DEF Heirs, RoomOK, HostIsMember, Active

\* Leaves, evictions and expired reconnects: what is left of a room that is
\* not emptied is in order.
LEMMA DepartOK ==
  ASSUME NEW r, RoomOK(r), NEW gone \in SUBSET CIDs, r.members \ gone # {},
         NEW heir \in Heirs(r, gone)
  PROVE  RoomOK(Depart(r, gone, heir))
<1> DEFINE a == [r EXCEPT
             !.members = @ \ gone,
             !.client = [p \in CIDs |-> IF p \in gone THEN Nil ELSE @[p]],
             !.byClient = [d \in Clients |-> IF @[d] \in gone THEN Nil ELSE @[d]],
             !.host = heir,
             !.dirty = {e \in @ : e[1] \notin gone /\ e[2] \notin gone},
             !.evict = @ \ gone, !.dwelt = @ \ gone, !.seen = @ \ gone]
<1>1. r \in RoomType
  BY DEF RoomOK
<1>2. heir \in r.members \ gone /\ heir \in CIDs
  BY <1>1, HeirIsMember DEF RoomType
<1>3. /\ a.members = r.members \ gone
      /\ a.client = [p \in CIDs |-> IF p \in gone THEN Nil ELSE r.client[p]]
      /\ a.byClient = [d \in Clients |-> IF r.byClient[d] \in gone THEN Nil ELSE r.byClient[d]]
      /\ a.host = heir
      /\ a.dirty = {e \in r.dirty : e[1] \notin gone /\ e[2] \notin gone}
      /\ a.evict = r.evict \ gone /\ a.dwelt = r.dwelt \ gone /\ a.seen = r.seen \ gone
      /\ a.max = r.max /\ a.locked = r.locked /\ a.noActive = r.noActive
      /\ a.requested = r.requested /\ a.epoch = r.epoch
  BY <1>1 DEF RoomType
<1>4. a \in RoomType
  BY <1>1, <1>2 DEF RoomType
<1> HIDE DEF a
<1>5. IndexesAgree(a)
  <2>1. \A p \in CIDs, c \in Clients : r.client[p] = c <=> r.byClient[c] = p
    BY DEF RoomOK, IndexesAgree
  <2>2. \A p \in CIDs, c \in Clients : a.client[p] = c <=> a.byClient[c] = p
    BY <1>3, <2>1, RoomAssumption
  <2>3. \A p \in CIDs : a.client[p] # Nil => p \in a.members
    BY <1>3 DEF RoomOK, IndexesAgree
  <2> QED
    BY <2>2, <2>3 DEF IndexesAgree
<1>6. Active(a) = Active(r) \ gone /\ Suspended(a) = Suspended(r) \ gone
  BY <1>1, <1>3 DEF Active, Suspended, RoomType
<1>7. HostIsMember(a) /\ SlotsAreTimed(a) /\ HintsAreOfMembers(a)
  BY <1>2, <1>3, <1>6 DEF RoomOK, HostIsMember, SlotsAreTimed, HintsAreOfMembers
<1>8. a.noActive => Active(a) = {}
  BY <1>3, <1>6 DEF RoomOK, GhostRoomIsTimed
<1>9. DirtyPairsAwaitReturn(a)
  BY <1>3, <1>6 DEF RoomOK, DirtyPairsAwaitReturn
<1>10. CapacityRespected(a)
  <2>1. IsFiniteSet(r.members) /\ a.members \in SUBSET r.members
    BY <1>1, <1>3, Finite DEF RoomType
  <2>2. Cardinality(a.members) <= Cardinality(r.members)
    BY <2>1, FS_Subset
  <2>3. Cardinality(a.members) \in Nat /\ Cardinality(r.members) \in Nat /\ r.max \in Nat
    BY <2>1, <1>1, Finite DEF RoomType
  <2> QED
    BY <1>3, <2>2, <2>3 DEF RoomOK, CapacityRespected
<1>11. AlmostOK(a)
  BY <1>4, <1>5, <1>7, <1>8, <1>9, <1>10 DEF AlmostOK
<1>12. RoomOK(ArmNoActive(a))
  BY <1>11, ArmNoActiveOK
<1>13. Cardinality(gone) \in Nat
  BY Finite
<1> QED
  BY <1>12, <1>13, BumpEpochOK DEF Depart, a

\* A room in which p has just been given a transport and the join is not over:
\* pairs that wait for p are still there, and a new room has no host yet.
SeatingOK(r, p) ==
  /\ r \in RoomType
  /\ IndexesAgree(r)
  /\ p \in Active(r)
  /\ r.host \in r.members \cup {Nil}
  /\ SlotsAreTimed(r)
  /\ GhostRoomIsTimed(r)
  /\ \A e \in r.dirty : e[1] \in r.members /\ e[2] \in Suspended(r) \cup {p} /\ e[1] # e[2]
  /\ HintsAreOfMembers(r)
  /\ CapacityRespected(r)

\* A room in order is one in which each active participant is seated.
LEMMA SeatedInOrder ==
  ASSUME NEW r, RoomOK(r), NEW p, IsActive(r, p)
  PROVE  SeatingOK(r, p) /\ HostIsMember(r)
BY DEF RoomOK, SeatingOK, IsActive, Active, HostIsMember, DirtyPairsAwaitReturn

\* What a transport loss leaves is in order: the slot is timed, and the room
\* is when nobody else is attached.  The same holds of a refused reattach.
LEMMA SuspendOK ==
  ASSUME NEW r, NEW p \in CIDs, SeatingOK(r, p), HostIsMember(r)
  PROVE  RoomOK(Suspend(r, p))
<1> DEFINE a == [r EXCEPT
             !.client[p] = Nil,
             !.byClient = [d \in Clients |-> IF d = r.client[p] THEN Nil ELSE @[d]],
             !.evict = @ \cup {p}, !.dwelt = @ \ {p}]
<1>1. r \in RoomType /\ p \in r.members /\ r.client[p] \in Clients
  BY DEF SeatingOK, RoomType, Active
<1>2. /\ a.members = r.members
      /\ a.client = [r.client EXCEPT ![p] = Nil]
      /\ a.byClient = [d \in Clients |-> IF d = r.client[p] THEN Nil ELSE r.byClient[d]]
      /\ a.host = r.host /\ a.dirty = r.dirty
      /\ a.evict = r.evict \cup {p} /\ a.dwelt = r.dwelt \ {p} /\ a.seen = r.seen
      /\ a.max = r.max /\ a.locked = r.locked /\ a.noActive = r.noActive
  BY <1>1 DEF RoomType
<1>3. a \in RoomType
  BY <1>1 DEF RoomType
<1> HIDE DEF a
<1>4. IndexesAgree(a)
  BY <1>1, <1>2, RoomAssumption DEF SeatingOK, IndexesAgree, RoomType
<1>5. Active(a) = Active(r) \ {p} /\ Suspended(a) = Suspended(r) \cup {p}
  BY <1>1, <1>2 DEF Active, Suspended, RoomType
<1>6. HostIsMember(a) /\ SlotsAreTimed(a) /\ HintsAreOfMembers(a)
  BY <1>2, <1>5 DEF SeatingOK, HostIsMember, SlotsAreTimed, HintsAreOfMembers
<1>7. a.noActive => Active(a) = {}
  BY <1>2, <1>5 DEF SeatingOK, GhostRoomIsTimed
<1>8. DirtyPairsAwaitReturn(a)
  BY <1>2, <1>5 DEF SeatingOK, DirtyPairsAwaitReturn
<1>9. CapacityRespected(a)
  BY <1>2 DEF SeatingOK, CapacityRespected
<1>10. AlmostOK(a)
  BY <1>3, <1>4, <1>6, <1>7, <1>8, <1>9 DEF AlmostOK
<1> QED
  BY <1>10, ArmNoActiveOK DEF Suspend, a

\* A reclaimed CID is seated on its new transport, whether or not a ghost had
\* to be unlinked.
LEMMA ReattachOK ==
  ASSUME NEW r, RoomOK(r), NEW p \in r.members, NEW c \in Clients,
         r.byClient[c] = Nil
  PROVE  SeatingOK(Reattach(r, p, c), p) /\ HostIsMember(Reattach(r, p, c))
<1> DEFINE a == Reattach(r, p, c)
<1>1. r \in RoomType /\ p \in CIDs
  BY DEF RoomOK, RoomType
<1>2. /\ a.members = r.members
      /\ a.client = [r.client EXCEPT ![p] = c]
      /\ a.byClient = [d \in Clients |-> IF d = c THEN p
                                         ELSE IF d = r.client[p] THEN Nil
                                         ELSE r.byClient[d]]
      /\ a.host = r.host /\ a.dirty = r.dirty
      /\ a.evict = r.evict \ {p} /\ a.dwelt = r.dwelt \ {p} /\ a.seen = r.seen
      /\ a.max = r.max /\ a.locked = r.locked /\ a.noActive = FALSE
  BY <1>1 DEF Reattach, RoomType
<1>3. a \in RoomType
  BY <1>1 DEF Reattach, RoomType
<1> HIDE DEF a
<1>4. IndexesAgree(a)
  <2>1. \A q \in CIDs, d \in Clients : r.client[q] = d <=> r.byClient[d] = q
    BY DEF RoomOK, IndexesAgree
  <2>2. \A q \in CIDs, d \in Clients : a.client[q] = d <=> a.byClient[d] = q
    BY <1>1, <1>2, <2>1, RoomAssumption DEF RoomType
  <2>3. \A q \in CIDs : a.client[q] # Nil => q \in a.members
    BY <1>1, <1>2 DEF RoomOK, IndexesAgree, RoomType
  <2> QED
    BY <2>2, <2>3 DEF IndexesAgree
<1>5. Active(a) = Active(r) \cup {p} /\ Suspended(a) = Suspended(r) \ {p}
  BY <1>1, <1>2, RoomAssumption DEF Active, Suspended, RoomType
<1>6. HostIsMember(a) /\ SlotsAreTimed(a) /\ HintsAreOfMembers(a)
  BY <1>2, <1>5 DEF RoomOK, HostIsMember, SlotsAreTimed, HintsAreOfMembers
<1>7. GhostRoomIsTimed(a)
  BY <1>2, <1>5 DEF GhostRoomIsTimed
<1>8. \A e \in a.dirty : e[1] \in a.members /\ e[2] \in Suspended(a) \cup {p} /\ e[1] # e[2]
  BY <1>2, <1>5 DEF RoomOK, DirtyPairsAwaitReturn
<1>9. CapacityRespected(a)
  BY <1>2 DEF RoomOK, CapacityRespected
<1> QED
  BY <1>3, <1>4, <1>5, <1>6, <1>7, <1>8, <1>9 DEF SeatingOK, HostIsMember, a

\* The end of a join puts the room in order.
LEMMA SeatOK ==
  ASSUME NEW r, NEW p \in CIDs, SeatingOK(r, p)
  PROVE  RoomOK(Seat(r, p))
<1> DEFINE a == [r EXCEPT !.host = IF @ = Nil THEN p ELSE @,
                          !.dirty = {e \in @ : e[2] # p}]
<1>1. r \in RoomType /\ p \in r.members
  BY DEF SeatingOK, Active
<1>2. /\ a.members = r.members /\ a.client = r.client /\ a.byClient = r.byClient
      /\ a.host = (IF r.host = Nil THEN p ELSE r.host)
      /\ a.dirty = {e \in r.dirty : e[2] # p}
      /\ a.evict = r.evict /\ a.dwelt = r.dwelt /\ a.seen = r.seen
      /\ a.max = r.max /\ a.locked = r.locked /\ a.noActive = r.noActive
  BY <1>1 DEF RoomType
<1>3. a \in RoomType
  BY <1>1 DEF RoomType
<1> HIDE DEF a
<1>4. IndexesAgree(a)
  BY <1>2 DEF SeatingOK, IndexesAgree
<1>5. Active(a) = Active(r) /\ Suspended(a) = Suspended(r)
  BY <1>2 DEF Active, Suspended
<1>6. HostIsMember(a) /\ SlotsAreTimed(a) /\ HintsAreOfMembers(a)
  BY <1>1, <1>2, <1>5 DEF SeatingOK, HostIsMember, SlotsAreTimed, HintsAreOfMembers
<1>7. GhostRoomIsTimed(a)
  BY <1>2, <1>5 DEF SeatingOK, GhostRoomIsTimed
<1>8. DirtyPairsAwaitReturn(a)
  BY <1>2, <1>5 DEF SeatingOK, DirtyPairsAwaitReturn
<1>9. CapacityRespected(a)
  BY <1>2 DEF SeatingOK, CapacityRespected
<1>10. RoomOK(a)
  BY <1>3, <1>4, <1>6, <1>7, <1>8, <1>9 DEF RoomOK
<1> QED
  BY <1>10, BumpEpochOK DEF Seat, BumpEpoch, a

\* A room a newcomer may enter: one in order, or one just created.
OpenOK(r) ==
  /\ r \in RoomType
  /\ IndexesAgree(r)
  /\ r.host \in r.members \cup {Nil}
  /\ SlotsAreTimed(r)
  /\ r.noActive => Active(r) = {}
  /\ DirtyPairsAwaitReturn(r)
  /\ HintsAreOfMembers(r)
  /\ CapacityRespected(r)

\* Rooms in the map, and the room a join creates, are ready to be joined.
LEMMA OpenRooms ==
  /\ \A r : RoomOK(r) => OpenOK(r)
  /\ \A n \in Nat \ {0, 1} : OpenOK(NewRoom(n))
<1>1. ASSUME NEW r, RoomOK(r)
      PROVE  OpenOK(r)
  BY <1>1 DEF RoomOK, OpenOK, HostIsMember, GhostRoomIsTimed
<1>2. ASSUME NEW n \in Nat \ {0, 1}
      PROVE  OpenOK(NewRoom(n))
  <2> DEFINE a == NewRoom(n)
  <2>1. /\ a.members = {} /\ a.client = [p \in CIDs |-> Nil]
        /\ a.byClient = [c \in Clients |-> Nil] /\ a.host = Nil
        /\ a.max = 2 /\ a.evict = {} /\ a.dirty = {} /\ a.dwelt = {} /\ a.seen = {}
        /\ a.noActive = FALSE
    BY DEF NewRoom
  <2>2. 0 \in 0 .. EpochModulus - 1
    BY RoomAssumption
  <2>3. a \in RoomType
    BY <2>2 DEF NewRoom, RoomType
  <2> HIDE DEF a
  <2>4. IndexesAgree(a)
    BY <2>1, RoomAssumption DEF IndexesAgree
  <2>5. SlotsAreTimed(a) /\ DirtyPairsAwaitReturn(a) /\ HintsAreOfMembers(a)
    BY <2>1 DEF SlotsAreTimed, DirtyPairsAwaitReturn, HintsAreOfMembers, Suspended
  <2>6. CapacityRespected(a)
    BY <2>1, FS_EmptySet DEF CapacityRespected
  <2> QED
    BY <2>1, <2>3, <2>4, <2>5, <2>6 DEF OpenOK, a
<1> QED
  BY <1>1, <1>2

\* Locking the capacity on the second participant keeps the room in order, and
\* a room still provisional afterwards is empty.
LEMMA LockCapacityOK ==
  ASSUME NEW r, OpenOK(r), NEW cap \in Capabilities
  PROVE  LET a == LockCapacity(r, cap) IN
         /\ OpenOK(a)
         /\ a.members = r.members /\ a.byClient = r.byClient
         /\ ~a.locked => a.max = 2 /\ a.members = {}
<1> DEFINE a == LockCapacity(r, cap)
<1>1. r \in RoomType /\ IsFiniteSet(r.members) /\ Cardinality(r.members) \in Nat
  BY Finite DEF OpenOK, RoomType
<1>2. CASE ~r.locked /\ Cardinality(r.members) = 1
  <2>1. a = [r EXCEPT !.max = Smaller(r.requested, cap), !.locked = TRUE]
    BY <1>2 DEF LockCapacity
  <2>2. cap \in Nat \ {0, 1} /\ r.requested \in Nat \ {0, 1}
    BY <1>1, RoomAssumption DEF RoomType
  <2>3. Smaller(r.requested, cap) \in Nat \ {0, 1}
    BY <2>2, SmallerType
  <2>4. a \in RoomType
    BY <1>1, <2>1, <2>3 DEF RoomType
  <2>5. /\ a.members = r.members /\ a.client = r.client /\ a.byClient = r.byClient
        /\ a.host = r.host /\ a.dirty = r.dirty
        /\ a.evict = r.evict /\ a.dwelt = r.dwelt /\ a.seen = r.seen
        /\ a.max = Smaller(r.requested, cap) /\ a.locked = TRUE /\ a.noActive = r.noActive
    BY <1>1, <2>1 DEF RoomType
  <2> HIDE DEF a
  <2>6. IndexesAgree(a) /\ SlotsAreTimed(a) /\ HintsAreOfMembers(a) /\ DirtyPairsAwaitReturn(a)
    BY <2>5 DEF OpenOK, IndexesAgree, SlotsAreTimed, HintsAreOfMembers,
                DirtyPairsAwaitReturn, Suspended
  <2>7. CapacityRespected(a)
    BY <1>2, <2>3, <2>5 DEF CapacityRespected
  <2>8. a.noActive => Active(a) = {}
    BY <2>5 DEF OpenOK, Active
  <2>9. OpenOK(a)
    BY <2>4, <2>5, <2>6, <2>7, <2>8 DEF OpenOK
  <2> QED
    BY <2>5, <2>9 DEF a
<1>3. CASE ~(~r.locked /\ Cardinality(r.members) = 1)
  <2>1. a = r
    BY <1>3 DEF LockCapacity
  <2>2. ~r.locked => r.max = 2 /\ Cardinality(r.members) = 0
    BY <1>1, <1>3 DEF OpenOK, CapacityRespected
  <2> QED
    BY <1>1, <2>1, <2>2, FS_EmptySet
<1> QED
  BY <1>2, <1>3

\* A newcomer, or a participant whose record was lost, gets a free place.
LEMMA AttachOK ==
  ASSUME NEW r, OpenOK(r), ~r.locked => r.max = 2 /\ r.members = {},
         NEW p \in CIDs \ r.members, NEW c \in Clients, r.byClient[c] = Nil,
         Cardinality(r.members) < r.max
  PROVE  SeatingOK(AttachParticipant(r, p, c), p)
<1> DEFINE a == AttachParticipant(r, p, c)
<1>1. r \in RoomType
  BY DEF OpenOK
<1>2. /\ a.members = r.members \cup {p} /\ a.client = [r.client EXCEPT ![p] = c]
      /\ a.byClient = [r.byClient EXCEPT ![c] = p]
      /\ a.host = r.host /\ a.dirty = r.dirty
      /\ a.evict = r.evict /\ a.dwelt = r.dwelt /\ a.seen = r.seen
      /\ a.max = r.max /\ a.locked = r.locked /\ a.noActive = FALSE
  BY <1>1 DEF AttachParticipant, RoomType
<1>3. a \in RoomType
  BY <1>1 DEF AttachParticipant, RoomType
<1> HIDE DEF a
<1>4. IndexesAgree(a)
  <2>1. /\ \A q \in CIDs, d \in Clients : r.client[q] = d <=> r.byClient[d] = q
        /\ r.client[p] = Nil
    BY <1>1 DEF OpenOK, IndexesAgree
  <2>2. \A q \in CIDs, d \in Clients : a.client[q] = d <=> a.byClient[d] = q
    BY <1>1, <1>2, <2>1, RoomAssumption DEF RoomType
  <2>3. \A q \in CIDs : a.client[q] # Nil => q \in a.members
    BY <1>1, <1>2 DEF OpenOK, IndexesAgree, RoomType
  <2> QED
    BY <2>2, <2>3 DEF IndexesAgree
<1>5. Active(a) = Active(r) \cup {p} /\ Suspended(a) = Suspended(r)
  BY <1>1, <1>2, RoomAssumption DEF Active, Suspended, RoomType
<1>6. SlotsAreTimed(a) /\ HintsAreOfMembers(a)
  BY <1>2, <1>5 DEF OpenOK, SlotsAreTimed, HintsAreOfMembers
<1>7. GhostRoomIsTimed(a)
  BY <1>2, <1>5 DEF GhostRoomIsTimed
<1>8. \A e \in a.dirty : e[1] \in a.members /\ e[2] \in Suspended(a) \cup {p} /\ e[1] # e[2]
  BY <1>2, <1>5 DEF OpenOK, DirtyPairsAwaitReturn
<1>9. CapacityRespected(a)
  <2>1. IsFiniteSet(r.members) /\ Cardinality(r.members) \in Nat /\ r.max \in Nat
    BY <1>1, Finite DEF RoomType
  <2>2. Cardinality(a.members) = Cardinality(r.members) + 1
    <3>1. p \notin r.members
      OBVIOUS
    <3>2. Cardinality(r.members \cup {p}) = Cardinality(r.members) + 1
      BY <2>1, <3>1, FS_AddElement
    <3> QED
      BY <1>2, <3>2
  <2>3. Cardinality(a.members) <= a.max
    BY <1>2, <2>1, <2>2
  <2>4. ~a.locked => a.max = 2 /\ Cardinality(a.members) = 1
    BY <1>2, <2>2, FS_EmptySet
  <2> QED
    BY <2>3, <2>4 DEF CapacityRespected
<1>10. a.host \in a.members \cup {Nil}
  BY <1>2 DEF OpenOK
<1> QED
  BY <1>3, <1>4, <1>5, <1>6, <1>7, <1>8, <1>9, <1>10 DEF SeatingOK, a

\* A relay that misses suspended peers leaves the room in order.
LEMMA MarkDirtyOK ==
  ASSUME NEW r, RoomOK(r), NEW from \in r.members,
         NEW targets \in SUBSET (Suspended(r) \ {from})
  PROVE  RoomOK(MarkDirty(r, from, targets))
<1> DEFINE a == MarkDirty(r, from, targets)
<1>1. r \in RoomType /\ from \in CIDs /\ targets \subseteq CIDs
  BY DEF RoomOK, RoomType, Suspended
<1>2. /\ a.members = r.members /\ a.client = r.client /\ a.byClient = r.byClient
      /\ a.host = r.host /\ a.dirty = r.dirty \cup ({from} \X targets)
      /\ a.evict = r.evict /\ a.dwelt = r.dwelt /\ a.seen = r.seen
      /\ a.max = r.max /\ a.locked = r.locked /\ a.noActive = r.noActive
  BY <1>1 DEF MarkDirty, RoomType
<1>3. a \in RoomType
  BY <1>1 DEF MarkDirty, RoomType
<1> HIDE DEF a
<1>4. IndexesAgree(a)
  BY <1>2 DEF RoomOK, IndexesAgree
<1>5. Active(a) = Active(r) /\ Suspended(a) = Suspended(r)
  BY <1>2 DEF Active, Suspended
<1>6. HostIsMember(a) /\ SlotsAreTimed(a) /\ HintsAreOfMembers(a)
  BY <1>2, <1>5 DEF RoomOK, HostIsMember, SlotsAreTimed, HintsAreOfMembers
<1>7. GhostRoomIsTimed(a)
  BY <1>2, <1>5 DEF RoomOK, GhostRoomIsTimed
<1>8. DirtyPairsAwaitReturn(a)
  BY <1>2, <1>5 DEF RoomOK, DirtyPairsAwaitReturn
<1>9. CapacityRespected(a)
  BY <1>2 DEF RoomOK, CapacityRespected
<1> QED
  BY <1>3, <1>4, <1>6, <1>7, <1>8, <1>9 DEF RoomOK, a

\* The media hints and the dwell bits may change freely among the members and
\* among the suspended ones.
LEMMA HintsOK ==
  ASSUME NEW r, RoomOK(r), NEW d \in SUBSET Suspended(r), NEW s \in SUBSET r.members
  PROVE  RoomOK([r EXCEPT !.dwelt = d, !.seen = s])
<1> DEFINE a == [r EXCEPT !.dwelt = d, !.seen = s]
<1>1. r \in RoomType /\ d \subseteq CIDs /\ s \subseteq CIDs
  BY DEF RoomOK, RoomType, Suspended
<1>2. /\ a.members = r.members /\ a.client = r.client /\ a.byClient = r.byClient
      /\ a.host = r.host /\ a.dirty = r.dirty
      /\ a.evict = r.evict /\ a.dwelt = d /\ a.seen = s
      /\ a.max = r.max /\ a.locked = r.locked /\ a.noActive = r.noActive
  BY <1>1 DEF RoomType
<1>3. a \in RoomType
  BY <1>1 DEF RoomType
<1> HIDE DEF a
<1>4. IndexesAgree(a)
  BY <1>2 DEF RoomOK, IndexesAgree
<1>5. Active(a) = Active(r) /\ Suspended(a) = Suspended(r)
  BY <1>2 DEF Active, Suspended
<1>6. HostIsMember(a) /\ SlotsAreTimed(a) /\ HintsAreOfMembers(a)
  BY <1>2, <1>5 DEF RoomOK, HostIsMember, SlotsAreTimed, HintsAreOfMembers
<1>7. GhostRoomIsTimed(a)
  BY <1>2, <1>5 DEF RoomOK, GhostRoomIsTimed
<1>8. DirtyPairsAwaitReturn(a)
  BY <1>2, <1>5 DEF RoomOK, DirtyPairsAwaitReturn
<1>9. CapacityRespected(a)
  BY <1>2 DEF RoomOK, CapacityRespected
<1> QED
  BY <1>3, <1>4, <1>6, <1>7, <1>8, <1>9 DEF RoomOK, a
=============================================================================
