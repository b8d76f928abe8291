--------------------------- MODULE HubLocksProofs ---------------------------
(***************************************************************************)
(* What the handlers of server/signaling.go keep true although they let go *)
(* of their locks between two sections: places are neither sold twice nor  *)
(* lost, and whoever acts late, a leave, a lost transport or a timer,      *)
(* takes no place from who is back.                                        *)
(***************************************************************************)
EXTENDS HubLocks, RoomProofs

(***************************************************************************)
(* A room object, listed or not, whenever its mutex is free.  RoomOK does  *)
(* not hold of every object: one that a goroutine is joining or that was   *)
(* ended may have no host, no timer, or a ghost half cleaned up.           *)
(***************************************************************************)
SoundRoom(r) ==
  /\ r \in RoomType
  /\ IndexesAgree(r)
  /\ CapacityRespected(r)

\* What a section may do to the transports other than the joining one.
OnlyDetaches(r, a, c) ==
  \A d \in Clients \ {c} : a.byClient[d] \in {Nil, r.byClient[d]}

\* What the operators of Room do to the places of r, the result being a: nothing;
\* p goes; p loses its transport; p gets the transport c, for a record it has or
\* for a new one.
Keeps(r, a) ==
  /\ a.members = r.members /\ a.client = r.client
  /\ a.byClient = r.byClient /\ a.evict = r.evict
Frees(r, p, a) ==
  /\ a.members = r.members \ {p}
  /\ \A q \in CIDs : a.client[q] = IF q = p THEN Nil ELSE r.client[q]
  /\ \A d \in Clients : a.byClient[d] = IF r.byClient[d] = p THEN Nil ELSE r.byClient[d]
  /\ a.evict = r.evict \ {p}
Times(r, p, a) ==
  /\ a.members = r.members
  /\ \A q \in CIDs : a.client[q] = IF q = p THEN Nil ELSE r.client[q]
  /\ \A d \in Clients : a.byClient[d] = IF d = r.client[p] THEN Nil ELSE r.byClient[d]
  /\ a.evict = r.evict \cup {p}
Hands(r, p, c, a) ==
  /\ a.members = r.members \cup {p}
  /\ \A q \in CIDs : a.client[q] = IF q = p THEN c ELSE r.client[q]
  /\ a.byClient[c] = p /\ OnlyDetaches(r, a, c)
  /\ r.evict \ {p} \subseteq a.evict

\* bumpEpoch and armNoActiveRoomTimerLocked touch no place.
LEMMA BumpSound ==
  ASSUME NEW r, SoundRoom(r), NEW n \in Nat
  PROVE  SoundRoom(BumpEpochBy(r, n)) /\ Keeps(r, BumpEpochBy(r, n))
<1> DEFINE a == BumpEpochBy(r, n)
<1>1. r \in RoomType
  BY DEF SoundRoom
<1>2. a \in RoomType
  BY <1>1, EpochBump DEF BumpEpochBy, RoomType
<1>3. /\ a.client = r.client /\ a.byClient = r.byClient /\ a.members = r.members
      /\ a.evict = r.evict /\ a.max = r.max /\ a.locked = r.locked
  BY <1>1 DEF BumpEpochBy, RoomType
<1> HIDE DEF a
<1>4. IndexesAgree(a) /\ CapacityRespected(a)
  BY <1>3 DEF SoundRoom, IndexesAgree, CapacityRespected
<1> QED
  BY <1>2, <1>3, <1>4 DEF SoundRoom, Keeps, a

\* Starting the no-active timer leaves a sound room sound and touches nothing else of it
\* (maybeStartNoActiveTimerLocked).
LEMMA ArmSound ==
  ASSUME NEW r, SoundRoom(r)
  PROVE  SoundRoom(ArmNoActive(r)) /\ Keeps(r, ArmNoActive(r))
<1> DEFINE a == ArmNoActive(r)
<1>1. r \in RoomType
  BY DEF SoundRoom
<1>2. a \in RoomType
  BY <1>1 DEF ArmNoActive, RoomType
<1>3. /\ a.client = r.client /\ a.byClient = r.byClient /\ a.members = r.members
      /\ a.evict = r.evict /\ a.max = r.max /\ a.locked = r.locked
  BY <1>1 DEF ArmNoActive, RoomType
<1> HIDE DEF a
<1>4. IndexesAgree(a) /\ CapacityRespected(a)
  BY <1>3 DEF SoundRoom, IndexesAgree, CapacityRespected
<1> QED
  BY <1>2, <1>3, <1>4 DEF SoundRoom, Keeps, a

\* The sections of this module let one participant go at a time.
DepartOne(r, p, heir) == Depart(r, {p}, heir)

\* A departure frees the place of who goes, and no other.
LEMMA DepartSound ==
  ASSUME NEW r, SoundRoom(r), NEW p \in CIDs, NEW heir \in CIDs \cup {Nil}
  PROVE  SoundRoom(DepartOne(r, p, heir)) /\ Frees(r, p, DepartOne(r, p, heir))
<1> DEFINE gone == {p}
           b == [r EXCEPT
             !.members = @ \ gone,
             !.client = [q \in CIDs |-> IF q \in gone THEN Nil ELSE @[q]],
             !.byClient = [d \in Clients |-> IF @[d] \in gone THEN Nil ELSE @[d]],
             !.host = heir,
             !.dirty = {e \in @ : e[1] \notin gone /\ e[2] \notin gone},
             !.evict = @ \ gone, !.dwelt = @ \ gone, !.seen = @ \ gone]
<1>1. r \in RoomType
  BY DEF SoundRoom
<1>2. /\ b.members = r.members \ {p}
      /\ b.client = [q \in CIDs |-> IF q = p THEN Nil ELSE r.client[q]]
      /\ b.byClient = [d \in Clients |-> IF r.byClient[d] = p THEN Nil ELSE r.byClient[d]]
      /\ b.evict = r.evict \ {p} /\ b.max = r.max /\ b.locked = r.locked
  BY <1>1 DEF RoomType
<1>3. b \in RoomType
  BY <1>1 DEF RoomType
<1> DEFINE n == Cardinality(gone)
           m == ArmNoActive(b)
<1>4. n \in Nat
  BY Finite
<1>5. DepartOne(r, p, heir) = BumpEpochBy(m, n)
  BY DEF DepartOne, Depart, b
<1> HIDE DEF b, n, gone
<1>6. IndexesAgree(b)
  <2>1. \A q \in CIDs, c \in Clients : r.client[q] = c <=> r.byClient[c] = q
    BY DEF SoundRoom, IndexesAgree
  <2>2. \A q \in CIDs, c \in Clients : b.client[q] = c <=> b.byClient[c] = q
    BY <1>2, <2>1, RoomAssumption
  <2>3. \A q \in CIDs : b.client[q] # Nil => q \in b.members
    BY <1>2 DEF SoundRoom, IndexesAgree
  <2> QED
    BY <2>2, <2>3 DEF IndexesAgree
<1>7. CapacityRespected(b)
  <2>1. IsFiniteSet(r.members) /\ b.members \in SUBSET r.members
    BY <1>1, <1>2, Finite DEF RoomType
  <2>2. Cardinality(b.members) <= Cardinality(r.members)
    BY <2>1, FS_Subset
  <2>3. Cardinality(b.members) \in Nat /\ Cardinality(r.members) \in Nat /\ r.max \in Nat
    BY <2>1, <1>1, Finite DEF RoomType
  <2> QED
    BY <1>2, <2>2, <2>3 DEF SoundRoom, CapacityRespected
<1>8. SoundRoom(b) /\ Frees(r, p, b)
  BY <1>2, <1>3, <1>6, <1>7 DEF SoundRoom, Frees
<1>9. SoundRoom(m) /\ Keeps(b, m)
  BY <1>8, ArmSound
<1> HIDE DEF m
<1>10. SoundRoom(BumpEpochBy(m, n)) /\ Keeps(m, BumpEpochBy(m, n))
  BY <1>4, <1>9, BumpSound
<1> QED
  BY <1>5, <1>8, <1>9, <1>10 DEF Keeps, Frees

\* Heirs are participants or nobody.
LEMMA HeirType ==
  ASSUME NEW r \in RoomType, NEW gone, NEW heir \in Heirs(r, gone)
  PROVE  heir \in CIDs \cup {Nil}
BY DEF Heirs, RoomType, Active

\* A transport loss keeps the place, and times it.
LEMMA SuspendSound ==
  ASSUME NEW r, SoundRoom(r), NEW p \in CIDs
  PROVE  SoundRoom(Suspend(r, p)) /\ Times(r, p, Suspend(r, p))
<1> DEFINE b == [r EXCEPT
             !.client[p] = Nil,
             !.byClient = [d \in Clients |-> IF d = r.client[p] THEN Nil ELSE @[d]],
             !.evict = @ \cup {p}, !.dwelt = @ \ {p}]
<1>1. r \in RoomType
  BY DEF SoundRoom
<1>2. /\ b.members = r.members
      /\ b.client = [r.client EXCEPT ![p] = Nil]
      /\ b.byClient = [d \in Clients |-> IF d = r.client[p] THEN Nil ELSE r.byClient[d]]
      /\ b.evict = r.evict \cup {p} /\ b.max = r.max /\ b.locked = r.locked
  BY <1>1 DEF RoomType
<1>3. b \in RoomType
  BY <1>1 DEF RoomType
<1> HIDE DEF b
<1>4. IndexesAgree(b)
  <2>1. \A q \in CIDs, c \in Clients : r.client[q] = c <=> r.byClient[c] = q
    BY DEF SoundRoom, IndexesAgree
  <2>2. \A q \in CIDs, c \in Clients : b.client[q] = c <=> b.byClient[c] = q
    BY <1>1, <1>2, <2>1, RoomAssumption DEF RoomType
  <2>3. \A q \in CIDs : b.client[q] # Nil => q \in b.members
    BY <1>1, <1>2 DEF SoundRoom, IndexesAgree, RoomType
  <2> QED
    BY <2>2, <2>3 DEF IndexesAgree
<1>5. CapacityRespected(b)
  BY <1>2 DEF SoundRoom, CapacityRespected
<1>6. SoundRoom(b)
  BY <1>3, <1>4, <1>5 DEF SoundRoom
<1>7. Suspend(r, p) = ArmNoActive(b)
  BY DEF Suspend, b
<1>8. SoundRoom(ArmNoActive(b)) /\ Keeps(b, ArmNoActive(b))
  BY <1>6, ArmSound
<1>9. Times(r, p, b)
  BY <1>1, <1>2 DEF Times, RoomType
<1> QED
  BY <1>7, <1>8, <1>9 DEF Keeps, Times

\* A reclaimed place changes hands at once: whoever held it lets go.
LEMMA ReattachSound ==
  ASSUME NEW r, SoundRoom(r), NEW p \in r.members, NEW c \in Clients, r.byClient[c] = Nil
  PROVE  SoundRoom(Reattach(r, p, c)) /\ Hands(r, p, c, Reattach(r, p, c))
<1> DEFINE a == Reattach(r, p, c)
<1>1. r \in RoomType /\ p \in CIDs
  BY DEF SoundRoom, RoomType
<1>2. /\ a.members = r.members
      /\ a.client = [r.client EXCEPT ![p] = c]
      /\ a.byClient = [d \in Clients |-> IF d = c THEN p
                                         ELSE IF d = r.client[p] THEN Nil
                                         ELSE r.byClient[d]]
      /\ a.evict = r.evict \ {p} /\ a.max = r.max /\ a.locked = r.locked
  BY <1>1 DEF Reattach, RoomType
<1>3. a \in RoomType
  BY <1>1 DEF Reattach, RoomType
<1> HIDE DEF a
<1>4. IndexesAgree(a)
  <2>1. \A q \in CIDs, d \in Clients : r.client[q] = d <=> r.byClient[d] = q
    BY DEF SoundRoom, IndexesAgree
  <2>2. \A q \in CIDs, d \in Clients : a.client[q] = d <=> a.byClient[d] = q
    BY <1>1, <1>2, <2>1, RoomAssumption DEF RoomType
  <2>3. \A q \in CIDs : a.client[q] # Nil => q \in a.members
    BY <1>1, <1>2 DEF SoundRoom, IndexesAgree, RoomType
  <2> QED
    BY <2>2, <2>3 DEF IndexesAgree
<1>5. CapacityRespected(a)
  BY <1>2 DEF SoundRoom, CapacityRespected
<1>6. SoundRoom(a)
  BY <1>3, <1>4, <1>5 DEF SoundRoom
<1>7. Hands(r, p, c, a)
  BY <1>1, <1>2 DEF Hands, OnlyDetaches, RoomType
<1> QED
  BY <1>6, <1>7 DEF a

\* The end of a join moves nobody.
LEMMA SeatSound ==
  ASSUME NEW r, SoundRoom(r), NEW p \in CIDs
  PROVE  SoundRoom(Seat(r, p)) /\ Keeps(r, Seat(r, p))
<1> DEFINE b == [r EXCEPT !.host = IF @ = Nil THEN p ELSE @,
                          !.dirty = {e \in @ : e[2] # p}]
<1>1. r \in RoomType
  BY DEF SoundRoom
<1>2. /\ b.members = r.members /\ b.client = r.client /\ b.byClient = r.byClient
      /\ b.evict = r.evict /\ b.max = r.max /\ b.locked = r.locked
  BY <1>1 DEF RoomType
<1>3. b \in RoomType
  BY <1>1 DEF RoomType
<1> HIDE DEF b
<1>4. SoundRoom(b)
  BY <1>2, <1>3 DEF SoundRoom, IndexesAgree, CapacityRespected
<1>5. Seat(r, p) = BumpEpochBy(b, 1)
  BY DEF Seat, BumpEpoch, b
<1>6. SoundRoom(BumpEpochBy(b, 1)) /\ Keeps(b, BumpEpochBy(b, 1))
  BY <1>4, BumpSound
<1> QED
  BY <1>2, <1>5, <1>6 DEF Keeps

\* A room whose capacity is not fixed yet has nobody in it.
ProvisionalIsEmpty(r) == ~r.locked => r.max = 2 /\ r.members = {}

\* Fixing the capacity of a call at its first join leaves the room sound; a room whose
\* capacity was not fixed is empty and of size two afterwards (handleJoin).
LEMMA LockSound ==
  ASSUME NEW r, SoundRoom(r), NEW cap \in Nat \ {0, 1}
  PROVE  SoundRoom(LockCapacity(r, cap)) /\ Keeps(r, LockCapacity(r, cap))
         /\ ProvisionalIsEmpty(LockCapacity(r, cap))
<1> DEFINE a == LockCapacity(r, cap)
<1>1. r \in RoomType /\ IsFiniteSet(r.members) /\ Cardinality(r.members) \in Nat
  BY Finite DEF SoundRoom, RoomType
<1>2. CASE ~r.locked /\ Cardinality(r.members) = 1
  <2>1. a = [r EXCEPT !.max = Smaller(r.requested, cap), !.locked = TRUE]
    BY <1>2 DEF LockCapacity
  <2>2. Smaller(r.requested, cap) \in Nat \ {0, 1}
    <3>1. r.requested \in Nat \ {0, 1}
      BY <1>1 DEF RoomType
    <3> QED
      BY <3>1, SmallerType
  <2>3. a \in RoomType
    BY <1>1, <2>1, <2>2 DEF RoomType
  <2>4. /\ a.members = r.members /\ a.client = r.client /\ a.byClient = r.byClient
        /\ a.evict = r.evict /\ a.max = Smaller(r.requested, cap) /\ a.locked = TRUE
    BY <1>1, <2>1 DEF RoomType
  <2> HIDE DEF a
  <2>5. IndexesAgree(a)
    BY <2>4 DEF SoundRoom, IndexesAgree
  <2>6. CapacityRespected(a)
    BY <1>2, <2>2, <2>4 DEF CapacityRespected
  <2>7. SoundRoom(a)
    BY <2>3, <2>5, <2>6 DEF SoundRoom
  <2> QED
    BY <2>4, <2>7 DEF a, Keeps, ProvisionalIsEmpty
<1>3. CASE ~(~r.locked /\ Cardinality(r.members) = 1)
  <2>1. a = r
    BY <1>3 DEF LockCapacity
  <2>2. ~r.locked => r.max = 2 /\ Cardinality(r.members) = 0
    BY <1>1, <1>3 DEF SoundRoom, CapacityRespected
  <2> QED
    BY <1>1, <2>1, <2>2, FS_EmptySet DEF Keeps, ProvisionalIsEmpty
<1> QED
  BY <1>2, <1>3

\* A newcomer takes a free place, never one more than there are.
LEMMA AttachSound ==
  ASSUME NEW r, SoundRoom(r), ProvisionalIsEmpty(r),
         NEW p \in CIDs \ r.members, NEW c \in Clients, r.byClient[c] = Nil,
         Cardinality(r.members) < r.max
  PROVE  /\ SoundRoom(AttachParticipant(r, p, c))
         /\ Hands(r, p, c, AttachParticipant(r, p, c))
<1> DEFINE a == AttachParticipant(r, p, c)
<1>1. r \in RoomType
  BY DEF SoundRoom
<1>2. /\ a.members = r.members \cup {p} /\ a.client = [r.client EXCEPT ![p] = c]
      /\ a.byClient = [r.byClient EXCEPT ![c] = p]
      /\ a.evict = r.evict /\ a.max = r.max /\ a.locked = r.locked
  BY <1>1 DEF AttachParticipant, RoomType
<1>3. a \in RoomType
  BY <1>1 DEF AttachParticipant, RoomType
<1> HIDE DEF a
<1>4. IndexesAgree(a)
  <2>1. /\ \A q \in CIDs, d \in Clients : r.client[q] = d <=> r.byClient[d] = q
        /\ r.client[p] = Nil
    BY <1>1 DEF SoundRoom, IndexesAgree
  <2>2. \A q \in CIDs, d \in Clients : a.client[q] = d <=> a.byClient[d] = q
    BY <1>1, <1>2, <2>1, RoomAssumption DEF RoomType
  <2>3. \A q \in CIDs : a.client[q] # Nil => q \in a.members
    BY <1>1, <1>2 DEF SoundRoom, IndexesAgree, RoomType
  <2> QED
    BY <2>2, <2>3 DEF IndexesAgree
<1>5. CapacityRespected(a)
  <2>1. IsFiniteSet(r.members) /\ Cardinality(r.members) \in Nat /\ r.max \in Nat
    BY <1>1, Finite DEF RoomType
  <2>2. Cardinality(a.members) = Cardinality(r.members) + 1
    <3>1. p \notin r.members
      OBVIOUS
    <3>2. Cardinality(r.members \cup {p}) = Cardinality(r.members) + 1
      BY <2>1, <3>1, FS_AddElement
    <3> QED
      BY <1>2, <3>2
  <2>3. Cardinality(a.members) <= a.max
    BY <1>2, <2>1, <2>2
  <2>4. ~a.locked => a.max = 2 /\ Cardinality(a.members) = 1
    BY <1>2, <2>2, FS_EmptySet DEF ProvisionalIsEmpty
  <2> QED
    BY <2>3, <2>4 DEF CapacityRespected
<1>6. SoundRoom(a)
  BY <1>3, <1>4, <1>5 DEF SoundRoom
<1>7. Hands(r, p, c, a)
  BY <1>1, <1>2 DEF Hands, OnlyDetaches, RoomType
<1> QED
  BY <1>6, <1>7 DEF a

\* A new object, and what end_room or the no-active timer leaves behind.
LEMMA EmptySound ==
  /\ \A n \in Nat \ {0, 1} : SoundRoom(NewRoom(n))
  /\ \A r : SoundRoom(r) => SoundRoom(Cleared(r))
<1>1. ASSUME NEW n \in Nat \ {0, 1}
      PROVE  SoundRoom(NewRoom(n))
  BY <1>1, OpenRooms DEF OpenOK, SoundRoom
<1>2. ASSUME NEW r, SoundRoom(r)
      PROVE  SoundRoom(Cleared(r))
  <2> DEFINE a == Cleared(r)
  <2>1. r \in RoomType
    BY <1>2 DEF SoundRoom
  <2>2. /\ a.members = {} /\ a.client = [p \in CIDs |-> Nil]
        /\ a.byClient = [c \in Clients |-> Nil] /\ a.max = r.max /\ a.locked = r.locked
    BY <2>1 DEF Cleared, RoomType
  <2>3. a \in RoomType
    BY <2>1 DEF Cleared, RoomType
  <2> HIDE DEF a
  <2>4. IndexesAgree(a)
    BY <2>2, RoomAssumption DEF IndexesAgree
  <2>5. CapacityRespected(a)
    BY <1>2, <2>1, <2>2, FS_EmptySet DEF SoundRoom, CapacityRespected, RoomType
  <2> QED
    BY <2>3, <2>4, <2>5 DEF SoundRoom, a
<1> QED
  BY <1>1, <1>2

-----------------------------------------------------------------------------
(***************************************************************************)
(* The inductive invariant.                                                *)
(***************************************************************************)

FrameType ==
  [at : Stages, then : {"idle", "gate"}, obj : Objects \cup {Nil}, cid : CIDs \cup {Nil},
   claims : BOOLEAN, cap : Nat, peers : SUBSET Clients]

\* The stages at which a handler holds an object, and at which it has the CID
\* that its join is about.
Holding == {"remove", "seat", "evict", "evictRefused", "reseat", "end", "bury", "unlist", "clear"}
Joining == {"gate", "lookup", "seat", "evict", "evictRefused", "reseat", "seated"}
Ending  == {"bury", "unlist", "clear"}

\* What a handler needs in its frame to go on.
FrameOK(c) ==
  /\ task[c].cap \notin {0, 1}
  /\ task[c].at \in Holding => task[c].obj \in Objects
  /\ (task[c].at \in Joining \/ task[c].then = "gate") => task[c].cid \in CIDs

FramesOK ==
  /\ \A c \in Clients : FrameOK(c)
  /\ \A c \in Clients : closing[c].at = "suspend" => closing[c].obj \in Objects
  /\ web.at # "idle" => web.obj \in Objects /\ web.cid \in CIDs

Sound == \A o \in Objects : SoundRoom(heap[o])

\* The handler of c has left the listed room, or found that c is not in it.
Vacated(c) ==
  \/ task[c].at \in {"gate", "lookup", "seat"}
  \/ task[c].at = "delete" /\ task[c].then = "gate"
  \/ task[c].at = "remove" /\ task[c].obj # current

\* A transport is in the listed room only as the participant it takes itself
\* for, and in no seat of the room that its join is about to enter: so a join
\* never leaves it with two seats in one room.
UnseatedOf(c) ==
  /\ current # Nil => \/ heap[current].byClient[c] = Nil
                      \/ heap[current].byClient[c] = cid[c] /\ ~Vacated(c)
  /\ task[c].at = "seat" => heap[task[c].obj].byClient[c] = Nil

Unseated == \A c \in Clients : UnseatedOf(c)

Reclaimed == current # Nil => \A p \in Suspended(heap[current]) : IsReclaimable(p)

Inv == TypeOK /\ FramesOK /\ Sound /\ Unseated /\ Reclaimed

\* The steps of a goroutine other than the handler of d leave d where it is.
LEMMA UnseatedKept ==
  ASSUME NEW d \in Clients, UnseatedOf(d), FrameOK(d),
         task'[d] = task[d], cid'[d] = cid[d],
         current \in Objects \cup {Nil}, current' \in Objects \cup {Nil},
         \A o \in Objects : heap'[o].byClient[d] \in {Nil, heap[o].byClient[d]},
         current' \in {current, Nil} \/ heap'[current'].byClient[d] = Nil
  PROVE  UnseatedOf(d)'
BY DEF UnseatedOf, Vacated, FrameOK, Holding

\* A suspension stays on its way to an end.
LEMMA ReclaimedKept ==
  ASSUME Reclaimed, current' = current,
         current # Nil => \A p \in Suspended(heap'[current]) :
           \/ p \in heap'[current].evict
           \/ callback'[<<current, p>>] # "none"
           \/ IsEnding(current)'
           \/ p \in Suspended(heap[current]) /\ p \notin heap[current].evict,
         \A p \in CIDs : callback[<<current, p>>] # "none" => callback'[<<current, p>>] # "none",
         IsEnding(current) => IsEnding(current)' \/ Suspended(heap'[current]) = {},
         current # Nil => heap'[current] \in RoomType
  PROVE  Reclaimed'
<1> SUFFICES ASSUME current # Nil, NEW p \in Suspended(heap'[current])
             PROVE  IsReclaimable(p)'
  BY DEF Reclaimed
<1>1. p \in CIDs
  BY DEF Suspended, RoomType
<1>2. p \in Suspended(heap[current]) => IsReclaimable(p)
  BY DEF Reclaimed
<1> QED
  BY <1>1, <1>2 DEF IsReclaimable

\* A handler that writes a sound room back to its object changes that object only.
LEMMA StoreEffect ==
  ASSUME TypeOK, Sound, NEW o \in Objects, NEW room, SoundRoom(room), Store(o, room)
  PROVE  /\ heap' \in [Objects -> RoomType] /\ Sound'
         /\ heap'[o] = room
         /\ \A x \in Objects \ {o} : heap'[x] = heap[x]
<1>1. heap' = [heap EXCEPT ![o] = room]
  BY DEF Store
<1>2. heap \in [Objects -> RoomType] /\ room \in RoomType
  BY DEF TypeOK, SoundRoom
<1>3. /\ heap' \in [Objects -> RoomType] /\ heap'[o] = room
      /\ \A x \in Objects \ {o} : heap'[x] = heap[x]
  BY <1>1, <1>2
<1>4. \A x \in Objects : SoundRoom(heap'[x])
  BY <1>3 DEF Sound
<1> QED
  BY <1>3, <1>4 DEF Sound

-----------------------------------------------------------------------------
(***************************************************************************)
(* The steps that only move a handler.                                     *)
(***************************************************************************)

\* A handler goes on: the next frame is that of the step, the others are as
\* they were.
LEMMA GotoEffect ==
  ASSUME TypeOK, NEW c \in Clients, NEW stage \in Stages, Goto(c, stage)
  PROVE  /\ task' \in [Clients -> FrameType]
         /\ \A d \in Clients \ {c} : task'[d] = task[d]
         /\ task'[c].at = stage
         /\ stage \notin {"idle", "gate", "seated"} => task'[c] = [task[c] EXCEPT !.at = stage]
         /\ stage = "gate" => /\ task'[c].cid = task[c].cid /\ task'[c].cap = task[c].cap
                              /\ task'[c].then = task[c].then
         /\ stage = "seated" => task'[c].cid = task[c].cid
         /\ stage \in {"idle", "seated"} => task'[c].cap = 2 /\ task'[c].then = "idle"
<1>1. task \in [Clients -> FrameType]
  BY DEF TypeOK, FrameType
<1>2. Idle \in FrameType
  BY DEF Idle, FrameType, Stages
<1>3. CASE stage = "idle"
  <2>1. task' = [task EXCEPT ![c] = Idle]
    BY <1>3 DEF Goto
  <2>2. Idle.cap = 2 /\ Idle.then = "idle" /\ Idle.at = "idle"
    BY DEF Idle
  <2> QED
    BY <1>1, <1>2, <1>3, <2>1, <2>2
<1>4. CASE stage = "gate"
  <2> DEFINE f == [task[c] EXCEPT !.at = stage, !.obj = Nil]
  <2>1. task' = [task EXCEPT ![c] = f]
    BY <1>4 DEF Goto
  <2>2. task[c] \in FrameType /\ Nil \in Objects \cup {Nil}
    BY <1>1
  <2>3. /\ f.at = stage /\ f.cid = task[c].cid
        /\ f.cap = task[c].cap /\ f.then = task[c].then
    BY <2>2 DEF FrameType
  <2>4. f \in FrameType
    BY <2>2 DEF FrameType
  <2> HIDE DEF f
  <2> QED
    BY <1>1, <1>4, <2>1, <2>3, <2>4
<1>5. CASE stage = "seated"
  <2>1. task' = [task EXCEPT ![c] = [Idle EXCEPT !.at = stage, !.cid = task[c].cid]]
    BY <1>5 DEF Goto
  <2> QED
    BY <1>1, <1>2, <1>5, <2>1 DEF FrameType, Idle
<1>6. CASE stage \notin {"idle", "gate", "seated"}
  <2>1. task' = [task EXCEPT ![c] = [task[c] EXCEPT !.at = stage]]
    BY <1>6 DEF Goto
  <2> QED
    BY <1>1, <1>6, <2>1 DEF FrameType
<1> QED
  BY <1>3, <1>4, <1>5, <1>6

\* A step that changes neither the rooms nor the identities.
LEMMA Walk ==
  ASSUME Inv, NEW c \in Clients,
         UNCHANGED <<heap, current, cid, closing, callback, reaping, web, plan>>,
         tombstone' \in BOOLEAN, registered' \subseteq Clients, issued' \subseteq CIDs,
         task' \in [Clients -> FrameType],
         \A d \in Clients \ {c} : task'[d] = task[d],
         task[c].at \in Ending => task'[c].at \in Ending /\ task'[c].obj = task[c].obj,
         FrameOK(c)', UnseatedOf(c)'
  PROVE  Inv'
<1> USE DEF Inv
<1>1. TypeOK'
  BY DEF TypeOK, FrameType
<1>2. FramesOK'
  BY DEF FramesOK, FrameOK
<1>3. Sound'
  BY DEF Sound
<1>4. \A d \in Clients \ {c} : UnseatedOf(d)'
  <2> TAKE d \in Clients \ {c}
  <2>1. UnseatedOf(d) /\ FrameOK(d) /\ current \in Objects \cup {Nil}
    BY DEF Unseated, FramesOK, TypeOK
  <2> QED
    BY <2>1, UnseatedKept
<1>5. Reclaimed'
  <2>1. current # Nil => heap'[current] \in RoomType
    BY DEF TypeOK
  <2>2. IsEnding(current) => IsEnding(current)'
    BY DEF IsEnding, Ending
  <2> QED
    BY <2>1, <2>2, ReclaimedKept
<1> QED
  BY <1>1, <1>2, <1>3, <1>4, <1>5 DEF Unseated

\* Accepting a message puts one idle goroutine at its first stage and keeps Inv.
LEMMA StartStep ==
  ASSUME Inv, NEW c \in Clients, NEW f \in FrameType, Start(c, f), UNCHANGED plan,
         f.at \in {"vacate", "gate", "endFind"}, f.cap \notin {0, 1},
         f.at = "gate" => cid[c] = Nil,
         (f.at = "gate" \/ f.then = "gate") => f.cid \in CIDs
  PROVE  Inv'
<1>1. /\ UNCHANGED <<heap, current, cid, closing, callback, reaping, web, plan>>
      /\ UNCHANGED <<tombstone, registered, issued>>
      /\ task[c] = Idle /\ task' = [task EXCEPT ![c] = f]
  BY DEF Start
<1>2. task \in [Clients -> FrameType]
  BY DEF Inv, TypeOK, FrameType
<1>3. /\ task' \in [Clients -> FrameType]
      /\ \A d \in Clients \ {c} : task'[d] = task[d]
      /\ task'[c] = f
  BY <1>1, <1>2
<1>4. task[c].at \notin Ending
  BY <1>1 DEF Idle, Ending
<1>5. FrameOK(c)'
  BY <1>3 DEF FrameOK, Holding, Joining
<1>6. UnseatedOf(c)'
  <2>1. UnseatedOf(c)
    BY DEF Inv, Unseated
  <2> QED
    BY <1>1, <1>3, <2>1 DEF UnseatedOf, Vacated
<1>7. tombstone' \in BOOLEAN /\ registered' \subseteq Clients /\ issued' \subseteq CIDs
  BY <1>1 DEF Inv, TypeOK
<1> QED
  BY <1>1, <1>3, <1>4, <1>5, <1>6, <1>7, Walk

\* Accepting a join message keeps Inv: a transport that holds a seat vacates it first.
LEMMA StartJoinStep ==
  ASSUME Inv, NEW c \in Clients, NEW p \in CIDs, NEW cap \in plan.capabilities,
         StartJoin(c, p, cap), UNCHANGED plan
  PROVE  Inv'
<1> DEFINE k == p \in issued
           f == [Idle EXCEPT !.at = IF cid[c] = Nil THEN "gate" ELSE "vacate",
                             !.then = "gate", !.cid = p, !.claims = k, !.cap = cap]
<1>1. cap \in Nat \ {0, 1}
  BY LocksAssumption, RoomAssumption DEF Inv, TypeOK
<1>2. /\ f.at = (IF cid[c] = Nil THEN "gate" ELSE "vacate") /\ f.then = "gate"
      /\ f.cid = p /\ f.cap = cap
  BY DEF Idle
<1>3. Start(c, f)
  BY DEF StartJoin
<1>4. k \in BOOLEAN
  OBVIOUS
<1> HIDE DEF k
<1>5. f \in FrameType
  BY <1>1, <1>4 DEF Idle, FrameType, Stages
<1> HIDE DEF f
<1> QED
  BY <1>1, <1>2, <1>3, <1>5, StartStep

\* Accepting a leave or an end message keeps Inv.
LEMMA StartOtherStep ==
  ASSUME Inv, NEW c \in Clients, StartLeave(c) \/ StartEnd(c), UNCHANGED plan
  PROVE  Inv'
<1> DEFINE f(stage) == [Idle EXCEPT !.at = stage]
<1>1. \A stage \in {"vacate", "endFind"} :
         /\ f(stage) \in FrameType /\ f(stage).at = stage /\ f(stage).cap = 2
         /\ f(stage).then = "idle"
  BY DEF Idle, FrameType, Stages
<1>2. PICK stage \in {"vacate", "endFind"} : Start(c, f(stage))
  BY DEF StartLeave, StartEnd
<1> HIDE DEF f
<1> QED
  BY <1>1, <1>2, StartStep
\* Leaving a stage does not put a handler in a worse position: only the stages
\* of a join ask for more than that the transport is in no other's seat.
LEMMA GotoFrame ==
  ASSUME Inv, NEW c \in Clients, NEW stage \in Stages, Goto(c, stage),
         stage \in Joining => task[c].cid \in CIDs,
         stage \in Holding => task[c].obj \in Objects
  PROVE  FrameOK(c)'
<1>1. FrameOK(c) /\ TypeOK
  BY DEF Inv, FramesOK
<1>2. /\ task'[c].at = stage
      /\ stage \notin {"idle", "gate", "seated"} => task'[c] = [task[c] EXCEPT !.at = stage]
      /\ stage = "gate" => /\ task'[c].cid = task[c].cid /\ task'[c].cap = task[c].cap
                           /\ task'[c].then = task[c].then
      /\ stage = "seated" => task'[c].cid = task[c].cid
      /\ stage \in {"idle", "seated"} => task'[c].cap = 2 /\ task'[c].then = "idle"
  BY <1>1, GotoEffect
<1>3. task[c] \in FrameType
  BY <1>1 DEF TypeOK, FrameType
<1>4. CASE stage \notin {"idle", "gate", "seated"}
  <2>1. /\ task'[c].cid = task[c].cid /\ task'[c].cap = task[c].cap
        /\ task'[c].then = task[c].then /\ task'[c].obj = task[c].obj
    BY <1>2, <1>3, <1>4 DEF FrameType
  <2> QED
    BY <1>1, <1>2, <2>1 DEF FrameOK
<1>5. CASE stage \in {"idle", "gate", "seated"}
  BY <1>1, <1>2, <1>5 DEF FrameOK, Holding, Joining
<1> QED
  BY <1>4, <1>5

\* removeClientFromRoom finds the room: the seat it may find there is its own.
LEMMA FindForRemovalStep ==
  ASSUME Inv, NEW c \in Clients, FindForRemoval(c), UNCHANGED plan
  PROVE  Inv'
<1>1. UNCHANGED <<heap, current, tombstone, registered, cid, issued, closing, callback,
                  reaping, web, plan>> /\ task[c].at = "vacate"
  BY DEF FindForRemoval, At
<1>2. /\ task \in [Clients -> FrameType] /\ FrameOK(c) /\ UnseatedOf(c)
      /\ current \in Objects \cup {Nil} /\ TypeOK
  BY DEF Inv, TypeOK, FrameType, FramesOK, Unseated
<1>3. task[c].at \notin Ending
  BY <1>1 DEF Ending
<1>4. tombstone' \in BOOLEAN /\ registered' \subseteq Clients /\ issued' \subseteq CIDs
  BY <1>1 DEF Inv, TypeOK
<1>5. CASE current = Nil
  <2> DEFINE stage == task[c].then
  <2>1. stage \in {"idle", "gate"} /\ stage \in Stages
    BY <1>2 DEF FrameType, Stages
  <2>2. Goto(c, stage) /\ (stage \in Joining => task[c].cid \in CIDs) /\ stage \notin Holding
    BY <1>2, <1>5, <2>1 DEF FindForRemoval, FrameOK, Joining, Holding
  <2> HIDE DEF stage
  <2>3. /\ task' \in [Clients -> FrameType]
        /\ \A d \in Clients \ {c} : task'[d] = task[d]
        /\ task'[c].at = stage
    BY <1>2, <2>1, <2>2, GotoEffect
  <2>4. FrameOK(c)'
    BY <2>1, <2>2, GotoFrame
  <2>5. UnseatedOf(c)'
    BY <1>1, <1>5, <2>1, <2>3 DEF UnseatedOf
  <2> QED
    BY <1>1, <1>3, <1>4, <2>3, <2>4, <2>5, Walk
<1>6. CASE current # Nil
  <2> DEFINE f == [task[c] EXCEPT !.at = "remove", !.obj = current]
  <2>1. task' = [task EXCEPT ![c] = f]
    BY <1>2, <1>6 DEF FindForRemoval, GotoWith, FrameType
  <2>2. task[c] \in FrameType /\ "remove" \in Stages
    BY <1>2 DEF Stages
  <2>3. /\ f.at = "remove" /\ f.obj = current /\ f.cid = task[c].cid
        /\ f.cap = task[c].cap /\ f.then = task[c].then
    BY <2>2 DEF FrameType
  <2>4. f \in FrameType
    BY <1>2, <2>2 DEF FrameType
  <2> HIDE DEF f
  <2>5. /\ task' \in [Clients -> FrameType] /\ task'[c] = f
        /\ \A d \in Clients \ {c} : task'[d] = task[d]
    BY <1>2, <2>1, <2>4
  <2>6. FrameOK(c)'
    BY <1>2, <1>6, <2>3, <2>5 DEF FrameOK, Joining, Holding
  <2>7. UnseatedOf(c)'
    BY <1>1, <1>2, <2>3, <2>5 DEF UnseatedOf, Vacated
  <2> QED
    BY <1>1, <1>3, <1>4, <2>5, <2>6, <2>7, Walk
<1> QED
  BY <1>5, <1>6
\* A handler goes on to a stage at which it asks nothing new of the rooms.
LEMMA GotoWalk ==
  ASSUME Inv, NEW c \in Clients, NEW stage \in Stages, Goto(c, stage),
         UNCHANGED <<heap, current, cid, closing, callback, reaping, web, plan>>,
         tombstone' \in BOOLEAN, registered' \subseteq Clients, issued' \subseteq CIDs,
         task[c].at \notin Ending,
         stage \in Joining => task[c].cid \in CIDs,
         stage \in Holding => task[c].obj \in Objects,
         stage \notin {"seat", "remove", "delete"},
         stage \in {"gate", "lookup"} /\ current # Nil => heap[current].byClient[c] = Nil
  PROVE  Inv'
<1>1. TypeOK /\ UnseatedOf(c)
  BY DEF Inv, Unseated
<1>2. /\ task' \in [Clients -> FrameType]
      /\ \A d \in Clients \ {c} : task'[d] = task[d]
      /\ task'[c].at = stage
  BY <1>1, GotoEffect
<1>3. FrameOK(c)'
  BY GotoFrame
<1>4. UnseatedOf(c)'
  BY <1>1, <1>2 DEF UnseatedOf, Vacated
<1> QED
  BY <1>2, <1>3, <1>4, Walk

\* The gate, the end of a join and the search for the room to end.
LEMMA TombstoneGateStep ==
  ASSUME Inv, NEW c \in Clients, TombstoneGate(c), UNCHANGED plan
  PROVE  Inv'
<1>1. UNCHANGED <<heap, current, tombstone, registered, cid, issued, closing, callback,
                  reaping, web, plan>> /\ task[c].at = "gate"
  BY DEF TombstoneGate, At
<1>2. /\ task \in [Clients -> FrameType] /\ FrameOK(c) /\ UnseatedOf(c)
  BY DEF Inv, TypeOK, FrameType, FramesOK, Unseated
<1>3. task[c].at \notin Ending
  BY <1>1 DEF Ending
<1>4. tombstone' \in BOOLEAN /\ registered' \subseteq Clients /\ issued' \subseteq CIDs
  BY <1>1 DEF Inv, TypeOK
<1>5. CASE task[c].claims /\ tombstone
  <2>1. Goto(c, "idle") /\ "idle" \in Stages
    BY <1>5 DEF TombstoneGate, Stages
  <2>2. "idle" \notin Joining /\ "idle" \notin Holding
    BY DEF Joining, Holding
  <2> QED
    BY <1>1, <1>3, <1>4, <2>1, <2>2, GotoWalk
<1>6. CASE ~(task[c].claims /\ tombstone)
  <2> DEFINE f == [task[c] EXCEPT !.at = "lookup", !.claims = FALSE]
  <2>1. task' = [task EXCEPT ![c] = f]
    BY <1>2, <1>6 DEF TombstoneGate, FrameType
  <2>2. task[c] \in FrameType /\ "lookup" \in Stages
    BY <1>2 DEF Stages
  <2>3. /\ f.at = "lookup" /\ f.obj = task[c].obj /\ f.cid = task[c].cid
        /\ f.cap = task[c].cap /\ f.then = task[c].then
    BY <2>2 DEF FrameType
  <2>4. f \in FrameType
    BY <1>2, <2>2 DEF FrameType
  <2> HIDE DEF f
  <2>5. /\ task' \in [Clients -> FrameType] /\ task'[c] = f
        /\ \A d \in Clients \ {c} : task'[d] = task[d]
    BY <1>2, <2>1, <2>4
  <2>6. FrameOK(c)'
    BY <1>1, <1>2, <2>3, <2>5 DEF FrameOK, Joining, Holding
  <2>7. UnseatedOf(c)'
    BY <1>1, <1>2, <2>3, <2>5 DEF UnseatedOf, Vacated
  <2> QED
    BY <1>1, <1>3, <1>4, <2>5, <2>6, <2>7, Walk
<1> QED
  BY <1>5, <1>6

\* The last step of a join, after the room was unlocked, keeps Inv: it clears the
\* tombstone and registers the identifier as issued.
LEMMA FinishJoinStep ==
  ASSUME Inv, NEW c \in Clients, FinishJoin(c), UNCHANGED plan
  PROVE  Inv'
<1>1. /\ UNCHANGED <<heap, current, registered, cid, closing, callback, reaping, web, plan>>
      /\ task[c].at = "seated" /\ tombstone' = FALSE /\ issued' = issued \cup {task[c].cid}
      /\ Goto(c, "idle")
  BY DEF FinishJoin, At
<1>2. task[c].cid \in CIDs
  BY <1>1 DEF Inv, FramesOK, FrameOK, Joining
<1>3. task[c].at \notin Ending
  BY <1>1 DEF Ending
<1>4. tombstone' \in BOOLEAN /\ registered' \subseteq Clients /\ issued' \subseteq CIDs
  BY <1>1, <1>2 DEF Inv, TypeOK
<1>5. "idle" \notin Joining /\ "idle" \notin Holding /\ "idle" \in Stages
  BY DEF Joining, Holding, Stages
<1> QED
  BY <1>1, <1>3, <1>4, <1>5, GotoWalk

\* Looking up the room of an end_room message under the hub lock keeps Inv.
LEMMA FindForEndStep ==
  ASSUME Inv, NEW c \in Clients, FindForEnd(c), UNCHANGED plan
  PROVE  Inv'
<1>1. UNCHANGED <<heap, current, tombstone, registered, cid, issued, closing, callback,
                  reaping, web, plan>> /\ task[c].at = "endFind"
  BY DEF FindForEnd, At
<1>2. /\ task \in [Clients -> FrameType] /\ FrameOK(c) /\ UnseatedOf(c)
      /\ current \in Objects \cup {Nil}
  BY DEF Inv, TypeOK, FrameType, FramesOK, Unseated
<1>3. task[c].at \notin Ending
  BY <1>1 DEF Ending
<1>4. tombstone' \in BOOLEAN /\ registered' \subseteq Clients /\ issued' \subseteq CIDs
  BY <1>1 DEF Inv, TypeOK
<1>5. CASE current = Nil
  <2>1. Goto(c, "idle") /\ "idle" \in Stages
    BY <1>5 DEF FindForEnd, Stages
  <2>2. "idle" \notin Joining /\ "idle" \notin Holding
    BY DEF Joining, Holding
  <2> QED
    BY <1>1, <1>3, <1>4, <2>1, <2>2, GotoWalk
<1>6. CASE current # Nil
  <2> DEFINE f == [task[c] EXCEPT !.at = "end", !.obj = current]
  <2>1. task' = [task EXCEPT ![c] = f]
    BY <1>2, <1>6 DEF FindForEnd, GotoWith, FrameType
  <2>2. task[c] \in FrameType /\ "end" \in Stages
    BY <1>2 DEF Stages
  <2>3. /\ f.at = "end" /\ f.obj = current /\ f.cid = task[c].cid
        /\ f.cap = task[c].cap /\ f.then = task[c].then
    BY <2>2 DEF FrameType
  <2>4. f \in FrameType
    BY <1>2, <2>2 DEF FrameType
  <2> HIDE DEF f
  <2>5. /\ task' \in [Clients -> FrameType] /\ task'[c] = f
        /\ \A d \in Clients \ {c} : task'[d] = task[d]
    BY <1>2, <2>1, <2>4
  <2>6. FrameOK(c)'
    BY <1>2, <1>6, <2>3, <2>5 DEF FrameOK, Joining, Holding
  <2>7. UnseatedOf(c)'
    BY <1>1, <1>2, <2>3, <2>5 DEF UnseatedOf, Vacated
  <2> QED
    BY <1>1, <1>3, <1>4, <2>5, <2>6, <2>7, Walk
<1> QED
  BY <1>5, <1>6

\* cleanupEvictedClient deregisters the ghost.
LEMMA EvictGhostStep ==
  ASSUME Inv, NEW c \in Clients, EvictGhost(c), UNCHANGED plan
  PROVE  Inv'
<1>1. /\ UNCHANGED <<heap, current, tombstone, cid, issued, closing, callback, reaping, web, plan>>
      /\ task[c].at \in {"evict", "evictRefused"} /\ registered' = registered \ task[c].peers
  BY DEF EvictGhost
<1>2. /\ task \in [Clients -> FrameType] /\ FrameOK(c) /\ UnseatedOf(c)
  BY DEF Inv, TypeOK, FrameType, FramesOK, Unseated
<1>3. task[c].at \notin Ending
  BY <1>1 DEF Ending
<1>4. tombstone' \in BOOLEAN /\ registered' \subseteq Clients /\ issued' \subseteq CIDs
  BY <1>1 DEF Inv, TypeOK
<1>5. CASE ~At(c, "evict")
  <2>1. Goto(c, "idle") /\ "idle" \in Stages
    BY <1>5 DEF EvictGhost, Stages
  <2>2. "idle" \notin Joining /\ "idle" \notin Holding
    BY DEF Joining, Holding
  <2> QED
    BY <1>1, <1>3, <1>4, <2>1, <2>2, GotoWalk
<1>6. CASE At(c, "evict")
  <2> DEFINE f == [task[c] EXCEPT !.at = "reseat", !.peers = {}]
  <2>1. task' = [task EXCEPT ![c] = f]
    BY <1>2, <1>6 DEF EvictGhost, FrameType
  <2>2. task[c] \in FrameType /\ "reseat" \in Stages
    BY <1>2 DEF Stages
  <2>3. /\ f.at = "reseat" /\ f.obj = task[c].obj /\ f.cid = task[c].cid
        /\ f.cap = task[c].cap /\ f.then = task[c].then
    BY <2>2 DEF FrameType
  <2>4. f \in FrameType
    BY <1>2, <2>2 DEF FrameType
  <2> HIDE DEF f
  <2>5. /\ task' \in [Clients -> FrameType] /\ task'[c] = f
        /\ \A d \in Clients \ {c} : task'[d] = task[d]
    BY <1>2, <2>1, <2>4
  <2>6. FrameOK(c)'
    BY <1>1, <1>2, <2>3, <2>5 DEF FrameOK, Joining, Holding
  <2>7. UnseatedOf(c)'
    BY <1>1, <1>2, <2>3, <2>5 DEF UnseatedOf, Vacated
  <2> QED
    BY <1>1, <1>3, <1>4, <2>5, <2>6, <2>7, Walk
<1> QED
  BY <1>5, <1>6
-----------------------------------------------------------------------------
(***************************************************************************)
(* The sections of a handler that change a room.                           *)
(***************************************************************************)

\* What a handler that holds the room lock has to respect for Inv: it stores a sound room,
\* takes no transport but its own from a seat, and leaves the other goroutines alone.
LEMMA HandlerStores ==
  ASSUME Inv, NEW c \in Clients, NEW o \in Objects, NEW room, Store(o, room),
         SoundRoom(room), OnlyDetaches(heap[o], room, c),
         UNCHANGED <<current, tombstone, registered, issued, closing, callback, reaping, web, plan>>,
         cid' \in [Clients -> CIDs \cup {Nil}], \A d \in Clients \ {c} : cid'[d] = cid[d],
         task' \in [Clients -> FrameType], \A d \in Clients \ {c} : task'[d] = task[d],
         FrameOK(c)', UnseatedOf(c)',
         task[c].at \in Ending => task[c].obj = o /\ Suspended(room) = {},
         \A p \in Suspended(room) : \/ p \in room.evict
                                    \/ p \in Suspended(heap[o]) /\ p \notin heap[o].evict
                                    \/ task'[c].at \in Ending /\ task'[c].obj = o
  PROVE  Inv'
<1>1. TypeOK /\ Sound /\ current \in Objects \cup {Nil}
  BY DEF Inv, TypeOK
<1>2. /\ heap' \in [Objects -> RoomType] /\ Sound'
      /\ heap'[o] = room
      /\ \A x \in Objects \ {o} : heap'[x] = heap[x]
  BY <1>1, StoreEffect
<1>3. TypeOK'
  BY <1>2 DEF Inv, TypeOK, FrameType
<1>4. FramesOK'
  BY DEF Inv, FramesOK, FrameOK
<1>5. \A d \in Clients \ {c} : UnseatedOf(d)'
  <2> TAKE d \in Clients \ {c}
  <2>1. UnseatedOf(d) /\ FrameOK(d)
    BY DEF Inv, Unseated, FramesOK
  <2>2. \A x \in Objects : heap'[x].byClient[d] \in {Nil, heap[x].byClient[d]}
    BY <1>2 DEF OnlyDetaches
  <2> QED
    BY <1>1, <2>1, <2>2, UnseatedKept
<1>6. Reclaimed'
  <2>1. Reclaimed /\ current' = current /\ callback' = callback
    BY DEF Inv
  <2>2. current # Nil => heap'[current] \in RoomType
    BY <1>1, <1>2
  <2>3. IsEnding(current) => IsEnding(current)' \/ Suspended(heap'[current]) = {}
    BY <1>2 DEF IsEnding, Ending
  <2>4. current # Nil => \A p \in Suspended(heap'[current]) :
           \/ p \in heap'[current].evict
           \/ callback'[<<current, p>>] # "none"
           \/ IsEnding(current)'
           \/ p \in Suspended(heap[current]) /\ p \notin heap[current].evict
    <3>1. CASE current = o
      BY <1>2, <3>1 DEF IsEnding, Ending
    <3>2. CASE current # o /\ current # Nil
      <4>1. heap'[current] = heap[current]
        BY <1>1, <1>2, <3>2
      <4> QED
        BY <4>1
    <3> QED
      BY <3>1, <3>2
  <2> QED
    BY <2>1, <2>2, <2>3, <2>4, ReclaimedKept
<1> QED
  BY <1>2, <1>3, <1>4, <1>5, <1>6 DEF Inv, Unseated

\* Who is in the seat that a departure or a lost transport is about.
LEMMA HeldSeat ==
  ASSUME NEW r, SoundRoom(r), NEW p, NEW c \in Clients, IsHeldBy(r, p, c)
  PROVE  p \in CIDs /\ p \in r.members /\ r.byClient[c] = p /\ r.client[p] = c
BY DEF IsHeldBy, IsActive, SoundRoom, IndexesAgree, RoomType

\* removeClientFromRoom, second section.
LEMMA RemoveSelfStep ==
  ASSUME Inv, NEW c \in Clients, RemoveSelf(c), UNCHANGED plan
  PROVE  Inv'
<1> DEFINE o == task[c].obj
           p == cid[c]
           r == heap[o]
<1>1. /\ UNCHANGED <<current, tombstone, registered, cid, issued, closing, callback,
                     reaping, web, plan>> /\ task[c].at = "remove"
  BY DEF RemoveSelf, At
<1>2. /\ task \in [Clients -> FrameType] /\ FrameOK(c) /\ UnseatedOf(c) /\ TypeOK /\ Sound
      /\ current \in Objects \cup {Nil} /\ cid \in [Clients -> CIDs \cup {Nil}]
  BY DEF Inv, TypeOK, FrameType, FramesOK, Unseated
<1>3. task[c].at \notin Ending
  BY <1>1 DEF Ending
<1>4. o \in Objects /\ SoundRoom(r)
  BY <1>1, <1>2 DEF FrameOK, Holding, Sound
<1>5. /\ task[c].then \in {"idle", "gate"} /\ task[c].then \in Stages
      /\ task[c].then \notin Holding
      /\ task[c].then \in Joining => task[c].cid \in CIDs
  BY <1>2 DEF FrameType, Stages, FrameOK, Holding, Joining
<1>6. CASE ~IsHeldBy(r, p, c)
  <2>1. Goto(c, task[c].then) /\ UNCHANGED heap
    BY <1>6 DEF RemoveSelf, Held
  <2>2. current # Nil => heap[current].byClient[c] = Nil
    <3>1. CASE current # o
      BY <1>1, <1>2, <3>1 DEF UnseatedOf, Vacated
    <3>2. CASE current = o
      <4>1. r.byClient[c] \in {Nil, p}
        BY <1>2, <1>4, <3>2, LocksAssumption DEF UnseatedOf
      <4>2. ASSUME r.byClient[c] = p, p # Nil
            PROVE  FALSE
        <5>1. p \in CIDs
          BY <1>2, <4>2
        <5>2. r.client[p] = c /\ p \in r.members
          BY <1>4, <4>2, <5>1, RoomAssumption DEF SoundRoom, IndexesAgree
        <5> QED
          BY <1>6, <5>2, RoomAssumption DEF IsHeldBy, IsActive
      <4> QED
        BY <3>2, <4>1, <4>2
    <3> QED
      BY <3>1, <3>2
  <2>3. tombstone' \in BOOLEAN /\ registered' \subseteq Clients /\ issued' \subseteq CIDs
    BY <1>1 DEF Inv, TypeOK
  <2> QED
    BY <1>1, <1>3, <1>5, <2>1, <2>2, <2>3, GotoWalk
<1>7. CASE IsHeldBy(r, p, c)
  <2> DEFINE stage == IF r.members = {p} THEN "delete" ELSE task[c].then
  <2>1. PICK heir \in Heirs(r, {p}) : Store(o, DepartOne(r, p, heir)) /\ Goto(c, stage)
    BY <1>7 DEF RemoveSelf, Held, DepartOne
  <2>2. p \in CIDs /\ p \in r.members /\ r.byClient[c] = p /\ r.client[p] = c
    BY <1>4, <1>7, HeldSeat
  <2>4. /\ stage \in {"delete", "gate", "idle"} /\ stage \in Stages /\ stage \notin Holding
        /\ stage \in Joining => task[c].cid \in CIDs
    BY <1>5 DEF Stages, Joining, Holding
  <2> HIDE DEF stage
  <2> DEFINE a == DepartOne(r, p, heir)
  <2>5. heir \in CIDs \cup {Nil}
    BY <1>4, HeirType DEF SoundRoom
  <2>6. SoundRoom(a) /\ Frees(r, p, a)
    BY <1>4, <2>2, <2>5, DepartSound
  <2>7. Store(o, a)
    BY <2>1
  <2> HIDE DEF a
  <2>8. /\ heap'[o] = a /\ \A x \in Objects \ {o} : heap'[x] = heap[x]
    BY <1>2, <1>4, <2>6, <2>7, StoreEffect
  <2>9. /\ task' \in [Clients -> FrameType]
        /\ \A d \in Clients \ {c} : task'[d] = task[d]
        /\ task'[c].at = stage
    BY <1>2, <2>1, <2>4, GotoEffect
  <2>10. FrameOK(c)'
    BY <2>1, <2>4, GotoFrame
  <2>11. UnseatedOf(c)'
    <3>1. a.byClient[c] = Nil
      BY <2>2, <2>6 DEF Frees
    <3>2. current # Nil => heap'[current].byClient[c] = Nil
      BY <1>1, <1>2, <2>8, <3>1 DEF UnseatedOf, Vacated
    <3> QED
      BY <1>1, <2>4, <2>9, <3>2 DEF UnseatedOf
  <2>12. OnlyDetaches(r, a, c)
    BY <2>6 DEF OnlyDetaches, Frees
  <2>13. \A q \in Suspended(a) : q \in a.evict \/ (q \in Suspended(r) /\ q \notin r.evict)
    <3> TAKE q \in Suspended(a)
    <3>1. q \in r.members /\ q # p /\ q \in CIDs /\ a.client[q] = Nil
      BY <1>4, <2>6 DEF Suspended, SoundRoom, RoomType, Frees
    <3>2. q \in Suspended(r)
      BY <2>6, <3>1 DEF Suspended, Frees
    <3> QED
      BY <2>6, <3>1, <3>2 DEF Frees
  <2>14. cid' \in [Clients -> CIDs \cup {Nil}] /\ \A d \in Clients \ {c} : cid'[d] = cid[d]
    BY <1>1, <1>2
  <2> HIDE DEF o, r
  <2> QED
    BY <1>1, <1>3, <1>4, <2>6, <2>7, <2>9, <2>10, <2>11, <2>12, <2>13, <2>14, HandlerStores DEF r
<1> QED
  BY <1>6, <1>7
\* Suspensions that a section adds are timed.
Awaits(r, a) ==
  \A q \in Suspended(a) : q \in a.evict \/ (q \in Suspended(r) /\ q \notin r.evict)

\* Every room operation leaves a suspended seat with its eviction timer, and detaches no
\* transport but the one it acts for.
LEMMA AwaitsHolds ==
  ASSUME NEW r, NEW a, SoundRoom(r), SoundRoom(a), NEW c \in Clients, NEW p \in CIDs,
         Keeps(r, a) \/ Frees(r, p, a) \/ Times(r, p, a) \/ Hands(r, p, c, a)
  PROVE  Awaits(r, a) /\ \A d \in Clients : Hands(r, p, c, a) \/ OnlyDetaches(r, a, d)
<1>1. /\ r.members \subseteq CIDs /\ a.members \subseteq CIDs
      /\ r.client \in [CIDs -> Clients \cup {Nil}] /\ c # Nil
  BY RoomAssumption DEF SoundRoom, RoomType
<1>2. CASE Keeps(r, a)
  BY <1>2 DEF Keeps, Awaits, Suspended, OnlyDetaches
<1>3. CASE Frees(r, p, a)
  <2>1. Awaits(r, a)
    BY <1>1, <1>3 DEF Frees, Awaits, Suspended
  <2> QED
    BY <1>3, <2>1 DEF Frees, OnlyDetaches
<1>4. CASE Times(r, p, a)
  <2>1. Awaits(r, a)
    BY <1>1, <1>4 DEF Times, Awaits, Suspended
  <2> QED
    BY <1>4, <2>1 DEF Times, OnlyDetaches
<1>5. CASE Hands(r, p, c, a)
  BY <1>1, <1>5 DEF Hands, Awaits, Suspended
<1> QED
  BY <1>2, <1>3, <1>4, <1>5

\* The second section of a join that had to evict a ghost.
LEMMA CompleteSeatStep ==
  ASSUME Inv, NEW c \in Clients, CompleteSeat(c), UNCHANGED plan
  PROVE  Inv'
<1> DEFINE o == task[c].obj
           p == task[c].cid
           r == heap[o]
           a == Seat(r, p)
<1>1. /\ UNCHANGED <<current, tombstone, registered, cid, issued, closing, callback,
                     reaping, web, plan>>
      /\ task[c].at = "reseat" /\ Store(o, a) /\ Goto(c, "seated")
  BY DEF CompleteSeat, At, Held
<1>2. /\ FrameOK(c) /\ UnseatedOf(c) /\ TypeOK /\ Sound
      /\ current \in Objects \cup {Nil} /\ cid \in [Clients -> CIDs \cup {Nil}]
  BY DEF Inv, TypeOK, FramesOK, Unseated
<1>3. task[c].at \notin Ending
  BY <1>1 DEF Ending
<1>4. o \in Objects /\ SoundRoom(r) /\ p \in CIDs
  BY <1>1, <1>2 DEF FrameOK, Holding, Joining, Sound
<1>5. SoundRoom(a) /\ Keeps(r, a)
  BY <1>4, SeatSound
<1> HIDE DEF a
<1>6. heap'[o] = a /\ \A x \in Objects \ {o} : heap'[x] = heap[x]
  BY <1>1, <1>2, <1>4, <1>5, StoreEffect
<1>7. "seated" \in Stages /\ "seated" \notin Holding
  BY DEF Stages, Holding
<1>8. /\ task' \in [Clients -> FrameType]
      /\ \A d \in Clients \ {c} : task'[d] = task[d]
      /\ task'[c].at = "seated"
  BY <1>1, <1>2, <1>7, GotoEffect
<1>9. FrameOK(c)'
  BY <1>1, <1>4, <1>7, GotoFrame
<1>10. UnseatedOf(c)'
  BY <1>1, <1>2, <1>5, <1>6, <1>8 DEF UnseatedOf, Vacated, Keeps
<1>11. OnlyDetaches(r, a, c)
  BY <1>5 DEF Keeps, OnlyDetaches
<1>12. Awaits(r, a)
  BY <1>5 DEF Awaits, Keeps, Suspended
<1>13. cid' \in [Clients -> CIDs \cup {Nil}] /\ \A d \in Clients \ {c} : cid'[d] = cid[d]
  BY <1>1, <1>2
<1> HIDE DEF o
<1> QED
  BY <1>1, <1>3, <1>4, <1>5, <1>8, <1>9, <1>10, <1>11, <1>12, <1>13, HandlerStores DEF Awaits

\* A reclaimed place: the seat, the seat with a ghost to clean up, or the
\* refusal that takes the reattach back.
LEMMA ReclaimEffect ==
  ASSUME NEW r, SoundRoom(r), NEW p \in r.members, NEW c \in Clients, r.byClient[c] = Nil,
         NEW a, a \in {Seat(Reattach(r, p, c), p), Reattach(r, p, c),
                       Suspend(Reattach(r, p, c), p)}
  PROVE  /\ SoundRoom(a) /\ OnlyDetaches(r, a, c) /\ Awaits(r, a)
         /\ a.byClient[c] \in {p, Nil}
<1> DEFINE t == Reattach(r, p, c)
<1>1. SoundRoom(t) /\ Hands(r, p, c, t)
  BY ReattachSound
<1> HIDE DEF t
<1>2. p \in CIDs
  BY DEF SoundRoom, RoomType
<1>3. Awaits(r, t) /\ OnlyDetaches(r, t, c) /\ t.byClient[c] = p /\ t.client[p] = c
  BY <1>1, <1>2, AwaitsHolds DEF Hands
<1>4. CASE a = t
  BY <1>1, <1>3, <1>4
<1>5. CASE a = Seat(t, p)
  <2>1. SoundRoom(a) /\ Keeps(t, a)
    BY <1>1, <1>2, <1>5, SeatSound
  <2> QED
    BY <1>3, <2>1 DEF Keeps, Awaits, OnlyDetaches, Suspended
<1>6. CASE a = Suspend(t, p)
  <2>1. SoundRoom(a) /\ Times(t, p, a)
    BY <1>1, <1>2, <1>6, SuspendSound
  <2>2. Awaits(t, a)
    BY <1>1, <1>2, <2>1, AwaitsHolds
  <2>3. a.byClient[c] = Nil /\ OnlyDetaches(r, a, c)
    BY <1>3, <2>1 DEF Times, OnlyDetaches
  <2> QED
    BY <1>3, <2>1, <2>2, <2>3 DEF Awaits
<1> QED
  BY <1>4, <1>5, <1>6 DEF t
\* handleJoin under room.mu, for a CID that has a record.
LEMMA SeatReclaimedStep ==
  ASSUME Inv, NEW c \in Clients, SeatReclaimed(c), UNCHANGED plan
  PROVE  Inv'
<1> DEFINE o == task[c].obj
           p == task[c].cid
           r == heap[o]
           ghost == {r.client[p]} \ {Nil}
           taken == Reattach(r, p, c)
           stage == IF task[c].cap >= r.max
                    THEN IF ghost = {} THEN "seated" ELSE "evict"
                    ELSE IF ghost = {} THEN "idle" ELSE "evictRefused"
           a == CASE stage = "seated" -> Seat(taken, p)
                  [] stage = "evict"  -> taken
                  [] OTHER            -> Suspend(taken, p)
<1>1. /\ UNCHANGED <<current, tombstone, registered, issued, closing, callback,
                     reaping, web, plan>>
      /\ task[c].at = "seat" /\ p \in r.members /\ Store(o, a)
      /\ cid' = [cid EXCEPT ![c] = p]
      /\ IF ghost = {} THEN Goto(c, stage)
         ELSE task' = [task EXCEPT ![c].at = stage, ![c].peers = ghost, ![c].cap = 2]
  BY DEF SeatReclaimed, At, Held
<1>2. /\ FrameOK(c) /\ UnseatedOf(c) /\ TypeOK /\ Sound /\ task \in [Clients -> FrameType]
      /\ current \in Objects \cup {Nil} /\ cid \in [Clients -> CIDs \cup {Nil}]
  BY DEF Inv, TypeOK, FramesOK, Unseated, FrameType
<1>3. task[c].at \notin Ending
  BY <1>1 DEF Ending
<1>4. o \in Objects /\ SoundRoom(r) /\ p \in CIDs /\ r.byClient[c] = Nil
  BY <1>1, <1>2 DEF FrameOK, Holding, Joining, Sound, UnseatedOf
<1>5. a \in {Seat(taken, p), taken, Suspend(taken, p)}
  OBVIOUS
<1>6. ghost \in SUBSET Clients
  BY <1>4 DEF SoundRoom, RoomType
<1>7. stage \in {"seated", "evict", "idle", "evictRefused"} /\ stage \in Stages
  BY DEF Stages
<1> HIDE DEF a, stage, ghost
<1>8. SoundRoom(a) /\ OnlyDetaches(r, a, c) /\ Awaits(r, a) /\ a.byClient[c] \in {p, Nil}
  BY <1>1, <1>4, <1>5, ReclaimEffect
<1>9. heap'[o] = a /\ \A x \in Objects \ {o} : heap'[x] = heap[x]
  BY <1>1, <1>2, <1>4, <1>8, StoreEffect
<1>10. /\ task' \in [Clients -> FrameType]
       /\ \A d \in Clients \ {c} : task'[d] = task[d]
       /\ task'[c].at = stage /\ FrameOK(c)'
  <2>1. CASE ghost = {}
    <3>1. /\ task' \in [Clients -> FrameType]
          /\ \A d \in Clients \ {c} : task'[d] = task[d]
          /\ task'[c].at = stage
      BY <1>1, <1>2, <1>7, <2>1, GotoEffect
    <3>2. FrameOK(c)'
      BY <1>1, <1>4, <1>7, <2>1, GotoFrame
    <3> QED
      BY <3>1, <3>2
  <2>2. CASE ghost # {}
    <3> DEFINE f == [task[c] EXCEPT !.at = stage, !.peers = ghost, !.cap = 2]
    <3>1. task' = [task EXCEPT ![c] = f]
      BY <1>1, <1>2, <2>2 DEF FrameType
    <3>2. task[c] \in FrameType
      BY <1>2
    <3>3. /\ f.at = stage /\ f.obj = task[c].obj /\ f.cid = task[c].cid
          /\ f.cap = 2 /\ f.then = task[c].then
      BY <3>2 DEF FrameType
    <3>4. f \in FrameType
      BY <1>6, <1>7, <3>2 DEF FrameType
    <3> HIDE DEF f
    <3>5. /\ task' \in [Clients -> FrameType] /\ task'[c] = f
          /\ \A d \in Clients \ {c} : task'[d] = task[d]
      BY <1>2, <3>1, <3>4
    <3>6. FrameOK(c)'
      BY <1>4, <3>3, <3>5 DEF FrameOK
    <3> QED
      BY <3>3, <3>5, <3>6
  <2> QED
    BY <2>1, <2>2
<1>11. cid' \in [Clients -> CIDs \cup {Nil}] /\ cid'[c] = p
       /\ \A d \in Clients \ {c} : cid'[d] = cid[d]
  BY <1>1, <1>2, <1>4
<1>12. UnseatedOf(c)'
  <2>1. current # Nil => heap'[current].byClient[c] \in {p, Nil}
    BY <1>1, <1>2, <1>8, <1>9 DEF UnseatedOf, Vacated
  <2>2. ~Vacated(c)' /\ task'[c].at # "seat"
    BY <1>7, <1>10 DEF Vacated
  <2> QED
    BY <1>1, <1>11, <2>1, <2>2 DEF UnseatedOf
<1> HIDE DEF o, r, p
<1> QED
  BY <1>1, <1>3, <1>4, <1>8, <1>10, <1>11, <1>12, HandlerStores DEF Awaits, r

\* handleJoin under room.mu, for a new record.
LEMMA SeatFreshStep ==
  ASSUME Inv, NEW c \in Clients, SeatFresh(c), UNCHANGED plan
  PROVE  Inv'
<1> DEFINE o == task[c].obj
           p == task[c].cid
           h == heap[o]
           r == LockCapacity(h, task[c].cap)
           b == AttachParticipant(r, p, c)
           a == Seat(b, p)
<1>1. /\ UNCHANGED <<current, tombstone, registered, issued, closing, callback,
                     reaping, web, plan>>
      /\ task[c].at = "seat" /\ p \notin h.members
  BY DEF SeatFresh, At, Held
<1>2. /\ FrameOK(c) /\ UnseatedOf(c) /\ TypeOK /\ Sound /\ task \in [Clients -> FrameType]
      /\ current \in Objects \cup {Nil} /\ cid \in [Clients -> CIDs \cup {Nil}]
  BY DEF Inv, TypeOK, FramesOK, Unseated, FrameType
<1>3. task[c].at \notin Ending
  BY <1>1 DEF Ending
<1>4. o \in Objects /\ SoundRoom(h) /\ p \in CIDs /\ h.byClient[c] = Nil
  BY <1>1, <1>2 DEF FrameOK, Holding, Joining, Sound, UnseatedOf
<1>5. task[c].cap \in Nat \ {0, 1}
  BY <1>2 DEF FrameOK, FrameType
<1>6. SoundRoom(r) /\ Keeps(h, r) /\ ProvisionalIsEmpty(r)
  BY <1>4, <1>5, LockSound
<1>7. "seated" \in Stages /\ "seated" \notin Holding /\ "idle" \in Stages
      /\ "idle" \notin Holding /\ "idle" \notin Joining
  BY DEF Stages, Holding, Joining
<1>8. CASE ~Fits(r, task[c].cap)
  <2>1. Store(o, r) /\ Goto(c, "idle") /\ UNCHANGED cid
    BY <1>8 DEF SeatFresh, Held
  <2> HIDE DEF r
  <2>2. heap'[o] = r /\ \A x \in Objects \ {o} : heap'[x] = heap[x]
    BY <1>2, <1>4, <1>6, <2>1, StoreEffect
  <2>3. /\ task' \in [Clients -> FrameType]
        /\ \A d \in Clients \ {c} : task'[d] = task[d]
        /\ task'[c].at = "idle"
    BY <1>2, <1>7, <2>1, GotoEffect
  <2>4. FrameOK(c)'
    BY <1>7, <2>1, GotoFrame
  <2>5. UnseatedOf(c)'
    BY <1>1, <1>2, <1>6, <2>1, <2>2, <2>3 DEF UnseatedOf, Vacated, Keeps
  <2>6. OnlyDetaches(h, r, c) /\ Awaits(h, r)
    BY <1>6 DEF Keeps, OnlyDetaches, Awaits, Suspended
  <2>7. cid' \in [Clients -> CIDs \cup {Nil}] /\ \A d \in Clients \ {c} : cid'[d] = cid[d]
    BY <1>2, <2>1
  <2> HIDE DEF o, h
  <2> QED
    BY <1>1, <1>3, <1>4, <1>6, <2>1, <2>3, <2>4, <2>5, <2>6, <2>7, HandlerStores DEF Awaits, h
<1>9. CASE Fits(r, task[c].cap)
  <2>1. Store(o, a) /\ Goto(c, "seated") /\ cid' = [cid EXCEPT ![c] = p]
    BY <1>9 DEF SeatFresh, Held
  <2>2. Cardinality(r.members) < r.max
    BY <1>9 DEF Fits
  <2> HIDE DEF r
  <2>3. p \in CIDs \ r.members /\ r.byClient[c] = Nil
    BY <1>1, <1>4, <1>6 DEF Keeps
  <2>4. SoundRoom(b) /\ Hands(r, p, c, b)
    BY <1>6, <2>2, <2>3, AttachSound
  <2> HIDE DEF b
  <2>5. SoundRoom(a) /\ Keeps(b, a)
    BY <1>4, <2>4, SeatSound
  <2> HIDE DEF a
  <2>6. Awaits(r, b)
    BY <1>4, <1>6, <2>4, AwaitsHolds
  <2>7. OnlyDetaches(h, a, c) /\ Awaits(h, a) /\ a.byClient[c] = p
    BY <1>6, <2>4, <2>5, <2>6 DEF Keeps, Hands, OnlyDetaches, Awaits, Suspended
  <2>8. heap'[o] = a /\ \A x \in Objects \ {o} : heap'[x] = heap[x]
    BY <1>2, <1>4, <2>1, <2>5, StoreEffect
  <2>9. /\ task' \in [Clients -> FrameType]
        /\ \A d \in Clients \ {c} : task'[d] = task[d]
        /\ task'[c].at = "seated"
    BY <1>2, <1>7, <2>1, GotoEffect
  <2>10. FrameOK(c)'
    BY <1>4, <1>7, <2>1, GotoFrame
  <2>11. cid' \in [Clients -> CIDs \cup {Nil}] /\ cid'[c] = p
         /\ \A d \in Clients \ {c} : cid'[d] = cid[d]
    BY <1>2, <1>4, <2>1
  <2>12. UnseatedOf(c)'
    <3>1. current # Nil => heap'[current].byClient[c] \in {p, Nil}
      BY <1>1, <1>2, <2>7, <2>8 DEF UnseatedOf, Vacated
    <3>2. ~Vacated(c)' /\ task'[c].at # "seat"
      BY <2>9 DEF Vacated
    <3> QED
      BY <1>1, <2>11, <3>1, <3>2 DEF UnseatedOf
  <2> HIDE DEF o, h, p
  <2> QED
    BY <1>1, <1>3, <1>4, <2>1, <2>5, <2>7, <2>9, <2>10, <2>11, <2>12, HandlerStores DEF Awaits, h
<1> QED
  BY <1>8, <1>9
-----------------------------------------------------------------------------
(***************************************************************************)
(* The end of a room.                                                      *)
(***************************************************************************)

\* Once nothing is listed, nothing is asked of the rooms but that they are sound.
LEMMA Unlist ==
  ASSUME Inv, current' = Nil, heap' \in [Objects -> RoomType], Sound',
         \A o \in Objects, d \in Clients : heap'[o].byClient[d] \in {Nil, heap[o].byClient[d]},
         UNCHANGED <<cid, issued, closing, plan, tombstone, registered>>,
         reaping' \subseteq Objects,
         callback' \in [Objects \X CIDs -> {"none", "due", "checked", "delete"}],
         web' \in [at : {"idle", "remove", "cut", "cutAndDelete", "delete"},
                   obj : Objects \cup {Nil}, cid : CIDs \cup {Nil}, peers : SUBSET Clients],
         web'.at # "idle" => web'.obj \in Objects /\ web'.cid \in CIDs,
         task' \in [Clients -> FrameType],
         \A d \in Clients : task'[d] = task[d] \/ (task'[d].at # "seat" /\ FrameOK(d)')
  PROVE  Inv'
<1>1. TypeOK'
  BY DEF Inv, TypeOK, FrameType
<1>2. FramesOK'
  BY DEF Inv, FramesOK, FrameOK
<1>3. Unseated'
  <2> SUFFICES ASSUME NEW d \in Clients
               PROVE  UnseatedOf(d)'
    BY DEF Unseated
  <2>1. FrameOK(d) /\ UnseatedOf(d)
    BY DEF Inv, FramesOK, Unseated
  <2> QED
    BY <2>1 DEF UnseatedOf, FrameOK, Holding
<1>4. Reclaimed'
  BY DEF Reclaimed
<1> QED
  BY <1>1, <1>2, <1>3, <1>4 DEF Inv

\* The room is deleted, at the end of a removal or of end_room.
LEMMA DeleteStep ==
  ASSUME Inv, NEW c \in Clients, DeleteRoom(c) \/ UnlistRoom(c), UNCHANGED plan
  PROVE  Inv'
<1>1. /\ UNCHANGED <<heap, tombstone, registered, cid, issued, closing, callback,
                     reaping, web, plan>> /\ current' = Nil
  BY DEF DeleteRoom, UnlistRoom
<1>2. /\ FrameOK(c) /\ TypeOK /\ task \in [Clients -> FrameType]
  BY DEF Inv, TypeOK, FramesOK, FrameType
<1>3. PICK stage \in {"idle", "gate", "clear"} :
        /\ Goto(c, stage)
        /\ stage \in Joining => task[c].cid \in CIDs
        /\ stage \in Holding => task[c].obj \in Objects
  <2>1. CASE DeleteRoom(c)
    <3>1. task[c].then \in {"idle", "gate"} /\ Goto(c, task[c].then)
      BY <1>2, <2>1 DEF DeleteRoom, FrameType
    <3> QED
      BY <1>2, <3>1 DEF FrameOK, Joining, Holding
  <2>2. CASE UnlistRoom(c)
    <3>1. task[c].at = "unlist" /\ Goto(c, "clear")
      BY <2>2 DEF UnlistRoom, At
    <3> QED
      BY <1>2, <3>1 DEF FrameOK, Joining, Holding
  <2> QED
    BY <2>1, <2>2
<1>4. stage \in Stages
  BY DEF Stages
<1>5. /\ task' \in [Clients -> FrameType]
      /\ \A d \in Clients \ {c} : task'[d] = task[d]
      /\ task'[c].at = stage
  BY <1>2, <1>3, <1>4, GotoEffect
<1>6. FrameOK(c)'
  BY <1>3, <1>4, GotoFrame
<1>7. \A d \in Clients : task'[d] = task[d] \/ (task'[d].at # "seat" /\ FrameOK(d)')
  BY <1>5, <1>6
<1>8. heap' \in [Objects -> RoomType] /\ Sound' /\ reaping' \subseteq Objects
  BY <1>1 DEF Inv, Sound, TypeOK
<1>9. /\ callback' \in [Objects \X CIDs -> {"none", "due", "checked", "delete"}]
      /\ web' \in [at : {"idle", "remove", "cut", "cutAndDelete", "delete"},
                   obj : Objects \cup {Nil}, cid : CIDs \cup {Nil}, peers : SUBSET Clients]
      /\ web'.at # "idle" => web'.obj \in Objects /\ web'.cid \in CIDs
  BY <1>1 DEF Inv, TypeOK, FramesOK
<1> QED
  BY <1>1, <1>5, <1>7, <1>8, <1>9, Unlist

\* The tombstone is recorded before the room is deleted: the end goes on.
LEMMA RecordTombstoneStep ==
  ASSUME Inv, NEW c \in Clients, RecordTombstone(c), UNCHANGED plan
  PROVE  Inv'
<1>1. /\ UNCHANGED <<heap, current, registered, cid, issued, closing, callback,
                     reaping, web, plan>>
      /\ task[c].at = "bury" /\ tombstone' = TRUE /\ Goto(c, "unlist")
  BY DEF RecordTombstone, At
<1>2. /\ FrameOK(c) /\ UnseatedOf(c) /\ TypeOK /\ task \in [Clients -> FrameType]
  BY DEF Inv, TypeOK, FramesOK, FrameType, Unseated
<1>3. "unlist" \in Stages /\ "unlist" \notin Joining /\ task[c].obj \in Objects
  BY <1>1, <1>2 DEF Stages, Joining, FrameOK, Holding
<1>4. /\ task' \in [Clients -> FrameType]
      /\ \A d \in Clients \ {c} : task'[d] = task[d]
      /\ task'[c].at = "unlist"
      /\ task'[c] = [task[c] EXCEPT !.at = "unlist"]
  BY <1>1, <1>2, <1>3, GotoEffect
<1>5. task'[c].at \in Ending /\ task'[c].obj = task[c].obj
  BY <1>2, <1>4 DEF FrameType, Ending
<1>6. FrameOK(c)'
  BY <1>1, <1>3, GotoFrame
<1>7. UnseatedOf(c)'
  BY <1>1, <1>2, <1>4 DEF UnseatedOf, Vacated
<1>8. tombstone' \in BOOLEAN /\ registered' \subseteq Clients /\ issued' \subseteq CIDs
  BY <1>1 DEF Inv, TypeOK
<1> QED
  BY <1>1, <1>4, <1>5, <1>6, <1>7, <1>8, Walk

\* The host may end the room: its timers stop, and only this handler clears it.
LEMMA CheckHostStep ==
  ASSUME Inv, NEW c \in Clients, CheckHost(c), UNCHANGED plan
  PROVE  Inv'
<1> DEFINE o == task[c].obj
           r == heap[o]
           b == [r EXCEPT !.evict = {}, !.noActive = FALSE]
           a == BumpEpochBy(b, 1)
<1>1. /\ UNCHANGED <<current, tombstone, registered, cid, issued, closing, callback,
                     reaping, web, plan>> /\ task[c].at = "end"
  BY DEF CheckHost, At
<1>2. /\ FrameOK(c) /\ UnseatedOf(c) /\ TypeOK /\ Sound /\ task \in [Clients -> FrameType]
      /\ cid \in [Clients -> CIDs \cup {Nil}] /\ current \in Objects \cup {Nil}
  BY DEF Inv, TypeOK, FramesOK, Unseated, FrameType
<1>3. task[c].at \notin Ending
  BY <1>1 DEF Ending
<1>4. o \in Objects /\ SoundRoom(r)
  BY <1>1, <1>2 DEF FrameOK, Holding, Sound
<1>5. tombstone' \in BOOLEAN /\ registered' \subseteq Clients /\ issued' \subseteq CIDs
  BY <1>1 DEF Inv, TypeOK
<1>6. CASE ~(r.byClient[c] # Nil /\ r.host = r.byClient[c])
  <2>1. Goto(c, "idle") /\ UNCHANGED heap
    BY <1>6 DEF CheckHost, Held
  <2>2. "idle" \notin Joining /\ "idle" \notin Holding /\ "idle" \in Stages
    BY DEF Joining, Holding, Stages
  <2> QED
    BY <1>1, <1>3, <1>5, <2>1, <2>2, GotoWalk
<1>7. CASE r.byClient[c] # Nil /\ r.host = r.byClient[c]
  <2>1. Store(o, a) /\ Goto(c, "bury")
    BY <1>7 DEF CheckHost, Held, BumpEpoch
  <2>2. SoundRoom(b) /\ b.members = r.members /\ b.client = r.client /\ b.byClient = r.byClient
    <3>1. r \in RoomType
      BY <1>4 DEF SoundRoom
    <3>2. /\ b \in RoomType /\ b.members = r.members /\ b.client = r.client
          /\ b.byClient = r.byClient /\ b.max = r.max /\ b.locked = r.locked
      BY <3>1 DEF RoomType
    <3> HIDE DEF b
    <3> QED
      BY <1>4, <3>2 DEF SoundRoom, IndexesAgree, CapacityRespected
  <2> HIDE DEF b
  <2>3. SoundRoom(a) /\ Keeps(b, a)
    BY <2>2, BumpSound
  <2> HIDE DEF a
  <2>4. heap'[o] = a /\ \A x \in Objects \ {o} : heap'[x] = heap[x]
    BY <1>2, <1>4, <2>1, <2>3, StoreEffect
  <2>5. "bury" \in Stages /\ "bury" \notin Joining
    BY DEF Stages, Joining
  <2>6. /\ task' \in [Clients -> FrameType]
        /\ \A d \in Clients \ {c} : task'[d] = task[d]
        /\ task'[c].at = "bury" /\ task'[c] = [task[c] EXCEPT !.at = "bury"]
    BY <1>2, <2>1, <2>5, GotoEffect
  <2>7. task'[c].at \in Ending /\ task'[c].obj = o
    BY <1>2, <2>6 DEF FrameType, Ending
  <2>8. FrameOK(c)'
    BY <1>4, <2>1, <2>5, GotoFrame
  <2>9. UnseatedOf(c)'
    BY <1>1, <1>2, <2>2, <2>3, <2>4, <2>6 DEF UnseatedOf, Vacated, Keeps
  <2>10. OnlyDetaches(r, a, c)
    BY <2>2, <2>3 DEF Keeps, OnlyDetaches
  <2>11. cid' \in [Clients -> CIDs \cup {Nil}] /\ \A d \in Clients \ {c} : cid'[d] = cid[d]
    BY <1>1, <1>2
  <2> HIDE DEF o, r
  <2> QED
    BY <1>1, <1>3, <1>4, <2>1, <2>3, <2>6, <2>7, <2>8, <2>9, <2>10, <2>11, HandlerStores DEF r
<1> QED
  BY <1>6, <1>7

\* The room that was ended is left empty.
LEMMA ClearRoomStep ==
  ASSUME Inv, NEW c \in Clients, ClearRoom(c), UNCHANGED plan
  PROVE  Inv'
<1> DEFINE o == task[c].obj
           r == heap[o]
           a == Cleared(r)
<1>1. /\ UNCHANGED <<current, tombstone, registered, cid, issued, closing, callback,
                     reaping, web, plan>>
      /\ task[c].at = "clear" /\ Store(o, a) /\ Goto(c, "idle")
  BY DEF ClearRoom, At, Held
<1>2. /\ FrameOK(c) /\ UnseatedOf(c) /\ TypeOK /\ Sound /\ task \in [Clients -> FrameType]
      /\ cid \in [Clients -> CIDs \cup {Nil}] /\ current \in Objects \cup {Nil}
  BY DEF Inv, TypeOK, FramesOK, Unseated, FrameType
<1>3. o \in Objects /\ SoundRoom(r)
  BY <1>1, <1>2 DEF FrameOK, Holding, Sound
<1>4. SoundRoom(a) /\ a.members = {} /\ a.byClient = [d \in Clients |-> Nil]
  <2>1. SoundRoom(a)
    BY <1>3, EmptySound
  <2> QED
    BY <1>3, <2>1 DEF Cleared, SoundRoom, RoomType
<1> HIDE DEF a
<1>5. heap'[o] = a /\ \A x \in Objects \ {o} : heap'[x] = heap[x]
  BY <1>1, <1>2, <1>3, <1>4, StoreEffect
<1>6. "idle" \notin Joining /\ "idle" \notin Holding /\ "idle" \in Stages
  BY DEF Joining, Holding, Stages
<1>7. /\ task' \in [Clients -> FrameType]
      /\ \A d \in Clients \ {c} : task'[d] = task[d]
      /\ task'[c].at = "idle"
  BY <1>1, <1>2, <1>6, GotoEffect
<1>8. FrameOK(c)'
  BY <1>1, <1>6, GotoFrame
<1>9. UnseatedOf(c)'
  BY <1>1, <1>2, <1>4, <1>5, <1>7 DEF UnseatedOf, Vacated
<1>10. OnlyDetaches(r, a, c) /\ Suspended(a) = {}
  BY <1>4 DEF OnlyDetaches, Suspended
<1>11. cid' \in [Clients -> CIDs \cup {Nil}] /\ \A d \in Clients \ {c} : cid'[d] = cid[d]
  BY <1>1, <1>2
<1> HIDE DEF r
<1>12. task[c].at \in Ending => task[c].obj = o /\ Suspended(a) = {}
  BY <1>10
<1> HIDE DEF o
<1> QED
  BY <1>1, <1>3, <1>4, <1>7, <1>8, <1>9, <1>10, <1>11, <1>12, HandlerStores DEF r
\* A join finds the room, or makes one of an object that nobody refers to.
LEMMA LookupRoomStep ==
  ASSUME Inv, NEW c \in Clients, LookupRoom(c), UNCHANGED plan
  PROVE  Inv'
<1>1. UNCHANGED <<tombstone, registered, cid, issued, closing, callback, reaping, web, plan>>
      /\ task[c].at = "lookup"
  BY DEF LookupRoom, At
<1>2. /\ FrameOK(c) /\ UnseatedOf(c) /\ TypeOK /\ Sound /\ task \in [Clients -> FrameType]
      /\ cid \in [Clients -> CIDs \cup {Nil}] /\ current \in Objects \cup {Nil}
  BY DEF Inv, TypeOK, FramesOK, Unseated, FrameType
<1>3. task[c].at \notin Ending
  BY <1>1 DEF Ending
<1>4. tombstone' \in BOOLEAN /\ registered' \subseteq Clients /\ issued' \subseteq CIDs
  BY <1>1 DEF Inv, TypeOK
<1>5. ASSUME NEW o \in Objects, GotoWith(c, "seat", o)
      PROVE  /\ task' \in [Clients -> FrameType]
             /\ \A d \in Clients \ {c} : task'[d] = task[d]
             /\ task'[c].at = "seat" /\ task'[c].obj = o /\ FrameOK(c)'
  <2> DEFINE f == [task[c] EXCEPT !.at = "seat", !.obj = o]
  <2>1. task' = [task EXCEPT ![c] = f]
    BY <1>2, <1>5 DEF GotoWith, FrameType
  <2>2. task[c] \in FrameType /\ "seat" \in Stages
    BY <1>2 DEF Stages
  <2>3. /\ f.at = "seat" /\ f.obj = o /\ f.cid = task[c].cid
        /\ f.cap = task[c].cap /\ f.then = task[c].then
    BY <2>2 DEF FrameType
  <2>4. f \in FrameType
    BY <2>2 DEF FrameType
  <2> HIDE DEF f
  <2>5. /\ task' \in [Clients -> FrameType] /\ task'[c] = f
        /\ \A d \in Clients \ {c} : task'[d] = task[d]
    BY <1>2, <2>1, <2>4
  <2>6. FrameOK(c)'
    BY <1>1, <1>2, <2>3, <2>5 DEF FrameOK, Joining, Holding
  <2> QED
    BY <2>3, <2>5, <2>6
<1>6. CASE current # Nil
  <2>1. GotoWith(c, "seat", current) /\ UNCHANGED <<heap, current>> /\ current \in Objects
    BY <1>2, <1>6 DEF LookupRoom
  <2>2. /\ task' \in [Clients -> FrameType]
        /\ \A d \in Clients \ {c} : task'[d] = task[d]
        /\ task'[c].at = "seat" /\ task'[c].obj = current /\ FrameOK(c)'
    BY <1>5, <2>1
  <2>3. UnseatedOf(c)'
    BY <1>1, <1>2, <1>6, <2>1, <2>2 DEF UnseatedOf, Vacated
  <2> QED
    BY <1>1, <1>3, <1>4, <2>1, <2>2, <2>3, Walk
<1>7. CASE current = Nil
  <2> DEFINE n == CreateMax(task[c].cap, task[c].cap)
             a == NewRoom(n)
  <2>1. PICK o \in Objects : Store(o, a) /\ current' = o /\ GotoWith(c, "seat", o)
    BY <1>7 DEF LookupRoom
  <2>2. n \in Nat \ {0, 1}
    <3>1. task[c].cap \in Nat \ {0, 1}
      BY <1>2 DEF FrameOK, FrameType
    <3> QED
      BY <3>1, SmallerType, RoomAssumption DEF CreateMax
  <2> HIDE DEF n
  <2>3. SoundRoom(a) /\ a.members = {} /\ a.byClient = [d \in Clients |-> Nil]
    BY <2>2, EmptySound DEF NewRoom
  <2> HIDE DEF a
  <2>4. /\ heap' \in [Objects -> RoomType] /\ Sound'
        /\ heap'[o] = a /\ \A x \in Objects \ {o} : heap'[x] = heap[x]
    BY <1>2, <2>1, <2>3, StoreEffect
  <2>5. /\ task' \in [Clients -> FrameType]
        /\ \A d \in Clients \ {c} : task'[d] = task[d]
        /\ task'[c].at = "seat" /\ task'[c].obj = o /\ FrameOK(c)'
    BY <1>5, <2>1
  <2>6. TypeOK'
    BY <1>1, <2>1, <2>4, <2>5 DEF Inv, TypeOK, FrameType
  <2>7. FramesOK'
    BY <1>1, <2>5 DEF Inv, FramesOK, FrameOK
  <2>8. Unseated'
    <3> SUFFICES ASSUME NEW d \in Clients
                 PROVE  UnseatedOf(d)'
      BY DEF Unseated
    <3>1. FrameOK(d) /\ UnseatedOf(d)
      BY DEF Inv, FramesOK, Unseated
    <3>2. heap'[o].byClient[d] = Nil
      BY <2>3, <2>4
    <3>3. CASE d = c
      BY <2>1, <2>5, <3>2, <3>3 DEF UnseatedOf
    <3>4. CASE d # c
      BY <2>1, <2>4, <2>5, <3>1, <3>2, <3>4 DEF UnseatedOf, FrameOK, Holding
    <3> QED
      BY <3>3, <3>4
  <2>9. Reclaimed'
    BY <2>1, <2>3, <2>4 DEF Reclaimed, Suspended
  <2> QED
    BY <2>4, <2>6, <2>7, <2>8, <2>9 DEF Inv
<1> QED
  BY <1>6, <1>7

-----------------------------------------------------------------------------
(***************************************************************************)
(* Lost transports, timers and POST /api/leave.                            *)
(***************************************************************************)

ClosingType ==
  [at : {"no", "find", "suspend"}, obj : Objects \cup {Nil}, cid : CIDs \cup {Nil}]
CallbackType == {"none", "due", "checked", "delete"}
WebType ==
  [at : {"idle", "remove", "cut", "cutAndDelete", "delete"},
   obj : Objects \cup {Nil}, cid : CIDs \cup {Nil}, peers : SUBSET Clients]

\* The goroutines other than a handler, when they find nothing or change a room.
LEMMA OtherStep ==
  ASSUME Inv, UNCHANGED <<current, cid, issued, task, plan, tombstone>>,
         heap' \in [Objects -> RoomType], Sound',
         \A o \in Objects, d \in Clients : heap'[o].byClient[d] \in {Nil, heap[o].byClient[d]},
         registered' \subseteq Clients, reaping' \subseteq Objects,
         closing' \in [Clients -> ClosingType],
         \A c \in Clients : closing'[c].at = "suspend" => closing'[c].obj \in Objects,
         callback' \in [Objects \X CIDs -> CallbackType],
         web' \in WebType, web'.at # "idle" => web'.obj \in Objects /\ web'.cid \in CIDs,
         current # Nil => \A p \in Suspended(heap'[current]) :
           \/ p \in heap'[current].evict
           \/ callback'[<<current, p>>] # "none"
           \/ /\ p \in Suspended(heap[current]) /\ p \notin heap[current].evict
              /\ callback[<<current, p>>] = "none"
  PROVE  Inv'
<1>1. TypeOK'
  BY DEF Inv, TypeOK, ClosingType, CallbackType, WebType
<1>2. FramesOK'
  BY DEF Inv, FramesOK, FrameOK
<1>3. Unseated'
  <2> SUFFICES ASSUME NEW d \in Clients
               PROVE  UnseatedOf(d)'
    BY DEF Unseated
  <2>1. UnseatedOf(d) /\ FrameOK(d) /\ current \in Objects \cup {Nil}
    BY DEF Inv, Unseated, FramesOK, TypeOK
  <2> QED
    BY <2>1, UnseatedKept
<1>4. Reclaimed'
  BY DEF Inv, Reclaimed, IsReclaimable, IsEnding
<1> QED
  BY <1>1, <1>2, <1>3, <1>4 DEF Inv

\* The parts of Inv that say where the variables range, as the steps below need them.
LEMMA TypeFacts ==
  ASSUME Inv
  PROVE  /\ heap \in [Objects -> RoomType] /\ Sound
         /\ current \in Objects \cup {Nil} /\ cid \in [Clients -> CIDs \cup {Nil}]
         /\ registered \subseteq Clients /\ reaping \subseteq Objects
         /\ closing \in [Clients -> ClosingType]
         /\ \A c \in Clients : closing[c].at = "suspend" => closing[c].obj \in Objects
         /\ callback \in [Objects \X CIDs -> CallbackType]
         /\ web \in WebType /\ (web.at # "idle" => web.obj \in Objects /\ web.cid \in CIDs)
         /\ task \in [Clients -> FrameType] /\ issued \subseteq CIDs /\ tombstone \in BOOLEAN
BY DEF Inv, TypeOK, FramesOK, ClosingType, CallbackType, WebType, FrameType
\* disconnectClient.
LEMMA CloseStep ==
  ASSUME Inv, NEW c \in Clients, Deregister(c) \/ FindForSuspend(c), UNCHANGED plan
  PROVE  Inv'
<1>1. /\ UNCHANGED <<heap, current, tombstone, cid, issued, task, callback, reaping, web, plan>>
      /\ registered' \subseteq registered
  BY DEF Deregister, FindForSuspend
<1>2. PICK f \in ClosingType : /\ closing' = [closing EXCEPT ![c] = f]
                               /\ f.at = "suspend" => f.obj \in Objects
  <2>1. CASE Deregister(c)
    <3> DEFINE f == [closing[c] EXCEPT !.at = "find"]
    <3>1. closing' = [closing EXCEPT ![c] = f]
      BY <2>1, TypeFacts DEF Deregister
    <3>2. f \in ClosingType /\ f.at = "find"
      BY TypeFacts DEF ClosingType
    <3> QED
      BY <3>1, <3>2
  <2>2. CASE FindForSuspend(c) /\ (cid[c] = Nil \/ current = Nil)
    <3>1. closing' = [closing EXCEPT ![c] = Open]
      BY <2>2 DEF FindForSuspend
    <3>2. Open \in ClosingType /\ Open.at = "no"
      BY DEF ClosingType, Open
    <3> QED
      BY <3>1, <3>2
  <2>3. CASE FindForSuspend(c) /\ ~(cid[c] = Nil \/ current = Nil)
    <3> DEFINE f == [at |-> "suspend", obj |-> current, cid |-> cid[c]]
    <3>1. closing' = [closing EXCEPT ![c] = f]
      BY <2>3 DEF FindForSuspend
    <3>2. f \in ClosingType /\ f.at = "suspend" /\ f.obj \in Objects
      BY <2>3, TypeFacts DEF ClosingType
    <3> QED
      BY <3>1, <3>2
  <2> QED
    BY <2>1, <2>2, <2>3
<1>3. /\ closing' \in [Clients -> ClosingType]
      /\ \A d \in Clients : closing'[d].at = "suspend" => closing'[d].obj \in Objects
  BY <1>2, TypeFacts
<1>4. /\ heap' \in [Objects -> RoomType] /\ Sound'
      /\ \A o \in Objects, d \in Clients : heap'[o].byClient[d] \in {Nil, heap[o].byClient[d]}
      /\ registered' \subseteq Clients /\ reaping' \subseteq Objects
      /\ callback' \in [Objects \X CIDs -> CallbackType]
      /\ web' \in WebType /\ (web'.at # "idle" => web'.obj \in Objects /\ web'.cid \in CIDs)
  BY <1>1, TypeFacts DEF Sound
<1>5. current # Nil => \A p \in Suspended(heap'[current]) :
           \/ p \in heap'[current].evict
           \/ callback'[<<current, p>>] # "none"
           \/ /\ p \in Suspended(heap[current]) /\ p \notin heap[current].evict
              /\ callback[<<current, p>>] = "none"
  BY <1>1
<1> QED
  BY <1>1, <1>3, <1>4, <1>5, OtherStep

\* A callback stores a room, or leaves all rooms alone.
LEMMA OtherStores ==
  ASSUME Inv, NEW o \in Objects, NEW a, Store(o, a), SoundRoom(a), Awaits(heap[o], a),
         \A d \in Clients : a.byClient[d] \in {Nil, heap[o].byClient[d]},
         UNCHANGED <<current, cid, issued, task, plan, tombstone>>,
         registered' \subseteq Clients, reaping' \subseteq Objects,
         closing' \in [Clients -> ClosingType],
         \A c \in Clients : closing'[c].at = "suspend" => closing'[c].obj \in Objects,
         callback' \in [Objects \X CIDs -> CallbackType],
         web' \in WebType, web'.at # "idle" => web'.obj \in Objects /\ web'.cid \in CIDs,
         \A x \in Objects, p \in CIDs :
           \/ callback[<<x, p>>] # "none" => callback'[<<x, p>>] # "none"
           \/ x = o /\ p \notin Suspended(a)
           \/ x # current
  PROVE  Inv'
<1>1. /\ heap' \in [Objects -> RoomType] /\ Sound'
      /\ heap'[o] = a /\ \A x \in Objects \ {o} : heap'[x] = heap[x]
  BY StoreEffect DEF Inv
<1>2. \A x \in Objects, d \in Clients : heap'[x].byClient[d] \in {Nil, heap[x].byClient[d]}
  BY <1>1
<1>3. current # Nil => \A p \in Suspended(heap'[current]) :
           \/ p \in heap'[current].evict
           \/ callback'[<<current, p>>] # "none"
           \/ /\ p \in Suspended(heap[current]) /\ p \notin heap[current].evict
              /\ callback[<<current, p>>] = "none"
  <2> SUFFICES ASSUME current # Nil, NEW p \in Suspended(heap'[current]),
                      p \notin heap'[current].evict, callback'[<<current, p>>] = "none"
               PROVE  /\ p \in Suspended(heap[current]) /\ p \notin heap[current].evict
                      /\ callback[<<current, p>>] = "none"
    OBVIOUS
  <2>1. current \in Objects /\ p \in CIDs
    BY <1>1, TypeFacts DEF Suspended, RoomType
  <2>2. p \in Suspended(heap[current]) /\ p \notin heap[current].evict
    BY <1>1, <2>1 DEF Awaits
  <2>3. callback[<<current, p>>] = "none"
    BY <1>1, <2>1
  <2> QED
    BY <2>2, <2>3
<1> QED
  BY <1>1, <1>2, <1>3, OtherStep

\* suspendClientInRoom.
LEMMA SuspendSelfStep ==
  ASSUME Inv, NEW c \in Clients, SuspendSelf(c), UNCHANGED plan
  PROVE  Inv'
<1> DEFINE o == closing[c].obj
           p == closing[c].cid
           r == heap[o]
           b == Suspend(r, p)
           a == BumpEpochBy(b, 1)
<1>1. /\ UNCHANGED <<current, tombstone, registered, cid, issued, task, callback,
                     reaping, web, plan>>
      /\ closing[c].at = "suspend" /\ closing' = [closing EXCEPT ![c] = Open]
  BY DEF SuspendSelf
<1>2. o \in Objects /\ SoundRoom(r)
  BY <1>1, TypeFacts DEF Sound
<1>3. /\ closing' \in [Clients -> ClosingType]
      /\ \A d \in Clients : closing'[d].at = "suspend" => closing'[d].obj \in Objects
  <2>1. Open \in ClosingType /\ Open.at = "no"
    BY DEF ClosingType, Open
  <2> QED
    BY <1>1, <2>1, TypeFacts
<1>4. /\ registered' \subseteq Clients /\ reaping' \subseteq Objects
      /\ callback' \in [Objects \X CIDs -> CallbackType]
      /\ web' \in WebType /\ (web'.at # "idle" => web'.obj \in Objects /\ web'.cid \in CIDs)
  BY <1>1, TypeFacts
<1>5. CASE IsHeldBy(r, p, c)
  <2>1. Store(o, a)
    BY <1>5 DEF SuspendSelf, BumpEpoch
  <2>2. p \in CIDs
    BY <1>2, <1>5, HeldSeat
  <2>3. SoundRoom(b) /\ Times(r, p, b)
    BY <1>2, <2>2, SuspendSound
  <2> HIDE DEF b
  <2>4. SoundRoom(a) /\ Keeps(b, a)
    BY <2>3, BumpSound
  <2> HIDE DEF a
  <2>5. \A d \in Clients : a.byClient[d] \in {Nil, r.byClient[d]}
    BY <2>3, <2>4 DEF Times, Keeps
  <2>6. Awaits(r, b)
    BY <1>2, <2>2, <2>3, AwaitsHolds
  <2>7. Awaits(r, a)
    BY <2>4, <2>6 DEF Keeps, Awaits, Suspended
  <2>8. \A x \in Objects, q \in CIDs : callback[<<x, q>>] # "none" => callback'[<<x, q>>] # "none"
    BY <1>1
  <2> HIDE DEF o
  <2> QED
    BY <1>1, <1>2, <1>3, <1>4, <2>1, <2>4, <2>5, <2>7, <2>8, OtherStores
<1>6. CASE ~IsHeldBy(r, p, c)
  <2>1. heap' = heap
    BY <1>6 DEF SuspendSelf
  <2>2. /\ heap' \in [Objects -> RoomType] /\ Sound'
        /\ \A x \in Objects, d \in Clients : heap'[x].byClient[d] \in {Nil, heap[x].byClient[d]}
    BY <2>1, TypeFacts DEF Sound
  <2>3. current # Nil => \A q \in Suspended(heap'[current]) :
           \/ q \in heap'[current].evict
           \/ callback'[<<current, q>>] # "none"
           \/ /\ q \in Suspended(heap[current]) /\ q \notin heap[current].evict
              /\ callback[<<current, q>>] = "none"
    BY <1>1, <2>1
  <2> HIDE DEF o
  <2> QED
    BY <1>1, <1>3, <1>4, <2>2, <2>3, OtherStep
<1> QED
  BY <1>5, <1>6
\* A transport that nothing refers to any more stands for a new one.
LEMMA ConnectStep ==
  ASSUME Inv, NEW c \in Clients, Connect(c), UNCHANGED plan
  PROVE  Inv'
<1>1. /\ UNCHANGED <<heap, current, tombstone, issued, task, closing, callback,
                     reaping, web, plan>>
      /\ registered' = registered \cup {c} /\ cid' = [cid EXCEPT ![c] = Nil]
      /\ task[c] = Idle
      /\ \A o \in Objects : heap[o].byClient[c] # Nil => o # current
  BY DEF Connect, IsFree, IsGarbage
<1>2. TypeOK'
  BY <1>1, TypeFacts DEF Inv, TypeOK
<1>3. FramesOK' /\ Sound'
  BY <1>1 DEF Inv, FramesOK, FrameOK, Sound
<1>4. Unseated'
  <2> SUFFICES ASSUME NEW d \in Clients
               PROVE  UnseatedOf(d)'
    BY DEF Unseated
  <2>1. UnseatedOf(d)
    BY DEF Inv, Unseated
  <2>2. CASE d = c
    BY <1>1, <2>2, TypeFacts DEF UnseatedOf, Idle
  <2>3. CASE d # c
    BY <1>1, <2>1, <2>3, TypeFacts DEF UnseatedOf, Vacated
  <2> QED
    BY <2>2, <2>3
<1>5. Reclaimed'
  BY <1>1 DEF Inv, Reclaimed, IsReclaimable, IsEnding
<1> QED
  BY <1>2, <1>3, <1>4, <1>5 DEF Inv

\* hardEvictionTimer fires, and its callback looks the room up.
LEMMA EvictionFiresStep ==
  ASSUME Inv, NEW o \in Objects, NEW p \in CIDs, EvictionFires(o, p), UNCHANGED plan
  PROVE  Inv'
<1> DEFINE r == heap[o]
           a == [r EXCEPT !.evict = @ \ {p}]
<1>1. /\ UNCHANGED <<current, tombstone, registered, cid, issued, task, closing,
                     reaping, web, plan>>
      /\ heap' = [heap EXCEPT ![o].evict = @ \ {p}]
      /\ callback' = [callback EXCEPT ![<<o, p>>] = "due"]
  BY DEF EvictionFires, Runs
<1>2. SoundRoom(r) /\ r \in RoomType
  BY TypeFacts DEF Sound, SoundRoom
<1>3. /\ a \in RoomType /\ a.members = r.members /\ a.client = r.client
      /\ a.byClient = r.byClient /\ a.max = r.max /\ a.locked = r.locked
      /\ a.evict = r.evict \ {p}
  BY <1>2 DEF RoomType
<1>4. heap' = [heap EXCEPT ![o] = a]
  BY <1>1, <1>2, TypeFacts DEF RoomType
<1> HIDE DEF a
<1>5. SoundRoom(a)
  BY <1>2, <1>3 DEF SoundRoom, IndexesAgree, CapacityRespected
<1>6. /\ heap' \in [Objects -> RoomType] /\ Sound'
      /\ heap'[o] = a /\ \A x \in Objects \ {o} : heap'[x] = heap[x]
  BY <1>4, <1>5, StoreEffect DEF Store, Inv
<1>7. \A x \in Objects, d \in Clients : heap'[x].byClient[d] \in {Nil, heap[x].byClient[d]}
  BY <1>3, <1>6
<1>8. /\ callback' \in [Objects \X CIDs -> CallbackType]
      /\ callback'[<<o, p>>] = "due"
      /\ \A x \in Objects, q \in CIDs : <<x, q>> # <<o, p>> => callback'[<<x, q>>] = callback[<<x, q>>]
  <2>1. "due" \in CallbackType /\ <<o, p>> \in Objects \X CIDs
    BY DEF CallbackType
  <2> QED
    BY <1>1, <2>1, TypeFacts
<1>9. current # Nil => \A q \in Suspended(heap'[current]) :
           \/ q \in heap'[current].evict
           \/ callback'[<<current, q>>] # "none"
           \/ /\ q \in Suspended(heap[current]) /\ q \notin heap[current].evict
              /\ callback[<<current, q>>] = "none"
  <2> SUFFICES ASSUME current # Nil, NEW q \in Suspended(heap'[current]),
                      q \notin heap'[current].evict, callback'[<<current, q>>] = "none"
               PROVE  /\ q \in Suspended(heap[current]) /\ q \notin heap[current].evict
                      /\ callback[<<current, q>>] = "none"
    OBVIOUS
  <2>1. current \in Objects /\ q \in CIDs
    BY <1>6, TypeFacts DEF Suspended, RoomType
  <2>2. CASE current = o
    <3>1. q # p
      BY <1>8, <2>2
    <3> QED
      BY <1>3, <1>6, <1>8, <2>1, <2>2, <3>1 DEF Suspended
  <2>3. CASE current # o
    BY <1>6, <1>8, <2>1, <2>3
  <2> QED
    BY <2>2, <2>3
<1>10. /\ registered' \subseteq Clients /\ reaping' \subseteq Objects
       /\ closing' \in [Clients -> ClosingType]
       /\ \A d \in Clients : closing'[d].at = "suspend" => closing'[d].obj \in Objects
       /\ web' \in WebType /\ (web'.at # "idle" => web'.obj \in Objects /\ web'.cid \in CIDs)
  BY <1>1, TypeFacts
<1> QED
  BY <1>1, <1>6, <1>7, <1>8, <1>9, <1>10, OtherStep

\* What each callback of one participant leaves of the others.
LEMMA RunsEffect ==
  ASSUME Inv, NEW o \in Objects, NEW p \in CIDs, NEW stage \in CallbackType, Runs(o, p, stage)
  PROVE  /\ callback' \in [Objects \X CIDs -> CallbackType]
         /\ callback'[<<o, p>>] = stage
         /\ \A x \in Objects, q \in CIDs : x # o \/ q # p => callback'[<<x, q>>] = callback[<<x, q>>]
<1>1. <<o, p>> \in Objects \X CIDs
  OBVIOUS
<1> QED
  BY <1>1, TypeFacts DEF Runs

\* An eviction callback that looks its room up by identifier keeps Inv: it goes on only
\* if the hub still lists the object the timer was started for.
LEMMA EvictionFindsStep ==
  ASSUME Inv, NEW o \in Objects, NEW p \in CIDs, EvictionFinds(o, p), UNCHANGED plan
  PROVE  Inv'
<1> DEFINE stage == IF current = o THEN "checked" ELSE "none"
<1>1. /\ UNCHANGED <<heap, current, tombstone, registered, cid, issued, task, closing,
                     reaping, web, plan>>
      /\ Runs(o, p, stage)
  BY DEF EvictionFinds
<1>2. stage \in CallbackType /\ (current = o => stage = "checked")
  BY DEF CallbackType
<1> HIDE DEF stage
<1>3. /\ callback' \in [Objects \X CIDs -> CallbackType]
      /\ callback'[<<o, p>>] = stage
      /\ \A x \in Objects, q \in CIDs : x # o \/ q # p => callback'[<<x, q>>] = callback[<<x, q>>]
  BY <1>1, <1>2, RunsEffect
<1>4. /\ heap' \in [Objects -> RoomType] /\ Sound'
      /\ \A x \in Objects, d \in Clients : heap'[x].byClient[d] \in {Nil, heap[x].byClient[d]}
      /\ registered' \subseteq Clients /\ reaping' \subseteq Objects
      /\ closing' \in [Clients -> ClosingType]
      /\ \A d \in Clients : closing'[d].at = "suspend" => closing'[d].obj \in Objects
      /\ web' \in WebType /\ (web'.at # "idle" => web'.obj \in Objects /\ web'.cid \in CIDs)
  BY <1>1, TypeFacts DEF Sound
<1>5. current # Nil => \A q \in Suspended(heap'[current]) :
           \/ q \in heap'[current].evict
           \/ callback'[<<current, q>>] # "none"
           \/ /\ q \in Suspended(heap[current]) /\ q \notin heap[current].evict
              /\ callback[<<current, q>>] = "none"
  <2> SUFFICES ASSUME current # Nil, NEW q \in Suspended(heap'[current]),
                      q \notin heap'[current].evict, callback'[<<current, q>>] = "none"
               PROVE  /\ q \in Suspended(heap[current]) /\ q \notin heap[current].evict
                      /\ callback[<<current, q>>] = "none"
    OBVIOUS
  <2>1. current \in Objects /\ q \in CIDs
    BY <1>1, TypeFacts DEF Suspended, RoomType
  <2>2. current # o \/ q # p
    BY <1>2, <1>3
  <2> QED
    BY <1>1, <1>3, <2>1, <2>2
<1> QED
  BY <1>1, <1>3, <1>4, <1>5, OtherStep

\* hardEvictSuspended under room.mu: only who is still suspended goes.
LEMMA EvictionRemovesStep ==
  ASSUME Inv, NEW o \in Objects, NEW p \in CIDs, EvictionRemoves(o, p), UNCHANGED plan
  PROVE  Inv'
<1> DEFINE r == heap[o]
<1>1. UNCHANGED <<current, tombstone, registered, cid, issued, task, closing, reaping, web, plan>>
  BY DEF EvictionRemoves
<1>2. SoundRoom(r)
  BY TypeFacts DEF Sound
<1>3. /\ registered' \subseteq Clients /\ reaping' \subseteq Objects
      /\ closing' \in [Clients -> ClosingType]
      /\ \A d \in Clients : closing'[d].at = "suspend" => closing'[d].obj \in Objects
      /\ web' \in WebType /\ (web'.at # "idle" => web'.obj \in Objects /\ web'.cid \in CIDs)
  BY <1>1, TypeFacts
<1>4. CASE IsSuspended(r, p)
  <2> DEFINE stage == IF r.members = {p} THEN "delete" ELSE "none"
  <2>1. PICK heir \in Heirs(r, {p}) : Store(o, DepartOne(r, p, heir)) /\ Runs(o, p, stage)
    BY <1>4 DEF EvictionRemoves, DepartOne
  <2> DEFINE a == DepartOne(r, p, heir)
  <2>2. heir \in CIDs \cup {Nil}
    BY <1>2, HeirType DEF SoundRoom
  <2>3. SoundRoom(a) /\ Frees(r, p, a)
    BY <1>2, <2>2, DepartSound
  <2>4. Store(o, a)
    BY <2>1
  <2> HIDE DEF a
  <2>5. stage \in CallbackType
    BY DEF CallbackType
  <2> HIDE DEF stage
  <2>6. /\ callback' \in [Objects \X CIDs -> CallbackType]
        /\ \A x \in Objects, q \in CIDs : x # o \/ q # p => callback'[<<x, q>>] = callback[<<x, q>>]
    BY <2>1, <2>5, RunsEffect
  <2>7. p \notin Suspended(a)
    BY <2>3 DEF Frees, Suspended
  <2>8. \A x \in Objects, q \in CIDs :
           \/ callback[<<x, q>>] # "none" => callback'[<<x, q>>] # "none"
           \/ x = o /\ q \notin Suspended(a)
           \/ x # current
    BY <2>6, <2>7
  <2>9. Awaits(r, a) /\ \A d \in Clients : a.byClient[d] \in {Nil, r.byClient[d]}
    <3>1. r.members \subseteq CIDs
      BY <1>2 DEF SoundRoom, RoomType
    <3>2. Awaits(r, a)
      BY <2>3, <3>1 DEF Frees, Awaits, Suspended
    <3> QED
      BY <2>3, <3>2 DEF Frees
  <2> QED
    BY <1>1, <1>3, <2>3, <2>4, <2>6, <2>8, <2>9, OtherStores
<1>5. CASE ~IsSuspended(r, p)
  <2>1. Runs(o, p, "none") /\ heap' = heap /\ "none" \in CallbackType
    BY <1>5 DEF EvictionRemoves, CallbackType
  <2>2. /\ callback' \in [Objects \X CIDs -> CallbackType]
        /\ \A x \in Objects, q \in CIDs : x # o \/ q # p => callback'[<<x, q>>] = callback[<<x, q>>]
    BY <2>1, RunsEffect
  <2>3. /\ heap' \in [Objects -> RoomType] /\ Sound'
        /\ \A x \in Objects, d \in Clients : heap'[x].byClient[d] \in {Nil, heap[x].byClient[d]}
    BY <2>1, TypeFacts DEF Sound
  <2>4. current # Nil => \A q \in Suspended(heap'[current]) :
           \/ q \in heap'[current].evict
           \/ callback'[<<current, q>>] # "none"
           \/ /\ q \in Suspended(heap[current]) /\ q \notin heap[current].evict
              /\ callback[<<current, q>>] = "none"
    <3> SUFFICES ASSUME current # Nil, NEW q \in Suspended(heap'[current]),
                        q \notin heap'[current].evict, callback'[<<current, q>>] = "none"
                 PROVE  /\ q \in Suspended(heap[current]) /\ q \notin heap[current].evict
                        /\ callback[<<current, q>>] = "none"
      OBVIOUS
    <3>1. current \in Objects /\ q \in CIDs
      BY <2>1, TypeFacts DEF Suspended, RoomType
    <3>2. current # o \/ q # p
      BY <1>5, <2>1 DEF Suspended, IsSuspended
    <3> QED
      BY <2>1, <2>2, <3>1, <3>2
  <2> QED
    BY <1>1, <1>3, <2>2, <2>3, <2>4, OtherStep
<1> QED
  BY <1>4, <1>5
\* Whoever found the room emptied deletes it.
LEMMA OtherDeletes ==
  ASSUME Inv, UNCHANGED plan,
         (\E o \in Objects, p \in CIDs : EvictionDeletes(o, p)) \/ LeaveDeletes
  PROVE  Inv'
<1>1. /\ UNCHANGED <<heap, tombstone, registered, cid, issued, task, closing, reaping, plan>>
      /\ current' = Nil
  BY DEF EvictionDeletes, LeaveDeletes
<1>2. /\ callback' \in [Objects \X CIDs -> CallbackType]
      /\ web' \in WebType /\ (web'.at # "idle" => web'.obj \in Objects /\ web'.cid \in CIDs)
  <2>1. ASSUME NEW o \in Objects, NEW p \in CIDs, EvictionDeletes(o, p)
        PROVE  callback' \in [Objects \X CIDs -> CallbackType] /\ web' = web
    <3>1. Runs(o, p, "none") /\ "none" \in CallbackType /\ web' = web
      BY <2>1 DEF EvictionDeletes, CallbackType
    <3> QED
      BY <3>1, RunsEffect
  <2>2. ASSUME LeaveDeletes
        PROVE  callback' \in [Objects \X CIDs -> CallbackType] /\ web' = NoLeave
    BY <2>2, TypeFacts DEF LeaveDeletes
  <2>3. NoLeave \in WebType /\ NoLeave.at = "idle"
    BY DEF WebType, NoLeave
  <2> QED
    BY <2>1, <2>2, <2>3, TypeFacts
<1>3. /\ heap' \in [Objects -> RoomType] /\ Sound' /\ reaping' \subseteq Objects
      /\ \A x \in Objects, d \in Clients : heap'[x].byClient[d] \in {Nil, heap[x].byClient[d]}
      /\ task' \in [Clients -> FrameType] /\ \A d \in Clients : task'[d] = task[d]
  BY <1>1, TypeFacts DEF Sound
<1> QED
  BY <1>1, <1>2, <1>3, Unlist DEF CallbackType, WebType

\* noActiveTimer fires.
LEMMA NoActiveFiresStep ==
  ASSUME Inv, NEW o \in Objects, NoActiveFires(o), UNCHANGED plan
  PROVE  Inv'
<1>1. /\ UNCHANGED <<heap, current, tombstone, registered, cid, issued, task, closing,
                     callback, web, plan>>
      /\ reaping' = reaping \cup {o}
  BY DEF NoActiveFires
<1>2. /\ heap' \in [Objects -> RoomType] /\ Sound'
      /\ \A x \in Objects, d \in Clients : heap'[x].byClient[d] \in {Nil, heap[x].byClient[d]}
      /\ registered' \subseteq Clients /\ reaping' \subseteq Objects
      /\ closing' \in [Clients -> ClosingType]
      /\ \A d \in Clients : closing'[d].at = "suspend" => closing'[d].obj \in Objects
      /\ callback' \in [Objects \X CIDs -> CallbackType]
      /\ web' \in WebType /\ (web'.at # "idle" => web'.obj \in Objects /\ web'.cid \in CIDs)
  BY <1>1, TypeFacts DEF Sound
<1>3. current # Nil => \A q \in Suspended(heap'[current]) :
           \/ q \in heap'[current].evict
           \/ callback'[<<current, q>>] # "none"
           \/ /\ q \in Suspended(heap[current]) /\ q \notin heap[current].evict
              /\ callback[<<current, q>>] = "none"
  BY <1>1
<1> QED
  BY <1>1, <1>2, <1>3, OtherStep

\* The room without transports is emptied and deleted, unless it is not the
\* listed one or somebody is back.
LEMMA NoActiveRunsStep ==
  ASSUME Inv, NEW o \in Objects, NoActiveRuns(o), UNCHANGED plan
  PROVE  Inv'
<1> DEFINE r == heap[o]
<1>1. /\ UNCHANGED <<tombstone, registered, cid, issued, task, closing, callback, web, plan>>
      /\ reaping' \subseteq Objects
  BY TypeFacts DEF NoActiveRuns
<1>2. SoundRoom(r) /\ r \in RoomType
  BY TypeFacts DEF Sound, SoundRoom
<1>3. /\ registered' \subseteq Clients
      /\ closing' \in [Clients -> ClosingType]
      /\ \A d \in Clients : closing'[d].at = "suspend" => closing'[d].obj \in Objects
      /\ callback' \in [Objects \X CIDs -> CallbackType]
      /\ web' \in WebType /\ (web'.at # "idle" => web'.obj \in Objects /\ web'.cid \in CIDs)
      /\ task' \in [Clients -> FrameType] /\ \A d \in Clients : task'[d] = task[d]
  BY <1>1, TypeFacts
<1>4. CASE current # o
  <2>1. UNCHANGED <<heap, current>>
    BY <1>4 DEF NoActiveRuns
  <2>2. /\ heap' \in [Objects -> RoomType] /\ Sound'
        /\ \A x \in Objects, d \in Clients : heap'[x].byClient[d] \in {Nil, heap[x].byClient[d]}
    BY <2>1, TypeFacts DEF Sound
  <2>3. current # Nil => \A q \in Suspended(heap'[current]) :
           \/ q \in heap'[current].evict
           \/ callback'[<<current, q>>] # "none"
           \/ /\ q \in Suspended(heap[current]) /\ q \notin heap[current].evict
              /\ callback[<<current, q>>] = "none"
    BY <1>1, <2>1
  <2> QED
    BY <1>1, <1>3, <2>1, <2>2, <2>3, OtherStep
<1>5. CASE current = o /\ ActiveClients(r) # {}
  <2> DEFINE a == [r EXCEPT !.noActive = FALSE]
  <2>1. /\ a \in RoomType /\ a.members = r.members /\ a.client = r.client
        /\ a.byClient = r.byClient /\ a.max = r.max /\ a.locked = r.locked
        /\ a.evict = r.evict
    BY <1>2 DEF RoomType
  <2>2. heap' = [heap EXCEPT ![o] = a] /\ current' = current
    <3>1. heap' = [heap EXCEPT ![o].noActive = FALSE] /\ current' = current
      BY <1>5 DEF NoActiveRuns
    <3> QED
      BY <1>2, <3>1, TypeFacts DEF RoomType
  <2> HIDE DEF a
  <2>3. SoundRoom(a) /\ Store(o, a)
    BY <1>2, <2>1, <2>2 DEF SoundRoom, IndexesAgree, CapacityRespected, Store
  <2>4. Awaits(r, a) /\ \A d \in Clients : a.byClient[d] \in {Nil, r.byClient[d]}
    BY <2>1 DEF Awaits, Suspended
  <2>5. \A x \in Objects, q \in CIDs : callback[<<x, q>>] # "none" => callback'[<<x, q>>] # "none"
    BY <1>1
  <2> QED
    BY <1>1, <1>3, <2>2, <2>3, <2>4, <2>5, OtherStores
<1>6. CASE current = o /\ ActiveClients(r) = {}
  <2> DEFINE b == Cleared(r)
             a == [b EXCEPT !.noActive = FALSE]
  <2>1. Store(o, a) /\ current' = Nil
    BY <1>6 DEF NoActiveRuns
  <2>2. SoundRoom(b) /\ b.byClient = [d \in Clients |-> Nil]
    <3>1. SoundRoom(b)
      BY <1>2, EmptySound
    <3> QED
      BY <1>2, <3>1 DEF Cleared, RoomType
  <2> HIDE DEF b
  <2>3. b \in RoomType
    BY <2>2 DEF SoundRoom
  <2>4. /\ a \in RoomType /\ a.members = b.members /\ a.client = b.client
        /\ a.byClient = b.byClient /\ a.max = b.max /\ a.locked = b.locked
    BY <2>3 DEF RoomType
  <2> HIDE DEF a
  <2>5. SoundRoom(a) /\ a.byClient = [d \in Clients |-> Nil]
    BY <2>2, <2>4 DEF SoundRoom, IndexesAgree, CapacityRespected
  <2>6. /\ heap' \in [Objects -> RoomType] /\ Sound'
        /\ heap'[o] = a /\ \A x \in Objects \ {o} : heap'[x] = heap[x]
    BY <2>1, <2>5, StoreEffect DEF Inv
  <2>7. \A x \in Objects, d \in Clients : heap'[x].byClient[d] \in {Nil, heap[x].byClient[d]}
    BY <2>5, <2>6
  <2> QED
    BY <1>1, <1>3, <2>1, <2>6, <2>7, Unlist DEF CallbackType, WebType
<1> QED
  BY <1>4, <1>5, <1>6

\* evictByLeave finds the room, and cuts the transport in the end.
LEMMA LeaveMovesStep ==
  ASSUME Inv, (\E p \in CIDs : LeaveFinds(p)) \/ LeaveCuts, UNCHANGED plan
  PROVE  Inv'
<1>1. /\ UNCHANGED <<heap, current, tombstone, cid, issued, task, closing, callback, reaping, plan>>
      /\ registered' \subseteq registered
  BY DEF LeaveFinds, LeaveCuts
<1>2. web' \in WebType /\ (web'.at # "idle" => web'.obj \in Objects /\ web'.cid \in CIDs)
  <2>1. ASSUME NEW p \in CIDs, LeaveFinds(p)
        PROVE  web' \in WebType /\ web'.obj \in Objects /\ web'.cid \in CIDs
    <3>1. web' = [at |-> "remove", obj |-> current, cid |-> p, peers |-> {}] /\ current # Nil
      BY <2>1 DEF LeaveFinds
    <3> QED
      BY <3>1, TypeFacts DEF WebType
  <2>2. CASE LeaveCuts /\ web.at = "cut"
    <3>1. web' = NoLeave
      BY <2>2 DEF LeaveCuts
    <3> QED
      BY <3>1 DEF NoLeave, WebType
  <2>3. CASE LeaveCuts /\ web.at # "cut"
    <3>1. web' = [web EXCEPT !.at = "delete", !.peers = {}] /\ web.at # "idle"
      BY <2>3 DEF LeaveCuts
    <3> QED
      BY <3>1, TypeFacts DEF WebType
  <2> QED
    BY <2>1, <2>2, <2>3
<1>3. /\ heap' \in [Objects -> RoomType] /\ Sound'
      /\ \A x \in Objects, d \in Clients : heap'[x].byClient[d] \in {Nil, heap[x].byClient[d]}
      /\ registered' \subseteq Clients /\ reaping' \subseteq Objects
      /\ closing' \in [Clients -> ClosingType]
      /\ \A d \in Clients : closing'[d].at = "suspend" => closing'[d].obj \in Objects
      /\ callback' \in [Objects \X CIDs -> CallbackType]
  BY <1>1, TypeFacts DEF Sound
<1>4. current # Nil => \A q \in Suspended(heap'[current]) :
           \/ q \in heap'[current].evict
           \/ callback'[<<current, q>>] # "none"
           \/ /\ q \in Suspended(heap[current]) /\ q \notin heap[current].evict
              /\ callback[<<current, q>>] = "none"
  BY <1>1
<1> QED
  BY <1>1, <1>2, <1>3, <1>4, OtherStep

\* evictByLeave under room.mu.
LEMMA LeaveRemovesStep ==
  ASSUME Inv, LeaveRemoves, UNCHANGED plan
  PROVE  Inv'
<1> DEFINE o == web.obj
           p == web.cid
           r == heap[o]
<1>1. /\ UNCHANGED <<current, tombstone, registered, cid, issued, task, closing, callback,
                     reaping, plan>> /\ web.at = "remove"
  BY DEF LeaveRemoves
<1>2. o \in Objects /\ p \in CIDs /\ SoundRoom(r) /\ web \in WebType
  BY <1>1, TypeFacts DEF Sound
<1>3. NoLeave \in WebType /\ NoLeave.at = "idle"
  BY DEF WebType, NoLeave
<1>4. /\ registered' \subseteq Clients /\ reaping' \subseteq Objects
      /\ closing' \in [Clients -> ClosingType]
      /\ \A d \in Clients : closing'[d].at = "suspend" => closing'[d].obj \in Objects
      /\ callback' \in [Objects \X CIDs -> CallbackType]
  BY <1>1, TypeFacts
<1>5. CASE p \notin r.members
  <2>1. web' = NoLeave /\ heap' = heap
    BY <1>5 DEF LeaveRemoves
  <2>2. /\ heap' \in [Objects -> RoomType] /\ Sound'
        /\ \A x \in Objects, d \in Clients : heap'[x].byClient[d] \in {Nil, heap[x].byClient[d]}
    BY <2>1, TypeFacts DEF Sound
  <2>3. current # Nil => \A q \in Suspended(heap'[current]) :
           \/ q \in heap'[current].evict
           \/ callback'[<<current, q>>] # "none"
           \/ /\ q \in Suspended(heap[current]) /\ q \notin heap[current].evict
              /\ callback[<<current, q>>] = "none"
    BY <1>1, <2>1
  <2>4. web' \in WebType /\ (web'.at # "idle" => web'.obj \in Objects /\ web'.cid \in CIDs)
    BY <1>3, <2>1
  <2> HIDE DEF o, p, r
  <2> QED
    BY <1>1, <1>4, <2>2, <2>3, <2>4, OtherStep
<1>6. CASE p \in r.members
  <2> DEFINE cut == {r.client[p]} \ {Nil}
  <2>1. PICK heir \in Heirs(r, {p}) : Store(o, DepartOne(r, p, heir))
    BY <1>6 DEF LeaveRemoves, DepartOne
  <2>2. web' = IF cut # {}
               THEN [web EXCEPT !.at = IF r.members = {p} THEN "cutAndDelete" ELSE "cut",
                                !.peers = cut]
               ELSE IF r.members = {p} THEN [web EXCEPT !.at = "delete"]
               ELSE NoLeave
    BY <1>6 DEF LeaveRemoves
  <2>3. cut \in SUBSET Clients
    BY <1>2 DEF SoundRoom, RoomType
  <2> HIDE DEF cut
  <2>4. web' \in WebType /\ (web'.at # "idle" => web'.obj \in Objects /\ web'.cid \in CIDs)
    <3>1. CASE cut # {}
      <4> DEFINE at == IF r.members = {p} THEN "cutAndDelete" ELSE "cut"
      <4>1. at \in {"cutAndDelete", "cut"} /\ web' = [web EXCEPT !.at = at, !.peers = cut]
        BY <2>2, <3>1
      <4> HIDE DEF at
      <4> QED
        BY <1>2, <2>3, <4>1 DEF WebType
    <3>2. CASE cut = {} /\ r.members = {p}
      BY <1>2, <2>2, <3>2 DEF WebType
    <3>3. CASE cut = {} /\ r.members # {p}
      BY <1>3, <2>2, <3>3
    <3> QED
      BY <3>1, <3>2, <3>3
  <2> DEFINE a == DepartOne(r, p, heir)
  <2>5. heir \in CIDs \cup {Nil}
    BY <1>2, HeirType DEF SoundRoom
  <2>6. SoundRoom(a) /\ Frees(r, p, a)
    BY <1>2, <2>5, DepartSound
  <2>7. Store(o, a)
    BY <2>1
  <2> HIDE DEF a
  <2>8. Awaits(r, a) /\ \A d \in Clients : a.byClient[d] \in {Nil, r.byClient[d]}
    <3>1. r.members \subseteq CIDs
      BY <1>2 DEF SoundRoom, RoomType
    <3>2. Awaits(r, a)
      BY <2>6, <3>1 DEF Frees, Awaits, Suspended
    <3> QED
      BY <2>6, <3>2 DEF Frees
  <2>9. \A x \in Objects, q \in CIDs : callback[<<x, q>>] # "none" => callback'[<<x, q>>] # "none"
    BY <1>1
  <2> HIDE DEF o, p
  <2> QED
    BY <1>1, <1>2, <1>4, <2>4, <2>6, <2>7, <2>8, <2>9, OtherStores
<1> QED
  BY <1>5, <1>6
-----------------------------------------------------------------------------
(***************************************************************************)
(* The theorems.                                                           *)
(***************************************************************************)

\* Inv holds of the hub before the first message.
LEMMA InvInitially == Init => Inv
<1> SUFFICES ASSUME Init
             PROVE  Inv
  OBVIOUS
<1>1. /\ heap = [o \in Objects |-> NewRoom(2)] /\ current = Nil /\ tombstone = FALSE
      /\ registered = {} /\ cid = [c \in Clients |-> Nil] /\ issued = {}
      /\ task = [c \in Clients |-> Idle] /\ closing = [c \in Clients |-> Open]
      /\ callback = [x \in Objects \X CIDs |-> "none"] /\ reaping = {} /\ web = NoLeave
      /\ plan \in Plans
  BY DEF Init
<1>2. Idle \in FrameType /\ Idle.at = "idle" /\ Idle.then = "idle" /\ Idle.cap = 2
  BY DEF Idle, FrameType, Stages
<1>3. Open \in ClosingType /\ Open.at = "no"
  BY DEF Open, ClosingType
<1>4. NoLeave \in WebType /\ NoLeave.at = "idle"
  BY DEF NoLeave, WebType
<1>5. SoundRoom(NewRoom(2)) /\ NewRoom(2) \in RoomType
  <2>1. 2 \in Nat \ {0, 1}
    OBVIOUS
  <2>2. SoundRoom(NewRoom(2))
    BY <2>1, EmptySound
  <2> QED
    BY <2>2 DEF SoundRoom
<1>6. heap \in [Objects -> RoomType]
  BY <1>1, <1>5
<1>7. "none" \in CallbackType /\ callback \in [Objects \X CIDs -> CallbackType]
  BY <1>1 DEF CallbackType
<1>8. /\ task \in [Clients -> FrameType] /\ closing \in [Clients -> ClosingType]
      /\ web \in WebType
  BY <1>1, <1>2, <1>3, <1>4
<1>9. TypeOK
  BY <1>1, <1>6, <1>7, <1>8 DEF TypeOK, FrameType, ClosingType, CallbackType, WebType
<1>10. FramesOK
  BY <1>1, <1>2, <1>3, <1>4 DEF FramesOK, FrameOK, Holding, Joining
<1>11. Sound
  BY <1>1, <1>5 DEF Sound
<1>12. Unseated
  BY <1>1, <1>2 DEF Unseated, UnseatedOf
<1>13. Reclaimed
  BY <1>1 DEF Reclaimed
<1> QED
  BY <1>9, <1>10, <1>11, <1>12, <1>13 DEF Inv

\* Every stage of a message's handler keeps Inv.
LEMMA MessageStep ==
  ASSUME Inv, NEW c \in Clients, HandleMessage(c), UNCHANGED plan
  PROVE  Inv'
<1>1. CASE \E p \in CIDs, cap \in plan.capabilities : StartJoin(c, p, cap)
  BY <1>1, StartJoinStep
<1>2. CASE StartLeave(c) \/ StartEnd(c)
  BY <1>2, StartOtherStep
<1>3. CASE FindForRemoval(c)
  BY <1>3, FindForRemovalStep
<1>4. CASE RemoveSelf(c)
  BY <1>4, RemoveSelfStep
<1>5. CASE DeleteRoom(c) \/ UnlistRoom(c)
  BY <1>5, DeleteStep
<1>6. CASE TombstoneGate(c)
  BY <1>6, TombstoneGateStep
<1>7. CASE LookupRoom(c)
  BY <1>7, LookupRoomStep
<1>8. CASE SeatReclaimed(c)
  BY <1>8, SeatReclaimedStep
<1>9. CASE SeatFresh(c)
  BY <1>9, SeatFreshStep
<1>10. CASE EvictGhost(c)
  BY <1>10, EvictGhostStep
<1>11. CASE CompleteSeat(c)
  BY <1>11, CompleteSeatStep
<1>12. CASE FinishJoin(c)
  BY <1>12, FinishJoinStep
<1>13. CASE FindForEnd(c)
  BY <1>13, FindForEndStep
<1>14. CASE CheckHost(c)
  BY <1>14, CheckHostStep
<1>15. CASE RecordTombstone(c)
  BY <1>15, RecordTombstoneStep
<1>16. CASE ClearRoom(c)
  BY <1>16, ClearRoomStep
<1> QED
  BY <1>1, <1>2, <1>3, <1>4, <1>5, <1>6, <1>7, <1>8, <1>9, <1>10, <1>11, <1>12, <1>13,
     <1>14, <1>15, <1>16 DEF HandleMessage

\* Every step of the hub at lock granularity keeps Inv.
LEMMA InvStep == Inv /\ [Next]_vars => Inv'
<1> SUFFICES ASSUME Inv, [Next]_vars
             PROVE  Inv'
  OBVIOUS
<1>1. CASE UNCHANGED vars
  BY <1>1 DEF vars, Inv, TypeOK, FramesOK, FrameOK, Sound, Unseated, UnseatedOf, Vacated,
              Reclaimed, IsReclaimable, IsEnding
<1>2. CASE Next
  <2>1. UNCHANGED plan
    BY <1>2 DEF Next
  <2>2. CASE \E c \in Clients : Connect(c)
    BY <2>1, <2>2, ConnectStep
  <2>3. CASE \E c \in Clients : HandleMessage(c)
    BY <2>1, <2>3, MessageStep
  <2>4. CASE \E c \in Clients : Close(c)
    BY <2>1, <2>4, CloseStep, SuspendSelfStep DEF Close
  <2>5. CASE \E o \in Objects : NoActiveFires(o) \/ NoActiveRuns(o)
    BY <2>1, <2>5, NoActiveFiresStep, NoActiveRunsStep
  <2>6. CASE \E o \in Objects : \E p \in CIDs : Evict(o, p)
    BY <2>1, <2>6, EvictionFiresStep, EvictionFindsStep, EvictionRemovesStep, OtherDeletes
       DEF Evict
  <2>7. CASE LeaveOverHTTP
    BY <2>1, <2>7, LeaveMovesStep, LeaveRemovesStep, OtherDeletes DEF LeaveOverHTTP
  <2> QED
    BY <1>2, <2>2, <2>3, <2>4, <2>5, <2>6, <2>7 DEF Next
<1> QED
  BY <1>1, <1>2

\* The invariant of the handlers at the grain of their locks.
THEOREM LocksInvariant == Spec => []Inv
<1>1. Init => Inv
  BY InvInitially
<1>2. Inv /\ [Next]_vars => Inv'
  BY InvStep
<1> QED
  BY <1>1, <1>2, PTL DEF Spec

\* Places are neither sold twice nor lost, however joins, recoveries, capacity
\* locks, departures, ends and timers interleave between the locks of
\* handleJoin, removeClientFromRoom, handleEndRoom and hardEvictSuspended.
THEOREM PlacesTheorem == Spec => []PlacesSurvive
<1>1. Inv => PlacesSurvive
  BY DEF Inv, Sound, SoundRoom, Reclaimed, PlacesSurvive
<1> QED
  BY <1>1, LocksInvariant, PTL

\* A leave or a disconnect that arrives late takes the place from nobody: it
\* frees the place of its own transport, and no other participant's.
THEOREM LateDepartureTheorem == Spec => LateDepartureHarmless
<1>1. ASSUME Inv, NEW c \in Clients, NEW o \in Objects, NEW p \in Active(heap[o]),
             RemoveSelf(c) \/ SuspendSelf(c), heap[o].client[p] # c
      PROVE  heap'[o].client[p] = heap[o].client[p]
  <2>1. SoundRoom(heap[o]) /\ p \in CIDs
    BY <1>1, TypeFacts DEF Sound, SoundRoom, RoomType, Active
  <2>2. CASE RemoveSelf(c)
    <3> DEFINE x == task[c].obj
               q == cid[c]
    <3>1. x \in Objects /\ SoundRoom(heap[x])
      BY <1>1, <2>2, TypeFacts DEF RemoveSelf, At, Inv, FramesOK, FrameOK, Holding, Sound
    <3>2. CASE ~IsHeldBy(heap[x], q, c)
      BY <2>2, <3>2 DEF RemoveSelf, Held
    <3>3. CASE IsHeldBy(heap[x], q, c)
      <4>1. PICK heir \in Heirs(heap[x], {q}) : Store(x, DepartOne(heap[x], q, heir))
        BY <2>2, <3>3 DEF RemoveSelf, Held, DepartOne
      <4>2. q \in CIDs /\ heap[x].client[q] = c
        BY <3>1, <3>3, HeldSeat
      <4>3. heir \in CIDs \cup {Nil}
        BY <3>1, HeirType DEF SoundRoom
      <4> DEFINE a == DepartOne(heap[x], q, heir)
      <4>4. SoundRoom(a) /\ Frees(heap[x], q, a) /\ Store(x, a)
        BY <3>1, <4>1, <4>2, <4>3, DepartSound
      <4> HIDE DEF a
      <4>5. heap'[x] = a /\ \A y \in Objects \ {x} : heap'[y] = heap[y]
        BY <1>1, <3>1, <4>4, StoreEffect DEF Inv
      <4>6. CASE o = x
        BY <1>1, <2>1, <4>2, <4>4, <4>5, <4>6 DEF Frees
      <4>7. CASE o # x
        BY <4>5, <4>7
      <4> QED
        BY <4>6, <4>7
    <3> QED
      BY <3>2, <3>3
  <2>3. CASE SuspendSelf(c)
    <3> DEFINE x == closing[c].obj
               q == closing[c].cid
    <3>1. x \in Objects /\ SoundRoom(heap[x])
      BY <1>1, <2>3, TypeFacts DEF SuspendSelf, Sound
    <3>2. CASE ~IsHeldBy(heap[x], q, c)
      BY <2>3, <3>2 DEF SuspendSelf
    <3>3. CASE IsHeldBy(heap[x], q, c)
      <4> DEFINE b == Suspend(heap[x], q)
                 a == BumpEpochBy(b, 1)
      <4>1. Store(x, a)
        BY <2>3, <3>3 DEF SuspendSelf, BumpEpoch
      <4>2. q \in CIDs /\ heap[x].client[q] = c
        BY <3>1, <3>3, HeldSeat
      <4>3. SoundRoom(b) /\ Times(heap[x], q, b)
        BY <3>1, <4>2, SuspendSound
      <4> HIDE DEF b
      <4>4. SoundRoom(a) /\ Keeps(b, a)
        BY <4>3, BumpSound
      <4> HIDE DEF a
      <4>5. heap'[x] = a /\ \A y \in Objects \ {x} : heap'[y] = heap[y]
        BY <1>1, <3>1, <4>1, <4>4, StoreEffect DEF Inv
      <4>6. CASE o = x
        BY <1>1, <2>1, <4>2, <4>3, <4>4, <4>5, <4>6 DEF Times, Keeps
      <4>7. CASE o # x
        BY <4>5, <4>7
      <4> QED
        BY <4>6, <4>7
    <3> QED
      BY <3>2, <3>3
  <2> QED
    BY <1>1, <2>2, <2>3
<1>2. Inv => [\A c \in Clients, o \in Objects : \A p \in Active(heap[o]) :
               (RemoveSelf(c) \/ SuspendSelf(c)) /\ heap[o].client[p] # c
                 => heap'[o].client[p] = heap[o].client[p]]_vars
  BY <1>1
<1> QED
  BY <1>2, LocksInvariant, PTL DEF LateDepartureHarmless

\* No timer callback takes the place of a participant that is back: the eviction
\* removes only who is suspended when it gets the lock, and the no-active timer
\* empties only a room that nobody is attached to.
THEOREM TimersTheorem == Spec => TimersSpareTheReturned
<1>1. ASSUME Inv, NEW o \in Objects,
             (\E p \in CIDs : EvictionRemoves(o, p)) \/ NoActiveRuns(o)
      PROVE  Active(heap[o]) \subseteq Active(heap'[o])
  <2> DEFINE r == heap[o]
  <2>1. SoundRoom(r) /\ r \in RoomType
    BY <1>1, TypeFacts DEF Sound, SoundRoom
  <2>2. ASSUME NEW p \in CIDs, EvictionRemoves(o, p)
        PROVE  Active(r) \subseteq Active(heap'[o])
    <3>1. CASE ~IsSuspended(r, p)
      BY <2>2, <3>1 DEF EvictionRemoves
    <3>2. CASE IsSuspended(r, p)
      <4>1. PICK heir \in Heirs(r, {p}) : Store(o, DepartOne(r, p, heir))
        BY <2>2, <3>2 DEF EvictionRemoves, DepartOne
      <4>2. heir \in CIDs \cup {Nil}
        BY <2>1, HeirType
      <4> DEFINE a == DepartOne(r, p, heir)
      <4>3. SoundRoom(a) /\ Frees(r, p, a) /\ Store(o, a)
        BY <2>1, <4>1, <4>2, DepartSound
      <4> HIDE DEF a
      <4>4. heap'[o] = a
        BY <1>1, <4>3, StoreEffect DEF Inv
      <4>5. r.members \subseteq CIDs
        BY <2>1 DEF RoomType
      <4> QED
        BY <3>2, <4>3, <4>4, <4>5 DEF Active, IsSuspended, Frees
    <3> QED
      BY <3>1, <3>2
  <2>3. CASE NoActiveRuns(o)
    <3>1. CASE current # o
      BY <2>3, <3>1 DEF NoActiveRuns
    <3>2. CASE current = o /\ ActiveClients(r) # {}
      <4> DEFINE a == [r EXCEPT !.noActive = FALSE]
      <4>1. heap' = [heap EXCEPT ![o].noActive = FALSE]
        BY <2>3, <3>2 DEF NoActiveRuns
      <4>2. heap'[o] = a
        BY <1>1, <4>1, TypeFacts
      <4>3. a.members = r.members /\ a.client = r.client
        BY <2>1 DEF RoomType
      <4> QED
        BY <4>2, <4>3 DEF Active
    <3>3. CASE current = o /\ ActiveClients(r) = {}
      <4>1. Active(r) = {}
        BY <2>1, <3>3, ActiveIffAttached DEF SoundRoom
      <4> QED
        BY <4>1
    <3> QED
      BY <3>1, <3>2, <3>3
  <2> QED
    BY <1>1, <2>2, <2>3
<1>2. Inv => [\A o \in Objects :
               ((\E p \in CIDs : EvictionRemoves(o, p)) \/ NoActiveRuns(o))
                 => Active(heap[o]) \subseteq Active(heap'[o])]_vars
  BY <1>1
<1> QED
  BY <1>2, LocksInvariant, PTL DEF TimersSpareTheReturned
=============================================================================
