------------------------- MODULE SignalingHubProofs -------------------------
(***************************************************************************)
(* Every handler of the hub preserves RoomOK in every room and the link    *)
(* between a transport's own fields and the seat it holds.                 *)
(***************************************************************************)
EXTENDS SignalingHub, RoomProofs

DirectoryType ==
  [rooms : [RIDs -> RoomType \cup {Nil}],
   told : [Clients -> Snapshots \cup {Nil}],
   watchers : [RIDs -> [Clients -> Statuses \cup {Nil}]]]

DirectoryOK(d) ==
  /\ d \in DirectoryType
  /\ \A r \in RIDs : d.rooms[r] # Nil => RoomOK(d.rooms[r])

\* SeatIsIdentity for a directory and the transports' fields around it.
SeatsOK(d, reg, rd, cd) ==
  \A r \in RIDs : d.rooms[r] # Nil =>
    \A c \in Clients : d.rooms[r].byClient[c] # Nil =>
      c \in reg /\ rd[c] = r /\ cd[c] = d.rooms[r].byClient[c]

\* Every participant was given a token for its place.
TokensOK(d, iss) ==
  \A r \in RIDs : d.rooms[r] # Nil =>
    \A p \in d.rooms[r].members : <<r, p>> \in iss

RoomsOK == \A r \in Live : RoomOK(rooms[r])

\* Without it the CID that generateID draws for a newcomer, one no token was
\* signed for, could be that of a participant.
MembersHoldTokens == \A r \in Live : \A p \in rooms[r].members : <<r, p>> \in issued

\* The inductive invariant.
Inv == TypeOK /\ RoomsOK /\ SeatIsIdentity /\ MembersHoldTokens

-----------------------------------------------------------------------------
\* Types of what is broadcast.

\* room_state of a room is a snapshot.
LEMMA SnapshotType ==
  ASSUME NEW r \in RoomType
  PROVE  Snapshot(r) \in Snapshots
<1>1. r.epoch \in Nat /\ r.max \in Nat
  BY RoomAssumption DEF RoomType
<1> QED
  BY <1>1 DEF Snapshot, Snapshots, Active, Suspended, RoomType

\* room_status_update is well typed, also for a room that does not exist.
LEMMA StatusType ==
  ASSUME NEW r \in RoomType \cup {Nil}
  PROVE  Status(r) \in Statuses
<1>1. CASE r = Nil
  BY <1>1 DEF Status, Statuses
<1>2. CASE r # Nil
  <2>1. r \in RoomType
    BY <1>2
  <2>2. Cardinality(r.members) \in Nat /\ r.max \in Nat
    BY <2>1, Finite DEF RoomType
  <2> QED
    BY <1>2, <2>2 DEF Status, Statuses
<1> QED
  BY <1>1, <1>2

-----------------------------------------------------------------------------
\* The building blocks of a handler keep a directory in order.

\* Cutting transports off changes no room.
LEMMA ForgetOK ==
  ASSUME NEW d, DirectoryOK(d), NEW cs
  PROVE  DirectoryOK(Forget(d, cs)) /\ Forget(d, cs).rooms = d.rooms
BY DEF DirectoryOK, DirectoryType, Forget

\* Nor does ending their subscriptions.
LEMMA DismissOK ==
  ASSUME NEW d, DirectoryOK(d), NEW cs
  PROVE  DirectoryOK(Dismiss(d, cs)) /\ Dismiss(d, cs).rooms = d.rooms
<1> DEFINE f == Forget(d, cs)
<1>1. DirectoryOK(f) /\ f.rooms = d.rooms
  BY ForgetOK
<1> HIDE DEF f
<1> DEFINE w == [r \in RIDs |-> [c \in Clients |->
                   IF c \in cs THEN Nil ELSE f.watchers[r][c]]]
<1>2. f \in DirectoryType /\ f.watchers \in [RIDs -> [Clients -> Statuses \cup {Nil}]]
  BY <1>1 DEF DirectoryOK, DirectoryType
<1>3. w \in [RIDs -> [Clients -> Statuses \cup {Nil}]]
  BY <1>2
<1>4. Dismiss(d, cs) = [f EXCEPT !.watchers = w]
  BY DEF Dismiss, f
<1> HIDE DEF w
<1> QED
  BY <1>1, <1>2, <1>3, <1>4 DEF DirectoryOK, DirectoryType

\* Broadcasting room_state changes no room.
LEMMA BroadcastOK ==
  ASSUME NEW d, DirectoryOK(d), NEW r \in RIDs, RoomOK(d.rooms[r])
  PROVE  DirectoryOK(Broadcast(d, r)) /\ Broadcast(d, r).rooms = d.rooms
<1>1. Snapshot(d.rooms[r]) \in Snapshots
  BY SnapshotType DEF DirectoryOK, RoomOK
<1> QED
  BY <1>1 DEF DirectoryOK, DirectoryType, Broadcast

\* Notifying the watchers changes no room.
LEMMA NotifyOK ==
  ASSUME NEW d, DirectoryOK(d), NEW r \in RIDs
  PROVE  DirectoryOK(NotifyWatchers(d, r)) /\ NotifyWatchers(d, r).rooms = d.rooms
<1>1. Status(d.rooms[r]) \in Statuses
  BY StatusType DEF DirectoryOK, DirectoryType
<1> QED
  BY <1>1 DEF DirectoryOK, DirectoryType, NotifyWatchers

\* Storing a room in order, or deleting one, changes no other room.
LEMMA PutOK ==
  ASSUME NEW d, DirectoryOK(d), NEW r \in RIDs, NEW room,
         room = Nil \/ RoomOK(room)
  PROVE  /\ DirectoryOK(Put(d, r, room))
         /\ Put(d, r, room).rooms = [d.rooms EXCEPT ![r] = room]
<1>1. room \in RoomType \cup {Nil}
  BY DEF RoomOK
<1>2. /\ Put(d, r, room) \in DirectoryType
      /\ Put(d, r, room).rooms = [d.rooms EXCEPT ![r] = room]
  BY <1>1 DEF DirectoryOK, DirectoryType, Put
<1> QED
  BY <1>2 DEF DirectoryOK, DirectoryType

\* What is left of a room after departures.
LEMMA DepartFields ==
  ASSUME NEW r \in RoomType, NEW gone \in SUBSET CIDs, NEW heir
  PROVE  /\ Depart(r, gone, heir).members = r.members \ gone
         /\ Depart(r, gone, heir).byClient =
              [d \in Clients |-> IF r.byClient[d] \in gone THEN Nil ELSE r.byClient[d]]
BY DEF Depart, BumpEpochBy, ArmNoActive, RoomType

\* Nobody is attached or added by the change from d to e, and the transports
\* still attached keep their room and their participant.
Shrinks(d, e) ==
  \A r \in RIDs : e.rooms[r] # Nil =>
    /\ d.rooms[r] # Nil
    /\ e.rooms[r].members \subseteq d.rooms[r].members
    /\ \A c \in Clients : e.rooms[r].byClient[c] # Nil =>
         e.rooms[r].byClient[c] = d.rooms[r].byClient[c]

\* A removal keeps the directory in order and detaches those who leave.
LEMMA RemoveOK ==
  ASSUME NEW d, DirectoryOK(d), NEW r \in RIDs, d.rooms[r] # Nil,
         NEW gone \in SUBSET CIDs, NEW heir \in Heirs(d.rooms[r], gone)
  PROVE  LET e == RemoveParticipants(d, r, gone, heir) IN
         /\ DirectoryOK(e)
         /\ Shrinks(d, e)
         /\ e.rooms[r] # Nil => \A c \in Clients : e.rooms[r].byClient[c] \notin gone
<1> DEFINE old == d.rooms[r]
           room == Depart(old, gone, heir)
           left == Forget(d, {c \in Clients : old.byClient[c] \in gone})
           put == IF room.members = {} THEN Put(left, r, Nil)
                  ELSE Broadcast(Put(left, r, room), r)
           e == RemoveParticipants(d, r, gone, heir)
<1>1. e = NotifyWatchers(put, r)
  BY DEF RemoveParticipants
<1>2. DirectoryOK(left) /\ left.rooms = d.rooms
  BY ForgetOK
<1>3. RoomOK(old) /\ old \in RoomType
  BY DEF DirectoryOK, RoomOK
<1>4. /\ room.members = old.members \ gone
      /\ room.byClient = [c \in Clients |-> IF old.byClient[c] \in gone THEN Nil
                                            ELSE old.byClient[c]]
  BY <1>3, DepartFields
<1> HIDE DEF left, e
<1>5. CASE room.members = {}
  <2>1. put = Put(left, r, Nil)
    BY <1>5
  <2>2. DirectoryOK(put) /\ put.rooms = [d.rooms EXCEPT ![r] = Nil]
    BY <1>2, <2>1, PutOK
  <2>3. DirectoryOK(e) /\ e.rooms = [d.rooms EXCEPT ![r] = Nil]
    BY <1>1, <2>2, NotifyOK
  <2>4. d.rooms \in [RIDs -> RoomType \cup {Nil}]
    BY DEF DirectoryOK, DirectoryType
  <2>5. Shrinks(d, e)
    BY <2>3, <2>4 DEF Shrinks
  <2> QED
    BY <2>3, <2>4, <2>5 DEF e
<1>6. CASE room.members # {}
  <2>1. put = Broadcast(Put(left, r, room), r)
    BY <1>6
  <2>2. RoomOK(room)
    BY <1>3, <1>4, <1>6, DepartOK
  <2> HIDE DEF room
  <2> HIDE DEF put
  <2> DEFINE stored == Put(left, r, room)
  <2>4. DirectoryOK(stored) /\ stored.rooms = [d.rooms EXCEPT ![r] = room]
    BY <1>2, <2>2, PutOK
  <2>5. d.rooms \in [RIDs -> RoomType \cup {Nil}]
    BY DEF DirectoryOK, DirectoryType
  <2> HIDE DEF stored
  <2>6. RoomOK(stored.rooms[r])
    BY <2>2, <2>4, <2>5
  <2>7. DirectoryOK(put) /\ put.rooms = [d.rooms EXCEPT ![r] = room]
    <3>1. put = Broadcast(stored, r)
      BY <2>1 DEF stored
    <3>2. DirectoryOK(Broadcast(stored, r)) /\ Broadcast(stored, r).rooms = stored.rooms
      BY <2>4, <2>6, BroadcastOK
    <3> QED
      BY <2>4, <3>1, <3>2
  <2>8. DirectoryOK(e) /\ e.rooms = [d.rooms EXCEPT ![r] = room]
    BY <1>1, <2>7, NotifyOK
  <2>9. Shrinks(d, e)
    BY <1>4, <2>5, <2>8 DEF Shrinks
  <2>10. \A c \in Clients : e.rooms[r].byClient[c] \notin gone
    BY <1>4, <2>5, <2>8, RoomAssumption
  <2> QED
    BY <2>8, <2>9, <2>10 DEF e
<1> QED
  BY <1>5, <1>6

-----------------------------------------------------------------------------
\* Seats and the transports' own fields.

\* Between two handlers the directory is in order.
LEMMA DirectoryIsOK ==
  ASSUME Inv
  PROVE  DirectoryOK(Directory) /\ Directory.rooms = rooms
BY DEF Inv, TypeOK, RoomsOK, Live, Directory, DirectoryOK, DirectoryType

\* A transport attached in a room holds the seat its fields name.
LEMMA AttachedHoldsSeat ==
  ASSUME Inv, NEW c \in Clients, NEW r \in RIDs, rooms[r] # Nil,
         rooms[r].byClient[c] # Nil
  PROVE  /\ c \in registered
         /\ rid[c] = r
         /\ cid[c] = rooms[r].byClient[c]
         /\ HoldsSeat(c)
<1>1. RoomOK(rooms[r]) /\ rooms[r] \in RoomType /\ IndexesAgree(rooms[r])
  BY DEF Inv, RoomsOK, Live, RoomOK
<1>2. c \in registered /\ rid[c] = r /\ cid[c] = rooms[r].byClient[c]
  BY DEF Inv, SeatIsIdentity, Live, ActiveClients
<1>3. cid[c] \in CIDs /\ rooms[r].client[cid[c]] = c
  BY <1>1, <1>2 DEF RoomType, IndexesAgree
<1>4. IsActive(rooms[r], cid[c])
  BY <1>1, <1>3, RoomAssumption DEF IsActive, IndexesAgree
<1> QED
  BY <1>2, <1>3, <1>4, HubAssumption, RoomAssumption
  DEF HoldsSeat, IsAttachedTo, Directory

\* The seat a transport holds is one it is attached to.
LEMMA HolderIsAttached ==
  ASSUME Inv, NEW c \in Clients, HoldsSeat(c)
  PROVE  /\ rid[c] \in RIDs /\ cid[c] \in CIDs
         /\ rooms[rid[c]] # Nil
         /\ RoomOK(rooms[rid[c]])
         /\ IsActive(rooms[rid[c]], cid[c])
         /\ rooms[rid[c]].client[cid[c]] = c
         /\ rooms[rid[c]].byClient[c] = cid[c]
<1>1. rid[c] \in RIDs /\ cid[c] \in CIDs
  BY DEF HoldsSeat, Inv, TypeOK
<1>2. rooms[rid[c]] # Nil /\ IsActive(rooms[rid[c]], cid[c]) /\ rooms[rid[c]].client[cid[c]] = c
  BY DEF HoldsSeat, IsAttachedTo, Directory
<1>3. RoomOK(rooms[rid[c]])
  BY <1>1, <1>2 DEF Inv, RoomsOK, Live
<1> QED
  BY <1>1, <1>2, <1>3 DEF RoomOK, IndexesAgree

\* A step to a directory in order, with well-typed transports whose fields
\* name their seats, re-establishes the invariant.
LEMMA Establish ==
  ASSUME NEW d, DirectoryOK(d), Becomes(d),
         tombstones' \subseteq RIDs, registered' \subseteq Clients,
         rid' \in [Clients -> RIDs \cup {Nil}], cid' \in [Clients -> CIDs \cup {Nil}],
         issued' \subseteq RIDs \X CIDs,
         SeatsOK(d, registered', rid', cid'), TokensOK(d, issued')
  PROVE  Inv'
<1>1. rooms' = d.rooms /\ told' = d.told /\ watchers' = d.watchers
  BY DEF Becomes
<1>2. TypeOK'
  BY <1>1 DEF TypeOK, DirectoryOK, DirectoryType
<1>3. RoomsOK'
  BY <1>1 DEF RoomsOK, Live, DirectoryOK
<1>4. SeatIsIdentity'
  BY <1>1 DEF SeatIsIdentity, Live, ActiveClients, SeatsOK
<1>5. MembersHoldTokens'
  BY <1>1 DEF MembersHoldTokens, Live, TokensOK
<1> QED
  BY <1>2, <1>3, <1>4, <1>5 DEF Inv

\* The same, when the step attaches nobody and the attached transports stay
\* registered and keep their fields.
LEMMA EstablishByShrinking ==
  ASSUME Inv, NEW d, DirectoryOK(d), Becomes(d), Shrinks(Directory, d),
         tombstones' \subseteq RIDs, registered' \subseteq Clients,
         rid' \in [Clients -> RIDs \cup {Nil}], cid' \in [Clients -> CIDs \cup {Nil}],
         issued \subseteq issued', issued' \subseteq RIDs \X CIDs,
         \A r \in RIDs : d.rooms[r] # Nil =>
           \A c \in Clients : d.rooms[r].byClient[c] # Nil =>
             (c \in registered => c \in registered') /\ rid'[c] = rid[c] /\ cid'[c] = cid[c]
  PROVE  Inv'
<1>1. SeatsOK(d, registered', rid', cid')
  BY DirectoryIsOK, AttachedHoldsSeat DEF Shrinks, SeatsOK
<1>2. TokensOK(d, issued')
  BY DirectoryIsOK DEF Shrinks, TokensOK, Inv, MembersHoldTokens, Live
<1> QED
  BY <1>1, <1>2, Establish

-----------------------------------------------------------------------------
\* Joining.

\* What the join of c, as the successor of prev, starts from.
Vacant(c, prev, d) ==
  /\ DirectoryOK(d)
  /\ Shrinks(Directory, d)
  /\ \A r \in RIDs : d.rooms[r] # Nil =>
       d.rooms[r].byClient[c] = Nil /\ d.rooms[r].byClient[prev] = Nil

\* The seat of prev is given up before the request is looked at.
LEMMA VacatedOK ==
  ASSUME Inv, NEW c \in Clients, NEW prev \in registered,
         prev = c \/ c \notin registered,
         NEW heir \in IF HoldsSeat(prev) THEN Heirs(rooms[rid[prev]], {cid[prev]}) ELSE {Nil}
  PROVE  Vacant(c, prev, Vacated(c, prev, heir))
<1> DEFINE d == IF prev = c THEN Directory
                ELSE [Directory EXCEPT !.watchers = Inherited(prev, c)]
           e == Vacated(c, prev, heir)
<1>1. prev \in Clients /\ watchers \in [RIDs -> [Clients -> Statuses \cup {Nil}]]
  BY DEF Inv, TypeOK
<1>2. Inherited(prev, c) \in [RIDs -> [Clients -> Statuses \cup {Nil}]]
  BY <1>1 DEF Inherited
<1>3. DirectoryOK(d) /\ d.rooms = rooms
  BY <1>2, DirectoryIsOK DEF DirectoryOK, DirectoryType
<1>4. e = IF HoldsSeat(prev) THEN RemoveParticipants(d, rid[prev], {cid[prev]}, heir) ELSE d
  BY DEF Vacated
<1> HIDE DEF d, e
<1>5. DirectoryOK(e) /\ Shrinks(Directory, e)
  <2>1. CASE HoldsSeat(prev)
    <3>1. /\ rid[prev] \in RIDs /\ {cid[prev]} \in SUBSET CIDs /\ d.rooms[rid[prev]] # Nil
          /\ heir \in Heirs(d.rooms[rid[prev]], {cid[prev]})
      BY <1>1, <1>3, <2>1, HolderIsAttached
    <3>2. DirectoryOK(e) /\ Shrinks(d, e)
      BY <1>3, <1>4, <2>1, <3>1, RemoveOK
    <3> QED
      BY <1>3, <3>2 DEF Shrinks, Directory
  <2>2. CASE ~HoldsSeat(prev)
    BY <1>3, <1>4, <2>2 DEF Shrinks, Directory
  <2> QED
    BY <2>1, <2>2
<1>6. ASSUME NEW r \in RIDs, e.rooms[r] # Nil, NEW x \in {c, prev}
      PROVE  e.rooms[r].byClient[x] = Nil
  <2>1. SUFFICES ASSUME e.rooms[r].byClient[x] # Nil
                 PROVE  FALSE
    OBVIOUS
  <2>2. /\ rooms[r] # Nil /\ rooms[r].byClient[x] # Nil
        /\ e.rooms[r].byClient[x] = rooms[r].byClient[x]
    BY <1>1, <1>5, <1>6, <2>1 DEF Shrinks, Directory
  <2>3. /\ x \in registered /\ rid[x] = r /\ HoldsSeat(x)
        /\ cid[x] = e.rooms[r].byClient[x]
    BY <1>1, <1>6, <2>2, AttachedHoldsSeat
  <2>4. x = prev
    BY <2>3, <1>6
  <2>5. /\ rid[prev] \in RIDs /\ {cid[prev]} \in SUBSET CIDs /\ d.rooms[rid[prev]] # Nil
        /\ heir \in Heirs(d.rooms[rid[prev]], {cid[prev]})
    BY <1>1, <1>3, <2>3, <2>4, HolderIsAttached
  <2>6. e.rooms[r].byClient[x] \notin {cid[prev]}
    BY <1>1, <1>3, <1>4, <1>6, <2>3, <2>4, <2>5, RemoveOK
  <2> QED
    BY <2>3, <2>4, <2>6
<1> QED
  BY <1>1, <1>5, <1>6 DEF Vacant, e

\* The fields of c stay well typed, and those of the others as they are, when
\* its request is refused.
LEMMA KeepsIdentityOK ==
  ASSUME Inv, NEW c \in Clients, NEW prev \in Clients, KeepsIdentity(c, prev)
  PROVE  /\ rid' \in [Clients -> RIDs \cup {Nil}]
         /\ cid' \in [Clients -> CIDs \cup {Nil}]
         /\ \A x \in Clients \ {c} : rid'[x] = rid[x] /\ cid'[x] = cid[x]
BY DEF Inv, TypeOK, KeepsIdentity

\* A request refused without touching a transport leaves the hub in order.
LEMMA RefusalOK ==
  ASSUME Inv, NEW c \in Clients, NEW prev \in registered, NEW d, NEW e,
         Vacant(c, prev, d), DirectoryOK(e), Shrinks(d, e), Becomes(e),
         KeepsIdentity(c, prev), registered' = Roster(c, prev),
         UNCHANGED <<tombstones, issued>>
  PROVE  Inv'
<1>1. prev \in Clients /\ tombstones' \subseteq RIDs /\ issued' \subseteq RIDs \X CIDs
      /\ registered' \subseteq Clients
  BY DEF Inv, TypeOK, Roster
<1>2. Shrinks(Directory, e)
  BY DEF Vacant, Shrinks
<1>3. ASSUME NEW r \in RIDs, e.rooms[r] # Nil, NEW x \in Clients,
             e.rooms[r].byClient[x] # Nil
      PROVE  x # c /\ x # prev
  BY <1>3 DEF Vacant, Shrinks
<1> QED
  BY <1>1, <1>2, <1>3, KeepsIdentityOK, EstablishByShrinking DEF Roster

\* A handler that changes no room attaches nobody.
LEMMA ShrinksRefl ==
  ASSUME NEW d
  PROVE  Shrinks(d, d)
BY DEF Shrinks

\* The fields of a join request are well typed.
LEMMA RequestType ==
  ASSUME NEW m \in Requests
  PROVE  /\ m.rid \in RIDs /\ m.cid \in CIDs \cup {Nil}
         /\ m.cap \in Capabilities /\ m.want \in Sizes
         /\ m.cap \in Nat \ {0, 1} /\ m.want \in Nat \ {0, 1}
BY RoomAssumption, HubAssumption DEF Requests

\* A refused token removes at most the suspended record it names.
LEMMA RefuseTokenOK ==
  ASSUME Inv, NEW c \in Clients, NEW prev \in registered, NEW m \in Requests, NEW d,
         Vacant(c, prev, d), RefuseToken(c, prev, m, d)
  PROVE  Inv'
<1> DEFINE evicts == /\ m.token = "expired" /\ d.rooms[m.rid] # Nil
                     /\ IsSuspended(d.rooms[m.rid], m.cid)
<1>1. /\ KeepsIdentity(c, prev) /\ registered' = Roster(c, prev)
      /\ UNCHANGED <<tombstones, issued>>
      /\ IF evicts THEN \E heir \in Heirs(d.rooms[m.rid], {m.cid}) :
                          Becomes(RemoveParticipants(d, m.rid, {m.cid}, heir))
         ELSE Becomes(d)
  BY DEF RefuseToken
<1>2. DirectoryOK(d)
  BY DEF Vacant
<1>3. CASE evicts
  <2>1. PICK heir \in Heirs(d.rooms[m.rid], {m.cid}) :
          Becomes(RemoveParticipants(d, m.rid, {m.cid}, heir))
    BY <1>1, <1>3
  <2>2. RoomOK(d.rooms[m.rid]) /\ m.rid \in RIDs
    BY <1>2, <1>3, RequestType DEF DirectoryOK
  <2>3. {m.cid} \in SUBSET CIDs
    BY <1>3, <2>2 DEF IsSuspended, RoomOK, RoomType
  <2> DEFINE e == RemoveParticipants(d, m.rid, {m.cid}, heir)
  <2>4. DirectoryOK(e) /\ Shrinks(d, e)
    BY <1>2, <1>3, <2>2, <2>3, RemoveOK
  <2> HIDE DEF e
  <2> QED
    BY <1>1, <2>1, <2>4, RefusalOK DEF e
<1>4. CASE ~evicts
  BY <1>1, <1>2, <1>4, ShrinksRefl, RefusalOK
<1> QED
  BY <1>3, <1>4

\* A reconnect refused because the room was ended changes no room.
LEMMA RefuseEndedOK ==
  ASSUME Inv, NEW c \in Clients, NEW prev \in registered, NEW m \in Requests, NEW d,
         Vacant(c, prev, d), RefuseEnded(c, prev, m, d)
  PROVE  Inv'
BY ShrinksRefl, RefusalOK DEF RefuseEnded, Vacant

\* The room a request is about is in order, or is a new one.
LEMMA RoomForOK ==
  ASSUME NEW m \in Requests, NEW d, DirectoryOK(d)
  PROVE  /\ OpenOK(RoomFor(m, d))
         /\ d.rooms[m.rid] # Nil => RoomFor(m, d) = d.rooms[m.rid] /\ RoomOK(RoomFor(m, d))
         /\ d.rooms[m.rid] = Nil =>
              RoomFor(m, d).members = {} /\ RoomFor(m, d).max = 2
              /\ RoomFor(m, d).byClient = [c \in Clients |-> Nil]
              /\ RoomFor(m, d).epoch = 0
<1>1. m.rid \in RIDs /\ m.cap \in Nat \ {0, 1} /\ m.want \in Nat \ {0, 1}
      /\ ServerLimit \in Nat \ {0, 1}
  BY RequestType, RoomAssumption
<1>2. CreateMax(m.want, m.cap) \in Nat \ {0, 1}
  <2>1. Smaller(m.want, m.cap) \in Nat \ {0, 1}
    BY <1>1, SmallerType
  <2> QED
    BY <1>1, <2>1, SmallerType DEF CreateMax
<1>3. CASE d.rooms[m.rid] = Nil
  BY <1>2, <1>3, OpenRooms DEF RoomFor, NewRoom
<1>4. CASE d.rooms[m.rid] # Nil
  BY <1>1, <1>4, OpenRooms DEF RoomFor, DirectoryOK
<1> QED
  BY <1>3, <1>4

\* A newcomer is refused only by a room that exists, and leaves it as it is.
LEMMA RefuseNewcomerKeeps ==
  ASSUME NEW c \in Clients, NEW prev \in registered, NEW m \in Requests, NEW d,
         Vacant(c, prev, d), RefuseNewcomer(c, prev, m, d)
  PROVE  Becomes(d)
<1> DEFINE old == RoomFor(m, d)
           room == LockCapacity(old, m.cap)
           e == Put(d, m.rid, room)
<1>1. /\ KeepsIdentity(c, prev) /\ registered' = Roster(c, prev)
      /\ UNCHANGED <<tombstones, issued>> /\ Becomes(e)
      /\ ~Fits(room, m.cap)
  BY DEF RefuseNewcomer
<1>2. DirectoryOK(d) /\ m.rid \in RIDs /\ m.cap \in Nat \ {0, 1} /\ m.cap \in Capabilities
  BY RequestType DEF Vacant
<1>3. OpenOK(old)
  BY <1>2, RoomForOK
<1>4. old \in RoomType
  BY <1>3 DEF OpenOK
<1> HIDE DEF old
<1>5. room = old
  <2>1. CASE ~old.locked /\ Cardinality(old.members) = 1
    <3>1. room = [old EXCEPT !.max = Smaller(old.requested, m.cap), !.locked = TRUE]
      BY <2>1 DEF LockCapacity
    <3>2. room.max = Smaller(old.requested, m.cap) /\ room.members = old.members
      BY <1>4, <3>1 DEF RoomType
    <3>3. old.requested \in Nat \ {0, 1}
      BY <1>4 DEF RoomType
    <3>4. room.max \in Nat \ {0, 1} /\ room.max <= m.cap
      BY <1>2, <3>2, <3>3, SmallerType
    <3> QED
      BY <1>1, <1>2, <2>1, <3>2, <3>4 DEF Fits
  <2>2. CASE ~(~old.locked /\ Cardinality(old.members) = 1)
    BY <2>2 DEF LockCapacity
  <2> QED
    BY <2>1, <2>2
<1>6. d.rooms[m.rid] # Nil
  <2>1. SUFFICES ASSUME d.rooms[m.rid] = Nil PROVE FALSE
    OBVIOUS
  <2>2. old.members = {} /\ old.max = 2
    BY <1>2, <2>1, RoomForOK DEF old
  <2> QED
    BY <1>1, <1>2, <1>5, <2>2, FS_EmptySet DEF Fits
<1>7. old = d.rooms[m.rid] /\ RoomOK(old)
  BY <1>2, <1>6, RoomForOK DEF old
<1> HIDE DEF room
<1>8. e.rooms = d.rooms /\ e.told = d.told /\ e.watchers = d.watchers
  BY <1>2, <1>5, <1>7 DEF DirectoryOK, DirectoryType, Put
<1> QED
  BY <1>1, <1>8 DEF Becomes

\* So a refused newcomer keeps the invariant.
LEMMA RefuseNewcomerOK ==
  ASSUME Inv, NEW c \in Clients, NEW prev \in registered, NEW m \in Requests, NEW d,
         Vacant(c, prev, d), RefuseNewcomer(c, prev, m, d)
  PROVE  Inv'
BY RefuseNewcomerKeeps, ShrinksRefl, RefusalOK DEF RefuseNewcomer, Vacant

\* Seat touches neither the membership nor the attachments.
LEMMA SeatFields ==
  ASSUME NEW r \in RoomType, NEW p
  PROVE  Seat(r, p).members = r.members /\ Seat(r, p).byClient = r.byClient
BY DEF Seat, BumpEpoch, BumpEpochBy, RoomType

\* Broadcasting a room and notifying its watchers after storing it.
LEMMA PublishOK ==
  ASSUME NEW d, DirectoryOK(d), NEW r \in RIDs, NEW room, RoomOK(room)
  PROVE  LET e == NotifyWatchers(Broadcast(Put(d, r, room), r), r) IN
         DirectoryOK(e) /\ e.rooms = [d.rooms EXCEPT ![r] = room]
<1>1. /\ DirectoryOK(Put(d, r, room))
      /\ Put(d, r, room).rooms = [d.rooms EXCEPT ![r] = room]
  BY PutOK
<1>2. d.rooms \in [RIDs -> RoomType \cup {Nil}]
  BY DEF DirectoryOK, DirectoryType
<1>3. RoomOK(Put(d, r, room).rooms[r])
  BY <1>1, <1>2
<1> DEFINE b == Broadcast(Put(d, r, room), r)
<1>4. DirectoryOK(b) /\ b.rooms = [d.rooms EXCEPT ![r] = room]
  BY <1>1, <1>3, BroadcastOK
<1> HIDE DEF b
<1>5. DirectoryOK(NotifyWatchers(b, r)) /\ NotifyWatchers(b, r).rooms = [d.rooms EXCEPT ![r] = room]
  BY <1>4, NotifyOK
<1> QED
  BY <1>5 DEF b

\* p sits in room with the transport c, the others of the room at r are where
\* they were in d, and the ghosts the join evicts sat there too.
JoinedOK(d, r, room, c, p, ghost) ==
  /\ p \in CIDs
  /\ ghost \in SUBSET Clients
  /\ SeatingOK(room, p)
  /\ room.byClient[c] = p
  /\ \A x \in Clients \ {c} : room.byClient[x] # Nil =>
       x \notin ghost /\ d.rooms[r] # Nil /\ room.byClient[x] = d.rooms[r].byClient[x]
  /\ \A q \in room.members \ {p} : d.rooms[r] # Nil /\ q \in d.rooms[r].members
  /\ IF d.rooms[r] = Nil THEN room.epoch = 0
     ELSE room.epoch = d.rooms[r].epoch /\ room.host = d.rooms[r].host
  /\ \A x \in ghost : d.rooms[r] # Nil /\ d.rooms[r].byClient[x] # Nil

\* A join that succeeds preserves the invariant.
LEMMA AdmitOK ==
  ASSUME Inv, NEW c \in Clients, NEW prev \in registered, NEW m \in Requests,
         NEW d, Vacant(c, prev, d), NEW e, DirectoryOK(e), e.rooms = d.rooms,
         NEW room, NEW p, NEW ghost, JoinedOK(d, m.rid, room, c, p, ghost),
         Admit(c, m, e, room, p), registered' = Roster(c, prev) \ ghost
  PROVE  Inv'
<1> DEFINE seated == Seat(room, p)
           f == NotifyWatchers(Broadcast(Put(e, m.rid, seated), m.rid), m.rid)
<1>1. /\ Becomes(f) /\ tombstones' = tombstones \ {m.rid}
      /\ rid' = [rid EXCEPT ![c] = m.rid] /\ cid' = [cid EXCEPT ![c] = p]
      /\ issued' = issued \cup {<<m.rid, p>>}
  BY DEF Admit, Assign
<1>2. RoomOK(seated) /\ seated.members = room.members /\ seated.byClient = room.byClient
  BY SeatOK, SeatFields DEF JoinedOK, SeatingOK
<1>3. m.rid \in RIDs
  BY RequestType
<1> HIDE DEF seated
<1>4. DirectoryOK(f) /\ f.rooms = [d.rooms EXCEPT ![m.rid] = seated]
  BY <1>2, <1>3, PublishOK
<1> HIDE DEF f
<1>5. d.rooms \in [RIDs -> RoomType \cup {Nil}]
  BY DEF Vacant, DirectoryOK, DirectoryType
<1>6. /\ tombstones' \subseteq RIDs /\ registered' \subseteq Clients
      /\ rid' \in [Clients -> RIDs \cup {Nil}] /\ cid' \in [Clients -> CIDs \cup {Nil}]
      /\ issued' \subseteq RIDs \X CIDs
  BY <1>1, <1>3 DEF Inv, TypeOK, Roster, JoinedOK
\* Who is attached before the request is looked at keeps its seat.
<1>7. ASSUME NEW r \in RIDs, d.rooms[r] # Nil, NEW x \in Clients,
             d.rooms[r].byClient[x] # Nil
      PROVE  /\ x # c /\ x # prev /\ x \in registered
             /\ rid[x] = r /\ cid[x] = d.rooms[r].byClient[x]
  <2>1. /\ x # c /\ x # prev /\ rooms[r] # Nil
        /\ rooms[r].byClient[x] = d.rooms[r].byClient[x]
    BY <1>7 DEF Vacant, Shrinks, Directory
  <2> QED
    BY <1>7, <2>1, AttachedHoldsSeat
<1>8. c \notin ghost
  BY <1>3, <1>7 DEF JoinedOK
<1>9. rid'[c] = m.rid /\ cid'[c] = p
      /\ \A x \in Clients \ {c} : rid'[x] = rid[x] /\ cid'[x] = cid[x]
  BY <1>1 DEF Inv, TypeOK
<1>10. SeatsOK(f, registered', rid', cid')
  <2> SUFFICES ASSUME NEW r \in RIDs, f.rooms[r] # Nil, NEW x \in Clients,
                      f.rooms[r].byClient[x] # Nil
               PROVE  x \in registered' /\ rid'[x] = r /\ cid'[x] = f.rooms[r].byClient[x]
    BY DEF SeatsOK
  <2>1. CASE r = m.rid /\ x = c
    BY <1>2, <1>4, <1>5, <1>8, <1>9, <2>1 DEF Roster, JoinedOK
  <2>2. CASE r = m.rid /\ x # c
    <3>1. /\ x \notin ghost /\ d.rooms[r] # Nil
          /\ f.rooms[r].byClient[x] = d.rooms[r].byClient[x]
      BY <1>2, <1>4, <1>5, <2>2 DEF JoinedOK
    <3> QED
      BY <1>7, <1>9, <3>1 DEF Roster
  <2>3. CASE r # m.rid
    <3>1. f.rooms[r] = d.rooms[r]
      BY <1>4, <1>5, <2>3
    <3>2. x \notin ghost
      BY <1>3, <1>7, <2>3, <3>1 DEF JoinedOK
    <3> QED
      BY <1>7, <1>9, <3>1, <3>2 DEF Roster
  <2> QED
    BY <2>1, <2>2, <2>3
<1>11. TokensOK(f, issued')
  <2> SUFFICES ASSUME NEW r \in RIDs, f.rooms[r] # Nil, NEW q \in f.rooms[r].members
               PROVE  <<r, q>> \in issued'
    BY DEF TokensOK
  <2>1. CASE r = m.rid /\ q = p
    BY <1>1, <2>1
  <2>2. CASE ~(r = m.rid /\ q = p)
    <3>1. d.rooms[r] # Nil /\ q \in d.rooms[r].members
      BY <1>2, <1>4, <1>5, <2>2 DEF JoinedOK
    <3>2. rooms[r] # Nil /\ q \in rooms[r].members
      BY <3>1 DEF Vacant, Shrinks, Directory
    <3> QED
      BY <1>1, <3>2 DEF Inv, MembersHoldTokens, Live
  <2> QED
    BY <2>1, <2>2
<1> QED
  BY <1>1, <1>4, <1>6, <1>10, <1>11, Establish

\* What a reattach makes of a room: the CID has the new transport, the one it
\* had is unlinked, the others stay.
LEMMA ReattachFields ==
  ASSUME NEW r, RoomOK(r), NEW p \in r.members, NEW c \in Clients, r.byClient[c] = Nil
  PROVE  LET a == Reattach(r, p, c)
             ghost == {r.client[p]} \ {Nil}
         IN  /\ ghost \in SUBSET Clients
             /\ a.members = r.members /\ a.client[p] = c /\ a.byClient[c] = p
             /\ a.epoch = r.epoch /\ a.host = r.host
             /\ \A x \in Clients \ {c} : a.byClient[x] # Nil =>
                  x \notin ghost /\ a.byClient[x] = r.byClient[x]
             /\ \A x \in ghost : r.byClient[x] = p /\ x # c
<1>1. r \in RoomType /\ IndexesAgree(r) /\ p \in CIDs
  BY DEF RoomOK, RoomType
<1> DEFINE a == Reattach(r, p, c)
<1>2. /\ a.members = r.members /\ a.client[p] = c /\ a.epoch = r.epoch /\ a.host = r.host
      /\ a.byClient = [x \in Clients |-> IF x = c THEN p
                                         ELSE IF x = r.client[p] THEN Nil
                                         ELSE r.byClient[x]]
  BY <1>1 DEF Reattach, RoomType
<1> HIDE DEF a
<1>3. r.client[p] \in Clients \cup {Nil}
  BY <1>1 DEF RoomType
<1>4. \A x \in {r.client[p]} \ {Nil} : r.byClient[x] = p /\ x # c
  BY <1>1, <1>3, RoomAssumption DEF IndexesAgree
<1> QED
  BY <1>2, <1>3, <1>4 DEF a

\* A participant takes its place back, from a suspension or from a ghost.
LEMMA JoinReattachAdmits ==
  ASSUME NEW c \in Clients, NEW prev \in registered, NEW m \in Requests, NEW d,
         Vacant(c, prev, d), JoinReattach(c, prev, m, d)
  PROVE  \E room, ghost :
           /\ JoinedOK(d, m.rid, room, c, m.cid, ghost)
           /\ Admit(c, m, Dismiss(d, ghost), room, m.cid)
           /\ registered' = Roster(c, prev) \ ghost
<1> DEFINE old   == RoomFor(m, d)
           p     == m.cid
           room  == Reattach(old, p, c)
           ghost == {old.client[p]} \ {Nil}
           e     == Dismiss(d, ghost)
<1>1. /\ p \in old.members /\ Admit(c, m, e, room, p)
      /\ registered' = Roster(c, prev) \ ghost
  BY DEF JoinReattach, Reclaims
<1>2. DirectoryOK(d) /\ m.rid \in RIDs
  BY RequestType DEF Vacant
<1>3. d.rooms[m.rid] # Nil /\ old = d.rooms[m.rid] /\ RoomOK(old)
  BY <1>1, <1>2, RoomForOK
<1>4. p \in CIDs /\ old.byClient[c] = Nil
  BY <1>1, <1>2, <1>3 DEF Vacant, RoomOK, RoomType
<1> HIDE DEF old, e
<1>6. SeatingOK(room, p)
  BY <1>1, <1>3, <1>4, ReattachOK
<1>7. /\ ghost \in SUBSET Clients
      /\ room.members = old.members /\ room.client[p] = c /\ room.byClient[c] = p
      /\ room.epoch = old.epoch /\ room.host = old.host
      /\ \A x \in Clients \ {c} : room.byClient[x] # Nil =>
           x \notin ghost /\ room.byClient[x] = old.byClient[x]
      /\ \A x \in ghost : old.byClient[x] = p /\ x # c
  <2>1. RoomOK(old) /\ p \in old.members /\ old.byClient[c] = Nil
    BY <1>1, <1>3, <1>4
  <2> QED
    BY <2>1, ReattachFields
<1> HIDE DEF room, ghost
<1>8. \A x \in ghost : d.rooms[m.rid] # Nil /\ d.rooms[m.rid].byClient[x] # Nil
  BY <1>3, <1>4, <1>7, RoomAssumption
<1>9. JoinedOK(d, m.rid, room, c, p, ghost)
  BY <1>3, <1>4, <1>6, <1>7, <1>8 DEF JoinedOK
<1> HIDE DEF p
<1> QED
  BY <1>1, <1>9 DEF e, p

\* So a reclaim keeps the invariant.
LEMMA JoinReattachOK ==
  ASSUME Inv, NEW c \in Clients, NEW prev \in registered, NEW m \in Requests, NEW d,
         Vacant(c, prev, d), JoinReattach(c, prev, m, d)
  PROVE  Inv'
<1>1. PICK room, ghost :
        /\ JoinedOK(d, m.rid, room, c, m.cid, ghost)
        /\ Admit(c, m, Dismiss(d, ghost), room, m.cid)
        /\ registered' = Roster(c, prev) \ ghost
  BY JoinReattachAdmits
<1>2. DirectoryOK(Dismiss(d, ghost)) /\ Dismiss(d, ghost).rooms = d.rooms
  BY DismissOK DEF Vacant
<1> QED
  BY <1>1, <1>2, AdmitOK

\* The refusal of a reclaim: room is what becomes of the room, ghost the
\* transport that is cut off.  For the others nothing changes but its loss.
LeavesSuspended(c, prev, m, d, room, ghost) ==
  /\ RoomOK(room) /\ ghost \in SUBSET Clients /\ m.cid \in CIDs
  /\ d.rooms[m.rid] # Nil
  /\ room.members = d.rooms[m.rid].members /\ room.max = d.rooms[m.rid].max
  /\ room.host = d.rooms[m.rid].host /\ room.epoch = d.rooms[m.rid].epoch
  /\ room.byClient[c] = Nil
  /\ \A x \in Clients : room.byClient[x] # Nil =>
       x \notin ghost /\ room.byClient[x] = d.rooms[m.rid].byClient[x]
  /\ \A x \in ghost : d.rooms[m.rid].byClient[x] # Nil
  /\ ghost = {} => room.client = d.rooms[m.rid].client
  /\ LET e == Put(Dismiss(d, ghost), m.rid, room) IN
     Becomes(IF ghost = {} THEN e ELSE Broadcast(e, m.rid))
  /\ registered' = Roster(c, prev) \ ghost
  /\ rid' = [rid EXCEPT ![c] = m.rid] /\ cid' = [cid EXCEPT ![c] = m.cid]
  /\ UNCHANGED <<tombstones, issued>>

\* A reclaim that is refused for capacity leaves the participant suspended and
\* its ghost gone.
LEMMA RefuseReattachLeaves ==
  ASSUME NEW c \in Clients, NEW prev \in registered, NEW m \in Requests, NEW d,
         Vacant(c, prev, d), RefuseReattach(c, prev, m, d)
  PROVE  \E room, ghost : LeavesSuspended(c, prev, m, d, room, ghost)
<1> DEFINE old   == RoomFor(m, d)
           p     == m.cid
           taken == Reattach(old, p, c)
           room  == Suspend(taken, p)
           ghost == {old.client[p]} \ {Nil}
           e     == Put(Dismiss(d, ghost), m.rid, room)
           f     == IF ghost = {} THEN e ELSE Broadcast(e, m.rid)
<1>1. /\ p \in old.members /\ Becomes(f)
      /\ registered' = Roster(c, prev) \ ghost
      /\ rid' = [rid EXCEPT ![c] = m.rid] /\ cid' = [cid EXCEPT ![c] = p]
      /\ UNCHANGED <<tombstones, issued>>
  BY DEF RefuseReattach, Reclaims, Assign
<1>2. DirectoryOK(d) /\ m.rid \in RIDs
  BY RequestType DEF Vacant
<1>3. d.rooms[m.rid] # Nil /\ old = d.rooms[m.rid] /\ RoomOK(old)
  BY <1>1, <1>2, RoomForOK
<1>4. p \in CIDs /\ old.byClient[c] = Nil
  BY <1>1, <1>2, <1>3 DEF Vacant, RoomOK, RoomType
<1> HIDE DEF old
<1>5. SeatingOK(taken, p) /\ HostIsMember(taken)
  BY <1>1, <1>3, <1>4, ReattachOK
<1>6. /\ ghost \in SUBSET Clients
      /\ taken.members = old.members /\ taken.client[p] = c /\ taken.byClient[c] = p
      /\ \A x \in Clients \ {c} : taken.byClient[x] # Nil =>
           x \notin ghost /\ taken.byClient[x] = old.byClient[x]
      /\ \A x \in ghost : old.byClient[x] = p /\ x # c
  <2>1. RoomOK(old) /\ p \in old.members /\ old.byClient[c] = Nil
    BY <1>1, <1>3, <1>4
  <2> QED
    BY <2>1, ReattachFields
<1>7. /\ taken.max = old.max /\ taken.host = old.host /\ taken.epoch = old.epoch
      /\ taken.client = [old.client EXCEPT ![p] = c]
      /\ old.client \in [CIDs -> Clients \cup {Nil}]
  BY <1>3 DEF Reattach, RoomOK, RoomType
<1>8. ghost = {} => old.client[p] = Nil
  OBVIOUS
<1> HIDE DEF taken, ghost
<1>9. RoomOK(room)
  BY <1>4, <1>5, SuspendOK
<1>10. /\ room.members = old.members /\ room.byClient[c] = Nil
       /\ room.max = old.max /\ room.host = old.host /\ room.epoch = old.epoch
       /\ \A x \in Clients : room.byClient[x] # Nil =>
            x \notin ghost /\ room.byClient[x] = old.byClient[x]
       /\ ghost = {} => room.client = old.client
  <2>1. taken \in RoomType
    BY <1>5 DEF SeatingOK
  <2>2. /\ room.members = taken.members /\ room.client = [taken.client EXCEPT ![p] = Nil]
        /\ room.max = taken.max /\ room.host = taken.host /\ room.epoch = taken.epoch
        /\ room.byClient = [x \in Clients |-> IF x = taken.client[p] THEN Nil
                                              ELSE taken.byClient[x]]
    BY <2>1 DEF Suspend, ArmNoActive, RoomType
  <2> HIDE DEF room
  <2>3. room.byClient[c] = Nil
    BY <1>6, <2>2
  <2>4. ASSUME NEW x \in Clients, room.byClient[x] # Nil
        PROVE  x # c /\ room.byClient[x] = taken.byClient[x]
    BY <1>6, <2>2, <2>4
  <2>5. ghost = {} => room.client = old.client
    BY <1>4, <1>7, <1>8, <2>2
  <2> QED
    BY <1>6, <1>7, <2>2, <2>3, <2>4, <2>5
<1> HIDE DEF room
<1>11. \A x \in ghost : old.byClient[x] # Nil
  BY <1>4, <1>6, RoomAssumption
<1>12. Becomes(IF ghost = {} THEN Put(Dismiss(d, ghost), m.rid, room)
               ELSE Broadcast(Put(Dismiss(d, ghost), m.rid, room), m.rid))
  BY <1>1
<1> HIDE DEF e, f
<1>13. LeavesSuspended(c, prev, m, d, room, ghost)
  BY <1>1, <1>3, <1>4, <1>6, <1>9, <1>10, <1>11, <1>12 DEF LeavesSuspended
<1> QED
  BY <1>13

\* So a refused reclaim keeps the invariant.
LEMMA RefuseReattachOK ==
  ASSUME Inv, NEW c \in Clients, NEW prev \in registered, NEW m \in Requests, NEW d,
         Vacant(c, prev, d), RefuseReattach(c, prev, m, d)
  PROVE  Inv'
<1>0. PICK room, ghost : LeavesSuspended(c, prev, m, d, room, ghost)
  BY RefuseReattachLeaves
<1>1. /\ RoomOK(room) /\ ghost \in SUBSET Clients /\ m.cid \in CIDs /\ d.rooms[m.rid] # Nil
      /\ room.members = d.rooms[m.rid].members /\ room.byClient[c] = Nil
      /\ \A x \in Clients : room.byClient[x] # Nil =>
           x \notin ghost /\ room.byClient[x] = d.rooms[m.rid].byClient[x]
      /\ \A x \in ghost : d.rooms[m.rid].byClient[x] # Nil
      /\ registered' = Roster(c, prev) \ ghost
      /\ rid' = [rid EXCEPT ![c] = m.rid] /\ cid' = [cid EXCEPT ![c] = m.cid]
      /\ UNCHANGED <<tombstones, issued>>
  BY <1>0 DEF LeavesSuspended
<1> DEFINE e == Put(Dismiss(d, ghost), m.rid, room)
           f == IF ghost = {} THEN e ELSE Broadcast(e, m.rid)
<1>2. DirectoryOK(d) /\ m.rid \in RIDs
  BY RequestType DEF Vacant
<1>3. Becomes(f)
  BY <1>0 DEF LeavesSuspended
<1>31. DirectoryOK(e) /\ e.rooms = [d.rooms EXCEPT ![m.rid] = room]
  BY <1>1, <1>2, DismissOK, PutOK
<1>4. d.rooms \in [RIDs -> RoomType \cup {Nil}]
  BY <1>2 DEF DirectoryOK, DirectoryType
<1> HIDE DEF e
<1>5. DirectoryOK(f) /\ f.rooms = [d.rooms EXCEPT ![m.rid] = room]
  <2>1. RoomOK(e.rooms[m.rid])
    BY <1>1, <1>2, <1>31, <1>4
  <2> QED
    BY <1>2, <1>31, <2>1, BroadcastOK
<1> HIDE DEF f
<1>6. Shrinks(d, f)
  BY <1>1, <1>2, <1>4, <1>5 DEF Shrinks
<1>7. Shrinks(Directory, f)
  BY <1>6 DEF Vacant, Shrinks
<1>8. ASSUME NEW r \in RIDs, f.rooms[r] # Nil, NEW x \in Clients,
              f.rooms[r].byClient[x] # Nil
       PROVE  x # c /\ x # prev /\ x \notin ghost
  <2>1. d.rooms[r] # Nil /\ d.rooms[r].byClient[x] # Nil
        /\ f.rooms[r].byClient[x] = d.rooms[r].byClient[x]
    BY <1>6, <1>8 DEF Shrinks
  <2>2. x # c /\ x # prev
    BY <2>1 DEF Vacant
  <2>3. ASSUME x \in ghost PROVE FALSE
    <3>1. d.rooms[m.rid].byClient[x] # Nil
      BY <1>1, <2>3, RoomAssumption
    <3>2. rooms[r] # Nil /\ rooms[r].byClient[x] # Nil
          /\ rooms[m.rid] # Nil /\ rooms[m.rid].byClient[x] # Nil
      BY <1>1, <1>2, <2>1, <3>1 DEF Vacant, Shrinks, Directory
    <3>3. r = m.rid
      BY <1>2, <3>2, AttachedHoldsSeat
    <3> QED
      BY <1>1, <1>2, <1>4, <1>5, <1>8, <2>3, <3>3
  <2> QED
    BY <2>2, <2>3
<1>9. /\ tombstones' \subseteq RIDs /\ registered' \subseteq Clients
       /\ rid' \in [Clients -> RIDs \cup {Nil}] /\ cid' \in [Clients -> CIDs \cup {Nil}]
       /\ issued \subseteq issued' /\ issued' \subseteq RIDs \X CIDs
       /\ \A x \in Clients \ {c} : rid'[x] = rid[x] /\ cid'[x] = cid[x]
  BY <1>1, <1>1, <1>2 DEF Inv, TypeOK, Roster
<1>10. \A r \in RIDs : f.rooms[r] # Nil =>
         \A x \in Clients : f.rooms[r].byClient[x] # Nil =>
           (x \in registered => x \in registered') /\ rid'[x] = rid[x] /\ cid'[x] = cid[x]
  BY <1>1, <1>8, <1>9 DEF Roster
<1> QED
  BY <1>3, <1>5, <1>7, <1>9, <1>10, EstablishByShrinking

\* A participant without a record in the room enters it, under a CID proved by
\* a valid token or under a new one.
LEMMA JoinFreshAdmits ==
  ASSUME Inv, NEW c \in Clients, NEW prev \in registered, NEW m \in Requests, NEW d,
         Vacant(c, prev, d), WellFormed(m), JoinFresh(c, prev, m, d)
  PROVE  \E room, p :
           /\ JoinedOK(d, m.rid, room, c, p, {})
           /\ d.rooms[m.rid] # Nil => p \notin d.rooms[m.rid].members
           /\ m.token = "valid" \/ \A r \in RIDs : <<r, p>> \notin issued
           /\ Admit(c, m, d, room, p)
           /\ registered' = Roster(c, prev)
<1> DEFINE old  == RoomFor(m, d)
           open == LockCapacity(old, m.cap)
           unclaimed == {q \in CIDs : \A r \in RIDs : <<r, q>> \notin issued}
<1>1. PICK p \in (IF m.token = "valid" THEN {m.cid} ELSE unclaimed) :
        Admit(c, m, d, AttachParticipant(open, p, c), p)
  BY DEF JoinFresh, Fits
<1>2. /\ ~(m.cid # Nil /\ m.cid \in old.members)
      /\ Cardinality(open.members) < open.max
      /\ registered' = Roster(c, prev)
  BY DEF JoinFresh, Fits, Reclaims
<1>3. DirectoryOK(d) /\ m.rid \in RIDs /\ m.cap \in Capabilities
  BY RequestType DEF Vacant
<1>4. /\ OpenOK(old)
      /\ d.rooms[m.rid] # Nil => old = d.rooms[m.rid]
      /\ d.rooms[m.rid] = Nil => old.members = {} /\ old.byClient = [x \in Clients |-> Nil]
                              /\ old.epoch = 0
  BY <1>3, RoomForOK
<1>5. old.byClient[c] = Nil
  BY <1>3, <1>4 DEF Vacant
<1>6. p \in CIDs /\ p \notin old.members
  <2>1. CASE m.token = "valid"
    <3>1. p = m.cid /\ m.cid # Nil
      BY <1>1, <2>1 DEF WellFormed
    <3> QED
      BY <1>2, <3>1, RequestType
  <2>2. CASE m.token # "valid"
    <3>1. p \in CIDs /\ <<m.rid, p>> \notin issued
      BY <1>1, <1>3, <2>2
    <3>2. ASSUME p \in old.members PROVE FALSE
      <4>1. d.rooms[m.rid] # Nil /\ p \in d.rooms[m.rid].members
        BY <1>4, <3>2
      <4>2. rooms[m.rid] # Nil /\ p \in rooms[m.rid].members
        BY <1>3, <4>1 DEF Vacant, Shrinks, Directory
      <4> QED
        BY <1>3, <3>1, <4>2 DEF Inv, MembersHoldTokens, Live
    <3> QED
      BY <3>1, <3>2
  <2> QED
    BY <2>1, <2>2
<1> HIDE DEF old
<1>7. /\ OpenOK(open) /\ open.members = old.members /\ open.byClient = old.byClient
      /\ ~open.locked => open.max = 2 /\ open.members = {}
  BY <1>3, <1>4, LockCapacityOK
<1>71. open.epoch = old.epoch /\ open.host = old.host
  BY <1>4 DEF OpenOK, LockCapacity, RoomType
<1> HIDE DEF open
<1> DEFINE room == AttachParticipant(open, p, c)
<1>8. SeatingOK(room, p)
  BY <1>2, <1>5, <1>6, <1>7, AttachOK
<1>9. /\ room.members = open.members \cup {p}
      /\ room.byClient = [open.byClient EXCEPT ![c] = p]
      /\ room.epoch = open.epoch /\ room.host = open.host
  BY <1>7 DEF OpenOK, AttachParticipant, RoomType
<1>10. open.byClient \in [Clients -> CIDs \cup {Nil}]
  BY <1>7 DEF OpenOK, RoomType
<1> HIDE DEF room
<1>11. JoinedOK(d, m.rid, room, c, p, {})
  BY <1>4, <1>6, <1>7, <1>71, <1>8, <1>9, <1>10 DEF JoinedOK
<1>12. Admit(c, m, d, room, p)
  BY <1>1 DEF room
<1>13. m.token = "valid" \/ \A r \in RIDs : <<r, p>> \notin issued
  BY <1>1
<1>14. d.rooms[m.rid] # Nil => p \notin d.rooms[m.rid].members
  BY <1>4, <1>6
<1> QED
  BY <1>2, <1>11, <1>12, <1>13, <1>14

\* So a fresh join keeps the invariant.
LEMMA JoinFreshOK ==
  ASSUME Inv, NEW c \in Clients, NEW prev \in registered, NEW m \in Requests, NEW d,
         Vacant(c, prev, d), WellFormed(m), JoinFresh(c, prev, m, d)
  PROVE  Inv'
<1>1. PICK room, p :
        /\ JoinedOK(d, m.rid, room, c, p, {}) /\ Admit(c, m, d, room, p)
        /\ registered' = Roster(c, prev)
  BY JoinFreshAdmits
<1>2. registered' = Roster(c, prev) \ {} /\ DirectoryOK(d)
  BY <1>1 DEF Vacant
<1> QED
  BY <1>1, <1>2, AdmitOK

\* Whatever its outcome, a join preserves the invariant.
LEMMA HandleJoinOK ==
  ASSUME Inv, NEW c \in Clients, NEW prev \in registered, prev = c \/ c \notin registered,
         NEW m \in Requests, WellFormed(m), HandleJoin(c, prev, m)
  PROVE  Inv'
<1>1. PICK heir \in IF HoldsSeat(prev) THEN Heirs(rooms[rid[prev]], {cid[prev]}) ELSE {Nil} :
        LET d == Vacated(c, prev, heir) IN
        \/ RefuseToken(c, prev, m, d)
        \/ RefuseEnded(c, prev, m, d)
        \/ JoinReattach(c, prev, m, d)
        \/ RefuseReattach(c, prev, m, d)
        \/ JoinFresh(c, prev, m, d)
        \/ RefuseNewcomer(c, prev, m, d)
  BY DEF HandleJoin
<1>2. PICK d : d = Vacated(c, prev, heir)
  OBVIOUS
<1>3. Vacant(c, prev, d)
  BY <1>1, <1>2, VacatedOK
<1> QED
  BY <1>1, <1>2, <1>3, RefuseTokenOK, RefuseEndedOK, JoinReattachOK,
     RefuseReattachOK, JoinFreshOK, RefuseNewcomerOK

\* A join on a registered transport.
LEMMA JoinOK ==
  ASSUME Inv, NEW c \in Clients, Join(c)
  PROVE  Inv'
BY HandleJoinOK DEF Join

\* A join that promotes an SSE stream over the one it replaces.
LEMMA TakeOverOK ==
  ASSUME Inv, NEW c \in Clients, NEW prev \in Clients, TakeOver(c, prev)
  PROVE  Inv'
BY HandleJoinOK DEF TakeOver

-----------------------------------------------------------------------------
\* The other handlers, and the timers.

\* A handler that only removes: it changes the directory and tombstones.
LEMMA RemovalOK ==
  ASSUME Inv, NEW d, DirectoryOK(d), Shrinks(Directory, d), Becomes(d),
         tombstones' \subseteq RIDs, UNCHANGED <<registered, rid, cid, issued>>
  PROVE  Inv'
<1>1. /\ registered' \subseteq Clients /\ rid' \in [Clients -> RIDs \cup {Nil}]
      /\ cid' \in [Clients -> CIDs \cup {Nil}] /\ issued' \subseteq RIDs \X CIDs
      /\ issued \subseteq issued'
  BY DEF Inv, TypeOK
<1> QED
  BY <1>1, EstablishByShrinking

\* A handler that updates one room without a word to its participants.
LEMMA SilentUpdateOK ==
  ASSUME Inv, NEW r \in RIDs, rooms[r] # Nil, NEW room, RoomOK(room),
         room.members = rooms[r].members, room.byClient = rooms[r].byClient,
         rooms' = [rooms EXCEPT ![r] = room],
         UNCHANGED <<tombstones, registered, rid, cid, issued, told, watchers>>
  PROVE  Inv'
<1>0. DirectoryOK(Directory) /\ Directory.rooms = rooms
  BY DirectoryIsOK
<1> DEFINE d == Put(Directory, r, room)
<1>1. DirectoryOK(d) /\ d.rooms = [rooms EXCEPT ![r] = room]
  <2>1. /\ DirectoryOK(Put(Directory, r, room))
        /\ Put(Directory, r, room).rooms = [Directory.rooms EXCEPT ![r] = room]
    <3>1. RoomOK(room) /\ r \in RIDs
      OBVIOUS
    <3> QED
      BY ONLY <1>0, <3>1, PutOK
  <2> QED
    BY <1>0, <2>1
<1>2. d.told = told /\ d.watchers = watchers
  BY DEF Put, Directory
<1> HIDE DEF d
<1>3. Becomes(d)
  BY <1>1, <1>2 DEF Becomes
<1>4. rooms \in [RIDs -> RoomType \cup {Nil}] /\ tombstones' \subseteq RIDs
  BY DEF Inv, TypeOK
<1>5. Shrinks(Directory, d)
  BY <1>1, <1>4 DEF Shrinks, Directory
<1> QED
  BY <1>1, <1>3, <1>4, <1>5, RemovalOK

\* A new transport is attached nowhere.
LEMMA ConnectOK ==
  ASSUME Inv, NEW c \in Clients, Connect(c)
  PROVE  Inv'
<1>1. Becomes(Directory) /\ DirectoryOK(Directory) /\ Shrinks(Directory, Directory)
  BY DirectoryIsOK, ShrinksRefl DEF Connect, Becomes, Directory
<1>2. /\ tombstones' \subseteq RIDs /\ registered' \subseteq Clients
      /\ rid' \in [Clients -> RIDs \cup {Nil}] /\ cid' \in [Clients -> CIDs \cup {Nil}]
      /\ issued \subseteq issued' /\ issued' \subseteq RIDs \X CIDs
      /\ registered \subseteq registered'
      /\ \A x \in Clients \ {c} : rid'[x] = rid[x] /\ cid'[x] = cid[x]
  BY DEF Connect, Inv, TypeOK
<1>3. ASSUME NEW r \in RIDs, Directory.rooms[r] # Nil, NEW x \in Clients,
             Directory.rooms[r].byClient[x] # Nil
      PROVE  x # c
  BY <1>3, AttachedHoldsSeat DEF Directory, Connect
<1> QED
  BY <1>1, <1>2, <1>3, EstablishByShrinking

\* The stream that is replaced was attached nowhere.
LEMMA TakeOverIdleOK ==
  ASSUME Inv, NEW old \in Clients, NEW new \in Clients, TakeOverIdle(old, new)
  PROVE  Inv'
<1> DEFINE d == [Directory EXCEPT !.watchers = Inherited(old, new)]
<1>1. watchers \in [RIDs -> [Clients -> Statuses \cup {Nil}]]
  BY DEF Inv, TypeOK
<1>2. Inherited(old, new) \in [RIDs -> [Clients -> Statuses \cup {Nil}]]
  BY <1>1 DEF Inherited
<1>3. DirectoryOK(d) /\ d.rooms = rooms
  BY <1>2, DirectoryIsOK DEF DirectoryOK, DirectoryType
<1>4. Becomes(d)
  BY DEF TakeOverIdle, Becomes, Directory
<1> HIDE DEF d
<1>5. Shrinks(Directory, d)
  BY <1>3 DEF Shrinks, Directory
<1>6. /\ tombstones' \subseteq RIDs /\ registered' \subseteq Clients
      /\ rid' \in [Clients -> RIDs \cup {Nil}] /\ cid' \in [Clients -> CIDs \cup {Nil}]
      /\ issued \subseteq issued' /\ issued' \subseteq RIDs \X CIDs
      /\ \A x \in Clients \ {new} : rid'[x] = rid[x] /\ cid'[x] = cid[x]
      /\ registered' = (registered \ {old}) \cup {new}
  BY DEF TakeOverIdle, Inv, TypeOK
<1>7. ASSUME NEW r \in RIDs, d.rooms[r] # Nil, NEW x \in Clients,
             d.rooms[r].byClient[x] # Nil
      PROVE  x # new /\ x # old
  <2>1. x \in registered /\ rid[x] = r
    BY <1>3, <1>7, AttachedHoldsSeat
  <2> QED
    BY <2>1, HubAssumption DEF TakeOverIdle
<1> QED
  BY <1>3, <1>4, <1>5, <1>6, <1>7, EstablishByShrinking

\* What a suspension makes of the membership and of the attachments.
LEMMA SuspendFields ==
  ASSUME NEW r \in RoomType, NEW p \in CIDs
  PROVE  /\ BumpEpoch(Suspend(r, p)).members = r.members
         /\ BumpEpoch(Suspend(r, p)).byClient =
              [x \in Clients |-> IF x = r.client[p] THEN Nil ELSE r.byClient[x]]
BY DEF BumpEpoch, BumpEpochBy, Suspend, ArmNoActive, RoomType

\* A transport that is lost is detached from the room it was in.
LEMMA DisconnectOK ==
  ASSUME Inv, NEW c \in Clients, Disconnect(c)
  PROVE  Inv'
<1> DEFINE r == rid[c]
           room == BumpEpoch(Suspend(rooms[r], cid[c]))
           gone == Dismiss(Directory, {c})
           d == IF HoldsSeat(c)
                THEN NotifyWatchers(Broadcast(Put(gone, r, room), r), r) ELSE gone
<1>1. /\ Becomes(d) /\ registered' = registered \ {c}
      /\ UNCHANGED <<tombstones, rid, cid, issued>>
  BY DEF Disconnect
<1>2. DirectoryOK(gone) /\ gone.rooms = rooms
  BY DirectoryIsOK, DismissOK
<1> HIDE DEF gone
<1>3. /\ DirectoryOK(d) /\ Shrinks(Directory, d)
      /\ \A q \in RIDs : d.rooms[q] # Nil => d.rooms[q].byClient[c] = Nil
  <2>1. CASE HoldsSeat(c)
    <3>1. /\ r \in RIDs /\ cid[c] \in CIDs /\ rooms[r] # Nil /\ RoomOK(rooms[r])
          /\ IsActive(rooms[r], cid[c]) /\ rooms[r].client[cid[c]] = c
      BY <2>1, HolderIsAttached
    <3>2. SeatingOK(rooms[r], cid[c]) /\ HostIsMember(rooms[r]) /\ rooms[r] \in RoomType
      BY <3>1, SeatedInOrder DEF RoomOK
    <3>3. RoomOK(room)
      BY <3>1, <3>2, SuspendOK, BumpEpochOK DEF BumpEpoch
    <3>4. /\ room.members = rooms[r].members
          /\ room.byClient = [x \in Clients |-> IF x = c THEN Nil ELSE rooms[r].byClient[x]]
      BY <3>1, <3>2, SuspendFields
    <3> HIDE DEF room
    <3>5. d = NotifyWatchers(Broadcast(Put(gone, r, room), r), r)
      BY <2>1
    <3>6. DirectoryOK(d) /\ d.rooms = [rooms EXCEPT ![r] = room]
      BY <1>2, <3>1, <3>3, <3>5, PublishOK
    <3> HIDE DEF d
    <3>7. rooms \in [RIDs -> RoomType \cup {Nil}]
      BY DEF Inv, TypeOK
    <3>8. Shrinks(Directory, d)
      BY <3>1, <3>4, <3>6, <3>7 DEF Shrinks, Directory
    <3>9. ASSUME NEW q \in RIDs, d.rooms[q] # Nil
          PROVE  d.rooms[q].byClient[c] = Nil
      <4>1. CASE q = r
        BY <3>4, <3>6, <3>7, <4>1
      <4>2. CASE q # r
        BY <3>6, <3>7, <3>9, <4>2, AttachedHoldsSeat
      <4> QED
        BY <4>1, <4>2
    <3> QED
      BY <3>6, <3>8, <3>9
  <2>2. CASE ~HoldsSeat(c)
    <3>1. d = gone
      BY <2>2
    <3>2. \A q \in RIDs : rooms[q] # Nil => rooms[q].byClient[c] = Nil
      BY <2>2, AttachedHoldsSeat
    <3> QED
      BY <1>2, <3>1, <3>2 DEF Shrinks, Directory
  <2> QED
    BY <2>1, <2>2
<1> HIDE DEF d
<1>4. /\ tombstones' \subseteq RIDs /\ registered' \subseteq Clients
      /\ rid' \in [Clients -> RIDs \cup {Nil}] /\ cid' \in [Clients -> CIDs \cup {Nil}]
      /\ issued \subseteq issued' /\ issued' \subseteq RIDs \X CIDs
  BY <1>1 DEF Inv, TypeOK
<1> QED
  BY <1>1, <1>3, <1>4, EstablishByShrinking

\* A leave frees the seat of the sender.
LEMMA LeaveOK ==
  ASSUME Inv, NEW c \in Clients, Leave(c)
  PROVE  Inv'
<1>1. /\ rid[c] \in RIDs /\ {cid[c]} \in SUBSET CIDs
      /\ DirectoryOK(Directory) /\ Directory.rooms = rooms /\ rooms[rid[c]] # Nil
  BY HolderIsAttached, DirectoryIsOK DEF Leave
<1>2. PICK heir \in Heirs(rooms[rid[c]], {cid[c]}) :
        Becomes(RemoveParticipants(Directory, rid[c], {cid[c]}, heir))
  BY DEF Leave
<1> DEFINE d == RemoveParticipants(Directory, rid[c], {cid[c]}, heir)
<1>3. DirectoryOK(d) /\ Shrinks(Directory, d)
  BY <1>1, <1>2, RemoveOK
<1>4. Becomes(d)
  BY <1>2
<1>5. tombstones' \subseteq RIDs /\ UNCHANGED <<registered, rid, cid, issued>>
  BY DEF Leave, Inv, TypeOK
<1> HIDE DEF d
<1> QED
  BY <1>3, <1>4, <1>5, RemovalOK

\* A leave by token also cuts off the transport that was attached.
LEMMA LeaveByTokenOK ==
  ASSUME Inv, NEW r \in RIDs, NEW p \in CIDs, LeaveByToken(r, p)
  PROVE  Inv'
<1> DEFINE cut == {rooms[r].client[p]} \ {Nil}
<1>1. /\ DirectoryOK(Directory) /\ Directory.rooms = rooms /\ rooms[r] # Nil
      /\ RoomOK(rooms[r]) /\ {p} \in SUBSET CIDs
  BY DirectoryIsOK DEF LeaveByToken, Inv, RoomsOK, Live
<1>2. PICK heir \in Heirs(rooms[r], {p}) :
        Becomes(Dismiss(RemoveParticipants(Directory, r, {p}, heir), cut))
  BY DEF LeaveByToken
<1> DEFINE e == RemoveParticipants(Directory, r, {p}, heir)
           d == Dismiss(e, cut)
<1>3. /\ DirectoryOK(e) /\ Shrinks(Directory, e)
      /\ e.rooms[r] # Nil => \A x \in Clients : e.rooms[r].byClient[x] \notin {p}
  BY <1>1, <1>2, RemoveOK
<1>4. Becomes(d)
  BY <1>2
<1> HIDE DEF e
<1>5. DirectoryOK(d) /\ d.rooms = e.rooms
  BY <1>3, DismissOK
<1> HIDE DEF d
<1>6. Shrinks(Directory, d)
  BY <1>3, <1>5 DEF Shrinks
<1>7. \A x \in cut : x \in Clients => rooms[r].byClient[x] = p
  BY <1>1 DEF RoomOK, IndexesAgree
<1>8. /\ tombstones' \subseteq RIDs /\ registered' \subseteq Clients
      /\ rid' \in [Clients -> RIDs \cup {Nil}] /\ cid' \in [Clients -> CIDs \cup {Nil}]
      /\ issued \subseteq issued' /\ issued' \subseteq RIDs \X CIDs
      /\ registered' = registered \ cut /\ rid' = rid /\ cid' = cid
  BY DEF LeaveByToken, Inv, TypeOK
<1> HIDE DEF cut
<1>9. ASSUME NEW q \in RIDs, d.rooms[q] # Nil, NEW x \in Clients,
             d.rooms[q].byClient[x] # Nil
      PROVE  x \notin cut
  <2>1. SUFFICES ASSUME x \in cut PROVE FALSE
    OBVIOUS
  <2>2. /\ rooms[q] # Nil /\ rooms[q].byClient[x] = d.rooms[q].byClient[x]
        /\ rooms[q].byClient[x] # Nil
    BY <1>6, <1>9 DEF Shrinks, Directory
  <2>3. rooms[r].byClient[x] = p /\ rooms[r].byClient[x] # Nil
    BY <1>7, <2>1, RoomAssumption
  <2>4. q = r
    BY <1>1, <2>2, <2>3, AttachedHoldsSeat
  <2> QED
    BY <1>3, <1>5, <1>9, <2>2, <2>3, <2>4
<1> QED
  BY <1>4, <1>5, <1>6, <1>8, <1>9, EstablishByShrinking

\* Ending a room detaches everyone in it.
LEMMA EndRoomOK ==
  ASSUME Inv, NEW c \in Clients, EndRoom(c)
  PROVE  Inv'
<1> DEFINE r == rid[c]
           left == Forget(Directory, ActiveClients(rooms[r]))
           put == Put(left, r, Nil)
           d == NotifyWatchers(put, r)
<1>1. r \in RIDs /\ rooms \in [RIDs -> RoomType \cup {Nil}]
  BY DEF EndRoom, InRoom, Inv, TypeOK
<1>2. DirectoryOK(left) /\ left.rooms = rooms
  BY DirectoryIsOK, ForgetOK
<1>3. Becomes(d)
  BY DEF EndRoom
<1> HIDE DEF left
<1>4. DirectoryOK(put) /\ put.rooms = [rooms EXCEPT ![r] = Nil]
  BY <1>1, <1>2, PutOK
<1> HIDE DEF put
<1>5. DirectoryOK(d) /\ d.rooms = [rooms EXCEPT ![r] = Nil]
  BY <1>1, <1>4, NotifyOK
<1> HIDE DEF d
<1>6. Shrinks(Directory, d)
  BY <1>1, <1>5 DEF Shrinks, Directory
<1>7. tombstones' \subseteq RIDs /\ UNCHANGED <<registered, rid, cid, issued>>
  BY <1>1 DEF EndRoom, Inv, TypeOK
<1> QED
  BY <1>3, <1>5, <1>6, <1>7, RemovalOK

\* The sender of a message is a participant of its room.
LEMMA SenderIsMember ==
  ASSUME Inv, NEW c \in Clients, InRoom(c)
  PROVE  /\ rid[c] \in RIDs /\ rooms[rid[c]] # Nil /\ RoomOK(rooms[rid[c]])
         /\ rooms[rid[c]].byClient[c] \in rooms[rid[c]].members
<1>1. rid[c] \in RIDs /\ rooms[rid[c]] # Nil
  BY DEF InRoom, Inv, TypeOK
<1>2. RoomOK(rooms[rid[c]])
  BY <1>1 DEF Inv, RoomsOK, Live
<1> DEFINE room == rooms[rid[c]]
           p == room.byClient[c]
<1>3. p \in CIDs
  BY <1>2 DEF InRoom, RoomOK, RoomType
<1>4. IndexesAgree(room)
  BY <1>2 DEF RoomOK
<1> HIDE DEF p, room
<1>5. p = room.byClient[c]
  BY DEF p
<1>6. room.client[p] = c
  BY <1>3, <1>4, <1>5 DEF IndexesAgree
<1>7. p \in room.members
  BY <1>3, <1>4, <1>6, RoomAssumption DEF IndexesAgree
<1> QED
  BY <1>1, <1>2, <1>7 DEF p, room

\* A relay marks pairs of the sender with suspended peers.
LEMMA RelayOK ==
  ASSUME Inv, NEW c \in Clients, NEW to, Relay(c, to)
  PROVE  Inv'
<1> DEFINE r == rid[c]
           from == rooms[r].byClient[c]
           missed == {p \in Suspended(rooms[r]) \ {from} : to \in {Nil, p}}
           room == MarkDirty(rooms[r], from, missed)
<1>1. r \in RIDs /\ rooms[r] # Nil /\ RoomOK(rooms[r]) /\ from \in rooms[r].members
  BY SenderIsMember DEF Relay
<1>2. missed \in SUBSET (Suspended(rooms[r]) \ {from})
  OBVIOUS
<1>3. RoomOK(room)
  BY <1>1, <1>2, MarkDirtyOK
<1>4. room.members = rooms[r].members /\ room.byClient = rooms[r].byClient
  BY <1>1 DEF MarkDirty, RoomOK, RoomType
<1>5. /\ rooms' = [rooms EXCEPT ![r] = room]
      /\ UNCHANGED <<tombstones, registered, rid, cid, issued, told, watchers>>
  BY DEF Relay
<1> HIDE DEF room
<1> QED
  BY <1>1, <1>3, <1>4, <1>5, SilentUpdateOK

\* A liveness report records hints, and may remove ghosts.
LEMMA ReportLivenessOK ==
  ASSUME Inv, NEW c \in Clients, NEW reported \in SUBSET CIDs, ReportLiveness(c, reported)
  PROVE  Inv'
<1> DEFINE r == rid[c]
           room == rooms[r]
           hints == (reported \cap room.members) \ {room.byClient[c]}
           heard == RecordLiveness(room, hints)
           ghosts == Ghosts(heard)
           d == Put(Directory, r, heard)
<1>1. r \in RIDs /\ room # Nil /\ RoomOK(room) /\ room \in RoomType
  BY SenderIsMember DEF ReportLiveness, RoomOK
<1>2. IF ghosts = {} THEN Becomes(d)
      ELSE \E heir \in Heirs(heard, ghosts) : Becomes(RemoveParticipants(d, r, ghosts, heir))
  BY DEF ReportLiveness
<1>3. tombstones' \subseteq RIDs /\ UNCHANGED <<registered, rid, cid, issued>>
  BY DEF ReportLiveness, Inv, TypeOK
<1>4. RoomOK(heard) /\ heard.members = room.members /\ heard.byClient = room.byClient
  <2>1. room.dwelt \in SUBSET Suspended(room) /\ room.seen \cup hints \in SUBSET room.members
    BY <1>1 DEF RoomOK, HintsAreOfMembers
  <2>2. heard = [room EXCEPT !.dwelt = room.dwelt, !.seen = room.seen \cup hints]
    BY <1>1 DEF RecordLiveness, RoomType
  <2>3. heard.members = room.members /\ heard.byClient = room.byClient
    BY <1>1 DEF RecordLiveness, RoomType
  <2> HIDE DEF heard, room, hints
  <2>4. RoomOK([room EXCEPT !.dwelt = room.dwelt, !.seen = room.seen \cup hints])
    BY <1>1, <2>1, HintsOK
  <2> QED
    BY <2>2, <2>3, <2>4
<1>5. ghosts \in SUBSET CIDs
  BY <1>4 DEF Ghosts, Suspended, RoomOK, RoomType
<1>6. DirectoryOK(d) /\ d.rooms = [rooms EXCEPT ![r] = heard]
  <2> HIDE DEF heard
  <2>1. DirectoryOK(Directory) /\ Directory.rooms = rooms
    BY DirectoryIsOK
  <2>2. DirectoryOK(d) /\ d.rooms = [Directory.rooms EXCEPT ![r] = heard]
    BY <1>1, <1>4, <2>1, PutOK
  <2> QED
    BY <2>1, <2>2
<1>7. rooms \in [RIDs -> RoomType \cup {Nil}]
  BY DEF Inv, TypeOK
<1> HIDE DEF heard, d
<1>8. Shrinks(Directory, d) /\ d.rooms[r] = heard /\ d.rooms[r] # Nil
  <2>1. d.rooms[r] = heard
    BY <1>1, <1>6, <1>7
  <2>2. heard # Nil
    BY <1>4, HubAssumption DEF RoomOK
  <2> QED
    BY <1>1, <1>4, <1>6, <1>7, <2>1, <2>2 DEF Shrinks, Directory
<1> HIDE DEF ghosts
<1>9. CASE ghosts = {}
  BY <1>2, <1>3, <1>6, <1>8, <1>9, RemovalOK
<1>10. CASE ghosts # {}
  <2>1. PICK heir \in Heirs(heard, ghosts) : Becomes(RemoveParticipants(d, r, ghosts, heir))
    BY <1>2, <1>10
  <2> DEFINE e == RemoveParticipants(d, r, ghosts, heir)
  <2>2. DirectoryOK(e) /\ Shrinks(d, e)
    BY <1>1, <1>5, <1>6, <1>8, <2>1, RemoveOK
  <2>3. Becomes(e)
    BY <2>1
  <2> HIDE DEF e
  <2>4. Shrinks(Directory, e)
    BY <1>8, <2>2 DEF Shrinks
  <2> QED
    BY <1>3, <2>2, <2>3, <2>4, RemovalOK
<1> QED
  BY <1>9, <1>10

\* Subscriptions are no business of the rooms.
LEMMA WatchRoomsOK ==
  ASSUME Inv, NEW c \in Clients, NEW rids \in SUBSET RIDs, WatchRooms(c, rids)
  PROVE  Inv'
<1> DEFINE w == [r \in RIDs |-> [watchers[r] EXCEPT ![c] =
                   IF r \in rids THEN Status(rooms[r]) ELSE Nil]]
           d == [Directory EXCEPT !.watchers = w]
<1>1. \A r \in RIDs : Status(rooms[r]) \in Statuses
  BY StatusType DEF Inv, TypeOK
<1>2. w \in [RIDs -> [Clients -> Statuses \cup {Nil}]]
  BY <1>1 DEF Inv, TypeOK
<1>3. Becomes(d)
  BY DEF WatchRooms, Becomes, Directory
<1> HIDE DEF w
<1>4. DirectoryOK(d) /\ d.rooms = rooms
  BY <1>2, DirectoryIsOK DEF DirectoryOK, DirectoryType
<1> HIDE DEF d
<1>5. Shrinks(Directory, d)
  BY <1>4 DEF Shrinks, Directory
<1>6. tombstones' \subseteq RIDs /\ UNCHANGED <<registered, rid, cid, issued>>
  BY DEF WatchRooms, Inv, TypeOK
<1> QED
  BY <1>3, <1>4, <1>5, <1>6, RemovalOK

\* Only a suspended participant has an eviction timer, so that its callback
\* evicts: the check for a return finds none.
LEMMA HardEvictionOK ==
  ASSUME Inv, NEW r \in RIDs, NEW p \in CIDs, HardEvictionFires(r, p)
  PROVE  Inv'
<1>1. /\ DirectoryOK(Directory) /\ Directory.rooms = rooms /\ rooms[r] # Nil
      /\ RoomOK(rooms[r]) /\ {p} \in SUBSET CIDs
  BY DirectoryIsOK DEF HardEvictionFires, Inv, RoomsOK, Live
<1>2. IsSuspended(rooms[r], p)
  BY <1>1 DEF HardEvictionFires, RoomOK, SlotsAreTimed, Suspended, IsSuspended
<1>3. PICK heir \in Heirs(rooms[r], {p}) :
        Becomes(RemoveParticipants(Directory, r, {p}, heir))
  BY <1>2 DEF HardEvictionFires
<1> DEFINE d == RemoveParticipants(Directory, r, {p}, heir)
<1>4. DirectoryOK(d) /\ Shrinks(Directory, d)
  BY <1>1, <1>3, RemoveOK
<1>5. Becomes(d)
  BY <1>3
<1>6. tombstones' \subseteq RIDs /\ UNCHANGED <<registered, rid, cid, issued>>
  BY DEF HardEvictionFires, Inv, TypeOK
<1> HIDE DEF d
<1> QED
  BY <1>4, <1>5, <1>6, RemovalOK

\* The no-active timer is armed only in rooms nobody is attached to.
LEMMA NoActiveTimerOK ==
  ASSUME Inv, NEW r \in RIDs, NoActiveTimerFires(r)
  PROVE  Inv'
<1> DEFINE put == Put(Directory, r, Nil)
           d == NotifyWatchers(put, r)
<1>1. /\ DirectoryOK(Directory) /\ Directory.rooms = rooms /\ RoomOK(rooms[r])
      /\ rooms \in [RIDs -> RoomType \cup {Nil}]
  BY DirectoryIsOK DEF NoActiveTimerFires, Inv, RoomsOK, Live, TypeOK
<1>2. ActiveClients(rooms[r]) = {}
  BY <1>1, ActiveIffAttached DEF NoActiveTimerFires, RoomOK, GhostRoomIsTimed
<1>3. Becomes(d)
  BY <1>2 DEF NoActiveTimerFires
<1>4. DirectoryOK(put) /\ put.rooms = [rooms EXCEPT ![r] = Nil]
  BY <1>1, PutOK
<1> HIDE DEF put
<1>5. DirectoryOK(d) /\ d.rooms = [rooms EXCEPT ![r] = Nil]
  BY <1>1, <1>4, NotifyOK
<1> HIDE DEF d
<1>6. Shrinks(Directory, d)
  BY <1>1, <1>5 DEF Shrinks
<1>7. tombstones' \subseteq RIDs /\ UNCHANGED <<registered, rid, cid, issued>>
  BY DEF NoActiveTimerFires, Inv, TypeOK
<1> QED
  BY <1>3, <1>5, <1>6, <1>7, RemovalOK

\* The passing of time only moves hints.
LEMMA HintsMoveOK ==
  ASSUME Inv, NEW r \in RIDs, rooms[r] # Nil,
         NEW dw \in SUBSET Suspended(rooms[r]), NEW sn \in SUBSET rooms[r].members,
         rooms' = [rooms EXCEPT ![r] = [rooms[r] EXCEPT !.dwelt = dw, !.seen = sn]],
         UNCHANGED <<tombstones, registered, rid, cid, issued, told, watchers>>
  PROVE  Inv'
<1> DEFINE room == [rooms[r] EXCEPT !.dwelt = dw, !.seen = sn]
<1>1. RoomOK(rooms[r]) /\ rooms[r] \in RoomType
  BY DEF Inv, RoomsOK, Live, RoomOK
<1>2. RoomOK(room)
  BY <1>1, HintsOK
<1>3. room.members = rooms[r].members /\ room.byClient = rooms[r].byClient
  BY <1>1 DEF RoomType
<1>4. rooms' = [rooms EXCEPT ![r] = room]
  OBVIOUS
<1> HIDE DEF room
<1> QED
  BY <1>2, <1>3, <1>4, SilentUpdateOK

\* A suspension that grows old enough to be a ghost.
LEMMA DwellOK ==
  ASSUME Inv, NEW r \in RIDs, NEW p \in CIDs, DwellPasses(r, p)
  PROVE  Inv'
<1>1. /\ RoomOK(rooms[r]) /\ rooms[r] \in RoomType /\ rooms[r] # Nil
      /\ rooms \in [RIDs -> RoomType \cup {Nil}]
  BY DEF DwellPasses, Inv, RoomsOK, Live, RoomOK, TypeOK
<1> DEFINE dw == rooms[r].dwelt \cup {p}
<1>2. dw \in SUBSET Suspended(rooms[r]) /\ rooms[r].seen \in SUBSET rooms[r].members
  BY <1>1 DEF DwellPasses, RoomOK, HintsAreOfMembers
<1>3. rooms' = [rooms EXCEPT ![r] = [rooms[r] EXCEPT !.dwelt = dw, !.seen = rooms[r].seen]]
  BY <1>1 DEF DwellPasses, RoomType
<1>4. UNCHANGED <<tombstones, registered, rid, cid, issued, told, watchers>>
  BY DEF DwellPasses
<1> HIDE DEF dw
<1> QED
  BY <1>1, <1>2, <1>3, <1>4, HintsMoveOK

\* A media report that is too old to count.
LEMMA StaleReportOK ==
  ASSUME Inv, NEW r \in RIDs, NEW p \in CIDs, ReportGoesStale(r, p)
  PROVE  Inv'
<1>1. /\ RoomOK(rooms[r]) /\ rooms[r] \in RoomType /\ rooms[r] # Nil
      /\ rooms \in [RIDs -> RoomType \cup {Nil}]
  BY DEF ReportGoesStale, Inv, RoomsOK, Live, RoomOK, TypeOK
<1> DEFINE sn == rooms[r].seen \ {p}
<1>2. sn \in SUBSET rooms[r].members /\ rooms[r].dwelt \in SUBSET Suspended(rooms[r])
  BY <1>1 DEF RoomOK, HintsAreOfMembers
<1>3. rooms' = [rooms EXCEPT ![r] = [rooms[r] EXCEPT !.dwelt = rooms[r].dwelt, !.seen = sn]]
  BY <1>1 DEF ReportGoesStale, RoomType
<1>4. UNCHANGED <<tombstones, registered, rid, cid, issued, told, watchers>>
  BY DEF ReportGoesStale
<1> HIDE DEF sn
<1> QED
  BY <1>1, <1>2, <1>3, <1>4, HintsMoveOK

\* A tombstone that expires.
LEMMA TombstoneExpiresOK ==
  ASSUME Inv, NEW r \in RIDs, TombstoneExpires(r)
  PROVE  Inv'
<1>1. Becomes(Directory) /\ DirectoryOK(Directory) /\ Shrinks(Directory, Directory)
  BY DirectoryIsOK, ShrinksRefl DEF TombstoneExpires, Becomes, Directory
<1>2. tombstones' \subseteq RIDs /\ UNCHANGED <<registered, rid, cid, issued>>
  BY DEF TombstoneExpires, Inv, TypeOK
<1> QED
  BY <1>1, <1>2, RemovalOK

\* A restarted server has no rooms; the tokens it signed outlive it.
LEMMA RestartOK ==
  ASSUME Inv, Restart
  PROVE  Inv'
<1>1. TypeOK'
  BY DEF Inv, TypeOK, Restart
<1>2. \A r \in RIDs : rooms'[r] = Nil
  BY DEF Restart
<1> QED
  BY <1>1, <1>2 DEF Inv, RoomsOK, SeatIsIdentity, MembersHoldTokens, Live

-----------------------------------------------------------------------------
\* The invariant of the hub.

\* The server starts with no rooms.
LEMMA InitOK == Init => Inv
<1> SUFFICES ASSUME Init PROVE Inv
  OBVIOUS
<1>1. TypeOK
  BY DEF Init, TypeOK
<1>2. \A r \in RIDs : rooms[r] = Nil
  BY DEF Init
<1> QED
  BY <1>1, <1>2 DEF Inv, RoomsOK, SeatIsIdentity, MembersHoldTokens, Live

\* Every handler, timer and restart preserves the invariant.
LEMMA NextOK == Inv /\ [Next]_vars => Inv'
<1> SUFFICES ASSUME Inv, [Next]_vars PROVE Inv'
  OBVIOUS
<1>1. CASE UNCHANGED vars
  BY <1>1 DEF vars, Inv, TypeOK, RoomsOK, SeatIsIdentity, MembersHoldTokens, Live
<1>2. ASSUME NEW c \in Clients, Connect(c) PROVE Inv'
  BY <1>2, ConnectOK
<1>3. ASSUME NEW c \in Clients, Disconnect(c) PROVE Inv'
  BY <1>3, DisconnectOK
<1>4. ASSUME NEW c \in Clients, Join(c) PROVE Inv'
  BY <1>4, JoinOK
<1>5. ASSUME NEW c \in Clients, Leave(c) PROVE Inv'
  BY <1>5, LeaveOK
<1>6. ASSUME NEW c \in Clients, EndRoom(c) PROVE Inv'
  BY <1>6, EndRoomOK
<1>7. ASSUME NEW c \in Clients, NEW to \in CIDs \cup {Nil}, Relay(c, to) PROVE Inv'
  BY <1>7, RelayOK
<1>8. ASSUME NEW c \in Clients, NEW reported \in SUBSET CIDs, ReportLiveness(c, reported)
      PROVE Inv'
  BY <1>8, ReportLivenessOK
<1>9. ASSUME NEW c \in Clients, NEW rids \in SUBSET RIDs, WatchRooms(c, rids) PROVE Inv'
  BY <1>9, WatchRoomsOK
<1>10. ASSUME NEW old \in Clients, NEW new \in Clients,
              TakeOverIdle(old, new) \/ TakeOver(new, old)
       PROVE Inv'
  BY <1>10, TakeOverIdleOK, TakeOverOK
<1>11. ASSUME NEW r \in RIDs, NoActiveTimerFires(r) \/ TombstoneExpires(r) PROVE Inv'
  BY <1>11, NoActiveTimerOK, TombstoneExpiresOK
<1>12. ASSUME NEW r \in RIDs, NEW p \in CIDs,
              LeaveByToken(r, p) \/ HardEvictionFires(r, p)
       PROVE Inv'
  BY <1>12, LeaveByTokenOK, HardEvictionOK
<1>13. ASSUME NEW r \in RIDs, NEW p \in CIDs, DwellPasses(r, p) \/ ReportGoesStale(r, p)
       PROVE Inv'
  BY <1>13, DwellOK, StaleReportOK
<1>14. CASE Restart
  BY <1>14, RestartOK
<1> QED
  BY <1>1, <1>2, <1>3, <1>4, <1>5, <1>6, <1>7, <1>8, <1>9, <1>10, <1>11, <1>12,
     <1>13, <1>14 DEF Next

\* The inductive invariant holds in every reachable state.
THEOREM InvHolds == Spec => []Inv
<1> QED
  BY InitOK, NextOK, PTL DEF Spec

\* What the invariant says of the hub, property by property.
LEMMA InvImplies ==
  Inv => /\ TypeOK /\ IndexesConsistent /\ SeatIsIdentity /\ HostPresent
         /\ SlotsTimed /\ GhostRoomsTimed /\ DirtyPairsConsistent /\ HintsConsistent
         /\ CapacityHolds
<1> SUFFICES ASSUME Inv
             PROVE  /\ TypeOK /\ IndexesConsistent /\ SeatIsIdentity
                    /\ HostPresent /\ SlotsTimed /\ GhostRoomsTimed
                    /\ DirtyPairsConsistent /\ HintsConsistent /\ CapacityHolds
  OBVIOUS
<1>1. \A r \in Live : RoomOK(rooms[r])
  BY DEF Inv, RoomsOK
<1>2. IndexesConsistent /\ HostPresent /\ SlotsTimed /\ GhostRoomsTimed
  BY <1>1 DEF IndexesConsistent, HostPresent, SlotsTimed, GhostRoomsTimed, RoomOK
<1>3. DirtyPairsConsistent /\ HintsConsistent /\ CapacityHolds
  BY <1>1 DEF DirtyPairsConsistent, HintsConsistent, CapacityHolds, RoomOK
<1> QED
  BY <1>2, <1>3 DEF Inv

\* Every variable of the hub keeps its type.
THEOREM TypeCorrect == Spec => []TypeOK
<1> QED
  BY InvHolds, InvImplies, PTL

\* No room is ever over its capacity, and a provisional room has one member:
\* the checks of handleJoin, made under the lock that admits the newcomer, are
\* enough for any number of clients and any mix of capabilities.
THEOREM CapacityTheorem == Spec => []CapacityHolds
<1> QED
  BY InvHolds, InvImplies, PTL

\* An attached transport is registered and its fields name its seat, so that
\* its loss always suspends the participant it stands for.
THEOREM SeatTheorem == Spec => []SeatIsIdentity
<1> QED
  BY InvHolds, InvImplies, PTL

\* Whatever happened, every room has consistent indexes and a member as host; a
\* suspended participant, and no other, has its eviction timer running, and the
\* no-active timer runs exactly in ghost rooms, so that no place is held by
\* somebody no timer will remove; renegotiation marks and media hints are about
\* members, and a mark about one that is away.
THEOREM RoomsTheorem == Spec => []RoomsInOrder
<1>1. Inv => RoomsInOrder
  BY InvImplies DEF RoomsInOrder
<1> QED
  BY <1>1, InvHolds, PTL

-----------------------------------------------------------------------------
(***************************************************************************)
(* What participants and watchers were told.  No handler changes what      *)
(* room_state or a status update shows without sending it.                 *)
(***************************************************************************)

Attached(d, r, c) == d.rooms[r] # Nil /\ d.rooms[r].byClient[c] # Nil

\* PeersUpToDate and WatchersUpToDate for a directory in the middle of a step.
ToldOK(d) ==
  \A r \in RIDs, c \in Clients : Attached(d, r, c) => d.told[c] = Snapshot(d.rooms[r])
WatchedOK(d) ==
  \A r \in RIDs, c \in Clients :
    d.watchers[r][c] # Nil => d.watchers[r][c] = Status(d.rooms[r])

\* No transport sits in two rooms: to tell one room its state does not
\* overwrite what a participant of another was told.
OneSeat(d) ==
  \A q, r \in RIDs, c \in Clients : Attached(d, q, c) /\ Attached(d, r, c) => q = r

\* From d to e nobody starts to watch.
NoNewWatcher(d, e) ==
  \A r \in RIDs, c \in Clients : e.watchers[r][c] # Nil => d.watchers[r][c] # Nil

\* e differs from d in the room at r, and whoever is concerned was told.
Informs(d, e, r) ==
  /\ \A q \in RIDs \ {r} : e.rooms[q] = d.rooms[q]
  /\ \A c \in Clients : Attached(e, r, c) => e.told[c] = Snapshot(e.rooms[r])
  /\ \A q \in RIDs \ {r}, c \in Clients : Attached(d, q, c) => e.told[c] = d.told[c]
  /\ \A c \in Clients : e.watchers[r][c] # Nil =>
       d.watchers[r][c] # Nil /\ e.watchers[r][c] = Status(e.rooms[r])
  /\ \A q \in RIDs \ {r}, c \in Clients :
       e.watchers[q][c] # Nil => e.watchers[q][c] = d.watchers[q][c]

\* The invariant of what was told.
Current == PeersUpToDate /\ WatchersUpToDate

\* An informing change keeps everyone up to date.
LEMMA InformsOK ==
  ASSUME NEW d, NEW e, NEW r \in RIDs, Informs(d, e, r), ToldOK(d), WatchedOK(d)
  PROVE  ToldOK(e) /\ WatchedOK(e) /\ NoNewWatcher(d, e)
<1>1. ToldOK(e)
  BY DEF Informs, ToldOK, Attached
<1>2. WatchedOK(e)
  BY DEF Informs, WatchedOK
<1>3. NoNewWatcher(d, e)
  BY DEF Informs, NoNewWatcher
<1> QED
  BY <1>1, <1>2, <1>3

\* Between two handlers the directory is up to date, and no transport sits twice.
LEMMA DirectoryIsCurrent ==
  ASSUME Inv, Current
  PROVE  /\ ToldOK(Directory) /\ WatchedOK(Directory) /\ OneSeat(Directory)
         /\ \A r \in RIDs, c \in Clients : Directory.watchers[r][c] # Nil => c \in registered
<1>1. ToldOK(Directory)
  BY DEF Current, PeersUpToDate, Live, ActiveClients, ToldOK, Attached, Directory
<1>2. /\ WatchedOK(Directory)
      /\ \A r \in RIDs, c \in Clients : Directory.watchers[r][c] # Nil => c \in registered
  BY DEF Current, WatchersUpToDate, WatchedOK, Directory
<1>3. OneSeat(Directory)
  BY AttachedHoldsSeat DEF OneSeat, Attached, Directory
<1> QED
  BY <1>1, <1>2, <1>3

\* A step to an up-to-date directory keeps everyone up to date.
LEMMA EstablishCurrent ==
  ASSUME NEW d, Becomes(d), ToldOK(d), WatchedOK(d),
         \A r \in RIDs, c \in Clients : d.watchers[r][c] # Nil => c \in registered'
  PROVE  Current'
<1>1. rooms' = d.rooms /\ told' = d.told /\ watchers' = d.watchers
  BY DEF Becomes
<1>2. PeersUpToDate'
  BY <1>1 DEF PeersUpToDate, Live, ActiveClients, ToldOK, Attached
<1>3. WatchersUpToDate'
  BY <1>1 DEF WatchersUpToDate, WatchedOK
<1> QED
  BY <1>2, <1>3 DEF Current

\* Who is attached after a shrinking change was attached before, in the same room.
LEMMA OneSeatShrinks ==
  ASSUME NEW d, NEW e, Shrinks(d, e), OneSeat(d)
  PROVE  OneSeat(e)
BY DEF Shrinks, OneSeat, Attached

\* e tells the participants of other rooms than r, and watchers, nothing new.
Quiet(d, e, r) ==
  /\ e.rooms = d.rooms
  /\ \A q \in RIDs \ {r}, c \in Clients : Attached(d, q, c) => e.told[c] = d.told[c]
  /\ \A q \in RIDs, c \in Clients : e.watchers[q][c] \in {d.watchers[q][c], Nil}

\* A room that is stored, broadcast and announced.
LEMMA PublishInforms ==
  ASSUME NEW d, NEW e, DirectoryOK(e), NEW r \in RIDs, Quiet(d, e, r),
         NEW room, RoomOK(room),
         \A q \in RIDs \ {r}, c \in Clients : Attached(d, q, c) => room.byClient[c] = Nil
  PROVE  Informs(d, NotifyWatchers(Broadcast(Put(e, r, room), r), r), r)
<1> DEFINE p == Put(e, r, room)
           b == Broadcast(p, r)
           f == NotifyWatchers(b, r)
<1>1. e \in DirectoryType /\ room # Nil /\ room \in RoomType
  BY HubAssumption DEF DirectoryOK, RoomOK
<1>2. /\ p.rooms = [e.rooms EXCEPT ![r] = room] /\ p.told = e.told
      /\ p.watchers = e.watchers /\ p = [e EXCEPT !.rooms = p.rooms]
  BY <1>1 DEF Put, DirectoryType
<1>3. p \in DirectoryType
  BY <1>1, <1>2 DEF DirectoryType
<1> HIDE DEF p
<1>4. /\ b.rooms = p.rooms /\ b.watchers = p.watchers /\ b = [p EXCEPT !.told = b.told]
      /\ b.told = [c \in Clients |-> IF p.rooms[r].byClient[c] # Nil
                                     THEN Snapshot(p.rooms[r]) ELSE p.told[c]]
  BY <1>3 DEF Broadcast, DirectoryType
<1>5. DOMAIN b = DOMAIN p /\ b.watchers \in [RIDs -> [Clients -> Statuses \cup {Nil}]]
  BY <1>3, <1>4 DEF DirectoryType
<1> HIDE DEF b
<1>6. /\ f.rooms = b.rooms /\ f.told = b.told
      /\ f.watchers = [b.watchers EXCEPT ![r] = [c \in Clients |->
           IF b.watchers[r][c] = Nil THEN Nil ELSE Status(b.rooms[r])]]
  BY <1>3, <1>4 DEF NotifyWatchers, DirectoryType
<1> HIDE DEF f
<1>7. e.rooms \in [RIDs -> RoomType \cup {Nil}]
  BY <1>1 DEF DirectoryType
<1>8. f.rooms[r] = room /\ \A q \in RIDs \ {r} : f.rooms[q] = d.rooms[q]
  BY <1>2, <1>4, <1>6, <1>7 DEF Quiet
<1>9. \A c \in Clients : Attached(f, r, c) => f.told[c] = Snapshot(f.rooms[r])
  BY <1>2, <1>4, <1>6, <1>7, <1>8 DEF Attached
<1>10. \A q \in RIDs \ {r}, c \in Clients : Attached(d, q, c) => f.told[c] = d.told[c]
  BY <1>2, <1>4, <1>6, <1>7 DEF Quiet
<1>11. \A c \in Clients : f.watchers[r][c] # Nil =>
         d.watchers[r][c] # Nil /\ f.watchers[r][c] = Status(f.rooms[r])
  BY <1>2, <1>4, <1>5, <1>6 DEF Quiet
<1>12. \A q \in RIDs \ {r}, c \in Clients :
         f.watchers[q][c] # Nil => f.watchers[q][c] = d.watchers[q][c]
  BY <1>2, <1>4, <1>5, <1>6 DEF Quiet
<1> QED
  BY <1>8, <1>9, <1>10, <1>11, <1>12 DEF Informs, f, b, p

\* A room that is deleted and announced.
LEMMA ClearInforms ==
  ASSUME NEW d, NEW e, DirectoryOK(e), NEW r \in RIDs, Quiet(d, e, r)
  PROVE  Informs(d, NotifyWatchers(Put(e, r, Nil), r), r)
<1> DEFINE p == Put(e, r, Nil)
           f == NotifyWatchers(p, r)
<1>1. e \in DirectoryType
  BY DEF DirectoryOK
<1>2. /\ p.rooms = [e.rooms EXCEPT ![r] = Nil] /\ p.told = e.told
      /\ p.watchers = e.watchers /\ p = [e EXCEPT !.rooms = p.rooms]
  BY <1>1 DEF Put, DirectoryType
<1>3. p \in DirectoryType
  BY <1>1, <1>2 DEF DirectoryType
<1> HIDE DEF p
<1>4. /\ f.rooms = p.rooms /\ f.told = p.told
      /\ f.watchers = [p.watchers EXCEPT ![r] = [c \in Clients |->
           IF p.watchers[r][c] = Nil THEN Nil ELSE Status(p.rooms[r])]]
      /\ p.watchers \in [RIDs -> [Clients -> Statuses \cup {Nil}]]
  BY <1>3 DEF NotifyWatchers, DirectoryType
<1> HIDE DEF f
<1>5. e.rooms \in [RIDs -> RoomType \cup {Nil}]
  BY <1>1 DEF DirectoryType
<1>6. f.rooms[r] = Nil /\ \A q \in RIDs \ {r} : f.rooms[q] = d.rooms[q]
  BY <1>2, <1>4, <1>5 DEF Quiet
<1>7. \A q \in RIDs \ {r}, c \in Clients : Attached(d, q, c) => f.told[c] = d.told[c]
  BY <1>2, <1>4 DEF Quiet
<1>8. \A c \in Clients : f.watchers[r][c] # Nil =>
        d.watchers[r][c] # Nil /\ f.watchers[r][c] = Status(f.rooms[r])
  BY <1>2, <1>4 DEF Quiet
<1>9. \A q \in RIDs \ {r}, c \in Clients :
        f.watchers[q][c] # Nil => f.watchers[q][c] = d.watchers[q][c]
  BY <1>2, <1>4 DEF Quiet
<1> QED
  BY <1>6, <1>7, <1>8, <1>9 DEF Informs, Attached, f, p

\* Cutting transports off is quiet for the other rooms if they sat in none.
LEMMA ForgetQuiet ==
  ASSUME NEW d, DirectoryOK(d), NEW cs, NEW r \in RIDs,
         \A q \in RIDs \ {r}, c \in Clients : Attached(d, q, c) => c \notin cs
  PROVE  Quiet(d, Forget(d, cs), r)
BY DEF Quiet, Forget, DirectoryOK, DirectoryType

\* Ending subscriptions tells no seated participant of another room anything.
LEMMA DismissQuiet ==
  ASSUME NEW d, DirectoryOK(d), NEW cs, NEW r \in RIDs,
         \A q \in RIDs \ {r}, c \in Clients : Attached(d, q, c) => c \notin cs
  PROVE  /\ Quiet(d, Dismiss(d, cs), r)
         /\ \A q \in RIDs, c \in Clients \cap cs : Dismiss(d, cs).watchers[q][c] = Nil
<1> DEFINE f == Forget(d, cs)
           w == [q \in RIDs |-> [c \in Clients |-> IF c \in cs THEN Nil ELSE f.watchers[q][c]]]
           e == Dismiss(d, cs)
<1>0. f.watchers = d.watchers
  BY DEF Forget, DirectoryOK, DirectoryType
<1>1. Quiet(d, f, r) /\ f \in DirectoryType /\ f.watchers = d.watchers
  <2>1. Quiet(d, f, r) /\ DirectoryOK(f)
    BY ForgetQuiet, ForgetOK
  <2> QED
    BY <1>0, <2>1 DEF DirectoryOK
<1> HIDE DEF f
<1>2. e = [f EXCEPT !.watchers = w]
  BY DEF Dismiss, f
<1>3. e.rooms = f.rooms /\ e.told = f.told /\ e.watchers = w
  BY <1>1, <1>2 DEF DirectoryType
<1> HIDE DEF e
<1>4. \A q \in RIDs, c \in Clients : e.watchers[q][c] = IF c \in cs THEN Nil ELSE d.watchers[q][c]
  BY <1>1, <1>3
<1> HIDE DEF w
<1>5. Quiet(d, e, r)
  BY <1>1, <1>3, <1>4 DEF Quiet
<1> QED
  BY <1>4, <1>5 DEF e

\* A removal tells the room and its watchers.
LEMMA RemoveInforms ==
  ASSUME NEW d, DirectoryOK(d), OneSeat(d), NEW r \in RIDs, d.rooms[r] # Nil,
         NEW gone \in SUBSET CIDs, NEW heir \in Heirs(d.rooms[r], gone)
  PROVE  Informs(d, RemoveParticipants(d, r, gone, heir), r)
<1> DEFINE old == d.rooms[r]
           room == Depart(old, gone, heir)
           orphaned == {c \in Clients : old.byClient[c] \in gone}
           left == Forget(d, orphaned)
           e == RemoveParticipants(d, r, gone, heir)
<1>1. RoomOK(old) /\ old \in RoomType
  BY DEF DirectoryOK, RoomOK
<1>2. e = NotifyWatchers(IF room.members = {} THEN Put(left, r, Nil)
                         ELSE Broadcast(Put(left, r, room), r), r)
  BY DEF RemoveParticipants
<1>3. /\ room.members = old.members \ gone
      /\ room.byClient = [c \in Clients |-> IF old.byClient[c] \in gone THEN Nil
                                            ELSE old.byClient[c]]
  BY <1>1, DepartFields
<1>4. \A q \in RIDs \ {r}, c \in Clients : Attached(d, q, c) => old.byClient[c] = Nil
  BY DEF OneSeat, Attached
<1>5. DirectoryOK(left) /\ Quiet(d, left, r)
  <2>1. \A q \in RIDs \ {r}, c \in Clients : Attached(d, q, c) => c \notin orphaned
    BY <1>4, RoomAssumption
  <2> HIDE DEF orphaned
  <2> QED
    BY <2>1, ForgetOK, ForgetQuiet
<1> HIDE DEF left, e
<1>6. CASE room.members = {}
  BY <1>2, <1>5, <1>6, ClearInforms DEF e
<1>7. CASE room.members # {}
  <2>1. RoomOK(room)
    BY <1>1, <1>3, <1>7, DepartOK
  <2>2. \A q \in RIDs \ {r}, c \in Clients : Attached(d, q, c) => room.byClient[c] = Nil
    BY <1>3, <1>4
  <2>3. e = NotifyWatchers(Broadcast(Put(left, r, room), r), r)
    BY <1>2, <1>7
  <2> HIDE DEF room, old
  <2> QED
    BY <1>5, <2>1, <2>2, <2>3, PublishInforms DEF e
<1> QED
  BY <1>6, <1>7

\* A removal by a handler that lets no transport go.
LEMMA RemovalCurrent ==
  ASSUME Inv, Current, NEW r \in RIDs, rooms[r] # Nil, NEW gone \in SUBSET CIDs,
         NEW heir \in Heirs(rooms[r], gone),
         Becomes(RemoveParticipants(Directory, r, gone, heir)), registered' = registered
  PROVE  Current'
<1> DEFINE e == RemoveParticipants(Directory, r, gone, heir)
<1>1. DirectoryOK(Directory) /\ Directory.rooms = rooms
  BY DirectoryIsOK
<1>2. /\ ToldOK(Directory) /\ WatchedOK(Directory) /\ OneSeat(Directory)
      /\ \A q \in RIDs, c \in Clients : Directory.watchers[q][c] # Nil => c \in registered
  BY DirectoryIsCurrent
<1>3. Informs(Directory, e, r)
  BY <1>1, <1>2, RemoveInforms
<1> HIDE DEF e
<1>4. ToldOK(e) /\ WatchedOK(e) /\ NoNewWatcher(Directory, e)
  BY <1>2, <1>3, InformsOK
<1>5. Becomes(e)
  BY DEF e
<1> QED
  BY <1>2, <1>4, <1>5, EstablishCurrent DEF NoNewWatcher

\* A leave handler broadcasts the room it shrank.
LEMMA LeaveCurrent ==
  ASSUME Inv, Current, NEW c \in Clients, Leave(c)
  PROVE  Current'
BY HolderIsAttached, RemovalCurrent DEF Leave

\* The hard-eviction timer broadcasts the room it shrank.
LEMMA HardEvictionCurrent ==
  ASSUME Inv, Current, NEW r \in RIDs, NEW p \in CIDs, HardEvictionFires(r, p)
  PROVE  Current'
<1>1. rooms[r] # Nil /\ RoomOK(rooms[r]) /\ registered' = registered /\ {p} \in SUBSET CIDs
  BY DEF HardEvictionFires, Inv, RoomsOK, Live
<1>2. IsSuspended(rooms[r], p)
  BY <1>1 DEF HardEvictionFires, RoomOK, SlotsAreTimed, Suspended, IsSuspended
<1>3. PICK heir \in Heirs(rooms[r], {p}) :
        Becomes(RemoveParticipants(Directory, r, {p}, heir))
  BY <1>2 DEF HardEvictionFires
<1> QED
  BY <1>1, <1>3, RemovalCurrent

\* Transports that are dismissed sit nowhere and watch nothing.
LEMMA DismissCurrent ==
  ASSUME NEW d, DirectoryOK(d), NEW cs, ToldOK(d), WatchedOK(d),
         \A q \in RIDs, c \in Clients : Attached(d, q, c) => c \notin cs
  PROVE  LET e == Dismiss(d, cs) IN
         /\ ToldOK(e) /\ WatchedOK(e) /\ NoNewWatcher(d, e)
         /\ \A q \in RIDs, c \in Clients : e.watchers[q][c] # Nil => c \notin cs
<1> DEFINE e == Dismiss(d, cs)
<1>1. ASSUME NEW r \in RIDs
      PROVE  /\ Quiet(d, e, r)
             /\ \A q \in RIDs, c \in Clients \cap cs : e.watchers[q][c] = Nil
  BY DismissQuiet
<1>2. e.rooms = d.rooms
  BY DismissOK
<1>3. \A c \in Clients : c \notin cs => e.told[c] = d.told[c]
  BY DEF Dismiss, Forget, DirectoryOK, DirectoryType
<1> HIDE DEF e
<1>4. ToldOK(e)
  BY <1>2, <1>3 DEF ToldOK, Attached
<1>5. WatchedOK(e) /\ NoNewWatcher(d, e)
  BY <1>1, <1>2 DEF WatchedOK, Quiet, NoNewWatcher
<1> QED
  BY <1>1, <1>4, <1>5 DEF e

\* So does the leave endpoint, whether or not a transport holds the seat.
LEMMA LeaveByTokenCurrent ==
  ASSUME Inv, Current, NEW r \in RIDs, NEW p \in CIDs, LeaveByToken(r, p)
  PROVE  Current'
<1> DEFINE cut == {rooms[r].client[p]} \ {Nil}
<1>1. /\ DirectoryOK(Directory) /\ Directory.rooms = rooms /\ rooms[r] # Nil
      /\ RoomOK(rooms[r]) /\ {p} \in SUBSET CIDs /\ registered' = registered \ cut
  BY DirectoryIsOK DEF LeaveByToken, Inv, RoomsOK, Live
<1>2. /\ ToldOK(Directory) /\ WatchedOK(Directory) /\ OneSeat(Directory)
      /\ \A q \in RIDs, c \in Clients : Directory.watchers[q][c] # Nil => c \in registered
  BY DirectoryIsCurrent
<1>3. PICK heir \in Heirs(rooms[r], {p}) :
        Becomes(Dismiss(RemoveParticipants(Directory, r, {p}, heir), cut))
  BY DEF LeaveByToken
<1> DEFINE e == RemoveParticipants(Directory, r, {p}, heir)
           d == Dismiss(e, cut)
<1>4. /\ DirectoryOK(e) /\ Shrinks(Directory, e) /\ Informs(Directory, e, r)
      /\ e.rooms[r] # Nil => \A x \in Clients : e.rooms[r].byClient[x] \notin {p}
  BY <1>1, <1>2, <1>3, RemoveOK, RemoveInforms
<1>5. Becomes(d)
  BY <1>3
<1> HIDE DEF e
<1>6. ToldOK(e) /\ WatchedOK(e) /\ NoNewWatcher(Directory, e)
  BY <1>2, <1>4, InformsOK
<1>7. \A x \in cut : x \in Clients => rooms[r].byClient[x] = p
  BY <1>1 DEF RoomOK, IndexesAgree
<1> HIDE DEF cut
<1>8. ASSUME NEW q \in RIDs, NEW c \in Clients, Attached(e, q, c)
      PROVE  c \notin cut
  <2>1. SUFFICES ASSUME c \in cut PROVE FALSE
    OBVIOUS
  <2>2. Attached(Directory, q, c) /\ e.rooms[q].byClient[c] = rooms[q].byClient[c]
    BY <1>1, <1>4, <1>8 DEF Shrinks, Attached
  <2>3. rooms[r].byClient[c] = p /\ Attached(Directory, r, c)
    BY <1>1, <1>7, <2>1, RoomAssumption DEF Attached
  <2>4. q = r
    BY <1>2, <2>2, <2>3 DEF OneSeat
  <2> QED
    BY <1>4, <1>8, <2>2, <2>3, <2>4 DEF Attached
<1>9. /\ ToldOK(d) /\ WatchedOK(d) /\ NoNewWatcher(e, d)
      /\ \A q \in RIDs, c \in Clients : d.watchers[q][c] # Nil => c \notin cut
  BY <1>4, <1>6, <1>8, DismissCurrent
<1> HIDE DEF d
<1> QED
  BY <1>1, <1>2, <1>5, <1>6, <1>9, EstablishCurrent DEF NoNewWatcher

\* Ending a room unseats everyone, so only its watchers are owed the news.
LEMMA EndRoomCurrent ==
  ASSUME Inv, Current, NEW c \in Clients, EndRoom(c)
  PROVE  Current'
<1> DEFINE r == rid[c]
           left == Forget(Directory, ActiveClients(rooms[r]))
           d == NotifyWatchers(Put(left, r, Nil), r)
<1>1. /\ r \in RIDs /\ rooms[r] # Nil /\ registered' = registered
      /\ DirectoryOK(Directory) /\ Directory.rooms = rooms
  BY DirectoryIsOK DEF EndRoom, InRoom, Inv, TypeOK
<1>2. /\ ToldOK(Directory) /\ WatchedOK(Directory) /\ OneSeat(Directory)
      /\ \A q \in RIDs, x \in Clients : Directory.watchers[q][x] # Nil => x \in registered
  BY DirectoryIsCurrent
<1>3. \A q \in RIDs \ {r}, x \in Clients :
        Attached(Directory, q, x) => x \notin ActiveClients(rooms[r])
  BY <1>1, <1>2 DEF OneSeat, Attached, ActiveClients
<1>4. DirectoryOK(left) /\ Quiet(Directory, left, r)
  BY <1>1, <1>3, ForgetOK, ForgetQuiet
<1>5. Becomes(d)
  BY DEF EndRoom
<1> HIDE DEF left
<1>6. Informs(Directory, d, r)
  BY <1>1, <1>4, ClearInforms
<1> HIDE DEF d
<1> QED
  BY <1>1, <1>2, <1>5, <1>6, InformsOK, EstablishCurrent DEF NoNewWatcher

\* The no-active timer closes a room where nobody is seated.
LEMMA NoActiveTimerCurrent ==
  ASSUME Inv, Current, NEW r \in RIDs, NoActiveTimerFires(r)
  PROVE  Current'
<1> DEFINE d == NotifyWatchers(Put(Directory, r, Nil), r)
<1>1. /\ rooms[r] # Nil /\ RoomOK(rooms[r]) /\ registered' = registered
      /\ DirectoryOK(Directory) /\ Directory.rooms = rooms
  BY DirectoryIsOK DEF NoActiveTimerFires, Inv, RoomsOK, Live
<1>2. /\ ToldOK(Directory) /\ WatchedOK(Directory)
      /\ \A q \in RIDs, x \in Clients : Directory.watchers[q][x] # Nil => x \in registered
  BY DirectoryIsCurrent
<1>3. ActiveClients(rooms[r]) = {}
  BY <1>1, ActiveIffAttached DEF NoActiveTimerFires, RoomOK, GhostRoomIsTimed
<1>4. Becomes(d)
  BY <1>3 DEF NoActiveTimerFires
<1>5. Quiet(Directory, Directory, r)
  BY DEF Quiet
<1>6. Informs(Directory, d, r)
  BY <1>1, <1>5, ClearInforms
<1> HIDE DEF d
<1> QED
  BY <1>1, <1>2, <1>4, <1>6, InformsOK, EstablishCurrent DEF NoNewWatcher

\* A change of a room that none of its messages shows.
LEMMA SilentCurrent ==
  ASSUME Inv, Current, NEW r \in RIDs, rooms[r] # Nil, NEW room,
         Snapshot(room) = Snapshot(rooms[r]), room.members = rooms[r].members,
         room.max = rooms[r].max, room.byClient = rooms[r].byClient,
         rooms' = [rooms EXCEPT ![r] = room], room # Nil,
         registered' = registered, told' = told, watchers' = watchers
  PROVE  Current'
<1>1. rooms'[r] = room /\ \A q \in RIDs \ {r} : rooms'[q] = rooms[q]
  BY DEF Inv, TypeOK
<1>2. PeersUpToDate'
  BY <1>1 DEF Current, PeersUpToDate, Live, ActiveClients
<1>3. WatchersUpToDate'
  BY <1>1 DEF Current, WatchersUpToDate, Status
<1> QED
  BY <1>2, <1>3 DEF Current

\* Relayed messages change nothing that is shown, except a content state.
LEMMA RelayCurrent ==
  ASSUME Inv, Current, NEW c \in Clients, NEW to, Relay(c, to)
  PROVE  Current'
<1> DEFINE r == rid[c]
           from == rooms[r].byClient[c]
           missed == {p \in Suspended(rooms[r]) \ {from} : to \in {Nil, p}}
           room == MarkDirty(rooms[r], from, missed)
<1>1. r \in RIDs /\ rooms[r] # Nil /\ rooms[r] \in RoomType
  BY SenderIsMember DEF Relay, RoomOK
<1>2. /\ room.members = rooms[r].members /\ room.byClient = rooms[r].byClient
      /\ room.max = rooms[r].max /\ room.host = rooms[r].host
      /\ room.client = rooms[r].client /\ room.epoch = rooms[r].epoch
      /\ room # Nil
  <2>1. /\ room.members = rooms[r].members /\ room.byClient = rooms[r].byClient
        /\ room.max = rooms[r].max /\ room.host = rooms[r].host
        /\ room.client = rooms[r].client /\ room.epoch = rooms[r].epoch
    BY <1>1 DEF MarkDirty, RoomType
  <2>2. RoomOK(room)
    <3>1. RoomOK(rooms[r]) /\ from \in rooms[r].members
      BY SenderIsMember DEF Relay
    <3> QED
      BY <3>1, MarkDirtyOK
  <2> QED
    BY <2>1, <2>2, HubAssumption DEF RoomOK
<1>3. rooms' = [rooms EXCEPT ![r] = room] /\ UNCHANGED <<registered, told, watchers>>
  BY DEF Relay
<1> HIDE DEF room
<1>4. Snapshot(room) = Snapshot(rooms[r])
  BY <1>2 DEF Snapshot, Active, Suspended
<1> QED
  BY <1>1, <1>2, <1>3, <1>4, SilentCurrent

\* Hints are shown to nobody.
LEMMA HintsMoveCurrent ==
  ASSUME Inv, Current, NEW r \in RIDs, rooms[r] # Nil,
         NEW dw \in SUBSET CIDs, NEW sn \in SUBSET CIDs,
         rooms' = [rooms EXCEPT ![r] = [rooms[r] EXCEPT !.dwelt = dw, !.seen = sn]],
         registered' = registered, told' = told, watchers' = watchers
  PROVE  Current'
<1> DEFINE room == [rooms[r] EXCEPT !.dwelt = dw, !.seen = sn]
<1>1. rooms[r] \in RoomType
  BY DEF Inv, TypeOK
<1>2. /\ room.members = rooms[r].members /\ room.byClient = rooms[r].byClient
      /\ room.max = rooms[r].max /\ room.host = rooms[r].host
      /\ room.client = rooms[r].client /\ room.epoch = rooms[r].epoch
  BY <1>1 DEF RoomType
<1>3. room # Nil
  <2>1. room \in RoomType
    BY <1>1 DEF RoomType
  <2> QED
    BY <2>1, HubAssumption
<1>4. rooms' = [rooms EXCEPT ![r] = room]
  OBVIOUS
<1> HIDE DEF room
<1>5. Snapshot(room) = Snapshot(rooms[r])
  BY <1>2 DEF Snapshot, Active, Suspended
<1> QED
  BY <1>2, <1>3, <1>4, <1>5, SilentCurrent

\* Time that passes changes nothing that is shown.
LEMMA TimePassesCurrent ==
  ASSUME Inv, Current, NEW r \in RIDs, NEW p \in CIDs,
         DwellPasses(r, p) \/ ReportGoesStale(r, p)
  PROVE  Current'
<1>1. rooms[r] # Nil /\ rooms[r] \in RoomType /\ UNCHANGED <<registered, told, watchers>>
  BY DEF DwellPasses, ReportGoesStale, Inv, TypeOK
<1>0. rooms[r].dwelt \in SUBSET CIDs /\ rooms[r].seen \in SUBSET CIDs
  BY <1>1 DEF RoomType
<1>2. CASE DwellPasses(r, p)
  <2> DEFINE dw == rooms[r].dwelt \cup {p}
  <2>0. dw \in SUBSET CIDs
    BY <1>0
  <2>1. rooms' = [rooms EXCEPT ![r] = [rooms[r] EXCEPT !.dwelt = dw,
                                                       !.seen = rooms[r].seen]]
    BY <1>1, <1>2 DEF DwellPasses, RoomType, Inv, TypeOK
  <2> HIDE DEF dw
  <2> QED
    BY <1>0, <1>1, <2>0, <2>1, HintsMoveCurrent
<1>3. CASE ReportGoesStale(r, p)
  <2> DEFINE sn == rooms[r].seen \ {p}
  <2>0. sn \in SUBSET CIDs
    BY <1>0
  <2>1. rooms' = [rooms EXCEPT ![r] = [rooms[r] EXCEPT !.dwelt = rooms[r].dwelt,
                                                       !.seen = sn]]
    BY <1>1, <1>3 DEF ReportGoesStale, RoomType, Inv, TypeOK
  <2> HIDE DEF sn
  <2> QED
    BY <1>0, <1>1, <2>0, <2>1, HintsMoveCurrent
<1> QED
  BY <1>2, <1>3

\* What does not touch rooms, messages or subscriptions.
LEMMA ConnectCurrent ==
  ASSUME Inv, Current,
         \/ \E c \in Clients : Connect(c)
         \/ \E r \in RIDs : TombstoneExpires(r)
  PROVE  Current'
<1>1. rooms' = rooms /\ told' = told /\ watchers' = watchers /\ registered \subseteq registered'
  BY DEF Connect, TombstoneExpires
<1> QED
  BY <1>1 DEF Current, PeersUpToDate, WatchersUpToDate, Live, ActiveClients

\* After a restart nobody is seated and nobody watches.
LEMMA RestartCurrent ==
  ASSUME Restart
  PROVE  Current'
BY DEF Restart, Current, PeersUpToDate, WatchersUpToDate, Live, ActiveClients

\* A new watcher gets the status of the rooms as they are.
LEMMA WatchRoomsCurrent ==
  ASSUME Inv, Current, NEW c \in Clients, NEW rids \in SUBSET RIDs, WatchRooms(c, rids)
  PROVE  Current'
<1>1. UNCHANGED <<rooms, told, registered>> /\ c \in registered
  BY DEF WatchRooms
<1>2. PeersUpToDate'
  BY <1>1 DEF Current, PeersUpToDate, Live, ActiveClients
<1>3. \A r \in RIDs, x \in Clients : watchers'[r][x] =
        IF x = c THEN IF r \in rids THEN Status(rooms[r]) ELSE Nil ELSE watchers[r][x]
  BY DEF WatchRooms, Inv, TypeOK
<1>4. WatchersUpToDate'
  BY <1>1, <1>3 DEF Current, WatchersUpToDate, Status
<1> QED
  BY <1>2, <1>4 DEF Current

\* The subscriptions a stream inherits are as current as they were.
LEMMA InheritedOK ==
  ASSUME Inv, Current, NEW old \in registered, NEW new \in Clients \ registered
  PROVE  /\ Inherited(old, new) \in [RIDs -> [Clients -> Statuses \cup {Nil}]]
         /\ \A r \in RIDs, x \in Clients : Inherited(old, new)[r][x] # Nil =>
              Inherited(old, new)[r][x] = Status(rooms[r]) /\ x \in Roster(new, old)
<1>1. old \in Clients /\ watchers \in [RIDs -> [Clients -> Statuses \cup {Nil}]]
  BY DEF Inv, TypeOK
<1>2. \A r \in RIDs, x \in Clients : Inherited(old, new)[r][x] =
        IF x = old THEN Nil ELSE IF x = new THEN watchers[r][old] ELSE watchers[r][x]
  BY <1>1 DEF Inherited
<1>3. Inherited(old, new) \in [RIDs -> [Clients -> Statuses \cup {Nil}]]
  BY <1>1 DEF Inherited
<1> QED
  BY <1>1, <1>2, <1>3 DEF Current, WatchersUpToDate, Roster

\* A takeover of a stream without a seat hands its subscriptions over.
LEMMA TakeOverIdleCurrent ==
  ASSUME Inv, Current, NEW old \in Clients, NEW new \in Clients, TakeOverIdle(old, new)
  PROVE  Current'
<1>1. /\ UNCHANGED <<rooms, told>> /\ watchers' = Inherited(old, new)
      /\ registered' = Roster(new, old) /\ old \in registered /\ new \notin registered
  BY DEF TakeOverIdle, Roster
<1>2. PeersUpToDate'
  BY <1>1 DEF Current, PeersUpToDate, Live, ActiveClients
<1>3. WatchersUpToDate'
  BY <1>1, InheritedOK DEF WatchersUpToDate, Status
<1> QED
  BY <1>2, <1>3 DEF Current

\* An informing change subscribes nobody.
LEMMA InformsAddsNoWatcher ==
  ASSUME NEW d, NEW e, NEW r \in RIDs, Informs(d, e, r)
  PROVE  NoNewWatcher(d, e)
BY DEF Informs, NoNewWatcher

\* A lost transport watches nothing any more.
LEMMA DisconnectCurrent ==
  ASSUME Inv, Current, NEW c \in Clients, Disconnect(c)
  PROVE  Current'
<1> DEFINE r == rid[c]
           room == BumpEpoch(Suspend(rooms[r], cid[c]))
           gone == Dismiss(Directory, {c})
           f == NotifyWatchers(Broadcast(Put(gone, r, room), r), r)
<1>1. /\ DirectoryOK(Directory) /\ Directory.rooms = rooms
      /\ DirectoryOK(gone) /\ gone.rooms = rooms
  BY DirectoryIsOK, DismissOK
<1>2. /\ ToldOK(Directory) /\ WatchedOK(Directory) /\ OneSeat(Directory)
      /\ \A q \in RIDs, x \in Clients : Directory.watchers[q][x] # Nil => x \in registered
  BY DirectoryIsCurrent
<1>3. registered' = registered \ {c} /\ Becomes(IF HoldsSeat(c) THEN f ELSE gone)
  BY DEF Disconnect
<1>4. ASSUME NEW q \in RIDs, \A p \in RIDs \ {q}, x \in Clients :
               Attached(Directory, p, x) => x \notin {c}
      PROVE  /\ Quiet(Directory, gone, q)
             /\ \A p \in RIDs : gone.watchers[p][c] = Nil
  <2> DEFINE cut == {c}
  <2>1. /\ \A p \in RIDs \ {q}, x \in Clients : Attached(Directory, p, x) => x \notin cut
        /\ gone = Dismiss(Directory, cut) /\ c \in Clients \cap cut /\ DirectoryOK(Directory)
    BY <1>1, <1>4
  <2> HIDE DEF cut, gone
  <2>2. /\ Quiet(Directory, Dismiss(Directory, cut), q)
        /\ \A p \in RIDs, x \in Clients \cap cut : Dismiss(Directory, cut).watchers[p][x] = Nil
    BY ONLY q \in RIDs, <2>1, DismissQuiet
  <2> QED
    BY <2>1, <2>2
<1> HIDE DEF gone
<1>5. CASE HoldsSeat(c)
  <2>1. /\ r \in RIDs /\ cid[c] \in CIDs /\ rooms[r] # Nil /\ RoomOK(rooms[r])
        /\ IsActive(rooms[r], cid[c]) /\ rooms[r].client[cid[c]] = c
        /\ rooms[r].byClient[c] = cid[c]
    BY <1>5, HolderIsAttached
  <2>2. SeatingOK(rooms[r], cid[c]) /\ HostIsMember(rooms[r]) /\ rooms[r] \in RoomType
    BY <2>1, SeatedInOrder DEF RoomOK
  <2>3. RoomOK(room)
    BY <2>1, <2>2, SuspendOK, BumpEpochOK DEF BumpEpoch
  <2>4. room.byClient = [x \in Clients |-> IF x = c THEN Nil ELSE rooms[r].byClient[x]]
    BY <2>1, <2>2, SuspendFields
  <2>5. \A q \in RIDs \ {r}, x \in Clients : Attached(Directory, q, x) =>
          x \notin {c} /\ room.byClient[x] = Nil
    BY <1>1, <1>2, <2>1, <2>4, RoomAssumption DEF OneSeat, Attached
  <2> HIDE DEF room
  <2>6. Quiet(Directory, gone, r) /\ \A p \in RIDs : gone.watchers[p][c] = Nil
    BY <1>4, <2>1, <2>5
  <2>7. Informs(Directory, f, r)
    BY <1>1, <2>1, <2>3, <2>5, <2>6, PublishInforms
  <2>8. Quiet(gone, gone, r) /\ \A q \in RIDs \ {r}, x \in Clients :
          Attached(gone, q, x) => room.byClient[x] = Nil
    BY <1>1, <2>5 DEF Quiet, Attached
  <2>9. Informs(gone, f, r)
    BY <1>1, <2>1, <2>3, <2>8, PublishInforms
  <2>10. Becomes(f)
    BY <1>3, <1>5
  <2> HIDE DEF f
  <2>11. /\ ToldOK(f) /\ WatchedOK(f) /\ NoNewWatcher(Directory, f) /\ NoNewWatcher(gone, f)
    BY <1>2, <2>1, <2>7, <2>9, InformsOK, InformsAddsNoWatcher
  <2>12. \A q \in RIDs, x \in Clients : f.watchers[q][x] # Nil => x \in registered'
    BY <1>2, <1>3, <2>6, <2>11 DEF NoNewWatcher
  <2> QED
    BY <2>10, <2>11, <2>12, EstablishCurrent
<1>6. CASE ~HoldsSeat(c)
  <2>1. \A q \in RIDs, x \in Clients : Attached(Directory, q, x) => x \notin {c}
    BY <1>1, <1>6, AttachedHoldsSeat DEF Attached
  <2>2. /\ ToldOK(gone) /\ WatchedOK(gone) /\ NoNewWatcher(Directory, gone)
        /\ \A q \in RIDs, x \in Clients : gone.watchers[q][x] # Nil => x \notin {c}
    BY <1>1, <1>2, <2>1, DismissCurrent DEF gone
  <2>3. Becomes(gone)
    BY <1>3, <1>6
  <2> QED
    BY <1>2, <1>3, <2>2, <2>3, EstablishCurrent DEF NoNewWatcher
<1> QED
  BY <1>5, <1>6

\* A report changes what is shown only if it removes ghosts.
LEMMA ReportLivenessCurrent ==
  ASSUME Inv, Current, NEW c \in Clients, NEW reported \in SUBSET CIDs,
         ReportLiveness(c, reported)
  PROVE  Current'
<1> DEFINE r == rid[c]
           room == rooms[r]
           hints == (reported \cap room.members) \ {room.byClient[c]}
           heard == RecordLiveness(room, hints)
           ghosts == Ghosts(heard)
           d == Put(Directory, r, heard)
<1>1. r \in RIDs /\ room # Nil /\ RoomOK(room) /\ room \in RoomType
      /\ registered' = registered
  BY SenderIsMember DEF ReportLiveness, RoomOK
<1>2. IF ghosts = {} THEN Becomes(d)
      ELSE \E heir \in Heirs(heard, ghosts) : Becomes(RemoveParticipants(d, r, ghosts, heir))
  BY DEF ReportLiveness
<1>3. /\ heard.members = room.members /\ heard.byClient = room.byClient
      /\ heard.max = room.max /\ heard.host = room.host
      /\ heard.client = room.client /\ heard.epoch = room.epoch
  BY <1>1 DEF RecordLiveness, RoomType
<1>4. RoomOK(heard)
  <2>1. room.dwelt \in SUBSET Suspended(room) /\ room.seen \cup hints \in SUBSET room.members
    BY <1>1 DEF RoomOK, HintsAreOfMembers
  <2>2. heard = [room EXCEPT !.dwelt = room.dwelt, !.seen = room.seen \cup hints]
    BY <1>1 DEF RecordLiveness, RoomType
  <2> HIDE DEF heard, room, hints
  <2>3. RoomOK([room EXCEPT !.dwelt = room.dwelt, !.seen = room.seen \cup hints])
    BY <1>1, <2>1, HintsOK
  <2> QED
    BY <2>2, <2>3
<1>5. ghosts \in SUBSET CIDs /\ heard # Nil
  BY <1>4, HubAssumption DEF Ghosts, Suspended, RoomOK, RoomType
<1>6. Snapshot(heard) = Snapshot(room)
  BY <1>3 DEF Snapshot, Active, Suspended
<1> HIDE DEF heard, ghosts
<1>7. DirectoryOK(Directory) /\ Directory.rooms = rooms
  BY DirectoryIsOK
<1>8. /\ DirectoryOK(d) /\ d.rooms = [rooms EXCEPT ![r] = heard]
      /\ d.told = told /\ d.watchers = watchers
  <2>1. DirectoryOK(d) /\ d.rooms = [Directory.rooms EXCEPT ![r] = heard]
    BY ONLY <1>1, <1>4, <1>7, PutOK
  <2>2. d.told = told /\ d.watchers = watchers
    BY DEF Put, Directory
  <2> QED
    BY <1>7, <2>1, <2>2
<1>9. rooms \in [RIDs -> RoomType \cup {Nil}]
  BY DEF Inv, TypeOK
<1> HIDE DEF d
<1>10. d.rooms[r] = heard /\ \A q \in RIDs \ {r} : d.rooms[q] = rooms[q]
  BY <1>1, <1>8, <1>9
<1>11. /\ ToldOK(Directory) /\ WatchedOK(Directory) /\ OneSeat(Directory)
       /\ \A q \in RIDs, x \in Clients : Directory.watchers[q][x] # Nil => x \in registered
  BY DirectoryIsCurrent
<1>12. ToldOK(d) /\ OneSeat(d)
  BY <1>1, <1>3, <1>5, <1>6, <1>7, <1>8, <1>10, <1>11 DEF ToldOK, OneSeat, Attached, Directory
<1>13. Status(heard) = Status(room)
  BY <1>1, <1>3, <1>5 DEF Status
<1>14. WatchedOK(d)
  BY <1>1, <1>8, <1>10, <1>11, <1>13 DEF WatchedOK, Directory
<1>15. \A q \in RIDs, x \in Clients : d.watchers[q][x] # Nil => x \in registered'
  BY <1>1, <1>8, <1>11 DEF Directory
<1>16. CASE ghosts = {}
  BY <1>2, <1>12, <1>14, <1>15, <1>16, EstablishCurrent
<1>17. CASE ghosts # {}
  <2>1. PICK heir \in Heirs(heard, ghosts) : Becomes(RemoveParticipants(d, r, ghosts, heir))
    BY <1>2, <1>17
  <2> DEFINE e == RemoveParticipants(d, r, ghosts, heir)
  <2>2. Informs(d, e, r)
    BY <1>1, <1>5, <1>8, <1>10, <1>12, <2>1, RemoveInforms
  <2>3. Becomes(e)
    BY <2>1
  <2> HIDE DEF e
  <2>4. ToldOK(e) /\ WatchedOK(e) /\ NoNewWatcher(d, e)
    BY <1>1, <1>12, <1>14, <2>2, InformsOK
  <2> QED
    BY <1>15, <2>3, <2>4, EstablishCurrent DEF NoNewWatcher
<1> QED
  BY <1>16, <1>17

\* What a join starts from is up to date.
Ready(c, prev, d) ==
  /\ Vacant(c, prev, d)
  /\ ToldOK(d) /\ WatchedOK(d) /\ OneSeat(d)
  /\ \A r \in RIDs, x \in Clients : d.watchers[r][x] # Nil => x \in Roster(c, prev)

\* The leave that handleJoin starts with leaves everyone informed.
LEMMA VacatedCurrent ==
  ASSUME Inv, Current, NEW c \in Clients, NEW prev \in registered,
         prev = c \/ c \notin registered,
         NEW heir \in IF HoldsSeat(prev) THEN Heirs(rooms[rid[prev]], {cid[prev]}) ELSE {Nil}
  PROVE  Ready(c, prev, Vacated(c, prev, heir))
<1> DEFINE d == IF prev = c THEN Directory
                ELSE [Directory EXCEPT !.watchers = Inherited(prev, c)]
           e == Vacated(c, prev, heir)
<1>1. Vacant(c, prev, e)
  BY VacatedOK
<1>2. prev \in Clients
  BY DEF Inv, TypeOK
<1>3. /\ ToldOK(Directory) /\ WatchedOK(Directory) /\ OneSeat(Directory)
      /\ \A q \in RIDs, x \in Clients : Directory.watchers[q][x] # Nil => x \in registered
  BY DirectoryIsCurrent
<1>4. /\ d.rooms = rooms /\ d.told = told
      /\ d.watchers = IF prev = c THEN watchers ELSE Inherited(prev, c)
  BY DEF Directory
<1>5. DirectoryOK(d)
  <2>1. CASE prev = c
    BY <2>1, DirectoryIsOK
  <2>2. CASE prev # c
    BY <2>2, InheritedOK, DirectoryIsOK DEF DirectoryOK, DirectoryType
  <2> QED
    BY <2>1, <2>2
<1>6. e = IF HoldsSeat(prev) THEN RemoveParticipants(d, rid[prev], {cid[prev]}, heir) ELSE d
  BY DEF Vacated
<1> HIDE DEF d
<1>7. ToldOK(d) /\ OneSeat(d)
  BY <1>3, <1>4 DEF ToldOK, OneSeat, Attached, Directory
<1>8. /\ WatchedOK(d)
      /\ \A r \in RIDs, x \in Clients : d.watchers[r][x] # Nil => x \in Roster(c, prev)
  <2>1. CASE prev = c
    BY <1>3, <1>4, <2>1 DEF WatchedOK, Directory, Roster
  <2>2. CASE prev # c
    BY <1>4, <2>2, InheritedOK DEF WatchedOK
  <2> QED
    BY <2>1, <2>2
<1>9. OneSeat(e)
  BY <1>1, <1>3, OneSeatShrinks DEF Vacant
<1> HIDE DEF e
<1>10. CASE HoldsSeat(prev)
  <2>1. /\ rid[prev] \in RIDs /\ {cid[prev]} \in SUBSET CIDs /\ d.rooms[rid[prev]] # Nil
        /\ heir \in Heirs(d.rooms[rid[prev]], {cid[prev]})
    BY <1>2, <1>4, <1>10, HolderIsAttached
  <2>2. Informs(d, e, rid[prev])
    BY <1>5, <1>6, <1>7, <1>10, <2>1, RemoveInforms
  <2>3. ToldOK(e) /\ WatchedOK(e) /\ NoNewWatcher(d, e)
    BY <1>7, <1>8, <2>1, <2>2, InformsOK
  <2> QED
    BY <1>1, <1>8, <1>9, <2>3 DEF Ready, NoNewWatcher, e
<1>11. CASE ~HoldsSeat(prev)
  BY <1>1, <1>6, <1>7, <1>8, <1>9, <1>11 DEF Ready, e
<1> QED
  BY <1>10, <1>11

\* A join that succeeds tells the room; the ghost it evicts sat nowhere else.
LEMMA AdmitCurrent ==
  ASSUME Inv, Current, NEW c \in Clients, NEW prev \in registered, NEW m \in Requests,
         NEW d, Ready(c, prev, d), NEW room, NEW p, NEW ghost,
         JoinedOK(d, m.rid, room, c, p, ghost),
         NEW e, e = Dismiss(d, ghost) \/ (ghost = {} /\ e = d),
         Admit(c, m, e, room, p), registered' = Roster(c, prev) \ ghost
  PROVE  Current'
<1> DEFINE r == m.rid
           seated == Seat(room, p)
           f == NotifyWatchers(Broadcast(Put(e, r, seated), r), r)
<1>1. Becomes(f)
  BY DEF Admit
<1>2. RoomOK(seated) /\ seated.byClient = room.byClient
  BY SeatOK, SeatFields DEF JoinedOK, SeatingOK
<1>3. r \in RIDs /\ DirectoryOK(d) /\ ToldOK(d) /\ WatchedOK(d) /\ OneSeat(d)
  BY RequestType DEF Ready, Vacant
<1>4. /\ \A q \in RIDs \ {r}, x \in Clients : Attached(d, q, x) =>
           x \notin ghost /\ room.byClient[x] = Nil
  <2> SUFFICES ASSUME NEW q \in RIDs \ {r}, NEW x \in Clients, Attached(d, q, x)
               PROVE  x \notin ghost /\ room.byClient[x] = Nil
    OBVIOUS
  <2>1. x # c /\ ~Attached(d, r, x)
    BY <1>3 DEF Ready, Vacant, OneSeat, Attached
  <2> QED
    BY <2>1 DEF JoinedOK, Attached
<1>5. /\ DirectoryOK(e) /\ Quiet(d, e, r)
      /\ \A q \in RIDs, x \in Clients \cap ghost : e.watchers[q][x] = Nil
  <2>0. /\ \A q \in RIDs \ {r}, x \in Clients : Attached(d, q, x) => x \notin ghost
        /\ ghost \in SUBSET Clients
    BY <1>4 DEF JoinedOK
  <2>1. CASE e = Dismiss(d, ghost)
    <3>0. r \in RIDs /\ DirectoryOK(d)
      BY <1>3
    <3> HIDE DEF r
    <3>1. DirectoryOK(e)
      BY <3>0, <2>1, DismissOK
    <3>2. Quiet(d, e, r) /\ \A q \in RIDs, x \in Clients \cap ghost : e.watchers[q][x] = Nil
      BY <3>0, <2>0, <2>1, DismissQuiet
    <3> QED
      BY <3>1, <3>2
  <2>2. CASE ghost = {} /\ e = d
    BY <1>3, <2>2 DEF Quiet
  <2> QED
    BY <2>1, <2>2
<1>6. \A q \in RIDs \ {r}, x \in Clients : Attached(e, q, x) => seated.byClient[x] = Nil
  BY <1>2, <1>4, <1>5 DEF Quiet, Attached
<1> HIDE DEF seated
<1>7. Informs(d, f, r)
  BY <1>2, <1>3, <1>4, <1>5, PublishInforms
<1>8. Informs(e, f, r)
  <2>1. Quiet(e, e, r)
    BY DEF Quiet
  <2> QED
    BY <1>2, <1>3, <1>5, <1>6, <2>1, PublishInforms
<1> HIDE DEF f
<1>9. ToldOK(f) /\ WatchedOK(f) /\ NoNewWatcher(d, f) /\ NoNewWatcher(e, f)
  BY <1>3, <1>7, <1>8, InformsOK, InformsAddsNoWatcher
<1>10. \A q \in RIDs, x \in Clients : f.watchers[q][x] # Nil => x \in registered'
  BY <1>5, <1>9 DEF NoNewWatcher, Ready
<1> QED
  BY <1>1, <1>9, <1>10, EstablishCurrent

\* A reclaim broadcasts the room with the reclaimed seat.
LEMMA JoinReattachCurrent ==
  ASSUME Inv, Current, NEW c \in Clients, NEW prev \in registered, NEW m \in Requests,
         NEW d, Ready(c, prev, d), JoinReattach(c, prev, m, d)
  PROVE  Current'
<1>1. PICK room, ghost :
        /\ JoinedOK(d, m.rid, room, c, m.cid, ghost)
        /\ Admit(c, m, Dismiss(d, ghost), room, m.cid)
        /\ registered' = Roster(c, prev) \ ghost
  BY JoinReattachAdmits DEF Ready
<1> DEFINE e == Dismiss(d, ghost)
<1>2. e = Dismiss(d, ghost) \/ (ghost = {} /\ e = d)
  OBVIOUS
<1>3. Admit(c, m, e, room, m.cid)
  BY <1>1
<1> HIDE DEF e
<1> QED
  BY <1>1, <1>2, <1>3, AdmitCurrent

\* A fresh join broadcasts the room with the new participant.
LEMMA JoinFreshCurrent ==
  ASSUME Inv, Current, NEW c \in Clients, NEW prev \in registered, NEW m \in Requests,
         NEW d, Ready(c, prev, d), WellFormed(m), JoinFresh(c, prev, m, d)
  PROVE  Current'
<1>1. PICK room, p :
        /\ JoinedOK(d, m.rid, room, c, p, {}) /\ Admit(c, m, d, room, p)
        /\ registered' = Roster(c, prev)
  BY JoinFreshAdmits DEF Ready
<1>2. registered' = Roster(c, prev) \ {}
  BY <1>1
<1> QED
  BY <1>1, <1>2, AdmitCurrent

\* A refusal that changes no room is announced to nobody.
LEMMA RefusalCurrent ==
  ASSUME NEW c \in Clients, NEW prev \in registered, NEW d, Ready(c, prev, d), Becomes(d),
         registered' = Roster(c, prev)
  PROVE  Current'
BY EstablishCurrent DEF Ready

\* A refused token announces the eviction it causes, if any.
LEMMA RefuseTokenCurrent ==
  ASSUME Inv, Current, NEW c \in Clients, NEW prev \in registered, NEW m \in Requests,
         NEW d, Ready(c, prev, d), RefuseToken(c, prev, m, d)
  PROVE  Current'
<1> DEFINE evicts == /\ m.token = "expired" /\ d.rooms[m.rid] # Nil
                     /\ IsSuspended(d.rooms[m.rid], m.cid)
<1>1. /\ registered' = Roster(c, prev)
      /\ IF evicts THEN \E heir \in Heirs(d.rooms[m.rid], {m.cid}) :
                          Becomes(RemoveParticipants(d, m.rid, {m.cid}, heir))
         ELSE Becomes(d)
  BY DEF RefuseToken
<1>2. /\ DirectoryOK(d) /\ ToldOK(d) /\ WatchedOK(d) /\ OneSeat(d)
      /\ \A r \in RIDs, x \in Clients : d.watchers[r][x] # Nil => x \in Roster(c, prev)
  BY DEF Ready, Vacant
<1>3. CASE evicts
  <2>1. PICK heir \in Heirs(d.rooms[m.rid], {m.cid}) :
          Becomes(RemoveParticipants(d, m.rid, {m.cid}, heir))
    BY <1>1, <1>3
  <2>2. RoomOK(d.rooms[m.rid]) /\ m.rid \in RIDs
    BY <1>2, <1>3, RequestType DEF DirectoryOK
  <2>3. {m.cid} \in SUBSET CIDs
    BY <1>3, <2>2 DEF IsSuspended, RoomOK, RoomType
  <2> DEFINE e == RemoveParticipants(d, m.rid, {m.cid}, heir)
  <2>4. Informs(d, e, m.rid)
    BY <1>2, <1>3, <2>1, <2>2, <2>3, RemoveInforms
  <2>5. Becomes(e)
    BY <2>1
  <2> HIDE DEF e
  <2>6. ToldOK(e) /\ WatchedOK(e) /\ NoNewWatcher(d, e)
    BY <1>2, <2>2, <2>4, InformsOK
  <2> QED
    BY <1>1, <1>2, <2>5, <2>6, EstablishCurrent DEF NoNewWatcher
<1>4. CASE ~evicts
  BY <1>1, <1>4, RefusalCurrent
<1> QED
  BY <1>3, <1>4

\* A refused reclaim changes what is shown only if it evicts a ghost, and then
\* the others are told; it never changes the number of participants.
LEMMA RefuseReattachCurrent ==
  ASSUME Inv, Current, NEW c \in Clients, NEW prev \in registered, NEW m \in Requests,
         NEW d, Ready(c, prev, d), RefuseReattach(c, prev, m, d)
  PROVE  Current'
<1> DEFINE r == m.rid
           old == d.rooms[r]
<1>1. PICK room, ghost : LeavesSuspended(c, prev, m, d, room, ghost)
  BY RefuseReattachLeaves DEF Ready
<1> DEFINE left == Dismiss(d, ghost)
           e == Put(left, r, room)
           f == IF ghost = {} THEN e ELSE Broadcast(e, r)
<1>2. /\ RoomOK(room) /\ ghost \in SUBSET Clients /\ old # Nil
      /\ room.members = old.members /\ room.max = old.max
      /\ room.host = old.host /\ room.epoch = old.epoch
      /\ \A x \in Clients : room.byClient[x] # Nil => room.byClient[x] = old.byClient[x]
      /\ \A x \in ghost : old.byClient[x] # Nil
      /\ ghost = {} => room.client = old.client
      /\ registered' = Roster(c, prev) \ ghost
  BY <1>1 DEF LeavesSuspended
<1>3. Becomes(f)
  BY <1>1 DEF LeavesSuspended
<1>4. r \in RIDs /\ DirectoryOK(d) /\ ToldOK(d) /\ WatchedOK(d) /\ OneSeat(d)
      /\ \A q \in RIDs, x \in Clients : d.watchers[q][x] # Nil => x \in Roster(c, prev)
  BY RequestType DEF Ready, Vacant
<1>5. \A q \in RIDs \ {r}, x \in Clients : Attached(d, q, x) => x \notin ghost /\ room.byClient[x] = Nil
  BY <1>2, <1>4 DEF OneSeat, Attached
<1>6. /\ DirectoryOK(left) /\ Quiet(d, left, r) /\ left.rooms = d.rooms
      /\ \A q \in RIDs, x \in Clients \cap ghost : left.watchers[q][x] = Nil
  <2>1. /\ \A q \in RIDs \ {r}, x \in Clients : Attached(d, q, x) => x \notin ghost
        /\ r \in RIDs /\ DirectoryOK(d)
    BY <1>4, <1>5
  <2> HIDE DEF r, e, f
  <2>2. DirectoryOK(left) /\ left.rooms = d.rooms
    BY <2>1, DismissOK
  <2>3. /\ Quiet(d, left, r)
        /\ \A q \in RIDs, x \in Clients \cap ghost : left.watchers[q][x] = Nil
    BY <2>1, DismissQuiet
  <2> QED
    BY <2>2, <2>3
<1>61. \A x \in Clients : x \notin ghost => left.told[x] = d.told[x]
  BY <1>4 DEF Dismiss, Forget, DirectoryOK, DirectoryType
<1> HIDE DEF left
<1>7. /\ DirectoryOK(e) /\ e.rooms = [d.rooms EXCEPT ![r] = room]
      /\ e.told = left.told /\ e.watchers = left.watchers
  <2>1. DirectoryOK(e) /\ e.rooms = [left.rooms EXCEPT ![r] = room]
    BY <1>2, <1>4, <1>6, PutOK
  <2>2. e.told = left.told /\ e.watchers = left.watchers
    BY <1>6 DEF Put, DirectoryOK, DirectoryType
  <2> QED
    BY <1>6, <2>1, <2>2
<1> HIDE DEF e
<1>8. /\ e.rooms[r] = room /\ room # Nil
      /\ \A q \in RIDs \ {r} : e.rooms[q] = d.rooms[q]
  BY <1>2, <1>4, <1>7, HubAssumption DEF DirectoryOK, DirectoryType, RoomOK
<1>9. /\ f.rooms = e.rooms /\ f.watchers = e.watchers
      /\ f.told = IF ghost = {} THEN e.told
                  ELSE [x \in Clients |-> IF room.byClient[x] # Nil THEN Snapshot(room)
                                          ELSE e.told[x]]
  BY <1>7, <1>8 DEF Broadcast, DirectoryOK, DirectoryType
<1> HIDE DEF f
<1>10. Status(room) = Status(old)
  BY <1>2, <1>8 DEF Status
<1>11. WatchedOK(f) /\ \A q \in RIDs, x \in Clients : f.watchers[q][x] # Nil => x \in registered'
  BY <1>2, <1>4, <1>6, <1>7, <1>8, <1>9, <1>10 DEF WatchedOK, Quiet
<1>12. ghost = {} => Snapshot(room) = Snapshot(old)
  BY <1>2 DEF Snapshot, Active, Suspended
<1>13. ToldOK(f)
  <2> SUFFICES ASSUME NEW q \in RIDs, NEW x \in Clients, Attached(f, q, x)
               PROVE  f.told[x] = Snapshot(f.rooms[q])
    BY DEF ToldOK
  <2>1. CASE q = r
    <3>1. room.byClient[x] # Nil /\ f.rooms[q] = room
      BY <1>8, <1>9, <2>1 DEF Attached
    <3>2. CASE ghost = {}
      <4>1. Attached(d, r, x) /\ f.told[x] = d.told[x]
        BY <1>2, <1>61, <1>7, <1>9, <3>1, <3>2 DEF Attached
      <4> QED
        BY <1>4, <1>12, <3>1, <3>2, <4>1 DEF ToldOK
    <3>3. CASE ghost # {}
      BY <1>9, <3>1, <3>3
    <3> QED
      BY <3>2, <3>3
  <2>2. CASE q # r
    <3>1. Attached(d, q, x) /\ f.rooms[q] = d.rooms[q]
      BY <1>8, <1>9, <2>2 DEF Attached
    <3>2. f.told[x] = d.told[x]
      BY <1>5, <1>61, <1>7, <1>9, <2>2, <3>1
    <3> QED
      BY <1>4, <3>1, <3>2 DEF ToldOK
  <2> QED
    BY <2>1, <2>2
<1> QED
  BY <1>3, <1>11, <1>13, EstablishCurrent

\* Every outcome of handleJoin leaves everyone informed.
LEMMA HandleJoinCurrent ==
  ASSUME Inv, Current, NEW c \in Clients, NEW prev \in registered,
         prev = c \/ c \notin registered,
         NEW m \in Requests, WellFormed(m), HandleJoin(c, prev, m)
  PROVE  Current'
<1>1. PICK heir \in IF HoldsSeat(prev) THEN Heirs(rooms[rid[prev]], {cid[prev]}) ELSE {Nil} :
        LET d == Vacated(c, prev, heir) IN
        \/ RefuseToken(c, prev, m, d)
        \/ RefuseEnded(c, prev, m, d)
        \/ JoinReattach(c, prev, m, d)
        \/ RefuseReattach(c, prev, m, d)
        \/ JoinFresh(c, prev, m, d)
        \/ RefuseNewcomer(c, prev, m, d)
  BY DEF HandleJoin
<1>2. PICK d : d = Vacated(c, prev, heir)
  OBVIOUS
<1>3. Ready(c, prev, d)
  BY <1>1, <1>2, VacatedCurrent
<1>4. RefuseEnded(c, prev, m, d) => Current'
  BY <1>3, RefusalCurrent DEF RefuseEnded
<1>5. RefuseNewcomer(c, prev, m, d) => Current'
  BY <1>3, RefuseNewcomerKeeps, RefusalCurrent DEF RefuseNewcomer, Ready
<1> QED
  BY <1>1, <1>2, <1>3, <1>4, <1>5, RefuseTokenCurrent, JoinReattachCurrent,
     RefuseReattachCurrent, JoinFreshCurrent

\* Every handler, timer and restart keeps everyone up to date.
LEMMA NextCurrent == Inv /\ Current /\ [Next]_vars => Current'
<1> SUFFICES ASSUME Inv, Current, [Next]_vars PROVE Current'
  OBVIOUS
<1>1. CASE UNCHANGED vars
  BY <1>1 DEF vars, Current, PeersUpToDate, WatchersUpToDate, Live, ActiveClients
<1>2. ASSUME NEW c \in Clients,
             Disconnect(c) \/ Leave(c) \/ EndRoom(c) \/ Connect(c) \/ Join(c)
      PROVE  Current'
  BY <1>2, DisconnectCurrent, LeaveCurrent, EndRoomCurrent, ConnectCurrent,
     HandleJoinCurrent DEF Join
<1>3. ASSUME NEW c \in Clients, NEW to \in CIDs \cup {Nil}, Relay(c, to) PROVE Current'
  BY <1>3, RelayCurrent
<1>4. ASSUME NEW c \in Clients, NEW reported \in SUBSET CIDs, ReportLiveness(c, reported)
      PROVE  Current'
  BY <1>4, ReportLivenessCurrent
<1>5. ASSUME NEW c \in Clients, NEW rids \in SUBSET RIDs, WatchRooms(c, rids) PROVE Current'
  BY <1>5, WatchRoomsCurrent
<1>6. ASSUME NEW old \in Clients, NEW new \in Clients,
             TakeOverIdle(old, new) \/ TakeOver(new, old)
      PROVE  Current'
  BY <1>6, TakeOverIdleCurrent, HandleJoinCurrent DEF TakeOver
<1>7. ASSUME NEW r \in RIDs, NoActiveTimerFires(r) \/ TombstoneExpires(r) PROVE Current'
  BY <1>7, NoActiveTimerCurrent, ConnectCurrent
<1>8. ASSUME NEW r \in RIDs, NEW p \in CIDs,
             LeaveByToken(r, p) \/ HardEvictionFires(r, p)
      PROVE  Current'
  BY <1>8, LeaveByTokenCurrent, HardEvictionCurrent
<1>9. ASSUME NEW r \in RIDs, NEW p \in CIDs, DwellPasses(r, p) \/ ReportGoesStale(r, p)
      PROVE  Current'
  BY <1>9, TimePassesCurrent
<1>10. CASE Restart
  BY <1>10, RestartCurrent
<1> QED
  BY <1>1, <1>2, <1>3, <1>4, <1>5, <1>6, <1>7, <1>8, <1>9, <1>10 DEF Next

\* So what was told is what is.
LEMMA CurrentHolds == Spec => []Current
<1>1. Init => Current
  BY DEF Init, Current, PeersUpToDate, WatchersUpToDate, Live, ActiveClients
<1> QED
  BY <1>1, InvHolds, NextCurrent, PTL DEF Spec

\* Every attached participant was sent the room as it is now: no handler, of
\* however many that interleave, changes what room_state shows without
\* broadcasting it, and a broadcast to one room never reaches another.
THEOREM PeersTheorem == Spec => []PeersUpToDate
<1>1. Current => PeersUpToDate
  BY DEF Current
<1> QED
  BY <1>1, CurrentHolds, PTL

\* Every watcher was sent the occupancy of the room as it is now, and is a
\* transport the hub still knows, through takeovers, ghosts and lost streams.
THEOREM WatchersTheorem == Spec => []WatchersUpToDate
<1>1. Current => WatchersUpToDate
  BY DEF Current
<1> QED
  BY <1>1, CurrentHolds, PTL

-----------------------------------------------------------------------------
(***************************************************************************)
(* What one handler may do: the ended call, the epoch and the host.        *)
(***************************************************************************)

\* An ended room is closed for as long as its tombstone lasts.
TombstonesClosed == \A r \in tombstones : rooms[r] = Nil

\* The step does not seat anybody of the ended call: the room that appears
\* under a tombstone lifts it, and was never known to its participant.
Closed == TombstonesClosed' /\
  \A r \in tombstones : rooms'[r] # Nil => \A p \in rooms'[r].members : <<r, p>> \notin issued

\* A step that creates no room and ends none but with a tombstone.
LEMMA NoNewRoomCloses ==
  ASSUME TombstonesClosed, \A r \in RIDs : rooms[r] = Nil => rooms'[r] = Nil,
         tombstones \subseteq RIDs, \A r \in tombstones' \ tombstones : rooms'[r] = Nil
  PROVE  Closed
BY DEF Closed, TombstonesClosed

\* Removing participants creates no room.
LEMMA ShrinkingCloses ==
  ASSUME Inv, TombstonesClosed, NEW d, Shrinks(Directory, d), Becomes(d),
         tombstones' \subseteq tombstones
  PROVE  Closed
<1>1. \A r \in RIDs : rooms[r] = Nil => rooms'[r] = Nil
  BY DEF Shrinks, Directory, Becomes
<1> QED
  BY <1>1, NoNewRoomCloses DEF Inv, TypeOK

\* A join under a tombstone seats a newcomer alone, and lifts the tombstone.
LEMMA HandleJoinCloses ==
  ASSUME Inv, TombstonesClosed, NEW c \in Clients, NEW prev \in registered,
         prev = c \/ c \notin registered,
         NEW m \in Requests, WellFormed(m), HandleJoin(c, prev, m)
  PROVE  Closed
<1>1. PICK heir \in IF HoldsSeat(prev) THEN Heirs(rooms[rid[prev]], {cid[prev]}) ELSE {Nil} :
        LET d == Vacated(c, prev, heir) IN
        \/ RefuseToken(c, prev, m, d)
        \/ RefuseEnded(c, prev, m, d)
        \/ JoinReattach(c, prev, m, d)
        \/ RefuseReattach(c, prev, m, d)
        \/ JoinFresh(c, prev, m, d)
        \/ RefuseNewcomer(c, prev, m, d)
  BY DEF HandleJoin
<1> DEFINE d == Vacated(c, prev, heir)
           r == m.rid
<1>2. Vacant(c, prev, d)
  BY VacatedOK
<1> HIDE DEF d
<1>3. DirectoryOK(d) /\ Shrinks(Directory, d) /\ r \in RIDs /\ tombstones \subseteq RIDs
  BY <1>2, RequestType DEF Vacant, Inv, TypeOK
<1>4. \A q \in tombstones : d.rooms[q] = Nil
  BY <1>3 DEF Shrinks, Directory, TombstonesClosed
<1>5. CASE RefuseToken(c, prev, m, d)
  <2>1. tombstones' = tombstones
    BY <1>5 DEF RefuseToken
  <2>2. CASE Becomes(d)
    BY <1>3, <2>1, <2>2, ShrinkingCloses
  <2>3. CASE ~Becomes(d)
    <3>1. /\ d.rooms[r] # Nil /\ IsSuspended(d.rooms[r], m.cid)
          /\ \E h \in Heirs(d.rooms[r], {m.cid}) :
               Becomes(RemoveParticipants(d, r, {m.cid}, h))
      BY <1>5, <2>3 DEF RefuseToken
    <3>2. PICK h \in Heirs(d.rooms[r], {m.cid}) : Becomes(RemoveParticipants(d, r, {m.cid}, h))
      BY <3>1
    <3>3. {m.cid} \in SUBSET CIDs
      BY <1>3, <3>1 DEF IsSuspended, DirectoryOK, RoomOK, RoomType
    <3> DEFINE e == RemoveParticipants(d, r, {m.cid}, h)
    <3>4. Shrinks(d, e)
      BY <1>3, <3>1, <3>2, <3>3, RemoveOK
    <3>5. Becomes(e)
      BY <3>2
    <3> HIDE DEF e
    <3>6. Shrinks(Directory, e)
      BY <1>3, <3>4 DEF Shrinks
    <3> QED
      BY <2>1, <3>5, <3>6, ShrinkingCloses
  <2> QED
    BY <2>2, <2>3
<1>6. CASE RefuseEnded(c, prev, m, d) \/ RefuseNewcomer(c, prev, m, d)
  <2>1. Becomes(d) /\ tombstones' = tombstones
    BY <1>2, <1>6, RefuseNewcomerKeeps DEF RefuseEnded, RefuseNewcomer
  <2> QED
    BY <1>3, <2>1, ShrinkingCloses
<1>7. ASSUME NEW e, NEW room, NEW p, NEW ghost, Admit(c, m, e, room, p),
             DirectoryOK(e), e.rooms = d.rooms, JoinedOK(d, r, room, c, p, ghost),
             r \in tombstones => \A q \in RIDs : <<q, p>> \notin issued
      PROVE  Closed
  <2> DEFINE seated == Seat(room, p)
             f == NotifyWatchers(Broadcast(Put(e, r, seated), r), r)
  <2>1. Becomes(f) /\ tombstones' = tombstones \ {r}
    BY <1>7 DEF Admit
  <2>2. RoomOK(seated) /\ seated.members = room.members
    BY <1>7, SeatOK, SeatFields DEF JoinedOK, SeatingOK
  <2>3. r \in tombstones => seated.members \subseteq {p}
    BY <1>4, <1>7, <2>2 DEF JoinedOK
  <2> HIDE DEF seated
  <2>4. f.rooms = [d.rooms EXCEPT ![r] = seated]
    BY <1>3, <1>7, <2>2, PublishOK
  <2> HIDE DEF f
  <2>5. /\ rooms'[r] = seated
        /\ \A q \in RIDs \ {r} : rooms'[q] = d.rooms[q]
    BY <1>3, <2>1, <2>4 DEF Becomes, DirectoryOK, DirectoryType
  <2> QED
    BY <1>3, <1>4, <1>7, <2>1, <2>3, <2>5 DEF Closed, TombstonesClosed
<1>8. CASE JoinReattach(c, prev, m, d)
  <2>1. PICK room, ghost :
          JoinedOK(d, r, room, c, m.cid, ghost) /\ Admit(c, m, Dismiss(d, ghost), room, m.cid)
    BY <1>2, <1>8, JoinReattachAdmits
  <2>2. r \notin tombstones
    <3>1. m.cid \in RoomFor(m, d).members
      BY <1>8 DEF JoinReattach, Reclaims
    <3> QED
      BY <1>3, <1>4, <3>1, RoomForOK
  <2> DEFINE e == Dismiss(d, ghost)
  <2>3. Admit(c, m, e, room, m.cid) /\ DirectoryOK(e) /\ e.rooms = d.rooms
    BY <1>3, <2>1, DismissOK
  <2> HIDE DEF e
  <2> QED
    BY <1>7, <2>1, <2>2, <2>3
<1>9. CASE JoinFresh(c, prev, m, d)
  <2>1. PICK room, p :
          /\ JoinedOK(d, r, room, c, p, {}) /\ Admit(c, m, d, room, p)
          /\ m.token = "valid" \/ \A q \in RIDs : <<q, p>> \notin issued
    BY <1>2, <1>9, JoinFreshAdmits
  <2>2. r \in tombstones => m.token # "valid"
    BY <1>9 DEF JoinFresh, PassesGates
  <2> QED
    BY <1>3, <1>7, <2>1, <2>2
<1>10. CASE RefuseReattach(c, prev, m, d)
  <2>1. PICK room, ghost : LeavesSuspended(c, prev, m, d, room, ghost)
    BY <1>2, <1>10, RefuseReattachLeaves
  <2> DEFINE left == Dismiss(d, ghost)
             e == Put(left, r, room)
             f == IF ghost = {} THEN e ELSE Broadcast(e, r)
  <2>2. RoomOK(room) /\ d.rooms[r] # Nil /\ Becomes(f) /\ tombstones' = tombstones
    BY <2>1 DEF LeavesSuspended
  <2>3. DirectoryOK(left) /\ left.rooms = d.rooms
    BY <1>3, DismissOK
  <2> HIDE DEF left
  <2>4. DirectoryOK(e) /\ e.rooms = [d.rooms EXCEPT ![r] = room]
    BY <1>3, <2>2, <2>3, PutOK
  <2> HIDE DEF e
  <2>5. f.rooms = e.rooms
    BY DEF Broadcast, DirectoryOK, DirectoryType
  <2> HIDE DEF f
  <2>6. \A q \in RIDs : rooms[q] = Nil => rooms'[q] = Nil
    BY <1>3, <2>2, <2>4, <2>5 DEF Becomes, Shrinks, Directory, DirectoryOK, DirectoryType
  <2> QED
    BY <1>3, <2>2, <2>6, NoNewRoomCloses
<1> QED
  BY <1>1, <1>5, <1>6, <1>8, <1>9, <1>10 DEF d

-----------------------------------------------------------------------------
\* The epoch and the host of a room.

\* No step counts the epoch all the way round.  (It is a uint64.)
EpochIsWide == 2 < EpochModulus /\ Cardinality(CIDs) <= EpochModulus

\* The epoch b is k steps after a.
Ahead(a, b, k) == b = a + k \/ b = a + k - EpochModulus

\* The epoch moved by n at most, and it moved if who is there, or the host, did.
Counted(old, new, n) ==
  \E k \in 0 .. n :
    /\ Ahead(old.epoch, new.epoch, k)
    /\ k = 0 => new.members = old.members /\ new.host = old.host

\* A new host was attached before the change, or nobody stayed attached.
Hands(old, new) ==
  \/ new.host = old.host
  \/ IsActive(old, new.host)
  \/ Active(old) \cap Active(new) \subseteq {old.host}

Evolves(old, new) ==
  /\ Hands(old, new)
  /\ EpochIsWide => Counted(old, new, EpochModulus - 1)

\* What every handler but a join does to the rooms.
Minor ==
  \A r \in RIDs : rooms'[r] # Nil => rooms[r] # Nil /\ Evolves(rooms[r], rooms'[r])

\* An addition below the width wraps once at most.
LEMMA EpochAhead ==
  ASSUME NEW a \in 0 .. EpochModulus - 1, NEW n \in 0 .. EpochModulus - 1
  PROVE  Ahead(a, (a + n) % EpochModulus, n)
<1>1. EpochModulus \in Nat /\ EpochModulus > 0 /\ a \in Nat /\ n \in Nat
  BY RoomAssumption
<1>2. CASE a + n < EpochModulus
  <2>1. (a + n) % EpochModulus = a + n
    BY <1>1, <1>2
  <2> QED
    BY <2>1 DEF Ahead
<1>3. CASE a + n >= EpochModulus
  <2>1. (a + n) % EpochModulus = a + n - EpochModulus
    BY <1>1, <1>3
  <2> QED
    BY <2>1 DEF Ahead
<1> QED
  BY <1>1, <1>2, <1>3

\* A room whose participants, host and epoch stay evolves.
LEMMA EvolvesSilently ==
  ASSUME NEW old, RoomOK(old), NEW new,
         new.members = old.members, new.host = old.host, new.epoch = old.epoch
  PROVE  Evolves(old, new)
<1>1. old.epoch \in Nat /\ EpochModulus \in Nat /\ EpochModulus > 0
  BY RoomAssumption DEF RoomOK, RoomType
<1>2. Ahead(old.epoch, new.epoch, 0)
  BY <1>1 DEF Ahead
<1>3. 0 \in 0 .. EpochModulus - 1
  BY <1>1
<1> QED
  BY <1>2, <1>3 DEF Evolves, Hands, Counted

\* So does one that counts a change.
LEMMA EvolvesByOne ==
  ASSUME NEW old, RoomOK(old), NEW new, Hands(old, new),
         new.epoch = (old.epoch + 1) % EpochModulus
  PROVE  Evolves(old, new) /\ (EpochIsWide => Counted(old, new, 1))
<1> SUFFICES ASSUME EpochIsWide
             PROVE  Counted(old, new, 1) /\ Counted(old, new, EpochModulus - 1)
  BY DEF Evolves
<1>1. old.epoch \in 0 .. EpochModulus - 1 /\ EpochModulus \in Nat /\ EpochModulus > 2
  BY RoomAssumption DEF RoomOK, RoomType, EpochIsWide
<1>2. 1 \in 0 .. EpochModulus - 1 /\ 1 \in 0 .. 1 /\ 1 # 0
  BY <1>1
<1>3. Ahead(old.epoch, new.epoch, 1)
  BY <1>1, <1>2, EpochAhead
<1> QED
  BY <1>2, <1>3 DEF Counted

\* Departures count one each, and hand the host over to somebody attached, if
\* anybody is.
LEMMA DepartEvolves ==
  ASSUME NEW r, RoomOK(r), NEW gone \in SUBSET CIDs, r.members \ gone # {},
         NEW heir \in Heirs(r, gone)
  PROVE  LET a == Depart(r, gone, heir) IN
         /\ a.members = r.members \ gone /\ a.host = heir /\ Active(a) = Active(r) \ gone
         /\ a.epoch = (r.epoch + Cardinality(gone)) % EpochModulus
         /\ Evolves(r, a)
<1> DEFINE a == Depart(r, gone, heir)
<1>0. r \in RoomType
  BY DEF RoomOK
<1>1. /\ a.members = r.members \ gone /\ a.host = heir
      /\ a.client = [p \in CIDs |-> IF p \in gone THEN Nil ELSE r.client[p]]
      /\ a.epoch = (r.epoch + Cardinality(gone)) % EpochModulus
  BY <1>0 DEF Depart, BumpEpochBy, ArmNoActive, RoomType
<1>2. /\ r.members \subseteq CIDs /\ r.epoch \in 0 .. EpochModulus - 1
      /\ r.host \in r.members
  BY <1>0 DEF RoomType, RoomOK, HostIsMember
<1> HIDE DEF a
<1>3. Active(a) = Active(r) \ gone
  BY <1>1, <1>2 DEF Active
<1>4. Hands(r, a)
  BY <1>1, <1>3 DEF Hands, Heirs, Active, IsActive
<1>5. ASSUME EpochIsWide PROVE Counted(r, a, EpochModulus - 1)
  <2>1. /\ IsFiniteSet(CIDs) /\ IsFiniteSet(gone)
        /\ Cardinality(gone) \in Nat /\ Cardinality(CIDs) \in Nat
        /\ Cardinality(gone) < Cardinality(CIDs)
    BY <1>2, RoomAssumption, FS_Subset, FS_CardinalityType
  <2>2. EpochModulus \in Nat /\ Cardinality(CIDs) <= EpochModulus
    BY <1>5, RoomAssumption DEF EpochIsWide
  <2>3. Cardinality(gone) \in 0 .. EpochModulus - 1
    BY <2>1, <2>2
  <2>4. Ahead(r.epoch, a.epoch, Cardinality(gone))
    BY <1>1, <1>2, <2>3, EpochAhead
  <2>5. Cardinality(gone) = 0 => gone = {}
    BY <2>1, FS_EmptySet
  <2>6. gone = {} => a.members = r.members /\ a.host = r.host
    BY <1>1 DEF Heirs
  <2> QED
    BY <2>3, <2>4, <2>5, <2>6 DEF Counted
<1> QED
  BY <1>1, <1>3, <1>4, <1>5 DEF Evolves, a

\* The rooms after a removal.
LEMMA RemoveRooms ==
  ASSUME NEW d, DirectoryOK(d), NEW r \in RIDs, d.rooms[r] # Nil,
         NEW gone \in SUBSET CIDs, NEW heir \in Heirs(d.rooms[r], gone)
  PROVE  LET e == RemoveParticipants(d, r, gone, heir) IN
         /\ d.rooms[r].members \ gone = {} => e.rooms[r] = Nil
         /\ d.rooms[r].members \ gone # {} => e.rooms[r] = Depart(d.rooms[r], gone, heir)
         /\ \A q \in RIDs \ {r} : e.rooms[q] = d.rooms[q]
<1> DEFINE old == d.rooms[r]
           room == Depart(old, gone, heir)
           left == Forget(d, {c \in Clients : old.byClient[c] \in gone})
           put == IF room.members = {} THEN Put(left, r, Nil)
                  ELSE Broadcast(Put(left, r, room), r)
           e == RemoveParticipants(d, r, gone, heir)
<1>1. e = NotifyWatchers(put, r)
  BY DEF RemoveParticipants
<1>2. DirectoryOK(left) /\ left.rooms = d.rooms
  BY ForgetOK
<1>3. RoomOK(old) /\ room.members = old.members \ gone
  BY DepartFields DEF DirectoryOK, RoomOK
<1>6. d.rooms \in [RIDs -> RoomType \cup {Nil}]
  BY DEF DirectoryOK, DirectoryType
<1> HIDE DEF left, e
<1>4. CASE room.members = {}
  <2>1. put = Put(left, r, Nil)
    BY <1>4
  <2>2. DirectoryOK(put) /\ put.rooms = [d.rooms EXCEPT ![r] = Nil]
    BY <1>2, <2>1, PutOK
  <2>3. e.rooms = [d.rooms EXCEPT ![r] = Nil]
    BY <1>1, <2>2, NotifyOK
  <2> QED
    BY <1>3, <1>4, <1>6, <2>3 DEF e
<1>5. CASE room.members # {}
  <2>1. e = NotifyWatchers(Broadcast(Put(left, r, room), r), r)
    BY <1>1, <1>5
  <2>2. RoomOK(room)
    BY <1>3, <1>5, DepartOK
  <2> HIDE DEF room
  <2>3. e.rooms = [d.rooms EXCEPT ![r] = room]
    BY <1>2, <2>1, <2>2, PublishOK
  <2> QED
    BY <1>3, <1>5, <1>6, <2>3 DEF e, room
<1> QED
  BY <1>4, <1>5

\* One room changes, and it evolves or is gone.
LEMMA OneRoomEvolves ==
  ASSUME Inv, NEW r \in RIDs, rooms[r] # Nil, \A q \in RIDs \ {r} : rooms'[q] = rooms[q],
         rooms'[r] # Nil => Evolves(rooms[r], rooms'[r])
  PROVE  Minor
<1>1. \A q \in RIDs : rooms[q] # Nil => Evolves(rooms[q], rooms[q])
  BY EvolvesSilently DEF Inv, RoomsOK, Live
<1> QED
  BY <1>1 DEF Minor

\* No room changes.
LEMMA NoRoomEvolves ==
  ASSUME Inv, rooms' = rooms
  PROVE  Minor
BY EvolvesSilently DEF Inv, RoomsOK, Live, Minor

\* Removals are minor.
LEMMA RemovalEvolves ==
  ASSUME Inv, NEW r \in RIDs, rooms[r] # Nil, NEW gone \in SUBSET CIDs,
         NEW heir \in Heirs(rooms[r], gone),
         rooms' = RemoveParticipants(Directory, r, gone, heir).rooms
  PROVE  Minor
<1>1. DirectoryOK(Directory) /\ Directory.rooms = rooms
  BY DirectoryIsOK
<1>2. RoomOK(rooms[r]) /\ rooms \in [RIDs -> RoomType \cup {Nil}]
  BY DEF Inv, RoomsOK, Live, TypeOK
<1>3. /\ rooms[r].members \ gone = {} => rooms'[r] = Nil
      /\ rooms[r].members \ gone # {} => rooms'[r] = Depart(rooms[r], gone, heir)
      /\ \A q \in RIDs \ {r} : rooms'[q] = rooms[q]
  <2> DEFINE d == Directory
             e == RemoveParticipants(d, r, gone, heir)
  <2>1. /\ DirectoryOK(d) /\ d.rooms = rooms /\ rooms' = e.rooms
        /\ d.rooms[r] # Nil /\ heir \in Heirs(d.rooms[r], gone)
    BY <1>1
  <2> HIDE DEF d
  <2>2. /\ d.rooms[r].members \ gone = {} => e.rooms[r] = Nil
        /\ d.rooms[r].members \ gone # {} => e.rooms[r] = Depart(d.rooms[r], gone, heir)
        /\ \A q \in RIDs \ {r} : e.rooms[q] = d.rooms[q]
    BY ONLY r \in RIDs, gone \in SUBSET CIDs, <2>1, RemoveRooms
  <2> QED
    BY <2>1, <2>2
<1>4. rooms[r].members \ gone # {} => Evolves(rooms[r], Depart(rooms[r], gone, heir))
  BY <1>2, DepartEvolves
<1> QED
  BY <1>2, <1>3, <1>4, OneRoomEvolves

\* An update that touches neither participants nor host nor epoch is minor.
LEMMA SilentEvolves ==
  ASSUME Inv, NEW r \in RIDs, rooms[r] # Nil, NEW room,
         rooms' = [rooms EXCEPT ![r] = room],
         room.members = rooms[r].members, room.host = rooms[r].host,
         room.epoch = rooms[r].epoch
  PROVE  Minor
<1>1. RoomOK(rooms[r]) /\ rooms'[r] = room /\ \A q \in RIDs \ {r} : rooms'[q] = rooms[q]
  BY DEF Inv, RoomsOK, Live, TypeOK
<1>2. Evolves(rooms[r], room)
  BY <1>1, EvolvesSilently
<1> QED
  BY <1>1, <1>2, OneRoomEvolves

\* A suspension counts one and leaves the host.
LEMMA DisconnectEvolves ==
  ASSUME Inv, NEW c \in Clients, Disconnect(c)
  PROVE  Minor
<1> DEFINE r == rid[c]
           room == BumpEpoch(Suspend(rooms[r], cid[c]))
           gone == Dismiss(Directory, {c})
           f == NotifyWatchers(Broadcast(Put(gone, r, room), r), r)
<1>1. DirectoryOK(gone) /\ gone.rooms = rooms
  BY DirectoryIsOK, DismissOK
<1>2. rooms' = IF HoldsSeat(c) THEN f.rooms ELSE gone.rooms
  BY DEF Disconnect, Becomes
<1> HIDE DEF gone
<1>3. CASE HoldsSeat(c)
  <2>1. /\ r \in RIDs /\ cid[c] \in CIDs /\ rooms[r] # Nil /\ RoomOK(rooms[r])
        /\ IsActive(rooms[r], cid[c])
    BY <1>3, HolderIsAttached
  <2>2. SeatingOK(rooms[r], cid[c]) /\ HostIsMember(rooms[r]) /\ rooms[r] \in RoomType
    BY <2>1, SeatedInOrder DEF RoomOK
  <2>3. RoomOK(room)
    BY <2>1, <2>2, SuspendOK, BumpEpochOK DEF BumpEpoch
  <2>4. /\ room.host = rooms[r].host
        /\ room.epoch = (rooms[r].epoch + 1) % EpochModulus
    BY <2>2 DEF BumpEpoch, BumpEpochBy, Suspend, ArmNoActive, RoomType
  <2> HIDE DEF room
  <2>5. f.rooms = [rooms EXCEPT ![r] = room]
    BY <1>1, <2>1, <2>3, PublishOK
  <2>6. Hands(rooms[r], room)
    BY <2>4 DEF Hands
  <2>7. Evolves(rooms[r], room)
    BY <2>1, <2>4, <2>6, EvolvesByOne
  <2>8. rooms'[r] = room /\ \A q \in RIDs \ {r} : rooms'[q] = rooms[q]
    BY <1>2, <1>3, <2>1, <2>5 DEF Inv, TypeOK
  <2> QED
    BY <2>1, <2>7, <2>8, OneRoomEvolves
<1>4. CASE ~HoldsSeat(c)
  BY <1>1, <1>2, <1>4, NoRoomEvolves
<1> QED
  BY <1>3, <1>4

\* Somebody leaves, with a token or through its transport.
LEMMA LeaveEvolves ==
  ASSUME Inv,
         \/ \E c \in Clients : Leave(c)
         \/ \E r \in RIDs, p \in CIDs : LeaveByToken(r, p)
  PROVE  Minor
<1>1. ASSUME NEW c \in Clients, Leave(c) PROVE Minor
  <2>1. /\ rid[c] \in RIDs /\ rooms[rid[c]] # Nil /\ {cid[c]} \in SUBSET CIDs
    BY <1>1, HolderIsAttached DEF Leave
  <2> QED
    BY <1>1, <2>1, RemovalEvolves DEF Leave, Becomes
<1>2. ASSUME NEW r \in RIDs, NEW p \in CIDs, LeaveByToken(r, p) PROVE Minor
  <2> DEFINE cut == {rooms[r].client[p]} \ {Nil}
  <2>1. PICK heir \in Heirs(rooms[r], {p}) :
          Becomes(Dismiss(RemoveParticipants(Directory, r, {p}, heir), cut))
    BY <1>2 DEF LeaveByToken
  <2>2. rooms[r] # Nil /\ {p} \in SUBSET CIDs /\ DirectoryOK(Directory) /\ Directory.rooms = rooms
    BY <1>2, DirectoryIsOK DEF LeaveByToken
  <2> DEFINE e == RemoveParticipants(Directory, r, {p}, heir)
  <2>3. DirectoryOK(e)
    BY <2>1, <2>2, RemoveOK
  <2>4. Becomes(Dismiss(e, cut))
    BY <2>1
  <2>5. rooms' = e.rooms
    <3> HIDE DEF e, cut
    <3> QED
      BY <2>3, <2>4, DismissOK DEF Becomes
  <2> QED
    BY <2>1, <2>2, <2>5, RemovalEvolves
<1> QED
  BY <1>1, <1>2

\* A room is ended by its host, or by its timer.
LEMMA EndEvolves ==
  ASSUME Inv,
         \/ \E c \in Clients : EndRoom(c)
         \/ \E r \in RIDs : NoActiveTimerFires(r)
  PROVE  Minor
<1>1. ASSUME NEW d, DirectoryOK(d), d.rooms = rooms, NEW r \in RIDs, rooms[r] # Nil,
             rooms' = NotifyWatchers(Put(d, r, Nil), r).rooms
      PROVE  Minor
  <2> DEFINE e == Put(d, r, Nil)
  <2>1. DirectoryOK(e) /\ e.rooms = [rooms EXCEPT ![r] = Nil]
    BY <1>1, PutOK
  <2> HIDE DEF e
  <2>2. NotifyWatchers(e, r).rooms = e.rooms
    BY <1>1, <2>1, NotifyOK
  <2>3. rooms'[r] = Nil /\ \A q \in RIDs \ {r} : rooms'[q] = rooms[q]
    BY <1>1, <2>1, <2>2 DEF e, Inv, TypeOK
  <2> QED
    BY <1>1, <2>3, OneRoomEvolves
<1>2. DirectoryOK(Directory) /\ Directory.rooms = rooms
  BY DirectoryIsOK
<1>3. ASSUME NEW c \in Clients, EndRoom(c) PROVE Minor
  <2> DEFINE d == Forget(Directory, ActiveClients(rooms[rid[c]]))
  <2>1. DirectoryOK(d) /\ d.rooms = rooms
    BY <1>2, ForgetOK
  <2>2. rid[c] \in RIDs /\ rooms[rid[c]] # Nil
    BY <1>3 DEF EndRoom, InRoom, Inv, TypeOK
  <2>3. rooms' = NotifyWatchers(Put(d, rid[c], Nil), rid[c]).rooms
    BY <1>3 DEF EndRoom, Becomes
  <2> HIDE DEF d
  <2> QED
    BY <1>1, <2>1, <2>2, <2>3
<1>4. ASSUME NEW r \in RIDs, NoActiveTimerFires(r) PROVE Minor
  <2>1. rooms[r] # Nil
    BY <1>4 DEF NoActiveTimerFires
  <2>2. CASE ActiveClients(rooms[r]) # {}
    <3> DEFINE room == [rooms[r] EXCEPT !.noActive = FALSE]
    <3>1. rooms' = [rooms EXCEPT ![r] = room]
      BY <1>4, <2>2 DEF NoActiveTimerFires
    <3>2. /\ room.members = rooms[r].members /\ room.host = rooms[r].host
          /\ room.epoch = rooms[r].epoch
      BY <2>1 DEF Inv, RoomsOK, Live, RoomOK, RoomType
    <3> HIDE DEF room
    <3> QED
      BY <2>1, <3>1, <3>2, SilentEvolves
  <2>3. CASE ActiveClients(rooms[r]) = {}
    BY <1>1, <1>2, <1>4, <2>1, <2>3 DEF NoActiveTimerFires, Becomes
  <2> QED
    BY <2>2, <2>3
<1> QED
  BY <1>3, <1>4

\* A relay, and the time that passes, leave participants, host and epoch.
LEMMA QuietEvolves ==
  ASSUME Inv,
         \/ \E c \in Clients, to \in CIDs \cup {Nil} : Relay(c, to)
         \/ \E r \in RIDs, p \in CIDs : DwellPasses(r, p) \/ ReportGoesStale(r, p)
  PROVE  Minor
<1>1. ASSUME NEW c \in Clients, NEW to \in CIDs \cup {Nil}, Relay(c, to) PROVE Minor
  <2> DEFINE r == rid[c]
             from == rooms[r].byClient[c]
             missed == {p \in Suspended(rooms[r]) \ {from} : to \in {Nil, p}}
             room == MarkDirty(rooms[r], from, missed)
  <2>1. r \in RIDs /\ rooms[r] # Nil /\ RoomOK(rooms[r])
    BY <1>1, SenderIsMember DEF Relay
  <2>2. /\ room.members = rooms[r].members /\ room.host = rooms[r].host
        /\ room.epoch = rooms[r].epoch
    BY <2>1 DEF MarkDirty, RoomOK, RoomType
  <2>3. rooms' = [rooms EXCEPT ![r] = room]
    BY <1>1 DEF Relay
  <2> HIDE DEF room
  <2> QED
    BY <2>1, <2>2, <2>3, SilentEvolves
<1>2. ASSUME NEW r \in RIDs, NEW p \in CIDs, DwellPasses(r, p) PROVE Minor
  <2> DEFINE room == [rooms[r] EXCEPT !.dwelt = @ \cup {p}]
  <2>1. rooms[r] # Nil /\ rooms' = [rooms EXCEPT ![r] = room]
    BY <1>2 DEF DwellPasses
  <2>2. /\ room.members = rooms[r].members /\ room.host = rooms[r].host
        /\ room.epoch = rooms[r].epoch
    BY <2>1 DEF Inv, RoomsOK, Live, RoomOK, RoomType
  <2> HIDE DEF room
  <2> QED
    BY <2>1, <2>2, SilentEvolves
<1>3. ASSUME NEW r \in RIDs, NEW p \in CIDs, ReportGoesStale(r, p) PROVE Minor
  <2> DEFINE room == [rooms[r] EXCEPT !.seen = @ \ {p}]
  <2>1. rooms[r] # Nil /\ rooms' = [rooms EXCEPT ![r] = room]
    BY <1>3 DEF ReportGoesStale
  <2>2. /\ room.members = rooms[r].members /\ room.host = rooms[r].host
        /\ room.epoch = rooms[r].epoch
    BY <2>1 DEF Inv, RoomsOK, Live, RoomOK, RoomType
  <2> HIDE DEF room
  <2> QED
    BY <2>1, <2>2, SilentEvolves
<1> QED
  BY <1>1, <1>2, <1>3

\* The hard-eviction timer removes one participant at most.
LEMMA HardEvictionEvolves ==
  ASSUME Inv, NEW r \in RIDs, NEW p \in CIDs, HardEvictionFires(r, p)
  PROVE  Minor
<1>1. rooms[r] # Nil /\ RoomOK(rooms[r]) /\ {p} \in SUBSET CIDs
  BY DEF HardEvictionFires, Inv, RoomsOK, Live
<1>2. IsSuspended(rooms[r], p)
  BY <1>1 DEF HardEvictionFires, RoomOK, SlotsAreTimed, Suspended, IsSuspended
<1>3. PICK heir \in Heirs(rooms[r], {p}) :
        Becomes(RemoveParticipants(Directory, r, {p}, heir))
  BY <1>2 DEF HardEvictionFires
<1> QED
  BY <1>1, <1>3, RemovalEvolves DEF Becomes

\* A report removes the ghosts it exposes, and the host stays with somebody
\* attached.
LEMMA ReportLivenessEvolves ==
  ASSUME Inv, NEW c \in Clients, NEW reported \in SUBSET CIDs, ReportLiveness(c, reported)
  PROVE  Minor
<1> DEFINE r == rid[c]
           room == rooms[r]
           hints == (reported \cap room.members) \ {room.byClient[c]}
           heard == RecordLiveness(room, hints)
           ghosts == Ghosts(heard)
           d == Put(Directory, r, heard)
<1>1. r \in RIDs /\ room # Nil /\ RoomOK(room) /\ room \in RoomType
  BY SenderIsMember DEF ReportLiveness, RoomOK
<1>2. IF ghosts = {} THEN Becomes(d)
      ELSE \E heir \in Heirs(heard, ghosts) : Becomes(RemoveParticipants(d, r, ghosts, heir))
  BY DEF ReportLiveness
<1>3. /\ heard.members = room.members /\ heard.host = room.host
      /\ heard.epoch = room.epoch /\ heard.client = room.client
  BY <1>1 DEF RecordLiveness, RoomType
<1>4. RoomOK(heard)
  <2>1. room.dwelt \in SUBSET Suspended(room) /\ room.seen \cup hints \in SUBSET room.members
    BY <1>1 DEF RoomOK, HintsAreOfMembers
  <2>2. heard = [room EXCEPT !.dwelt = room.dwelt, !.seen = room.seen \cup hints]
    BY <1>1 DEF RecordLiveness, RoomType
  <2> HIDE DEF heard, room, hints
  <2>3. RoomOK([room EXCEPT !.dwelt = room.dwelt, !.seen = room.seen \cup hints])
    BY <1>1, <2>1, HintsOK
  <2> QED
    BY <2>2, <2>3
<1>5. ghosts \in SUBSET CIDs
  BY <1>4 DEF Ghosts, Suspended, RoomOK, RoomType
<1> HIDE DEF ghosts, heard
<1>6. DirectoryOK(d) /\ d.rooms = [rooms EXCEPT ![r] = heard]
  <2>1. DirectoryOK(Directory) /\ Directory.rooms = rooms
    BY DirectoryIsOK
  <2> QED
    BY <1>1, <1>4, <2>1, PutOK
<1> HIDE DEF d
<1>7. /\ rooms \in [RIDs -> RoomType \cup {Nil}] /\ heard # Nil
      /\ d.rooms[r] = heard /\ \A q \in RIDs \ {r} : d.rooms[q] = rooms[q]
  BY <1>1, <1>4, <1>6, HubAssumption DEF Inv, TypeOK, RoomOK
<1>8. CASE ghosts = {}
  <2>1. rooms' = d.rooms
    BY <1>2, <1>8 DEF Becomes
  <2>2. Evolves(room, heard)
    BY <1>1, <1>3, EvolvesSilently
  <2> QED
    BY <1>1, <1>7, <2>1, <2>2, OneRoomEvolves
<1>9. CASE ghosts # {}
  <2>1. PICK heir \in Heirs(heard, ghosts) : Becomes(RemoveParticipants(d, r, ghosts, heir))
    BY <1>2, <1>9
  <2> DEFINE left == Depart(heard, ghosts, heir)
  <2>2. /\ heard.members \ ghosts = {} => rooms'[r] = Nil
        /\ heard.members \ ghosts # {} => rooms'[r] = left
        /\ \A q \in RIDs \ {r} : rooms'[q] = d.rooms[q]
    <3> DEFINE e == RemoveParticipants(d, r, ghosts, heir)
    <3>1. rooms' = e.rooms
      BY <2>1 DEF Becomes
    <3>2. /\ DirectoryOK(d) /\ r \in RIDs /\ ghosts \in SUBSET CIDs
          /\ d.rooms[r] = heard /\ d.rooms[r] # Nil /\ heir \in Heirs(d.rooms[r], ghosts)
      BY <1>1, <1>5, <1>6, <1>7, <2>1
    <3> HIDE DEF r, room
    <3>3. /\ d.rooms[r].members \ ghosts = {} => e.rooms[r] = Nil
          /\ d.rooms[r].members \ ghosts # {} => e.rooms[r] = Depart(d.rooms[r], ghosts, heir)
          /\ \A q \in RIDs \ {r} : e.rooms[q] = d.rooms[q]
      BY <3>2, RemoveRooms
    <3> QED
      BY <3>1, <3>2, <3>3
  <2>3. heard.members \ ghosts # {} => Evolves(heard, left)
    BY <1>4, <1>5, <2>1, DepartEvolves
  <2> HIDE DEF left
  <2>4. Evolves(heard, left) => Evolves(room, left)
    BY <1>3 DEF Evolves, Hands, Counted, Active, IsActive
  <2>5. /\ rooms'[r] # Nil => Evolves(room, rooms'[r])
        /\ \A q \in RIDs \ {r} : rooms'[q] = rooms[q]
    BY <1>1, <1>6, <1>7, <2>2, <2>3, <2>4
  <2> QED
    BY <1>1, <2>5, OneRoomEvolves
<1> QED
  BY <1>8, <1>9

-----------------------------------------------------------------------------
\* Joins: the room that was left, the room that is entered, or both in one.

\* What the leave at the start of a join does to a room: the host is somebody
\* attached, unless the one who left was the last one attached.
Left(old, mid) ==
  /\ \/ mid.host = old.host
     \/ IsActive(old, mid.host)
     \/ Active(old) \subseteq {old.host}
  /\ Active(mid) \subseteq Active(old)
  /\ EpochIsWide => Counted(old, mid, 1)

\* The rooms of a step with a join: one that was there evolves, one that is
\* created has counted the join alone.
Entered ==
  \A r \in RIDs : rooms'[r] # Nil =>
    \/ rooms[r] # Nil /\ Evolves(rooms[r], rooms'[r])
    \/ EpochIsWide => rooms'[r].epoch = 1

\* Vacated only takes one participant out of one room.
LEMMA VacatedLeft ==
  ASSUME Inv, NEW c \in Clients, NEW prev \in registered,
         prev = c \/ c \notin registered,
         NEW heir \in IF HoldsSeat(prev) THEN Heirs(rooms[rid[prev]], {cid[prev]}) ELSE {Nil},
         NEW q \in RIDs, Vacated(c, prev, heir).rooms[q] # Nil
  PROVE  rooms[q] # Nil /\ Left(rooms[q], Vacated(c, prev, heir).rooms[q])
<1> DEFINE d == IF prev = c THEN Directory
                ELSE [Directory EXCEPT !.watchers = Inherited(prev, c)]
           e == Vacated(c, prev, heir)
<1>1. prev \in Clients
  BY DEF Inv, TypeOK
<1>2. d.rooms = rooms
  BY DEF Directory
<1>3. e = IF HoldsSeat(prev) THEN RemoveParticipants(d, rid[prev], {cid[prev]}, heir) ELSE d
  BY DEF Vacated
<1>4. rooms \in [RIDs -> RoomType \cup {Nil}] /\ (rooms[q] # Nil => RoomOK(rooms[q]))
  BY DEF Inv, TypeOK, RoomsOK, Live
<1>5. ASSUME rooms[q] # Nil, e.rooms[q] = rooms[q] PROVE Left(rooms[q], e.rooms[q])
  <2>1. /\ rooms[q].epoch \in Nat /\ EpochModulus \in Nat
    BY <1>4, <1>5, RoomAssumption DEF RoomOK, RoomType
  <2>2. Ahead(rooms[q].epoch, rooms[q].epoch, 0) /\ 0 \in 0 .. 1
    BY <2>1 DEF Ahead
  <2> QED
    BY <1>5, <2>2 DEF Left, Counted
<1> HIDE DEF d
<1>6. CASE HoldsSeat(prev)
  <2> DEFINE r == rid[prev]
             p == cid[prev]
             old == rooms[r]
             gone == {p}
             mid == Depart(old, gone, heir)
  <2>1. r \in RIDs /\ gone \in SUBSET CIDs /\ old # Nil /\ RoomOK(old) /\ heir \in Heirs(old, gone)
    BY <1>1, <1>6, HolderIsAttached
  <2>0. e = RemoveParticipants(d, r, gone, heir) /\ old = rooms[r]
    BY <1>3, <1>6
  <2> HIDE DEF old, r, e, gone
  <2>2. /\ old.members \ gone = {} => e.rooms[r] = Nil
        /\ old.members \ gone # {} => e.rooms[r] = mid
        /\ \A x \in RIDs \ {r} : e.rooms[x] = rooms[x]
    <3>1. DirectoryOK(d)
      <4>1. CASE prev = c
        BY <4>1, DirectoryIsOK DEF d
      <4>2. CASE prev # c
        <5>1. Inherited(prev, c) \in [RIDs -> [Clients -> Statuses \cup {Nil}]]
          BY <1>1 DEF Inherited, Inv, TypeOK
        <5> QED
          BY <4>2, <5>1, DirectoryIsOK DEF d, DirectoryOK, DirectoryType
      <4> QED
        BY <4>1, <4>2
    <3>2. d.rooms[r] = old
      BY <1>2, <2>0
    <3>3. /\ DirectoryOK(d) /\ r \in RIDs /\ d.rooms[r] # Nil /\ gone \in SUBSET CIDs
          /\ heir \in Heirs(d.rooms[r], gone)
      BY <2>1, <3>1, <3>2
    <3>4. /\ d.rooms[r].members \ gone = {} => e.rooms[r] = Nil
          /\ d.rooms[r].members \ gone # {} => e.rooms[r] = Depart(d.rooms[r], gone, heir)
          /\ \A x \in RIDs \ {r} : e.rooms[x] = d.rooms[x]
      BY <2>0, <3>3, RemoveRooms
    <3> QED
      BY <1>2, <3>2, <3>4
  <2>3. CASE q = r
    <3>1. old.members \ gone # {} /\ e.rooms[q] = mid
      <4>1. e.rooms[q] # Nil
        BY DEF e
      <4> HIDE DEF mid
      <4> QED
        BY <2>2, <2>3, <4>1
    <3>2. /\ mid.host = heir /\ Active(mid) = Active(old) \ gone
          /\ mid.epoch = (old.epoch + Cardinality(gone)) % EpochModulus
          /\ Evolves(old, mid)
      BY <2>1, <3>1, DepartEvolves
    <3>3. Cardinality(gone) = 1
      BY FS_Singleton DEF gone
    <3>4. Hands(old, mid)
      BY <3>2 DEF Evolves
    <3> HIDE DEF mid
    <3>5. EpochIsWide => Counted(old, mid, 1)
      BY <2>1, <3>2, <3>3, <3>4, EvolvesByOne
    <3>6. \/ mid.host = old.host \/ IsActive(old, mid.host)
          \/ Active(old) \subseteq {old.host}
      BY <2>1, <3>2 DEF gone, Heirs, Active, IsActive
    <3> QED
      BY <2>0, <2>1, <2>3, <3>1, <3>2, <3>5, <3>6 DEF Left, e
  <2>4. CASE q # r
    <3>1. e.rooms[q] = rooms[q]
      BY <1>4, <2>2, <2>4
    <3> QED
      BY <1>5, <3>1 DEF e
  <2> QED
    BY <2>3, <2>4
<1>7. CASE ~HoldsSeat(prev)
  BY <1>2, <1>3, <1>5, <1>7
<1> QED
  BY <1>6, <1>7

\* After the leave, a change that counts one more and keeps the host, or one
\* that counts none and keeps everybody.
LEMMA LeftEvolves ==
  ASSUME NEW old, RoomOK(old), NEW mid, RoomOK(mid), Left(old, mid),
         NEW new, RoomOK(new), new.host = mid.host,
         \/ new.epoch = (mid.epoch + 1) % EpochModulus
         \/ new.epoch = mid.epoch /\ new.members = mid.members
  PROVE  Evolves(old, new)
<1>1. Hands(old, new)
  BY DEF Left, Hands
<1>2. ASSUME EpochIsWide PROVE Counted(old, new, EpochModulus - 1)
  <2>1. /\ EpochModulus \in Nat /\ EpochModulus > 2
        /\ old.epoch \in 0 .. EpochModulus - 1 /\ mid.epoch \in 0 .. EpochModulus - 1
        /\ new.epoch \in 0 .. EpochModulus - 1
    BY <1>2, RoomAssumption DEF EpochIsWide, RoomOK, RoomType
  <2>2. PICK k \in 0 .. 1 :
          /\ Ahead(old.epoch, mid.epoch, k)
          /\ k = 0 => mid.members = old.members /\ mid.host = old.host
    BY <1>2 DEF Left, Counted
  <2>3. CASE new.epoch = (mid.epoch + 1) % EpochModulus
    <3>0. 1 \in 0 .. EpochModulus - 1
      BY <2>1
    <3>1. Ahead(mid.epoch, new.epoch, 1)
      BY <2>1, <2>3, <3>0, EpochAhead
    <3>2. Ahead(old.epoch, new.epoch, k + 1)
      BY <2>1, <2>2, <3>1 DEF Ahead
    <3>3. k + 1 \in 0 .. EpochModulus - 1 /\ k + 1 # 0
      BY <2>1
    <3> QED
      BY <3>2, <3>3 DEF Counted
  <2>4. CASE new.epoch = mid.epoch /\ new.members = mid.members
    <3>1. k \in 0 .. EpochModulus - 1
      BY <2>1
    <3> QED
      BY <2>2, <2>4, <3>1 DEF Counted
  <2> QED
    BY <2>3, <2>4
<1> QED
  BY <1>1, <1>2 DEF Evolves

\* After the leave, the removal of a participant that was away.
LEMMA LeftThenRemoved ==
  ASSUME NEW old, RoomOK(old), NEW mid, RoomOK(mid), Left(old, mid),
         NEW p, IsSuspended(mid, p), NEW heir \in Heirs(mid, {p}), mid.members \ {p} # {}
  PROVE  Evolves(old, Depart(mid, {p}, heir))
<1> DEFINE gone == {p}
           new == Depart(mid, gone, heir)
<1>1. gone \in SUBSET CIDs /\ heir \in Heirs(mid, gone) /\ mid.members \ gone # {}
  BY DEF IsSuspended, RoomOK, RoomType
<1>2. Cardinality(gone) = 1 /\ gone = {p}
  BY FS_Singleton
<1> HIDE DEF gone
<1>3. /\ new.members = mid.members \ gone /\ new.host = heir
      /\ Active(new) = Active(mid) \ gone
      /\ new.epoch = (mid.epoch + 1) % EpochModulus
  <2>1. /\ new.members = mid.members \ gone /\ new.host = heir
        /\ Active(new) = Active(mid) \ gone
        /\ new.epoch = (mid.epoch + Cardinality(gone)) % EpochModulus
    BY <1>1, DepartEvolves
  <2> QED
    BY <1>2, <2>1
<1>4. RoomOK(new)
  BY <1>1, DepartOK
<1> HIDE DEF new
<1>5. Hands(old, new)
  BY <1>2, <1>3 DEF Left, Hands, Heirs, Active, IsActive, IsSuspended
<1>6. ASSUME EpochIsWide PROVE Counted(old, new, EpochModulus - 1)
  <2>1. /\ EpochModulus \in Nat /\ EpochModulus > 2
        /\ old.epoch \in 0 .. EpochModulus - 1 /\ mid.epoch \in 0 .. EpochModulus - 1
        /\ new.epoch \in 0 .. EpochModulus - 1
    BY <1>4, <1>6, RoomAssumption DEF EpochIsWide, RoomOK, RoomType
  <2>2. PICK k \in 0 .. 1 : Ahead(old.epoch, mid.epoch, k)
    BY <1>6 DEF Left, Counted
  <2>3. Ahead(mid.epoch, new.epoch, 1)
    BY <1>3, <2>1, EpochAhead
  <2>4. Ahead(old.epoch, new.epoch, k + 1)
    BY <2>1, <2>2, <2>3 DEF Ahead
  <2>5. k + 1 \in 0 .. EpochModulus - 1 /\ k + 1 # 0
    BY <2>1
  <2> QED
    BY <2>4, <2>5 DEF Counted
<1> QED
  BY <1>2, <1>5, <1>6 DEF Evolves, new

\* The fields a successful join ends with.
LEMMA SeatCounts ==
  ASSUME NEW room \in RoomType, NEW p
  PROVE  /\ Seat(room, p).epoch = (room.epoch + 1) % EpochModulus
         /\ room.host # Nil => Seat(room, p).host = room.host
BY DEF Seat, BumpEpoch, BumpEpochBy, RoomType

\* Every outcome of handleJoin.
LEMMA HandleJoinEnters ==
  ASSUME Inv, NEW c \in Clients, NEW prev \in registered,
         prev = c \/ c \notin registered,
         NEW m \in Requests, WellFormed(m), HandleJoin(c, prev, m)
  PROVE  Entered
<1>1. PICK heir \in IF HoldsSeat(prev) THEN Heirs(rooms[rid[prev]], {cid[prev]}) ELSE {Nil} :
        LET d == Vacated(c, prev, heir) IN
        \/ RefuseToken(c, prev, m, d)
        \/ RefuseEnded(c, prev, m, d)
        \/ JoinReattach(c, prev, m, d)
        \/ RefuseReattach(c, prev, m, d)
        \/ JoinFresh(c, prev, m, d)
        \/ RefuseNewcomer(c, prev, m, d)
  BY DEF HandleJoin
<1> DEFINE d == Vacated(c, prev, heir)
           r == m.rid
<1>2. Vacant(c, prev, d)
  BY VacatedOK
<1>3. \A q \in RIDs : d.rooms[q] # Nil => rooms[q] # Nil /\ Left(rooms[q], d.rooms[q])
  BY VacatedLeft
<1> HIDE DEF d
<1>4. /\ DirectoryOK(d) /\ r \in RIDs /\ d.rooms \in [RIDs -> RoomType \cup {Nil}]
      /\ \A q \in RIDs : d.rooms[q] # Nil => RoomOK(d.rooms[q])
      /\ \A q \in RIDs : rooms[q] # Nil => RoomOK(rooms[q])
  BY <1>2, RequestType DEF Vacant, DirectoryOK, DirectoryType, Inv, RoomsOK, Live
\* A room the join does not touch.
<1>5. \A q \in RIDs : d.rooms[q] # Nil => rooms[q] # Nil /\ Evolves(rooms[q], d.rooms[q])
  BY <1>3, <1>4, LeftEvolves
<1>6. ASSUME NEW x, \A q \in RIDs \ {r} : rooms'[q] = d.rooms[q], rooms'[r] = x,
             x # Nil => \/ rooms[r] # Nil /\ Evolves(rooms[r], x)
                        \/ EpochIsWide => x.epoch = 1
      PROVE  Entered
  BY <1>5, <1>6 DEF Entered
<1>7. CASE Becomes(d)
  BY <1>5, <1>7 DEF Becomes, Entered
<1>8. CASE RefuseToken(c, prev, m, d)
  <2>1. CASE ~Becomes(d)
    <3> DEFINE gone == {m.cid}
    <3>1. /\ d.rooms[r] # Nil /\ IsSuspended(d.rooms[r], m.cid)
          /\ \E h \in Heirs(d.rooms[r], gone) : Becomes(RemoveParticipants(d, r, gone, h))
      BY <1>8, <2>1 DEF RefuseToken
    <3>2. PICK h \in Heirs(d.rooms[r], gone) : Becomes(RemoveParticipants(d, r, gone, h))
      BY <3>1
    <3>3. gone \in SUBSET CIDs
      BY <1>4, <3>1 DEF IsSuspended, RoomOK, RoomType
    <3>4. d.rooms[r].members \ gone # {} => Evolves(rooms[r], Depart(d.rooms[r], gone, h))
      BY <1>3, <1>4, <3>1, <3>2, LeftThenRemoved
    <3> DEFINE e == RemoveParticipants(d, r, gone, h)
    <3> HIDE DEF gone
    <3>5. /\ d.rooms[r].members \ gone = {} => e.rooms[r] = Nil
          /\ d.rooms[r].members \ gone # {} => e.rooms[r] = Depart(d.rooms[r], gone, h)
          /\ \A q \in RIDs \ {r} : e.rooms[q] = d.rooms[q]
      <4>1. /\ DirectoryOK(d) /\ r \in RIDs /\ d.rooms[r] # Nil
            /\ gone \in SUBSET CIDs /\ h \in Heirs(d.rooms[r], gone)
        BY <1>4, <3>1, <3>2, <3>3
      <4> HIDE DEF r
      <4> QED
        BY ONLY <4>1, RemoveRooms
    <3>6. rooms' = e.rooms
      BY <3>2 DEF Becomes
    <3> HIDE DEF e
    <3> QED
      BY <1>3, <1>4, <1>6, <3>1, <3>4, <3>5, <3>6
  <2> QED
    BY <1>7, <2>1
<1>9. CASE RefuseEnded(c, prev, m, d) \/ RefuseNewcomer(c, prev, m, d)
  BY <1>2, <1>7, <1>9, RefuseNewcomerKeeps DEF RefuseEnded
<1>10. ASSUME NEW e, NEW room, NEW p, NEW ghost, Admit(c, m, e, room, p),
              DirectoryOK(e), e.rooms = d.rooms, JoinedOK(d, r, room, c, p, ghost)
       PROVE  Entered
  <2> DEFINE seated == Seat(room, p)
             f == NotifyWatchers(Broadcast(Put(e, r, seated), r), r)
  <2>1. Becomes(f)
    BY <1>10 DEF Admit
  <2>2. RoomOK(seated) /\ room \in RoomType
    BY <1>10, SeatOK DEF JoinedOK, SeatingOK
  <2>3. /\ seated.epoch = (room.epoch + 1) % EpochModulus
        /\ room.host # Nil => seated.host = room.host
    BY <2>2, SeatCounts
  <2> HIDE DEF seated
  <2>4. f.rooms = [d.rooms EXCEPT ![r] = seated]
    BY <1>4, <1>10, <2>2, PublishOK
  <2> HIDE DEF f
  <2>5. rooms'[r] = seated /\ \A q \in RIDs \ {r} : rooms'[q] = d.rooms[q]
    BY <1>4, <2>1, <2>4 DEF Becomes
  <2>6. CASE d.rooms[r] = Nil
    <3>1. room.epoch = 0
      BY <1>10, <2>6 DEF JoinedOK
    <3>2. EpochIsWide => seated.epoch = 1
      BY <2>3, <3>1, RoomAssumption DEF EpochIsWide
    <3> QED
      BY <1>6, <2>5, <3>2
  <2>7. CASE d.rooms[r] # Nil
    <3>1. room.epoch = d.rooms[r].epoch /\ room.host = d.rooms[r].host
      BY <1>10, <2>7 DEF JoinedOK
    <3>2. d.rooms[r].host # Nil
      BY <1>4, <2>7, RoomAssumption DEF RoomOK, RoomType, HostIsMember
    <3>3. Evolves(rooms[r], seated)
      BY <1>3, <1>4, <2>2, <2>3, <2>7, <3>1, <3>2, LeftEvolves
    <3> QED
      BY <1>3, <1>4, <1>6, <2>5, <2>7, <3>3
  <2> QED
    BY <2>6, <2>7
<1>11. CASE JoinReattach(c, prev, m, d)
  <2>1. PICK room, ghost :
          JoinedOK(d, r, room, c, m.cid, ghost) /\ Admit(c, m, Dismiss(d, ghost), room, m.cid)
    BY <1>2, <1>11, JoinReattachAdmits
  <2> DEFINE e == Dismiss(d, ghost)
  <2>2. Admit(c, m, e, room, m.cid) /\ DirectoryOK(e) /\ e.rooms = d.rooms
    BY <1>4, <2>1, DismissOK
  <2> HIDE DEF e
  <2> QED
    BY <1>10, <2>1, <2>2
<1>12. CASE JoinFresh(c, prev, m, d)
  <2>1. PICK room, p : JoinedOK(d, r, room, c, p, {}) /\ Admit(c, m, d, room, p)
    BY <1>2, <1>12, JoinFreshAdmits
  <2> QED
    BY <1>4, <1>10, <2>1
<1>13. CASE RefuseReattach(c, prev, m, d)
  <2>1. PICK room, ghost : LeavesSuspended(c, prev, m, d, room, ghost)
    BY <1>2, <1>13, RefuseReattachLeaves
  <2> DEFINE left == Dismiss(d, ghost)
             e == Put(left, r, room)
             f == IF ghost = {} THEN e ELSE Broadcast(e, r)
  <2>2. /\ RoomOK(room) /\ d.rooms[r] # Nil /\ Becomes(f)
        /\ room.members = d.rooms[r].members /\ room.host = d.rooms[r].host
        /\ room.epoch = d.rooms[r].epoch
    BY <2>1 DEF LeavesSuspended
  <2>3. DirectoryOK(left) /\ left.rooms = d.rooms
    BY <1>4, DismissOK
  <2> HIDE DEF left
  <2>4. DirectoryOK(e) /\ e.rooms = [d.rooms EXCEPT ![r] = room]
    BY <1>4, <2>2, <2>3, PutOK
  <2> HIDE DEF e
  <2>5. f.rooms = e.rooms
    BY <2>4 DEF Broadcast, DirectoryOK, DirectoryType
  <2> HIDE DEF f
  <2>6. rooms'[r] = room /\ \A q \in RIDs \ {r} : rooms'[q] = d.rooms[q]
    BY <1>4, <2>2, <2>4, <2>5 DEF Becomes
  <2>7. Evolves(rooms[r], room)
    BY <1>3, <1>4, <2>2, LeftEvolves
  <2> QED
    BY <1>3, <1>4, <1>6, <2>2, <2>6, <2>7
<1> QED
  BY <1>1, <1>8, <1>9, <1>11, <1>12, <1>13 DEF d

-----------------------------------------------------------------------------
\* The three theorems.

\* Every step: what it does to the rooms, and to the tombstones.
LEMMA NextMoves ==
  ASSUME Inv, TombstonesClosed, [Next]_vars
  PROVE  Entered /\ Closed
<1>0. Minor => Entered
  BY DEF Minor, Entered
<1>1. ASSUME Minor, \A r \in tombstones' \ tombstones : rooms'[r] = Nil
      PROVE  Entered /\ Closed
  BY <1>0, <1>1, NoNewRoomCloses DEF Minor, Inv, TypeOK
<1>2. CASE UNCHANGED vars
  <2>1. Minor /\ tombstones' = tombstones
    BY <1>2, NoRoomEvolves DEF vars
  <2> QED
    BY <1>1, <2>1
<1>3. ASSUME NEW c \in Clients, Connect(c) \/ (\E rids \in SUBSET RIDs : WatchRooms(c, rids))
      PROVE  Entered /\ Closed
  <2>1. Minor /\ tombstones' = tombstones
    BY <1>3, NoRoomEvolves DEF Connect, WatchRooms
  <2> QED
    BY <1>1, <2>1
<1>4. ASSUME NEW c \in Clients, Disconnect(c) PROVE Entered /\ Closed
  <2>1. Minor /\ tombstones' = tombstones
    BY <1>4, DisconnectEvolves DEF Disconnect
  <2> QED
    BY <1>1, <2>1
<1>5. ASSUME NEW c \in Clients, NEW prev \in Clients,
             (prev = c /\ Join(c)) \/ TakeOver(c, prev)
      PROVE  Entered /\ Closed
  <2>1. PICK m \in Requests : WellFormed(m) /\ HandleJoin(c, prev, m)
    BY <1>5 DEF Join, TakeOver
  <2>2. prev \in registered /\ (prev = c \/ c \notin registered)
    BY <1>5 DEF Join, TakeOver
  <2> QED
    BY <2>1, <2>2, HandleJoinEnters, HandleJoinCloses
<1>6. ASSUME NEW c \in Clients, Leave(c) PROVE Entered /\ Closed
  <2>1. Minor /\ tombstones' = tombstones
    BY <1>6, LeaveEvolves DEF Leave
  <2> QED
    BY <1>1, <2>1
<1>7. ASSUME NEW c \in Clients, EndRoom(c) PROVE Entered /\ Closed
  <2> DEFINE d == Forget(Directory, ActiveClients(rooms[rid[c]]))
             e == Put(d, rid[c], Nil)
  <2>1. Minor /\ tombstones' \ tombstones \subseteq {rid[c]}
    BY <1>7, EndEvolves DEF EndRoom
  <2>2. DirectoryOK(d) /\ d.rooms = rooms /\ rid[c] \in RIDs
    BY <1>7, DirectoryIsOK, ForgetOK DEF EndRoom, InRoom, Inv, TypeOK
  <2> HIDE DEF d
  <2>3. DirectoryOK(e) /\ e.rooms = [rooms EXCEPT ![rid[c]] = Nil]
    BY <2>2, PutOK
  <2> HIDE DEF e
  <2>4. NotifyWatchers(e, rid[c]).rooms = e.rooms
    BY <2>2, <2>3, NotifyOK
  <2>5. rooms' = NotifyWatchers(e, rid[c]).rooms
    BY <1>7 DEF EndRoom, Becomes, e, d
  <2>6. rooms'[rid[c]] = Nil
    BY <2>2, <2>3, <2>4, <2>5 DEF Inv, TypeOK
  <2> QED
    BY <1>1, <2>1, <2>6
<1>8. ASSUME NEW c \in Clients, \E to \in CIDs \cup {Nil} : Relay(c, to)
      PROVE  Entered /\ Closed
  <2>1. Minor /\ tombstones' = tombstones
    BY <1>8, QuietEvolves DEF Relay
  <2> QED
    BY <1>1, <2>1
<1>9. ASSUME NEW c \in Clients, \E reported \in SUBSET CIDs : ReportLiveness(c, reported)
      PROVE  Entered /\ Closed
  <2>1. Minor /\ tombstones' = tombstones
    BY <1>9, ReportLivenessEvolves DEF ReportLiveness
  <2> QED
    BY <1>1, <2>1
<1>10. ASSUME NEW old \in Clients, NEW new \in Clients, TakeOverIdle(old, new)
       PROVE  Entered /\ Closed
  <2>1. Minor /\ tombstones' = tombstones
    BY <1>10, NoRoomEvolves DEF TakeOverIdle
  <2> QED
    BY <1>1, <2>1
<1>11. ASSUME NEW r \in RIDs, NoActiveTimerFires(r) PROVE Entered /\ Closed
  <2>1. Minor /\ tombstones' = tombstones
    BY <1>11, EndEvolves DEF NoActiveTimerFires
  <2> QED
    BY <1>1, <2>1
<1>12. ASSUME NEW r \in RIDs, TombstoneExpires(r) PROVE Entered /\ Closed
  <2>1. Minor /\ tombstones' \subseteq tombstones
    BY <1>12, NoRoomEvolves DEF TombstoneExpires
  <2> QED
    BY <1>1, <2>1
<1>13. ASSUME NEW r \in RIDs, NEW p \in CIDs,
              \/ LeaveByToken(r, p) \/ HardEvictionFires(r, p)
              \/ DwellPasses(r, p) \/ ReportGoesStale(r, p)
       PROVE  Entered /\ Closed
  <2>1. Minor
    BY <1>13, LeaveEvolves, HardEvictionEvolves, QuietEvolves
  <2>2. tombstones' = tombstones
    BY <1>13 DEF LeaveByToken, HardEvictionFires, DwellPasses, ReportGoesStale
  <2> QED
    BY <1>1, <2>1, <2>2
<1>14. CASE Restart
  <2>1. Minor /\ tombstones' = {}
    BY <1>14 DEF Restart, Minor
  <2> QED
    BY <1>1, <2>1
<1> QED
  BY <1>2, <1>3, <1>4, <1>5, <1>6, <1>7, <1>8, <1>9, <1>10, <1>11, <1>12, <1>13, <1>14 DEF Next

\* A tombstone stands for a room that is gone.
LEMMA TombstonesHold == Spec => []TombstonesClosed
<1>1. Init => TombstonesClosed
  BY DEF Init, TombstonesClosed
<1>2. Inv /\ TombstonesClosed /\ [Next]_vars => TombstonesClosed'
  BY NextMoves DEF Closed
<1> QED
  BY <1>1, <1>2, InvHolds, PTL DEF Spec

\* While the tombstone of a room lasts, nobody gets back into it under an
\* identity of the ended call, through a token, a takeover or a race of joins.
THEOREM EndedTheorem == Spec => EndedCallStaysEnded
<1>1. Inv /\ TombstonesClosed /\ [Next]_vars =>
        [\A r \in tombstones : rooms'[r] # Nil =>
           \A p \in rooms'[r].members : <<r, p>> \notin issued]_vars
  BY NextMoves DEF Closed
<1> QED
  BY <1>1, InvHolds, TombstonesHold, PTL DEF Spec, EndedCallStaysEnded

\* Whenever participants come or go, or the host changes, the epoch moves.
THEOREM EpochTheorem == EpochIsWide => (Spec => EpochAdvances)
<1> SUFFICES ASSUME EpochIsWide PROVE Spec => EpochAdvances
  OBVIOUS
<1>1. Inv /\ TombstonesClosed /\ [Next]_vars =>
        [\A r \in RIDs : SameRoom(r) /\ rooms'[r].epoch = rooms[r].epoch
           => rooms'[r].members = rooms[r].members /\ rooms'[r].host = rooms[r].host]_vars
  <2> SUFFICES ASSUME Inv, TombstonesClosed, [Next]_vars, NEW r \in RIDs, SameRoom(r),
                      rooms'[r].epoch = rooms[r].epoch
               PROVE  rooms'[r].members = rooms[r].members /\ rooms'[r].host = rooms[r].host
    OBVIOUS
  <2>1. Counted(rooms[r], rooms'[r], EpochModulus - 1)
    BY NextMoves DEF Entered, SameRoom, Evolves
  <2>2. rooms[r].epoch \in Nat /\ EpochModulus \in Nat
    BY RoomAssumption DEF Inv, TypeOK, RoomType, SameRoom
  <2> QED
    BY <2>1, <2>2 DEF Counted, Ahead
<1> QED
  BY <1>1, InvHolds, TombstonesHold, PTL DEF Spec, EpochAdvances

\* A new host is somebody attached, if anybody stayed attached.
THEOREM HostTheorem == EpochIsWide => (Spec => HostHandover)
<1> SUFFICES ASSUME EpochIsWide PROVE Spec => HostHandover
  OBVIOUS
<1>1. Inv /\ TombstonesClosed /\ [Next]_vars =>
        [\A r \in RIDs : SameRoom(r) /\ rooms'[r].host # rooms[r].host =>
           \/ IsActive(rooms[r], rooms'[r].host)
           \/ IsActive(rooms'[r], rooms'[r].host)
           \/ (Active(rooms[r]) \cap Active(rooms'[r])) \subseteq {rooms[r].host}]_vars
  BY NextMoves DEF Entered, SameRoom, Evolves, Hands
<1> QED
  BY <1>1, InvHolds, TombstonesHold, PTL DEF Spec, HostHandover

-----------------------------------------------------------------------------
(***************************************************************************)
(* The hub implements Calls.                                               *)
(***************************************************************************)

\* The calls held by the rooms of a directory.
CallsOf(f) == [r \in RIDs |-> CallOf(f[r])]

\* A call by its parts, and what becomes of it when some of them change.
Call(here, away, host, asked, places) ==
  [here |-> here, away |-> away, host |-> host, asked |-> asked, places |-> places]

LEMMA CallParts ==
  ASSUME NEW h, NEW a, NEW o, NEW k, NEW n, NEW c, c = Call(h, a, o, k, n)
  PROVE  c.here = h /\ c.away = a /\ c.host = o /\ c.asked = k /\ c.places = n
BY DEF Call

LEMMA CallUpdates ==
  ASSUME NEW h, NEW a, NEW o, NEW k, NEW n, NEW c, c = Call(h, a, o, k, n)
  PROVE  \A h2, a2, x :
           /\ Promise!Seating(c, h2, a2) = Call(h2, a2, o, k, n)
           /\ [Promise!Seating(c, h2, a2) EXCEPT !.host = x] = Call(h2, a2, x, k, n)
           /\ [Promise!Seating(c, h2, a2) EXCEPT !.places = x] = Call(h2, a2, o, k, x)
<1> SUFFICES ASSUME NEW h2, NEW a2, NEW x
             PROVE  /\ Promise!Seating(c, h2, a2) = Call(h2, a2, o, k, n)
                    /\ [Promise!Seating(c, h2, a2) EXCEPT !.host = x] = Call(h2, a2, x, k, n)
                    /\ [Promise!Seating(c, h2, a2) EXCEPT !.places = x] = Call(h2, a2, o, k, x)
  OBVIOUS
<1>1. Promise!Seating(c, h2, a2) = Call(h2, a2, o, k, n)
  BY CallParts DEF Promise!Seating, Call
<1>2. /\ [Call(h2, a2, o, k, n) EXCEPT !.host = x] = Call(h2, a2, x, k, n)
      /\ [Call(h2, a2, o, k, n) EXCEPT !.places = x] = Call(h2, a2, o, k, x)
  BY DEF Call
<1> QED BY <1>1, <1>2

\* One room changes, and so does the call it holds.
LEMMA OneCall ==
  ASSUME NEW f, NEW g, NEW r \in RIDs, \A q \in RIDs \ {r} : g[q] = f[q]
  PROVE  CallsOf(g) = [CallsOf(f) EXCEPT ![r] = CallOf(g[r])]
BY DEF CallsOf

\* What the participants see of two rooms that differ in the rest.
LEMMA SameCall ==
  ASSUME NEW old \in RoomType, NEW new \in RoomType,
         new.members = old.members, new.client = old.client, new.host = old.host,
         new.requested = old.requested, new.locked = old.locked, new.max = old.max
  PROVE  CallOf(new) = CallOf(old)
BY HubAssumption DEF CallOf, Active, Suspended

\* The participants of a call are those of its room.
LEMMA CallFields ==
  ASSUME NEW r \in RoomType
  PROVE  /\ CallOf(r) = Call(Active(r), Suspended(r), r.host, r.requested,
                             IF r.locked THEN r.max ELSE 0)
         /\ Promise!Participants(CallOf(r)) = r.members
         /\ r # Nil
<1>1. r # Nil
  BY HubAssumption
<1>2. /\ CallOf(r) = Call(Active(r), Suspended(r), r.host, r.requested,
                          IF r.locked THEN r.max ELSE 0)
  BY <1>1 DEF CallOf, Call
<1>3. Active(r) \cup Suspended(r) = r.members
  BY DEF Active, Suspended
<1> QED BY <1>1, <1>2, <1>3 DEF Promise!Participants, Call

\* A departure is one for the call, and the last one ends it.
LEMMA DepartCall ==
  ASSUME NEW r, RoomOK(r), NEW gone \in SUBSET CIDs, NEW heir \in Heirs(r, gone), NEW new,
         new = IF r.members \ gone = {} THEN Nil ELSE Depart(r, gone, heir)
  PROVE  CallOf(new) \in Promise!Without(CallOf(r), gone)
<1> DEFINE call == CallOf(r)
           a == Depart(r, gone, heir)
           places == IF r.locked THEN r.max ELSE 0
<1>1. r \in RoomType /\ r.host \in r.members /\ r.members \subseteq CIDs
  BY DEF RoomOK, HostIsMember, RoomType
<1>2. /\ call = Call(Active(r), Suspended(r), r.host, r.requested, places)
      /\ call.here = Active(r) /\ call.away = Suspended(r) /\ call.host = r.host
      /\ Promise!Participants(call) = r.members
      /\ Active(r) \cup Suspended(r) = r.members
  <2>1. call = Call(Active(r), Suspended(r), r.host, r.requested, places)
        /\ Promise!Participants(call) = r.members
    BY <1>1, CallFields
  <2> HIDE DEF call, places
  <2>2. call.here = Active(r) /\ call.away = Suspended(r) /\ call.host = r.host
    BY <2>1, CallParts
  <2> QED BY <2>1, <2>2 DEF Active, Suspended
<1>3. CASE r.members \ gone = {}
  <2>1. CallOf(new) = Promise!NoCall
    BY <1>3 DEF CallOf, Promise!NoCall
  <2>2. Promise!Participants(call) \subseteq gone
    BY <1>2, <1>3
  <2> QED BY <2>1, <2>2 DEF Promise!Without
<1>4. CASE r.members \ gone # {}
  <2>1. /\ a.members = r.members \ gone /\ a.host = heir /\ Active(a) = Active(r) \ gone
    BY <1>4, DepartEvolves
  <2>2. a.requested = r.requested /\ a.locked = r.locked /\ a.max = r.max
    BY <1>1 DEF Depart, BumpEpochBy, ArmNoActive, RoomType
  <2>3. RoomOK(a)
    BY <1>4, DepartOK
  <2> HIDE DEF a
  <2>4. Suspended(a) = Suspended(r) \ gone
    BY <2>1 DEF Active, Suspended
  <2>5. a \in RoomType
    BY <2>3 DEF RoomOK
  <2>6. CallOf(a) = Call(Active(r) \ gone, Suspended(r) \ gone, heir, r.requested, places)
    BY <2>1, <2>2, <2>4, <2>5, CallFields
  <2>7. CallOf(a) = [Promise!Seating(call, call.here \ gone, call.away \ gone) EXCEPT !.host = heir]
    <3> HIDE DEF call, places
    <3>1. [Promise!Seating(call, call.here \ gone, call.away \ gone) EXCEPT !.host = heir]
            = Call(call.here \ gone, call.away \ gone, heir, r.requested, places)
      <4>1. \A h2, a2, x : [Promise!Seating(call, h2, a2) EXCEPT !.host = x]
                             = Call(h2, a2, x, r.requested, places)
        BY <1>2, CallUpdates
      <4> QED BY <4>1
    <3> QED BY <1>2, <2>6, <3>1
  <2>8. heir \in IF call.host \notin gone THEN {call.host}
                 ELSE IF call.here \ gone # {} THEN call.here \ gone
                 ELSE call.away \ gone
    BY <1>2, <1>4 DEF Heirs
  <2>9. ~(Promise!Participants(call) \subseteq gone)
    BY <1>2, <1>4
  <2>10. new = a
    BY <1>4 DEF a
  <2> HIDE DEF call
  <2> QED BY <2>7, <2>8, <2>9, <2>10 DEF Promise!Without, call
<1> QED BY <1>3, <1>4

\* A removal is a departure from one call.
LEMMA RemoveCall ==
  ASSUME NEW d, DirectoryOK(d), NEW r \in RIDs, d.rooms[r] # Nil,
         NEW gone \in SUBSET CIDs, NEW heir \in Heirs(d.rooms[r], gone)
  PROVE  LET e == RemoveParticipants(d, r, gone, heir) IN
         \E new \in Promise!Without(CallOf(d.rooms[r]), gone) :
           CallsOf(e.rooms) = [CallsOf(d.rooms) EXCEPT ![r] = new]
<1> DEFINE e == RemoveParticipants(d, r, gone, heir)
           old == d.rooms[r]
           new == e.rooms[r]
<1>1. /\ old.members \ gone = {} => new = Nil
      /\ old.members \ gone # {} => new = Depart(old, gone, heir)
      /\ \A q \in RIDs \ {r} : e.rooms[q] = d.rooms[q]
  BY RemoveRooms
<1>2. RoomOK(old)
  BY DEF DirectoryOK
<1> HIDE DEF e
<1>3. CallOf(new) \in Promise!Without(CallOf(old), gone)
  <2> HIDE DEF new, old
  <2>1. new = IF old.members \ gone = {} THEN Nil ELSE Depart(old, gone, heir)
    BY <1>1
  <2>2. heir \in Heirs(old, gone)
    BY DEF old
  <2> QED BY <1>2, <2>1, <2>2, DepartCall
<1>4. CallsOf(e.rooms) = [CallsOf(d.rooms) EXCEPT ![r] = CallOf(new)]
  <2> DEFINE f == d.rooms
             g == e.rooms
  <2>1. \A q \in RIDs \ {r} : g[q] = f[q]
    BY <1>1
  <2> HIDE DEF f, g
  <2>2. CallsOf(g) = [CallsOf(f) EXCEPT ![r] = CallOf(g[r])]
    BY <2>1, OneCall
  <2> QED BY <2>2 DEF f, g
<1> QED BY <1>3, <1>4 DEF e

\* A step that changes the rooms only.
LEMMA StepBecomes ==
  ASSUME NEW f, NEW r \in RIDs, NEW new, UNCHANGED <<tombstones, issued>>,
         CallsOf(rooms') = [CallsOf(f) EXCEPT ![r] = new]
  PROVE  Promise!Becomes(CallsOf(f), r, new)
BY DEF Promise!Becomes, CallsOf

\* The calls change with the rooms of a published room.
LEMMA PublishCall ==
  ASSUME NEW d, DirectoryOK(d), NEW r \in RIDs, NEW room, RoomOK(room)
  PROVE  LET e == NotifyWatchers(Broadcast(Put(d, r, room), r), r) IN
         CallsOf(e.rooms) = [CallsOf(d.rooms) EXCEPT ![r] = CallOf(room)]
<1> DEFINE e == NotifyWatchers(Broadcast(Put(d, r, room), r), r)
           f == d.rooms
           g == e.rooms
<1>1. g = [f EXCEPT ![r] = room]
  BY PublishOK
<1>2. f \in [RIDs -> RoomType \cup {Nil}]
  BY DEF DirectoryOK, DirectoryType
<1> HIDE DEF f, g
<1>3. g[r] = room /\ \A q \in RIDs \ {r} : g[q] = f[q]
  BY <1>1, <1>2
<1>4. CallsOf(g) = [CallsOf(f) EXCEPT ![r] = CallOf(g[r])]
  BY <1>3, OneCall
<1> QED BY <1>3, <1>4 DEF f, g

\* A participant goes away, and its call loses a transport.
LEMMA SuspendCall ==
  ASSUME NEW r, r \in RoomType, NEW p \in r.members, NEW new \in RoomType,
         new.members = r.members, new.client = [r.client EXCEPT ![p] = Nil],
         new.host = r.host, new.requested = r.requested, new.locked = r.locked,
         new.max = r.max
  PROVE  LET call == CallOf(r) IN
         CallOf(new) = Promise!Seating(call, call.here \ {p}, call.away \cup {p})
<1> DEFINE call == CallOf(r)
           places == IF r.locked THEN r.max ELSE 0
           h2 == Active(r) \ {p}
           a2 == Suspended(r) \cup {p}
<1>1. call = Call(Active(r), Suspended(r), r.host, r.requested, places)
  BY CallFields
<1>2. Active(new) = h2 /\ Suspended(new) = a2
  BY DEF Active, Suspended, RoomType
<1>3. CallOf(new) = Call(h2, a2, r.host, r.requested, places)
  BY <1>2, CallFields
<1> HIDE DEF call, places
<1>4. \A h, a : Promise!Seating(call, h, a) = Call(h, a, r.host, r.requested, places)
  BY <1>1, CallUpdates
<1>5. call.here = Active(r) /\ call.away = Suspended(r)
  BY <1>1, CallParts
<1> QED BY <1>3, <1>4, <1>5 DEF call

LEMMA ReattachCall ==
  ASSUME NEW r, r \in RoomType, NEW p \in r.members, NEW c \in Clients, NEW new \in RoomType,
         new.members = r.members, new.client = [r.client EXCEPT ![p] = c],
         new.host = r.host, new.requested = r.requested, new.locked = r.locked,
         new.max = r.max
  PROVE  LET call == CallOf(r) IN
         CallOf(new) = Promise!Seating(call, call.here \cup {p}, call.away \ {p})
<1> DEFINE call == CallOf(r)
           places == IF r.locked THEN r.max ELSE 0
           h2 == Active(r) \cup {p}
           a2 == Suspended(r) \ {p}
<1>1. call = Call(Active(r), Suspended(r), r.host, r.requested, places)
  BY CallFields
<1>2. Active(new) = h2 /\ Suspended(new) = a2
  BY RoomAssumption DEF Active, Suspended, RoomType
<1>3. CallOf(new) = Call(h2, a2, r.host, r.requested, places)
  BY <1>2, CallFields
<1> HIDE DEF call, places
<1>4. \A h, a : Promise!Seating(call, h, a) = Call(h, a, r.host, r.requested, places)
  BY <1>1, CallUpdates
<1>5. call.here = Active(r) /\ call.away = Suspended(r)
  BY <1>1, CallParts
<1> QED BY <1>3, <1>4, <1>5 DEF call
-----------------------------------------------------------------------------
\* What every step is to the calls.
Kept ==
  \/ Promise!Next
  \/ CallsOf(rooms') = CallsOf(rooms) /\ UNCHANGED <<tombstones, issued>>

\* The calls of Calls are those of the rooms.
LEMMA CallsNow ==
  /\ [r \in RIDs |-> CallOf(rooms[r])] = CallsOf(rooms)
  /\ \A r \in RIDs : CallsOf(rooms)[r] = CallOf(rooms[r])
BY DEF CallsOf

LEMMA OneCallChanges ==
  ASSUME NEW r \in RIDs, \A q \in RIDs \ {r} : rooms'[q] = rooms[q]
  PROVE  CallsOf(rooms') = [CallsOf(rooms) EXCEPT ![r] = CallOf(rooms'[r])]
BY DEF CallsOf

\* One call changes, and nothing else.
LEMMA OneCallKept ==
  ASSUME Inv, NEW r \in RIDs, rooms[r] # Nil, NEW new,
         CallsOf(rooms') = [CallsOf(rooms) EXCEPT ![r] = new],
         UNCHANGED <<tombstones, issued>>,
         \/ \E p \in rooms[r].members :
              \/ new \in Promise!Without(CallOf(rooms[r]), {p})
              \/ LET call == CallOf(rooms[r]) IN
                 new = Promise!Seating(call, call.here \ {p}, call.away \cup {p})
         \/ \E gone \in SUBSET Suspended(rooms[r]) :
              gone # {} /\ new \in Promise!Without(CallOf(rooms[r]), gone)
         \/ new = CallOf(rooms[r])
         \/ Active(rooms[r]) = {} /\ new = Promise!NoCall
  PROVE  Kept
<1> DEFINE s == CallsOf(rooms)
           call == CallOf(rooms[r])
           places == IF rooms[r].locked THEN rooms[r].max ELSE 0
<1>1. rooms[r] \in RoomType /\ rooms[r].members \subseteq CIDs
  BY DEF Inv, TypeOK, RoomType
<1>2. /\ s[r] = call /\ Promise!Participants(call) = rooms[r].members
      /\ call = Call(Active(rooms[r]), Suspended(rooms[r]), rooms[r].host,
                     rooms[r].requested, places)
  BY <1>1, CallsNow, CallFields
<1>3. Promise!Becomes(s, r, new)
  BY StepBecomes
<1>4. [x \in RIDs |-> CallOf(rooms[x])] = s
  BY CallsNow
<1> HIDE DEF s, call, places
<1>5. call.here = Active(rooms[r]) /\ call.away = Suspended(rooms[r])
  BY <1>2, CallParts
<1>6. ASSUME NEW p \in rooms[r].members, new \in Promise!Without(call, {p})
      PROVE  Promise!Next
  <2>1. Promise!Leave(r, p)
    BY <1>2, <1>3, <1>4, <1>6 DEF Promise!Leave
  <2> QED BY <1>1, <2>1 DEF Promise!Next
<1>7. ASSUME NEW p \in rooms[r].members,
             new = Promise!Seating(call, call.here \ {p}, call.away \cup {p})
      PROVE  Promise!Next
  <2>1. Promise!Away(s, r, p)
    BY <1>2, <1>3, <1>7 DEF Promise!Away
  <2>2. Promise!Join(s)
    BY <1>1, <2>1 DEF Promise!Join
  <2> QED BY <1>4, <2>2 DEF Promise!Next
<1>8. ASSUME NEW gone \in SUBSET Suspended(rooms[r]), gone # {},
             new \in Promise!Without(call, gone)
      PROVE  Promise!Next
  <2>1. Promise!Expire(s, r, gone)
    BY <1>2, <1>3, <1>5, <1>8 DEF Promise!Expire
  <2>2. gone \in SUBSET s[r].away
    BY <1>2, <1>5
  <2> QED BY <1>4, <2>1, <2>2 DEF Promise!Next
<1>9. ASSUME new = call PROVE Kept
  <2>1. [s EXCEPT ![r] = new] = s
    BY <1>2, <1>9 DEF s, CallsOf
  <2> QED BY <2>1 DEF Kept, s
<1>10. ASSUME Active(rooms[r]) = {}, new = Promise!NoCall PROVE Promise!Next
  <2>1. Promise!Close(r)
    BY <1>2, <1>3, <1>4, <1>5, <1>10 DEF Promise!Close
  <2> QED BY <2>1 DEF Promise!Next
<1> QED BY <1>6, <1>7, <1>8, <1>9, <1>10 DEF Kept, call

\* No room changes.
LEMMA NoCallKept ==
  ASSUME rooms' = rooms, UNCHANGED <<tombstones, issued>>
  PROVE  Kept
BY DEF Kept

\* An update that touches nothing the participants see.
LEMMA SilentKept ==
  ASSUME Inv, NEW r \in RIDs, rooms[r] # Nil, NEW room \in RoomType,
         rooms' = [rooms EXCEPT ![r] = room], UNCHANGED <<tombstones, issued>>,
         room.members = rooms[r].members, room.client = rooms[r].client,
         room.host = rooms[r].host, room.requested = rooms[r].requested,
         room.locked = rooms[r].locked, room.max = rooms[r].max
  PROVE  Kept
<1>1. rooms[r] \in RoomType /\ rooms'[r] = room /\ \A q \in RIDs \ {r} : rooms'[q] = rooms[q]
  BY DEF Inv, TypeOK
<1>2. CallsOf(rooms') = [CallsOf(rooms) EXCEPT ![r] = CallOf(rooms'[r])]
  BY <1>1, OneCallChanges
<1>3. CallOf(room) = CallOf(rooms[r])
  BY <1>1, SameCall
<1> DEFINE new == CallOf(room)
<1>4. CallsOf(rooms') = [CallsOf(rooms) EXCEPT ![r] = new] /\ new = CallOf(rooms[r])
  BY <1>1, <1>2, <1>3
<1> HIDE DEF new
<1> QED BY <1>4, OneCallKept

\* Somebody leaves, or some expire.
LEMMA RemovalKept ==
  ASSUME Inv, NEW r \in RIDs, rooms[r] # Nil, NEW gone \in SUBSET CIDs,
         NEW heir \in Heirs(rooms[r], gone),
         rooms' = RemoveParticipants(Directory, r, gone, heir).rooms,
         UNCHANGED <<tombstones, issued>>,
         \/ \E p \in rooms[r].members : gone = {p}
         \/ gone # {} /\ gone \subseteq Suspended(rooms[r])
  PROVE  Kept
<1>1. DirectoryOK(Directory) /\ Directory.rooms = rooms
  BY DirectoryIsOK
<1>2. PICK new \in Promise!Without(CallOf(rooms[r]), gone) :
        CallsOf(rooms') = [CallsOf(rooms) EXCEPT ![r] = new]
  <2> DEFINE d == Directory
             e == RemoveParticipants(d, r, gone, heir)
  <2>1. /\ DirectoryOK(d) /\ d.rooms = rooms /\ rooms' = e.rooms
        /\ d.rooms[r] # Nil /\ heir \in Heirs(d.rooms[r], gone)
    BY <1>1
  <2> HIDE DEF d
  <2>2. \E new \in Promise!Without(CallOf(d.rooms[r]), gone) :
           CallsOf(e.rooms) = [CallsOf(d.rooms) EXCEPT ![r] = new]
    BY <2>1, RemoveCall
  <2> QED BY <2>1, <2>2
<1>3. CASE \E p \in rooms[r].members : gone = {p}
  BY <1>2, <1>3, OneCallKept
<1>4. CASE gone # {} /\ gone \subseteq Suspended(rooms[r])
  BY <1>2, <1>4, OneCallKept
<1> QED BY <1>3, <1>4

\* A participant whose transport is lost is away.
LEMMA DisconnectKept ==
  ASSUME Inv, NEW c \in Clients, Disconnect(c)
  PROVE  Kept
<1> DEFINE r == rid[c]
           p == cid[c]
           room == BumpEpoch(Suspend(rooms[r], p))
           gone == Dismiss(Directory, {c})
           f == NotifyWatchers(Broadcast(Put(gone, r, room), r), r)
<1>1. DirectoryOK(gone) /\ gone.rooms = rooms
  BY DirectoryIsOK, DismissOK
<1>2. rooms' = (IF HoldsSeat(c) THEN f.rooms ELSE gone.rooms) /\ UNCHANGED <<tombstones, issued>>
  BY DEF Disconnect, Becomes
<1> HIDE DEF gone
<1>3. CASE HoldsSeat(c)
  <2>1. /\ r \in RIDs /\ p \in CIDs /\ rooms[r] # Nil /\ RoomOK(rooms[r])
        /\ IsActive(rooms[r], p)
    BY <1>3, HolderIsAttached
  <2>2. SeatingOK(rooms[r], p) /\ HostIsMember(rooms[r]) /\ rooms[r] \in RoomType
        /\ p \in rooms[r].members
    BY <2>1, SeatedInOrder DEF RoomOK, IsActive
  <2>3. RoomOK(room) /\ room \in RoomType
    BY <2>1, <2>2, SuspendOK, BumpEpochOK DEF BumpEpoch, RoomOK
  <2>4. /\ room.members = rooms[r].members
        /\ room.client = [rooms[r].client EXCEPT ![p] = Nil]
        /\ room.host = rooms[r].host /\ room.requested = rooms[r].requested
        /\ room.locked = rooms[r].locked /\ room.max = rooms[r].max
    BY <2>2 DEF BumpEpoch, BumpEpochBy, Suspend, ArmNoActive, RoomType
  <2> HIDE DEF room
  <2>5. rooms' = [rooms EXCEPT ![r] = room]
    BY <1>1, <1>2, <1>3, <2>1, <2>3, PublishOK
  <2>6. rooms'[r] = room /\ \A q \in RIDs \ {r} : rooms'[q] = rooms[q]
    BY <2>1, <2>5 DEF Inv, TypeOK
  <2>7. CallsOf(rooms') = [CallsOf(rooms) EXCEPT ![r] = CallOf(room)]
    BY <2>1, <2>6, OneCallChanges
  <2>8. LET call == CallOf(rooms[r]) IN
        CallOf(room) = Promise!Seating(call, call.here \ {p}, call.away \cup {p})
    BY <2>2, <2>3, <2>4, SuspendCall
  <2> HIDE DEF r, p
  <2> QED BY <1>2, <2>1, <2>2, <2>7, <2>8, OneCallKept
<1>4. CASE ~HoldsSeat(c)
  BY <1>1, <1>2, <1>4, NoCallKept
<1> QED BY <1>3, <1>4

\* A room is ended by its host, or reaped by its timer.
LEMMA EndKept ==
  ASSUME Inv,
         \/ \E c \in Clients : EndRoom(c)
         \/ \E r \in RIDs : NoActiveTimerFires(r)
  PROVE  Kept
<1>1. ASSUME NEW d, DirectoryOK(d), d.rooms = rooms, NEW r \in RIDs,
             rooms' = NotifyWatchers(Put(d, r, Nil), r).rooms
      PROVE  CallsOf(rooms') = [CallsOf(rooms) EXCEPT ![r] = Promise!NoCall]
  <2> DEFINE e == Put(d, r, Nil)
  <2>1. DirectoryOK(e) /\ e.rooms = [rooms EXCEPT ![r] = Nil]
    BY <1>1, PutOK
  <2> HIDE DEF e
  <2>2. NotifyWatchers(e, r).rooms = e.rooms
    BY <1>1, <2>1, NotifyOK
  <2>3. rooms'[r] = Nil /\ \A q \in RIDs \ {r} : rooms'[q] = rooms[q]
    BY <1>1, <2>1, <2>2 DEF e, Inv, TypeOK
  <2>4. CallOf(Nil) = Promise!NoCall
    BY DEF CallOf, Promise!NoCall
  <2> QED BY <1>1, <2>3, <2>4, OneCallChanges
<1>2. DirectoryOK(Directory) /\ Directory.rooms = rooms
  BY DirectoryIsOK
<1>3. ASSUME NEW c \in Clients, EndRoom(c) PROVE Kept
  <2> DEFINE d == Forget(Directory, ActiveClients(rooms[rid[c]]))
             r == rid[c]
  <2>1. DirectoryOK(d) /\ d.rooms = rooms
    BY <1>2, ForgetOK
  <2>2. r \in RIDs /\ rooms[r] # Nil /\ rooms[r] \in RoomType /\ RoomOK(rooms[r])
        /\ rooms[r].byClient[c] \in rooms[r].members
    BY <1>3, SenderIsMember DEF EndRoom, RoomOK
  <2>3. /\ rooms' = NotifyWatchers(Put(d, r, Nil), r).rooms
        /\ rooms[r].host = rooms[r].byClient[c]
        /\ tombstones' = tombstones \cup {r} /\ issued' = issued
    BY <1>3 DEF EndRoom, Becomes
  <2> HIDE DEF d
  <2>4. CallsOf(rooms') = [CallsOf(rooms) EXCEPT ![r] = Promise!NoCall]
    BY <1>1, <2>1, <2>2, <2>3
  <2>5. rooms[r].host \in Active(rooms[r])
    <3>1. rooms[r].client[rooms[r].host] = c
      BY <2>2, <2>3 DEF RoomOK, RoomType, IndexesAgree
    <3> QED BY <2>2, <2>3, <3>1, RoomAssumption DEF Active
  <2>6. CallsOf(rooms)[r].host \in CallsOf(rooms)[r].here
    BY <2>2, <2>5, CallsNow, CallFields, CallParts
  <2>7. Promise!End(r)
    BY <2>3, <2>4, <2>6 DEF Promise!End, CallsOf
  <2> QED BY <2>2, <2>7 DEF Kept, Promise!Next
<1>4. ASSUME NEW r \in RIDs, NoActiveTimerFires(r) PROVE Kept
  <2>1. rooms[r] # Nil /\ UNCHANGED <<tombstones, issued>> /\ rooms[r] \in RoomType
        /\ RoomOK(rooms[r])
    BY <1>4 DEF NoActiveTimerFires, Inv, TypeOK, RoomsOK, Live
  <2>2. CASE ActiveClients(rooms[r]) # {}
    <3> DEFINE room == [rooms[r] EXCEPT !.noActive = FALSE]
    <3>1. rooms' = [rooms EXCEPT ![r] = room]
      BY <1>4, <2>2 DEF NoActiveTimerFires
    <3>2. /\ room \in RoomType
          /\ room.members = rooms[r].members /\ room.client = rooms[r].client
          /\ room.host = rooms[r].host /\ room.requested = rooms[r].requested
          /\ room.locked = rooms[r].locked /\ room.max = rooms[r].max
      BY <2>1 DEF RoomType
    <3> HIDE DEF room
    <3> QED BY <2>1, <3>1, <3>2, SilentKept
  <2>3. CASE ActiveClients(rooms[r]) = {}
    <3>1. rooms' = NotifyWatchers(Put(Directory, r, Nil), r).rooms
      BY <1>4, <2>3 DEF NoActiveTimerFires, Becomes
    <3>2. CallsOf(rooms') = [CallsOf(rooms) EXCEPT ![r] = Promise!NoCall]
      BY <1>1, <1>2, <3>1
    <3>3. Active(rooms[r]) = {}
      BY <1>4, <2>1 DEF NoActiveTimerFires, RoomOK, GhostRoomIsTimed
    <3> QED BY <2>1, <3>2, <3>3, OneCallKept
  <2> QED BY <2>2, <2>3
<1> QED BY <1>3, <1>4

\* A relay, and the time that passes, are no business of the participants' places.
LEMMA QuietKept ==
  ASSUME Inv,
         \/ \E c \in Clients, to \in CIDs \cup {Nil} : Relay(c, to)
         \/ \E r \in RIDs, p \in CIDs : DwellPasses(r, p) \/ ReportGoesStale(r, p)
  PROVE  Kept
<1>1. ASSUME NEW c \in Clients, NEW to \in CIDs \cup {Nil}, Relay(c, to) PROVE Kept
  <2> DEFINE r == rid[c]
             from == rooms[r].byClient[c]
             missed == {p \in Suspended(rooms[r]) \ {from} : to \in {Nil, p}}
             room == MarkDirty(rooms[r], from, missed)
  <2>1. /\ r \in RIDs /\ rooms[r] # Nil /\ rooms[r] \in RoomType
        /\ from \in CIDs /\ missed \subseteq CIDs
    BY <1>1, SenderIsMember DEF Relay, RoomOK, RoomType, Suspended
  <2>2. rooms' = [rooms EXCEPT ![r] = room] /\ UNCHANGED <<tombstones, issued>>
    BY <1>1 DEF Relay
  <2> HIDE DEF r, from, missed
  <2>3. /\ room \in RoomType
        /\ room.members = rooms[r].members /\ room.client = rooms[r].client
        /\ room.host = rooms[r].host /\ room.requested = rooms[r].requested
        /\ room.locked = rooms[r].locked /\ room.max = rooms[r].max
    BY <2>1 DEF MarkDirty, RoomType
  <2> HIDE DEF room
  <2> QED BY <2>1, <2>2, <2>3, SilentKept
<1>2. ASSUME NEW r \in RIDs, NEW p \in CIDs, DwellPasses(r, p) PROVE Kept
  <2> DEFINE room == [rooms[r] EXCEPT !.dwelt = @ \cup {p}]
  <2>1. rooms[r] # Nil /\ rooms' = [rooms EXCEPT ![r] = room] /\ rooms[r] \in RoomType
        /\ UNCHANGED <<tombstones, issued>>
    BY <1>2 DEF DwellPasses, Inv, TypeOK
  <2>2. /\ room \in RoomType
        /\ room.members = rooms[r].members /\ room.client = rooms[r].client
        /\ room.host = rooms[r].host /\ room.requested = rooms[r].requested
        /\ room.locked = rooms[r].locked /\ room.max = rooms[r].max
    BY <2>1 DEF RoomType
  <2> HIDE DEF room
  <2> QED BY <2>1, <2>2, SilentKept
<1>3. ASSUME NEW r \in RIDs, NEW p \in CIDs, ReportGoesStale(r, p) PROVE Kept
  <2> DEFINE room == [rooms[r] EXCEPT !.seen = @ \ {p}]
  <2>1. rooms[r] # Nil /\ rooms' = [rooms EXCEPT ![r] = room] /\ rooms[r] \in RoomType
        /\ UNCHANGED <<tombstones, issued>>
    BY <1>3 DEF ReportGoesStale, Inv, TypeOK
  <2>2. /\ room \in RoomType
        /\ room.members = rooms[r].members /\ room.client = rooms[r].client
        /\ room.host = rooms[r].host /\ room.requested = rooms[r].requested
        /\ room.locked = rooms[r].locked /\ room.max = rooms[r].max
    BY <2>1 DEF RoomType
  <2> HIDE DEF room
  <2> QED BY <2>1, <2>2, SilentKept
<1> QED BY <1>1, <1>2, <1>3

\* Leaves and evictions.
LEMMA LeaveKept ==
  ASSUME Inv,
         \/ \E c \in Clients : Leave(c)
         \/ \E r \in RIDs, p \in CIDs : LeaveByToken(r, p) \/ HardEvictionFires(r, p)
  PROVE  Kept
<1>1. ASSUME NEW c \in Clients, Leave(c) PROVE Kept
  <2> DEFINE r == rid[c]
             p == cid[c]
  <2>1. /\ r \in RIDs /\ rooms[r] # Nil /\ {p} \in SUBSET CIDs /\ p \in rooms[r].members
    BY <1>1, HolderIsAttached DEF Leave, IsActive
  <2>2. PICK heir \in Heirs(rooms[r], {p}) :
          rooms' = RemoveParticipants(Directory, r, {p}, heir).rooms
          /\ UNCHANGED <<tombstones, issued>>
    BY <1>1 DEF Leave, Becomes
  <2> HIDE DEF r, p
  <2> QED BY <2>1, <2>2, RemovalKept
<1>2. ASSUME NEW r \in RIDs, NEW p \in CIDs, LeaveByToken(r, p) PROVE Kept
  <2> DEFINE cut == {rooms[r].client[p]} \ {Nil}
  <2>1. PICK heir \in Heirs(rooms[r], {p}) :
          Becomes(Dismiss(RemoveParticipants(Directory, r, {p}, heir), cut))
    BY <1>2 DEF LeaveByToken
  <2>2. /\ rooms[r] # Nil /\ {p} \in SUBSET CIDs /\ p \in rooms[r].members
        /\ DirectoryOK(Directory) /\ Directory.rooms = rooms
        /\ UNCHANGED <<tombstones, issued>>
    BY <1>2, DirectoryIsOK DEF LeaveByToken
  <2> DEFINE e == RemoveParticipants(Directory, r, {p}, heir)
  <2>3. DirectoryOK(e)
    BY <2>1, <2>2, RemoveOK
  <2>4. Becomes(Dismiss(e, cut))
    BY <2>1
  <2>5. rooms' = e.rooms
    <3> HIDE DEF e, cut
    <3> QED
      BY <2>3, <2>4, DismissOK DEF Becomes
  <2> QED
    BY <2>1, <2>2, <2>5, RemovalKept
<1>3. ASSUME NEW r \in RIDs, NEW p \in CIDs, HardEvictionFires(r, p) PROVE Kept
  <2>1. rooms[r] # Nil /\ RoomOK(rooms[r]) /\ {p} \in SUBSET CIDs
        /\ UNCHANGED <<tombstones, issued>>
    BY <1>3 DEF HardEvictionFires, Inv, RoomsOK, Live
  <2>2. IsSuspended(rooms[r], p) /\ p \in rooms[r].members
    BY <1>3, <2>1 DEF HardEvictionFires, RoomOK, SlotsAreTimed, Suspended, IsSuspended
  <2>3. PICK heir \in Heirs(rooms[r], {p}) :
          Becomes(RemoveParticipants(Directory, r, {p}, heir))
    BY <1>3, <2>2 DEF HardEvictionFires
  <2> QED BY <2>1, <2>2, <2>3, RemovalKept DEF Becomes
<1> QED BY <1>1, <1>2, <1>3

\* A report expires the ghosts it exposes.
LEMMA ReportLivenessKept ==
  ASSUME Inv, NEW c \in Clients, NEW reported \in SUBSET CIDs, ReportLiveness(c, reported)
  PROVE  Kept
<1> DEFINE r == rid[c]
           room == rooms[r]
           hints == (reported \cap room.members) \ {room.byClient[c]}
           heard == RecordLiveness(room, hints)
           ghosts == Ghosts(heard)
           d == Put(Directory, r, heard)
<1>1. /\ r \in RIDs /\ room # Nil /\ RoomOK(room) /\ room \in RoomType
      /\ UNCHANGED <<tombstones, issued>>
  BY SenderIsMember DEF ReportLiveness, RoomOK
<1>2. IF ghosts = {} THEN Becomes(d)
      ELSE \E heir \in Heirs(heard, ghosts) : Becomes(RemoveParticipants(d, r, ghosts, heir))
  BY DEF ReportLiveness
<1>3. /\ heard.members = room.members /\ heard.host = room.host
      /\ heard.client = room.client /\ heard.requested = room.requested
      /\ heard.locked = room.locked /\ heard.max = room.max
  BY <1>1 DEF RecordLiveness, RoomType
<1>4. RoomOK(heard)
  <2>1. room.dwelt \in SUBSET Suspended(room) /\ room.seen \cup hints \in SUBSET room.members
    BY <1>1 DEF RoomOK, HintsAreOfMembers
  <2>2. heard = [room EXCEPT !.dwelt = room.dwelt, !.seen = room.seen \cup hints]
    BY <1>1 DEF RecordLiveness, RoomType
  <2> HIDE DEF heard, room, hints
  <2>3. RoomOK([room EXCEPT !.dwelt = room.dwelt, !.seen = room.seen \cup hints])
    BY <1>1, <2>1, HintsOK
  <2> QED
    BY <2>2, <2>3
<1>5. ghosts \in SUBSET CIDs /\ ghosts \subseteq Suspended(room)
  BY <1>3, <1>4 DEF Ghosts, Suspended, RoomOK, RoomType
<1> HIDE DEF ghosts, heard
<1>6. DirectoryOK(d) /\ d.rooms = [rooms EXCEPT ![r] = heard]
  <2>1. DirectoryOK(Directory) /\ Directory.rooms = rooms
    BY DirectoryIsOK
  <2> QED
    BY <1>1, <1>4, <2>1, PutOK
<1> HIDE DEF d
<1>7. /\ rooms \in [RIDs -> RoomType \cup {Nil}] /\ heard # Nil /\ heard \in RoomType
      /\ d.rooms[r] = heard /\ \A q \in RIDs \ {r} : d.rooms[q] = rooms[q]
  BY <1>1, <1>4, <1>6, HubAssumption DEF Inv, TypeOK, RoomOK
<1>8. CallsOf(d.rooms) = CallsOf(rooms) /\ CallOf(heard) = CallOf(room)
  <2>1. CallOf(heard) = CallOf(room)
    BY <1>1, <1>3, <1>7, SameCall
  <2> QED
    BY <1>7, <2>1 DEF CallsOf
<1>9. CASE ghosts = {}
  <2>1. rooms' = d.rooms
    BY <1>2, <1>9 DEF Becomes
  <2> QED
    BY <1>1, <1>8, <2>1 DEF Kept
<1>10. CASE ghosts # {}
  <2>1. PICK heir \in Heirs(heard, ghosts) : Becomes(RemoveParticipants(d, r, ghosts, heir))
    BY <1>2, <1>10
  <2> DEFINE e == RemoveParticipants(d, r, ghosts, heir)
  <2>2. /\ DirectoryOK(d) /\ r \in RIDs /\ ghosts \in SUBSET CIDs
        /\ d.rooms[r] # Nil /\ heir \in Heirs(d.rooms[r], ghosts)
    BY <1>1, <1>5, <1>6, <1>7, <2>1
  <2>3. rooms' = e.rooms
    BY <2>1 DEF Becomes
  <2>4. PICK new \in Promise!Without(CallOf(d.rooms[r]), ghosts) :
          CallsOf(e.rooms) = [CallsOf(d.rooms) EXCEPT ![r] = new]
    <3> HIDE DEF r
    <3> QED
      BY <2>2, RemoveCall
  <2> HIDE DEF e
  <2>5. /\ new \in Promise!Without(CallOf(rooms[r]), ghosts)
        /\ CallsOf(rooms') = [CallsOf(rooms) EXCEPT ![r] = new]
    BY <1>7, <1>8, <2>3, <2>4
  <2> QED
    BY <1>1, <1>5, <1>10, <2>5, OneCallKept
<1> QED
  BY <1>9, <1>10

-----------------------------------------------------------------------------
\* Joins.  The place that is given up first is one its participant was in.
Gives(s) ==
  \/ s = CallsOf(rooms)
  \/ \E q \in RIDs, p \in CIDs :
       /\ p \in CallsOf(rooms)[q].here
       /\ \E new \in Promise!Without(CallsOf(rooms)[q], {p}) :
            s = [CallsOf(rooms) EXCEPT ![q] = new]

LEMMA VacatedGives ==
  ASSUME Inv, NEW c \in Clients, NEW prev \in registered,
         prev = c \/ c \notin registered,
         NEW heir \in IF HoldsSeat(prev) THEN Heirs(rooms[rid[prev]], {cid[prev]}) ELSE {Nil}
  PROVE  Gives(CallsOf(Vacated(c, prev, heir).rooms))
<1> DEFINE d == IF prev = c THEN Directory
                ELSE [Directory EXCEPT !.watchers = Inherited(prev, c)]
           e == Vacated(c, prev, heir)
<1>1. prev \in Clients
  BY DEF Inv, TypeOK
<1>2. DirectoryOK(d) /\ d.rooms = rooms
  <2>1. CASE prev = c
    BY <2>1, DirectoryIsOK DEF d
  <2>2. CASE prev # c
    <3>1. Inherited(prev, c) \in [RIDs -> [Clients -> Statuses \cup {Nil}]]
      BY <1>1 DEF Inherited, Inv, TypeOK
    <3> QED
      BY <2>2, <3>1, DirectoryIsOK DEF d, DirectoryOK, DirectoryType
  <2> QED
    BY <2>1, <2>2
<1>3. e = IF HoldsSeat(prev) THEN RemoveParticipants(d, rid[prev], {cid[prev]}, heir) ELSE d
  BY DEF Vacated
<1> HIDE DEF d, e
<1>4. CASE HoldsSeat(prev)
  <2> DEFINE r == rid[prev]
             p == cid[prev]
             gone == {p}
  <2>1. /\ r \in RIDs /\ p \in CIDs /\ rooms[r] # Nil /\ RoomOK(rooms[r])
        /\ IsActive(rooms[r], p) /\ heir \in Heirs(rooms[r], gone)
    BY <1>1, <1>4, HolderIsAttached
  <2>2. e = RemoveParticipants(d, r, gone, heir) /\ gone \in SUBSET CIDs
    BY <1>3, <1>4, <2>1
  <2>3. p \in CallsOf(rooms)[r].here
    <3>1. CallsOf(rooms)[r] = CallOf(rooms[r]) /\ rooms[r] \in RoomType
      BY <2>1, CallsNow DEF RoomOK
    <3>2. CallOf(rooms[r]).here = Active(rooms[r])
      BY <3>1, CallFields, CallParts
    <3>3. p \in Active(rooms[r])
      BY <2>1 DEF IsActive, Active
    <3> QED
      BY <3>1, <3>2, <3>3
  <2>4. /\ d.rooms[r] # Nil /\ heir \in Heirs(d.rooms[r], gone)
    BY <1>2, <2>1
  <2>5. PICK new \in Promise!Without(CallOf(d.rooms[r]), gone) :
          CallsOf(e.rooms) = [CallsOf(d.rooms) EXCEPT ![r] = new]
    <3> HIDE DEF r, gone
    <3> QED
      BY <1>2, <2>1, <2>2, <2>4, RemoveCall
  <2>6. new \in Promise!Without(CallsOf(rooms)[r], {p})
    BY <1>2, <2>1, <2>5, CallsNow
  <2> QED
    BY <1>2, <2>1, <2>3, <2>5, <2>6 DEF Gives, e
<1>5. CASE ~HoldsSeat(prev)
  BY <1>2, <1>3, <1>5 DEF Gives, e
<1> QED
  BY <1>4, <1>5

\* After that, what the join comes to makes a step of Calls.
LEMMA JoinKept ==
  ASSUME NEW s, Gives(s), Promise!Join(s)
  PROVE  Kept
<1> DEFINE now == CallsOf(rooms)
<1>1. [r \in RIDs |-> CallOf(rooms[r])] = now
  BY CallsNow
<1> HIDE DEF now
<1>2. CASE s = now
  BY <1>1, <1>2 DEF Kept, Promise!Next
<1>3. CASE s # now
  <2>1. PICK q \in RIDs, p \in CIDs :
          /\ p \in now[q].here
          /\ \E new \in Promise!Without(now[q], {p}) : s = [now EXCEPT ![q] = new]
    BY <1>3 DEF Gives, now
  <2>2. Promise!Move(q, p)
    BY <1>1, <2>1 DEF Promise!Move
  <2> QED
    BY <2>2 DEF Kept, Promise!Next
<1> QED
  BY <1>2, <1>3

\* A join that changes nothing.
LEMMA NothingJoins ==
  ASSUME NEW f, CallsOf(rooms') = CallsOf(f), UNCHANGED <<tombstones, issued>>
  PROVE  Promise!Join(CallsOf(f))
BY DEF Promise!Join, CallsOf

\* The call that a join is about.
LEMMA CallsAt ==
  ASSUME NEW f, NEW r \in RIDs
  PROVE  CallsOf(f)[r] = CallOf(f[r])
BY DEF CallsOf

\* A refused token expires the record it names, if it is suspended.
LEMMA RefuseTokenJoins ==
  ASSUME NEW c \in Clients, NEW prev \in registered, NEW m \in Requests, NEW d,
         DirectoryOK(d), RefuseToken(c, prev, m, d)
  PROVE  Promise!Join(CallsOf(d.rooms))
<1> DEFINE r == m.rid
           p == m.cid
           f == d.rooms
           s == CallsOf(f)
<1>1. r \in RIDs /\ UNCHANGED <<tombstones, issued>>
  BY RequestType DEF RefuseToken
<1>2. CASE Becomes(d)
  BY <1>1, <1>2, NothingJoins DEF Becomes
<1>3. CASE ~Becomes(d)
  <2> DEFINE gone == {p}
  <2>1. /\ d.rooms[r] # Nil /\ IsSuspended(d.rooms[r], p)
        /\ \E h \in Heirs(d.rooms[r], gone) : Becomes(RemoveParticipants(d, r, gone, h))
    BY <1>3 DEF RefuseToken
  <2>2. PICK h \in Heirs(d.rooms[r], gone) : Becomes(RemoveParticipants(d, r, gone, h))
    BY <2>1
  <2>3. /\ gone \in SUBSET CIDs /\ d.rooms[r] \in RoomType /\ p \in CIDs
        /\ p \in Suspended(d.rooms[r])
    BY <1>1, <2>1 DEF DirectoryOK, IsSuspended, RoomOK, RoomType, Suspended
  <2> DEFINE e == RemoveParticipants(d, r, gone, h)
  <2>4. rooms' = e.rooms
    BY <2>2 DEF Becomes
  <2>5. PICK new \in Promise!Without(CallOf(d.rooms[r]), gone) :
          CallsOf(e.rooms) = [CallsOf(d.rooms) EXCEPT ![r] = new]
    <3> HIDE DEF r, gone
    <3> QED
      BY <1>1, <2>1, <2>2, <2>3, RemoveCall
  <2> HIDE DEF e
  <2>6. Promise!Becomes(CallsOf(f), r, new)
    <3>1. CallsOf(rooms') = [CallsOf(f) EXCEPT ![r] = new]
      BY <2>4, <2>5
    <3> HIDE DEF f, r
    <3> QED
      BY <1>1, <3>1, StepBecomes
  <2>7. s[r] = CallOf(d.rooms[r]) /\ p \in s[r].away
    <3>1. s[r] = CallOf(d.rooms[r])
      BY <1>1, CallsAt
    <3>2. CallOf(d.rooms[r]).away = Suspended(d.rooms[r])
      BY <2>3, CallFields, CallParts
    <3> QED
      BY <2>3, <3>1, <3>2
  <2> HIDE DEF s, f, p
  <2>8. Promise!Expire(s, r, {p})
    BY <2>5, <2>6, <2>7 DEF Promise!Expire, gone, s
  <2>9. Promise!Join(s)
    BY <1>1, <2>3, <2>8 DEF Promise!Join
  <2> QED
    BY <2>9 DEF s, f
<1> QED
  BY <1>2, <1>3
\* An admission changes one call, and the server vouches for the newcomer.
LEMMA AdmitCall ==
  ASSUME NEW c \in Clients, NEW m \in Requests, NEW d, NEW e, NEW room, NEW p,
         Admit(c, m, e, room, p), DirectoryOK(e), e.rooms = d.rooms,
         RoomOK(Seat(room, p))
  PROVE  /\ CallsOf(rooms') = [CallsOf(d.rooms) EXCEPT ![m.rid] = CallOf(Seat(room, p))]
         /\ tombstones' = tombstones \ {m.rid}
         /\ issued' = issued \cup {<<m.rid, p>>}
<1> DEFINE seated == Seat(room, p)
           r == m.rid
           f == NotifyWatchers(Broadcast(Put(e, r, seated), r), r)
<1>1. /\ Becomes(f) /\ tombstones' = tombstones \ {m.rid}
      /\ issued' = issued \cup {<<m.rid, p>>}
  BY DEF Admit
<1>2. r \in RIDs /\ RoomOK(seated)
  BY RequestType
<1>3. rooms' = f.rooms
  BY <1>1 DEF Becomes
<1> HIDE DEF seated, r
<1>4. CallsOf(f.rooms) = [CallsOf(e.rooms) EXCEPT ![r] = CallOf(seated)]
  BY <1>2, PublishCall
<1> HIDE DEF f
<1>5. CallsOf(rooms') = [CallsOf(d.rooms) EXCEPT ![r] = CallOf(seated)]
  BY <1>3, <1>4
<1> QED
  BY <1>1, <1>5 DEF seated, r

\* Somebody takes their place back.
LEMMA JoinReattachJoins ==
  ASSUME Inv, TombstonesClosed, NEW c \in Clients, NEW prev \in registered,
         NEW m \in Requests, NEW d, Vacant(c, prev, d), JoinReattach(c, prev, m, d)
  PROVE  Promise!Join(CallsOf(d.rooms))
<1> DEFINE old   == RoomFor(m, d)
           r     == m.rid
           p     == m.cid
           room  == Reattach(old, p, c)
           new   == Seat(room, p)
           ghost == {old.client[p]} \ {Nil}
           e     == Dismiss(d, ghost)
           f     == d.rooms
           s     == CallsOf(f)
           call  == CallOf(old)
<1>1. p \in old.members /\ Admit(c, m, e, room, p)
  BY DEF JoinReattach, Reclaims
<1>2. DirectoryOK(d) /\ r \in RIDs /\ Shrinks(Directory, d)
  BY RequestType DEF Vacant
<1>3. d.rooms[r] # Nil /\ old = d.rooms[r] /\ RoomOK(old) /\ old \in RoomType
  BY <1>1, <1>2, RoomForOK DEF RoomOK
<1>4. p \in CIDs /\ old.byClient[c] = Nil /\ HostIsMember(old) /\ old.host # Nil
  BY <1>1, <1>2, <1>3, RoomAssumption DEF Vacant, RoomOK, RoomType, HostIsMember
<1>5. r \notin tombstones /\ <<r, p>> \in issued
  <2>1. rooms[r] # Nil /\ p \in rooms[r].members
    BY <1>1, <1>2, <1>3 DEF Shrinks, Directory
  <2> QED
    BY <1>2, <2>1 DEF TombstonesClosed, Inv, MembersHoldTokens, Live
<1>6. DirectoryOK(e) /\ e.rooms = d.rooms
  BY <1>2, DismissOK
<1> HIDE DEF old, e, ghost
<1>7. RoomOK(new) /\ new \in RoomType /\ room \in RoomType
  <2>1. SeatingOK(room, p)
    BY <1>1, <1>3, <1>4, ReattachOK
  <2> HIDE DEF room, p
  <2>2. RoomOK(Seat(room, p))
    BY <1>4, <2>1, SeatOK
  <2>3. RoomOK(new)
    BY <2>2
  <2> HIDE DEF new
  <2> QED
    BY <2>1, <2>3 DEF SeatingOK, RoomOK
<1>8. /\ new.members = old.members /\ new.client = [old.client EXCEPT ![p] = c]
      /\ new.host = old.host /\ new.requested = old.requested
      /\ new.locked = old.locked /\ new.max = old.max
  <2>1. /\ room.members = old.members /\ room.client = [old.client EXCEPT ![p] = c]
        /\ room.host = old.host /\ room.requested = old.requested
        /\ room.locked = old.locked /\ room.max = old.max
    BY <1>3 DEF Reattach, RoomType
  <2> HIDE DEF room
  <2>2. /\ new.members = room.members /\ new.client = room.client
        /\ new.host = room.host /\ new.requested = room.requested
        /\ new.locked = room.locked /\ new.max = room.max
    BY <1>4, <1>7, <2>1 DEF Seat, BumpEpoch, BumpEpochBy, RoomType
  <2> QED
    BY <2>1, <2>2
<1>9. CallsOf(rooms') = [s EXCEPT ![r] = CallOf(new)] /\ UNCHANGED <<tombstones, issued>>
  <2>1. /\ CallsOf(rooms') = [s EXCEPT ![r] = CallOf(new)]
        /\ tombstones' = tombstones \ {r} /\ issued' = issued \cup {<<r, p>>}
    BY <1>1, <1>6, <1>7, AdmitCall
  <2> QED
    BY <1>5, <2>1
<1> HIDE DEF new, room
<1>10. CallOf(new) = Promise!Seating(call, call.here \cup {p}, call.away \ {p})
  BY <1>1, <1>3, <1>7, <1>8, ReattachCall
<1>11. Promise!Becomes(s, r, Promise!Seating(call, call.here \cup {p}, call.away \ {p}))
  <2> HIDE DEF f, r
  <2> QED
    BY <1>2, <1>9, <1>10, StepBecomes
<1>12. s[r] = call /\ p \in Promise!Participants(call)
  <2>1. Promise!Participants(call) = old.members
    BY <1>3, CallFields
  <2> QED
    BY <1>1, <1>2, <1>3, <2>1, CallsAt
<1> HIDE DEF s, call, r, p
<1>13. Promise!Return(s, r, p)
  BY <1>11, <1>12 DEF Promise!Return
<1>14. Promise!Join(s)
  BY <1>2, <1>4, <1>13 DEF Promise!Join
<1> QED
  BY <1>14 DEF s, f

\* Somebody could not take their place back, and is away all the same.
LEMMA RefuseReattachJoins ==
  ASSUME NEW c \in Clients, NEW prev \in registered,
         NEW m \in Requests, NEW d, Vacant(c, prev, d), RefuseReattach(c, prev, m, d)
  PROVE  Promise!Join(CallsOf(d.rooms))
<1> DEFINE old   == RoomFor(m, d)
           r     == m.rid
           p     == m.cid
           taken == Reattach(old, p, c)
           new   == Suspend(taken, p)
           ghost == {old.client[p]} \ {Nil}
           left  == Dismiss(d, ghost)
           e     == Put(left, r, new)
           g     == IF ghost = {} THEN e ELSE Broadcast(e, r)
           f     == d.rooms
           s     == CallsOf(f)
           call  == CallOf(old)
<1>1. p \in old.members /\ Becomes(g) /\ UNCHANGED <<tombstones, issued>>
  BY DEF RefuseReattach, Reclaims
<1>2. DirectoryOK(d) /\ r \in RIDs /\ DirectoryOK(left) /\ left.rooms = f
  BY RequestType, DismissOK DEF Vacant
<1>3. d.rooms[r] # Nil /\ old = d.rooms[r] /\ RoomOK(old) /\ old \in RoomType
  BY <1>1, <1>2, RoomForOK DEF RoomOK
<1>4. p \in CIDs /\ old.byClient[c] = Nil
  BY <1>1, <1>2, <1>3 DEF Vacant, RoomOK, RoomType
<1> HIDE DEF old, left, ghost
<1>5. taken \in RoomType /\ new \in RoomType /\ RoomOK(new)
  <2>1. SeatingOK(taken, p) /\ HostIsMember(taken)
    BY <1>1, <1>3, <1>4, ReattachOK
  <2> HIDE DEF taken
  <2> QED
    BY <1>4, <2>1, SuspendOK DEF SeatingOK, RoomOK
<1>6. /\ new.members = old.members /\ new.client = [old.client EXCEPT ![p] = Nil]
      /\ new.host = old.host /\ new.requested = old.requested
      /\ new.locked = old.locked /\ new.max = old.max
  <2>1. /\ taken.members = old.members /\ taken.client = [old.client EXCEPT ![p] = c]
        /\ taken.host = old.host /\ taken.requested = old.requested
        /\ taken.locked = old.locked /\ taken.max = old.max
    BY <1>3 DEF Reattach, RoomType
  <2> HIDE DEF taken
  <2>2. /\ new.members = taken.members /\ new.client = [taken.client EXCEPT ![p] = Nil]
        /\ new.host = taken.host /\ new.requested = taken.requested
        /\ new.locked = taken.locked /\ new.max = taken.max
    BY <1>5 DEF Suspend, ArmNoActive, RoomType
  <2> HIDE DEF new
  <2> QED
    BY <2>1, <2>2
<1> HIDE DEF taken, new
<1>7. rooms' = [f EXCEPT ![r] = new]
  <2>1. DirectoryOK(e) /\ e.rooms = [f EXCEPT ![r] = new]
    BY <1>2, <1>5, PutOK
  <2> HIDE DEF e
  <2>2. g.rooms = e.rooms
    BY <2>1 DEF Broadcast, DirectoryOK, DirectoryType
  <2> QED
    BY <1>1, <2>1, <2>2 DEF Becomes
<1>8. CallsOf(rooms') = [s EXCEPT ![r] = CallOf(new)]
  <2>1. f \in [RIDs -> RoomType \cup {Nil}]
    BY <1>2 DEF DirectoryOK, DirectoryType
  <2> HIDE DEF f
  <2>2. rooms'[r] = new /\ \A q \in RIDs \ {r} : rooms'[q] = f[q]
    BY <1>2, <1>7, <2>1
  <2> QED
    BY <1>2, <2>2 DEF CallsOf
<1>9. CallOf(new) = Promise!Seating(call, call.here \ {p}, call.away \cup {p})
  BY <1>1, <1>3, <1>5, <1>6, SuspendCall
<1>10. Promise!Becomes(s, r, Promise!Seating(call, call.here \ {p}, call.away \cup {p}))
  <2> HIDE DEF f, r
  <2> QED
    BY <1>1, <1>2, <1>8, <1>9, StepBecomes
<1>11. s[r] = call /\ p \in Promise!Participants(call)
  <2>1. Promise!Participants(call) = old.members
    BY <1>3, CallFields
  <2> QED
    BY <1>1, <1>2, <1>3, <2>1, CallsAt
<1> HIDE DEF s, call, r, p
<1>12. Promise!Away(s, r, p)
  BY <1>10, <1>11 DEF Promise!Away
<1>13. Promise!Join(s)
  BY <1>2, <1>4, <1>12 DEF Promise!Join
<1> QED
  BY <1>13 DEF s, f
\* Both modules count alike.
LEMMA SameCount == \A S : Promise!Cardinality(S) = Cardinality(S)
BY DEF Cardinality, Promise!Cardinality

\* A newcomer, or somebody the server knows, is given a new place.
LEMMA JoinFreshJoins ==
  ASSUME Inv, TombstonesClosed, NEW c \in Clients, NEW prev \in registered,
         NEW m \in Requests, NEW d, Vacant(c, prev, d), WellFormed(m),
         JoinFresh(c, prev, m, d)
  PROVE  Promise!Join(CallsOf(d.rooms))
<1> DEFINE old  == RoomFor(m, d)
           open == LockCapacity(old, m.cap)
           r    == m.rid
           f    == d.rooms
           s    == CallsOf(f)
           unclaimed == {q \in CIDs : \A x \in RIDs : <<x, q>> \notin issued}
<1>1. PICK p \in (IF m.token = "valid" THEN {m.cid} ELSE unclaimed) :
        Admit(c, m, d, AttachParticipant(open, p, c), p)
  BY DEF JoinFresh, Fits
<1>2. /\ ~(m.cid # Nil /\ m.cid \in old.members)
      /\ Cardinality(open.members) < open.max
      /\ PassesGates(m)
  BY DEF JoinFresh, Fits, Reclaims
<1>3. /\ DirectoryOK(d) /\ r \in RIDs /\ m.cap \in Capabilities /\ Shrinks(Directory, d)
      /\ m.cap \in Nat \ {0, 1} /\ m.want \in Nat \ {0, 1}
  BY RequestType DEF Vacant
<1>4. /\ OpenOK(old) /\ old \in RoomType
      /\ d.rooms[r] # Nil => old = d.rooms[r] /\ RoomOK(old)
      /\ d.rooms[r] = Nil => /\ old.members = {} /\ old.byClient = [x \in Clients |-> Nil]
                             /\ old = NewRoom(CreateMax(m.want, m.cap))
  BY <1>3, RoomForOK DEF OpenOK, RoomFor
<1>5. old.byClient[c] = Nil
  BY <1>3, <1>4 DEF Vacant
<1>6. p \in CIDs /\ p \notin old.members
  <2>1. CASE m.token = "valid"
    <3>1. p = m.cid /\ m.cid # Nil
      BY <1>1, <2>1 DEF WellFormed
    <3> QED
      BY <1>2, <3>1, RequestType
  <2>2. CASE m.token # "valid"
    <3>1. p \in CIDs /\ <<r, p>> \notin issued
      BY <1>1, <1>3, <2>2
    <3>2. ASSUME p \in old.members PROVE FALSE
      <4>1. d.rooms[r] # Nil /\ p \in d.rooms[r].members
        BY <1>4, <3>2
      <4>2. rooms[r] # Nil /\ p \in rooms[r].members
        BY <1>3, <4>1 DEF Vacant, Shrinks, Directory
      <4>3. <<r, p>> \in issued
        BY <1>3, <4>2 DEF Inv, MembersHoldTokens, Live
      <4> QED
        BY <3>1, <4>3
    <3> QED
      BY <3>1, <3>2
  <2> QED
    BY <2>1, <2>2
<1>7. Promise!MayEnter(r, p)
  <2>1. CASE m.token = "valid"
    <3>1. p = m.cid /\ r \notin tombstones /\ <<r, m.cid>> \in issued
      BY <1>1, <1>2, <2>1 DEF WellFormed, PassesGates
    <3> QED
      BY <3>1 DEF Promise!MayEnter
  <2>2. CASE m.token # "valid"
    BY <1>1, <2>2 DEF Promise!MayEnter
  <2> QED
    BY <2>1, <2>2
<1> HIDE DEF old
<1>8. /\ OpenOK(open) /\ open.members = old.members /\ open.byClient = old.byClient
      /\ ~open.locked => open.max = 2 /\ open.members = {}
  BY <1>3, <1>4, LockCapacityOK
<1>9. /\ open.host = old.host /\ open.client = old.client
      /\ open.requested = old.requested /\ open \in RoomType
  BY <1>4, <1>8 DEF OpenOK, LockCapacity, RoomType
<1> DEFINE room == AttachParticipant(open, p, c)
           new  == Seat(room, p)
           places == IF open.locked THEN open.max ELSE 0
           host == IF old.host = Nil THEN p ELSE old.host
<1> HIDE DEF open
<1>10. RoomOK(new) /\ new \in RoomType
  <2>1. SeatingOK(room, p)
    BY <1>2, <1>5, <1>6, <1>8, AttachOK
  <2> HIDE DEF room
  <2>2. RoomOK(Seat(room, p))
    BY <1>6, <2>1, SeatOK
  <2> QED
    BY <2>2 DEF RoomOK
<1>11. /\ new.members = old.members \cup {p} /\ new.client = [old.client EXCEPT ![p] = c]
       /\ new.host = host /\ new.requested = old.requested
       /\ (new.locked <=> open.locked) /\ new.max = open.max
  <2>1. /\ room.members = old.members \cup {p} /\ room.client = [old.client EXCEPT ![p] = c]
        /\ room.host = old.host /\ room.requested = old.requested
        /\ (room.locked <=> open.locked) /\ room.max = open.max
    BY <1>8, <1>9 DEF AttachParticipant, RoomType
  <2>2. room \in RoomType
    BY <1>6, <1>9 DEF AttachParticipant, RoomType
  <2> HIDE DEF room
  <2>3. /\ new.members = room.members /\ new.client = room.client
        /\ new.host = (IF room.host = Nil THEN p ELSE room.host)
        /\ new.requested = room.requested
        /\ (new.locked <=> room.locked) /\ new.max = room.max
    BY <2>2 DEF Seat, BumpEpoch, BumpEpochBy, RoomType
  <2> QED
    BY <2>1, <2>3
<1>12. /\ CallsOf(rooms') = [s EXCEPT ![r] = CallOf(new)]
       /\ tombstones' = tombstones \ {r} /\ issued' = issued \cup {<<r, p>>}
  <2>1. Admit(c, m, d, room, p) /\ RoomOK(Seat(room, p))
    BY <1>1, <1>10 DEF open
  <2> HIDE DEF room
  <2> QED
    BY <1>3, <2>1, AdmitCall
<1> HIDE DEF new, room
<1>13. /\ Active(new) = Active(old) \cup {p} /\ Suspended(new) = Suspended(old)
  <2>1. old.client \in [CIDs -> Clients \cup {Nil}] /\ old.members \subseteq CIDs /\ c # Nil
    BY <1>4, RoomAssumption DEF RoomType
  <2> QED
    BY <1>6, <1>11, <2>1 DEF Active, Suspended
<1>14. CallOf(new) = Call(Active(old) \cup {p}, Suspended(old), host, old.requested, places)
  BY <1>10, <1>11, <1>13, CallFields
<1>15. CASE d.rooms[r] = Nil
  <2> DEFINE n == CreateMax(m.want, m.cap)
  <2>1. n \in 2 .. ServerLimit
    BY <1>3, RoomAssumption DEF CreateMax, Smaller
  <2> HIDE DEF n
  <2>2. /\ old.members = {} /\ old.host = Nil /\ old.requested = n
        /\ (old.locked <=> n = 2) /\ old.max = 2
    <3>1. old = NewRoom(n)
      BY <1>4, <1>15 DEF n
    <3> QED
      BY <3>1 DEF NewRoom
  <2>3. open = old
    BY <2>2, FS_EmptySet DEF LockCapacity, open
  <2>4. /\ Active(old) = {} /\ Suspended(old) = {} /\ host = p
        /\ places = IF n = 2 THEN 2 ELSE 0
    BY <2>2, <2>3 DEF Active, Suspended
  <2>5. CallOf(new) = [here |-> {p}, away |-> {}, host |-> p, asked |-> n,
                       places |-> IF n = 2 THEN 2 ELSE 0]
    BY <1>14, <2>2, <2>4 DEF Call
  <2>6. s[r] = Promise!NoCall
    BY <1>3, <1>15 DEF CallsOf, CallOf, Promise!NoCall
  <2>7. CallsOf(rooms') =
          [s EXCEPT ![r] = [here |-> {p}, away |-> {}, host |-> p, asked |-> n,
                            places |-> IF n = 2 THEN 2 ELSE 0]]
    BY <1>12, <2>5
  <2> HIDE DEF s, r
  <2>8. Promise!Open(s, r, p)
    BY <1>7, <1>12, <2>1, <2>6, <2>7 DEF Promise!Open, CallsOf
  <2>9. Promise!Join(s)
    BY <1>3, <1>6, <2>8 DEF Promise!Join
  <2> QED
    BY <2>9 DEF s
<1>16. CASE d.rooms[r] # Nil
  <2> DEFINE call == CallOf(old)
             n    == open.max
             was  == IF old.locked THEN old.max ELSE 0
  <2>1. /\ old = d.rooms[r] /\ RoomOK(old) /\ old.host # Nil /\ old.host \in old.members
    BY <1>4, <1>16, RoomAssumption DEF RoomOK, RoomType, HostIsMember
  <2>2. r \notin tombstones
    <3>1. rooms[r] # Nil
      BY <1>3, <1>16 DEF Shrinks, Directory
    <3> QED
      BY <3>1 DEF TombstonesClosed
  <2>3. open.locked
    BY <1>8, <2>1
  <2>4. /\ call = Call(Active(old), Suspended(old), old.host, old.requested, was)
        /\ Promise!Participants(call) = old.members
    BY <1>4, CallFields
  <2>5. old.max \in Nat \ {0, 1} /\ old.requested \in Nat \ {0, 1}
    BY <1>4 DEF RoomType
  <2>6. n \in IF was # 0 THEN {was} ELSE 2 .. old.requested
    <3>1. CASE old.locked
      BY <2>5, <3>1 DEF open, LockCapacity
    <3>2. CASE ~old.locked
      <4>1. open # old
        BY <2>3, <3>2
      <4>2. open = [old EXCEPT !.max = Smaller(old.requested, m.cap), !.locked = TRUE]
        BY <4>1 DEF open, LockCapacity
      <4>3. n = Smaller(old.requested, m.cap)
        BY <1>4, <4>2 DEF RoomType
      <4> QED
        BY <1>3, <2>5, <3>2, <4>3 DEF Smaller
    <3> QED
      BY <3>1, <3>2
  <2> HIDE DEF call, was
  <2>7. /\ call.here = Active(old) /\ call.away = Suspended(old)
        /\ call.places = was /\ call.asked = old.requested
    BY <2>4, CallParts
  <2>8. n \in Promise!PlacesOf(call)
    BY <2>6, <2>7 DEF Promise!PlacesOf
  <2>9. \A h2, a2, x : [Promise!Seating(call, h2, a2) EXCEPT !.places = x]
                         = Call(h2, a2, old.host, old.requested, x)
    BY <2>4, CallUpdates
  <2>10. CallOf(new) = [Promise!Seating(call, call.here \cup {p}, call.away) EXCEPT !.places = n]
    BY <1>14, <2>1, <2>3, <2>7, <2>9
  <2>11. /\ Promise!Participants(call) # {} /\ p \notin Promise!Participants(call)
         /\ Cardinality(Promise!Participants(call)) < n
    BY <1>2, <1>6, <1>8, <2>1, <2>4
  <2>12. s[r] = call
    BY <1>3, <2>1, CallsAt DEF call
  <2>13. CallsOf(rooms') = [s EXCEPT ![r] =
           [Promise!Seating(@, @.here \cup {p}, @.away) EXCEPT !.places = n]]
    <3> HIDE DEF s, r, n
    <3> QED
      BY <1>12, <2>10, <2>12
  <2>14. UNCHANGED tombstones
    BY <1>12, <2>2
  <2> HIDE DEF s, r, n
  <2>15. Promise!Enter(s, r, p)
    BY <1>7, <1>12, <2>8, <2>11, <2>12, <2>13, <2>14, SameCount DEF Promise!Enter, CallsOf
  <2>16. Promise!Join(s)
    BY <1>3, <1>6, <2>15 DEF Promise!Join
  <2> QED
    BY <2>16 DEF s
<1> QED
  BY <1>15, <1>16
\* Whatever a join comes to.
LEMMA HandleJoinKept ==
  ASSUME Inv, TombstonesClosed, NEW c \in Clients, NEW prev \in registered,
         prev = c \/ c \notin registered,
         NEW m \in Requests, WellFormed(m), HandleJoin(c, prev, m)
  PROVE  Kept
<1>1. PICK heir \in IF HoldsSeat(prev) THEN Heirs(rooms[rid[prev]], {cid[prev]}) ELSE {Nil} :
        LET d == Vacated(c, prev, heir) IN
        \/ RefuseToken(c, prev, m, d)
        \/ RefuseEnded(c, prev, m, d)
        \/ JoinReattach(c, prev, m, d)
        \/ RefuseReattach(c, prev, m, d)
        \/ JoinFresh(c, prev, m, d)
        \/ RefuseNewcomer(c, prev, m, d)
  BY DEF HandleJoin
<1> DEFINE d == Vacated(c, prev, heir)
           s == CallsOf(d.rooms)
<1>2. Vacant(c, prev, d) /\ Gives(s)
  BY VacatedOK, VacatedGives
<1> HIDE DEF d
<1>3. DirectoryOK(d)
  BY <1>2 DEF Vacant
<1>4. Promise!Join(s)
  <2>1. CASE RefuseEnded(c, prev, m, d) \/ RefuseNewcomer(c, prev, m, d)
    <3>1. Becomes(d) /\ UNCHANGED <<tombstones, issued>>
      BY <1>2, <2>1, RefuseNewcomerKeeps DEF RefuseEnded, RefuseNewcomer
    <3>2. CallsOf(rooms') = CallsOf(d.rooms)
      BY <3>1 DEF Becomes
    <3> QED
      BY <3>1, <3>2, NothingJoins
  <2>2. CASE RefuseToken(c, prev, m, d)
    BY <1>3, <2>2, RefuseTokenJoins
  <2>3. CASE JoinReattach(c, prev, m, d)
    BY <1>2, <2>3, JoinReattachJoins
  <2>4. CASE RefuseReattach(c, prev, m, d)
    BY <1>2, <2>4, RefuseReattachJoins
  <2>5. CASE JoinFresh(c, prev, m, d)
    BY <1>2, <2>5, JoinFreshJoins
  <2> QED
    BY <1>1, <2>1, <2>2, <2>3, <2>4, <2>5 DEF d
<1> HIDE DEF s
<1> QED
  BY <1>2, <1>4, JoinKept

\* Every step of the hub is one of Calls, or none.
LEMMA NextKept ==
  ASSUME Inv, TombstonesClosed, [Next]_vars
  PROVE  Kept
<1>1. CASE UNCHANGED vars
  BY <1>1, NoCallKept DEF vars
<1>2. ASSUME NEW c \in Clients, Connect(c) \/ (\E rids \in SUBSET RIDs : WatchRooms(c, rids))
      PROVE  Kept
  BY <1>2, NoCallKept DEF Connect, WatchRooms
<1>3. ASSUME NEW c \in Clients, Disconnect(c) PROVE Kept
  BY <1>3, DisconnectKept
<1>4. ASSUME NEW c \in Clients, NEW prev \in Clients,
             (prev = c /\ Join(c)) \/ TakeOver(c, prev)
      PROVE  Kept
  <2>1. PICK m \in Requests : WellFormed(m) /\ HandleJoin(c, prev, m)
    BY <1>4 DEF Join, TakeOver
  <2>2. prev \in registered /\ (prev = c \/ c \notin registered)
    BY <1>4 DEF Join, TakeOver
  <2> QED
    BY <2>1, <2>2, HandleJoinKept
<1>5. ASSUME NEW c \in Clients, Leave(c) PROVE Kept
  BY <1>5, LeaveKept
<1>6. ASSUME NEW c \in Clients, EndRoom(c) PROVE Kept
  BY <1>6, EndKept
<1>7. ASSUME NEW c \in Clients, \E to \in CIDs \cup {Nil} : Relay(c, to) PROVE Kept
  BY <1>7, QuietKept
<1>8. ASSUME NEW c \in Clients, \E reported \in SUBSET CIDs : ReportLiveness(c, reported)
      PROVE  Kept
  BY <1>8, ReportLivenessKept
<1>9. ASSUME NEW old \in Clients, NEW new \in Clients, TakeOverIdle(old, new) PROVE Kept
  BY <1>9, NoCallKept DEF TakeOverIdle
<1>10. ASSUME NEW r \in RIDs, NoActiveTimerFires(r) PROVE Kept
  BY <1>10, EndKept
<1>11. ASSUME NEW r \in RIDs, TombstoneExpires(r) PROVE Kept
  <2>1. Promise!Forget(r)
    BY <1>11 DEF TombstoneExpires, Promise!Forget
  <2> QED
    BY <2>1 DEF Kept, Promise!Next
<1>12. ASSUME NEW r \in RIDs, NEW p \in CIDs,
              \/ LeaveByToken(r, p) \/ HardEvictionFires(r, p)
              \/ DwellPasses(r, p) \/ ReportGoesStale(r, p)
       PROVE  Kept
  BY <1>12, LeaveKept, QuietKept
<1>13. CASE Restart
  <2>1. \A r \in RIDs : CallOf(rooms'[r]) = Promise!NoCall
    BY <1>13 DEF Restart, CallOf, Promise!NoCall
  <2>2. Promise!Restart
    BY <1>13, <2>1 DEF Restart, Promise!Restart
  <2> QED
    BY <2>2 DEF Kept, Promise!Next
<1> QED
  BY <1>1, <1>2, <1>3, <1>4, <1>5, <1>6, <1>7, <1>8, <1>9, <1>10, <1>11, <1>12, <1>13 DEF Next

\* The hub does to the places of its participants only what Calls allows:
\* nobody loses a place but by leaving, by expiring while away or with the
\* call, nobody takes one that is not free, no host is replaced while it stays,
\* and no ended call is entered again by those who were in it.
THEOREM CallsTheorem == Spec => KeepsCalls
<1>1. Init => Promise!Init
  BY DEF Init, Promise!Init, Promise!NoCall, CallOf
<1>2. Inv /\ TombstonesClosed /\ [Next]_vars => [Promise!Next]_(Promise!vars)
  BY NextKept DEF Kept, CallsOf, Promise!vars
<1> QED
  BY <1>1, <1>2, InvHolds, TombstonesHold, PTL DEF Spec, KeepsCalls, Promise!Spec
=============================================================================
