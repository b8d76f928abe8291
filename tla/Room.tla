-------------------------------- MODULE Room --------------------------------
(***************************************************************************)
(* One *Room object of server/signaling.go and the methods that run while  *)
(* room.mu is held.  Every operator takes the room as a record and returns *)
(* the room the Go method leaves behind, so that the handlers of module    *)
(* SignalingHub (one step per handler) and of module HubLocks (one step    *)
(* per critical section) are compositions of the same operators.           *)
(*                                                                         *)
(* An operator under a comment "Mutant" is used by no specification: put   *)
(* in the place of the one that follows, it must break a property.         *)
(*                                                                         *)
(* Display names, peer ids, media flags and content metadata are left out: *)
(* no room decision reads them.  Time is left out too: an armed timer is a *)
(* member of a set, and the age of a suspension or of a media report is    *)
(* the bit that the code compares it down to.                              *)
(***************************************************************************)
EXTENDS Integers, FiniteSets

CONSTANTS
  CIDs,           \* participant identities, never reissued by generateID
  Clients,        \* *Client objects: one per live transport
  Nil,            \* nil pointers, empty strings and absent rooms
  Capabilities,   \* room sizes a client may support, floored at 2
  ServerLimit,    \* Hub.maxParticipantsLimit, the server-wide ceiling
  EpochModulus    \* Room.Epoch wraps at this value (2^64 in Go)

ASSUME RoomAssumption ==
  /\ IsFiniteSet(CIDs)
  /\ Nil \notin CIDs \cup Clients
  /\ Capabilities \subseteq Nat \ {0, 1}
  /\ ServerLimit \in Nat \ {0, 1}
  /\ EpochModulus \in Nat \ {0}

\* negotiationDirty is kept as pairs <<from, to>>; evict holds the members
\* whose hardEvictionTimer is armed, dwelt those suspended for at least
\* ghostEvictMinDwell, seen those with a media report inside the freshness
\* window, and noActive says that noActiveTimer is armed.
RoomType ==
  [members   : SUBSET CIDs,
   client    : [CIDs -> Clients \cup {Nil}],
   byClient  : [Clients -> CIDs \cup {Nil}],
   host      : CIDs \cup {Nil},
   max       : Nat \ {0, 1},
   requested : Nat \ {0, 1},
   locked    : BOOLEAN,
   epoch     : 0 .. EpochModulus - 1,
   dirty     : SUBSET (CIDs \X CIDs),
   evict     : SUBSET CIDs,
   dwelt     : SUBSET CIDs,
   seen      : SUBSET CIDs,
   noActive  : BOOLEAN]

Smaller(m, n) == IF m < n THEN m ELSE n

\* The creator's requested size, clamped by its own capability and the server.
CreateMax(want, cap) == Smaller(Smaller(want, cap), ServerLimit)

\* A group-capable room starts provisional, at two places and unlocked.
NewRoom(requested) ==
  [members |-> {}, client |-> [p \in CIDs |-> Nil],
   byClient |-> [c \in Clients |-> Nil], host |-> Nil,
   max |-> 2, requested |-> requested, locked |-> requested = 2,
   epoch |-> 0, dirty |-> {}, evict |-> {}, dwelt |-> {}, seen |-> {},
   noActive |-> FALSE]

-----------------------------------------------------------------------------
\* Queries.

\* Mutant: a suspended participant is taken for any participant.
IsMember(r, p) == p \in r.members

IsActive(r, p) == p \in r.members /\ r.client[p] # Nil
IsSuspended(r, p) == p \in r.members /\ r.client[p] = Nil

Active(r) == {p \in r.members : r.client[p] # Nil}
Suspended(r) == {p \in r.members : r.client[p] = Nil}
ActiveClients(r) == {c \in Clients : r.byClient[c] # Nil}

\* What joined, room_state and the broadcasts carry about the membership.
Snapshot(r) ==
  [active |-> Active(r), suspended |-> Suspended(r), host |-> r.host,
   max |-> r.max, epoch |-> r.epoch]

\* suspendedGhostsExcludedByActiveReporters.  It only runs right after the
\* report of an attached sender was recorded, so its third condition, a fresh
\* reporter among the active peers, always holds.
Ghosts(r) == {p \in Suspended(r) : p \in r.dwelt /\ p \notin r.seen}

\* Mutant: the first participant found becomes the host.
HeirsAny(r, gone) ==
  IF r.host \notin gone THEN {r.host}
  ELSE IF r.members \ gone # {} THEN r.members \ gone
  ELSE {Nil}

\* transferHostIfNeeded once the members in gone are removed: any active
\* participant, else any remaining one (Go map iteration order is arbitrary).
Heirs(r, gone) ==
  IF r.host \notin gone THEN {r.host}
  ELSE IF Active(r) \ gone # {} THEN Active(r) \ gone
  ELSE IF r.members \ gone # {} THEN r.members \ gone
  ELSE {Nil}

-----------------------------------------------------------------------------
\* Updates.

BumpEpochBy(r, n) == [r EXCEPT !.epoch = (@ + n) % EpochModulus]
BumpEpoch(r) == BumpEpochBy(r, 1)

\* attachParticipant, for a CID that has no record in the room.
AttachParticipant(r, p, c) ==
  [r EXCEPT !.members = @ \cup {p}, !.client[p] = c, !.byClient[c] = p,
            !.noActive = FALSE]

\* Mutants: the old transport stays linked; the timer keeps running.
ReattachLinked(r, p, c) ==
  [r EXCEPT !.client[p] = c, !.byClient[c] = p, !.evict = @ \ {p}, !.dwelt = @ \ {p},
            !.noActive = FALSE]
ReattachTimed(r, p, c) ==
  [r EXCEPT !.client[p] = c,
            !.byClient = [d \in Clients |-> IF d = c THEN p
                                            ELSE IF d = r.client[p] THEN Nil
                                            ELSE @[d]],
            !.noActive = FALSE]

\* reattachClient; the transport still attached, if any, is unlinked first.
Reattach(r, p, c) ==
  [r EXCEPT !.client[p] = c,
            !.byClient = [d \in Clients |-> IF d = c THEN p
                                            ELSE IF d = r.client[p] THEN Nil
                                            ELSE @[d]],
            !.evict = @ \ {p}, !.dwelt = @ \ {p}, !.noActive = FALSE]

\* armNoActiveRoomTimerLocked.
ArmNoActive(r) ==
  IF ActiveClients(r) = {} /\ r.members # {} THEN [r EXCEPT !.noActive = TRUE] ELSE r

\* Mutant: the eviction timer is not armed.
SuspendForever(r, p) ==
  ArmNoActive([r EXCEPT !.client[p] = Nil, !.byClient[r.client[p]] = Nil])

\* detachClient, the arming of hardEvictionTimer and of noActiveTimer: the
\* three always go together.
Suspend(r, p) ==
  ArmNoActive([r EXCEPT
    !.client[p] = Nil,
    !.byClient = [d \in Clients |-> IF d = r.client[p] THEN Nil ELSE @[d]],
    !.evict = @ \cup {p}, !.dwelt = @ \ {p}])

\* removeParticipant, dropCIDFromDirty, dropMediaLivenessFor, the host
\* transfer to heir, one epoch bump per departure and the no-active timer.
Depart(r, gone, heir) ==
  BumpEpochBy(ArmNoActive([r EXCEPT
    !.members = @ \ gone,
    !.client = [p \in CIDs |-> IF p \in gone THEN Nil ELSE @[p]],
    !.byClient = [d \in Clients |-> IF @[d] \in gone THEN Nil ELSE @[d]],
    !.host = heir,
    !.dirty = {e \in @ : e[1] \notin gone /\ e[2] \notin gone},
    !.evict = @ \ gone, !.dwelt = @ \ gone, !.seen = @ \ gone]),
    Cardinality(gone))

\* Mutants: the room is not marked as locked; a lock does not bind.
LockCapacityUnmarked(r, cap) ==
  IF ~r.locked /\ Cardinality(r.members) = 1
  THEN [r EXCEPT !.max = Smaller(r.requested, cap)]
  ELSE r

LockCapacityAgain(r, cap) ==
  IF Cardinality(r.members) = 1
  THEN [r EXCEPT !.max = Smaller(r.requested, cap), !.locked = TRUE]
  ELSE r

\* The second distinct participant fixes the capacity for the room's lifetime.
LockCapacity(r, cap) ==
  IF ~r.locked /\ Cardinality(r.members) = 1
  THEN [r EXCEPT !.max = Smaller(r.requested, cap), !.locked = TRUE]
  ELSE r

\* Mutant: a last place too many.
FitsOneMore(r, cap) == cap >= r.max /\ Cardinality(r.members) <= r.max

\* A newcomer's SDK can handle the room's capacity, and there is a place left.
Fits(r, cap) == cap >= r.max /\ Cardinality(r.members) < r.max

\* Mutant: the epoch stays.
SeatUncounted(r, p) ==
  [r EXCEPT !.host = IF @ = Nil THEN p ELSE @, !.dirty = {e \in @ : e[2] # p}]

\* The last part of every successful join: a host, an epoch, no stale pairs.
Seat(r, p) ==
  BumpEpoch([r EXCEPT !.host = IF @ = Nil THEN p ELSE @,
                      !.dirty = {e \in @ : e[2] # p}])

MarkDirty(r, from, targets) ==
  [r EXCEPT !.dirty = @ \cup ({from} \X targets)]

RecordLiveness(r, reported) == [r EXCEPT !.seen = @ \cup reported]

-----------------------------------------------------------------------------
(***************************************************************************)
(* What must be true of a room whenever room.mu is free.                   *)
(***************************************************************************)

\* byCID and byClient describe the same attachments, and only of members.
IndexesAgree(r) ==
  /\ \A p \in CIDs, c \in Clients : r.client[p] = c <=> r.byClient[c] = p
  /\ \A p \in CIDs : r.client[p] # Nil => p \in r.members

\* The host is a participant of the room.
HostIsMember(r) == r.host \in r.members

\* A suspended participant cannot hold its place for ever: its eviction timer
\* is armed, and no attached participant has one that could evict it.
SlotsAreTimed(r) == r.evict = Suspended(r)

\* A room of suspended participants is about to be reaped, and no other is.
GhostRoomIsTimed(r) == r.noActive <=> Active(r) = {}

\* A dirty pair is between two participants, and its target has no transport.
DirtyPairsAwaitReturn(r) ==
  \A e \in r.dirty : e[1] \in r.members /\ e[2] \in Suspended(r) /\ e[1] # e[2]

\* Liveness hints never outlive the participant they are about.
HintsAreOfMembers(r) == r.dwelt \subseteq Suspended(r) /\ r.seen \subseteq r.members

\* The room never holds more participants than its capacity, and a room that
\* is still provisional holds a single one.
CapacityRespected(r) ==
  /\ Cardinality(r.members) <= r.max
  /\ ~r.locked => r.max = 2 /\ Cardinality(r.members) <= 1

\* The inductive invariant of a room in the hub's map.
RoomOK(r) ==
  /\ r \in RoomType
  /\ IndexesAgree(r)
  /\ HostIsMember(r)
  /\ SlotsAreTimed(r)
  /\ GhostRoomIsTimed(r)
  /\ DirtyPairsAwaitReturn(r)
  /\ HintsAreOfMembers(r)
  /\ CapacityRespected(r)
=============================================================================
