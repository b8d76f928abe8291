---------------------------- MODULE SignalingHub ----------------------------
(***************************************************************************)
(* The hub of server/signaling.go: rooms, tombstones, transports and       *)
(* watchers, with one action per message handler, HTTP endpoint, timer     *)
(* callback or disconnect.  A handler runs as one step here; module        *)
(* HubLocks splits the same handlers at their lock boundaries.             *)
(***************************************************************************)
EXTENDS Room

CONSTANTS
  RIDs,             \* room identifiers (validateRoomID accepts them all)
  Sizes,            \* room sizes a client may ask for, floored at 2
  LivenessClients,  \* transports whose SDK sends media_liveness
  WatchClients      \* transports whose SDK sends watch_rooms

ASSUME HubAssumption ==
  /\ Nil \notin RIDs \cup RoomType
  /\ Sizes \subseteq Nat \ {0, 1}
  /\ LivenessClients \subseteq Clients
  /\ WatchClients \subseteq Clients

VARIABLES
  rooms,       \* Hub.rooms: the *Room of each rid, Nil when there is none
  tombstones,  \* rids with an unexpired tombstone
  registered,  \* Hub.clients: transports the hub accepts messages from
  rid, cid,    \* Client.rid and Client.cid, set by a join and never cleared
  issued,      \* <<rid, cid>> pairs a reconnect token was signed for
  told,        \* last room snapshot sent to each attached transport
  watchers     \* last status sent to each watcher of a room, Nil if not watching

vars == <<rooms, tombstones, registered, rid, cid, issued, told, watchers>>

Snapshots ==
  [active : SUBSET CIDs, suspended : SUBSET CIDs, host : CIDs \cup {Nil},
   max : Nat, epoch : Nat]

Statuses == [count : Nat, max : Nat]

\* The types of the hub and of the transports.
TypeOK ==
  /\ rooms \in [RIDs -> RoomType \cup {Nil}]
  /\ tombstones \subseteq RIDs
  /\ registered \subseteq Clients
  /\ rid \in [Clients -> RIDs \cup {Nil}]
  /\ cid \in [Clients -> CIDs \cup {Nil}]
  /\ issued \subseteq RIDs \X CIDs
  /\ told \in [Clients -> Snapshots \cup {Nil}]
  /\ watchers \in [RIDs -> [Clients -> Statuses \cup {Nil}]]

Init ==
  /\ rooms = [r \in RIDs |-> Nil]
  /\ tombstones = {}
  /\ registered = {}
  /\ rid = [c \in Clients |-> Nil]
  /\ cid = [c \in Clients |-> Nil]
  /\ issued = {}
  /\ told = [c \in Clients |-> Nil]
  /\ watchers = [r \in RIDs |-> [c \in Clients |-> Nil]]

-----------------------------------------------------------------------------
(***************************************************************************)
(* The directory: rooms, and what their participants and watchers have     *)
(* been told.  Most handlers change only these three, so they are passed   *)
(* around as one record.                                                   *)
(***************************************************************************)

Directory == [rooms |-> rooms, told |-> told, watchers |-> watchers]

Becomes(d) ==
  /\ rooms' = d.rooms
  /\ told' = d.told
  /\ watchers' = d.watchers

Status(room) ==
  IF room = Nil THEN [count |-> 0, max |-> 0]
  ELSE [count |-> Cardinality(room.members), max |-> room.max]

\* What a transport was told ends with its attachment.
Forget(d, cs) ==
  [d EXCEPT !.told = [c \in Clients |-> IF c \in cs THEN Nil ELSE @[c]]]

\* broadcastRoomState to the attached transports of room r.
Broadcast(d, r) ==
  [d EXCEPT !.told = [c \in Clients |->
     IF d.rooms[r].byClient[c] # Nil THEN Snapshot(d.rooms[r]) ELSE @[c]]]

\* broadcastRoomStatusUpdate to the watchers of r.
NotifyWatchers(d, r) ==
  [d EXCEPT !.watchers[r] = [c \in Clients |->
     IF @[c] = Nil THEN Nil ELSE Status(d.rooms[r])]]

Put(d, r, room) == [d EXCEPT !.rooms[r] = room]

\* Mutant: the others are not told.
RemoveUnannounced(d, r, gone, heir) ==
  LET room == Depart(d.rooms[r], gone, heir)
      orphaned == {c \in Clients : d.rooms[r].byClient[c] \in gone}
  IN  NotifyWatchers(
        Put(Forget(d, orphaned), r, IF room.members = {} THEN Nil ELSE room), r)

\* The common tail of every removal: participants leave, an empty room is
\* deleted, a populated one is broadcast, watchers are notified.
RemoveParticipants(d, r, gone, heir) ==
  LET room == Depart(d.rooms[r], gone, heir)
      orphaned == {c \in Clients : d.rooms[r].byClient[c] \in gone}
      left == Forget(d, orphaned)
  IN  NotifyWatchers(
        IF room.members = {} THEN Put(left, r, Nil)
        ELSE Broadcast(Put(left, r, room), r), r)

\* Mutant: the subscriptions of a lost transport stay.
DismissWatching(d, cs) == Forget(d, cs)

\* cleanupEvictedClient and the hub half of disconnectClient: the transports
\* in cs get no more messages and watch no more rooms.
Dismiss(d, cs) ==
  [Forget(d, cs) EXCEPT !.watchers = [r \in RIDs |->
     [c \in Clients |-> IF c \in cs THEN Nil ELSE @[r][c]]]]

\* p is in the room at r and c is the transport it is attached to.
IsAttachedTo(d, c, r, p) ==
  /\ d.rooms[r] # Nil
  /\ IsActive(d.rooms[r], p)
  /\ d.rooms[r].client[p] = c

\* The guard of removeClientFromRoom and suspendClientInRoom.
HoldsSeat(c) ==
  rid[c] # Nil /\ cid[c] # Nil /\ IsAttachedTo(Directory, c, rid[c], cid[c])

\* A handler of c sees its room, and c is attached there: the check of
\* isActiveParticipant, handleEndRoom, handleRelay and handleMediaLiveness.
InRoom(c) ==
  /\ c \in registered
  /\ rid[c] # Nil
  /\ rooms[rid[c]] # Nil
  /\ rooms[rid[c]].byClient[c] # Nil

-----------------------------------------------------------------------------
\* Transports.

\* registerClient: a transport is a new object, with no room and no identity.
Connect(c) ==
  /\ c \notin registered
  /\ registered' = registered \cup {c}
  /\ rid' = [rid EXCEPT ![c] = Nil]
  /\ cid' = [cid EXCEPT ![c] = Nil]
  /\ UNCHANGED <<rooms, tombstones, issued, told, watchers>>

\* disconnectClient with suspendClientInRoom: the participant stays, suspended.
Disconnect(c) ==
  /\ c \in registered
  /\ registered' = registered \ {c}
  /\ LET d == Dismiss(Directory, {c}) IN
     IF HoldsSeat(c)
     THEN LET room == BumpEpoch(Suspend(rooms[rid[c]], cid[c])) IN
          Becomes(NotifyWatchers(
            Broadcast(Put(d, rid[c], room), rid[c]), rid[c]))
     ELSE Becomes(d)
  /\ UNCHANGED <<tombstones, rid, cid, issued>>

\* The subscriptions once new has replaced old (replaceClient).
Inherited(old, new) ==
  [r \in RIDs |-> [watchers[r] EXCEPT ![new] = watchers[r][old], ![old] = Nil]]

\* replaceClient for an SSE stream reopened under the sid of one that never
\* entered a room: registration and subscriptions move to the new stream.
TakeOverIdle(old, new) ==
  /\ old \in registered /\ new \notin registered
  /\ rid[old] = Nil
  /\ registered' = (registered \ {old}) \cup {new}
  /\ rid' = [rid EXCEPT ![new] = Nil]
  /\ cid' = [cid EXCEPT ![new] = Nil]
  /\ watchers' = Inherited(old, new)
  /\ UNCHANGED <<rooms, tombstones, issued, told>>

-----------------------------------------------------------------------------
(***************************************************************************)
(* Joining.  handleMessage removes the sender from the room it is in, as   *)
(* an explicit leave, before handleJoin looks at the request.  An SSE      *)
(* stream that takes over the session of prev inherits the seat of prev    *)
(* just before that (replaceClient), so the seat that is given up is       *)
(* always that of prev, and prev = c unless there is a takeover.           *)
(***************************************************************************)

Requests ==
  [rid : RIDs, cid : CIDs \cup {Nil},
   token : {"none", "valid", "expired", "invalid"},
   cap : Capabilities, want : Sizes]

\* A token is judged only with a CID, and its signature proves it was issued.
WellFormed(m) ==
  /\ m.cid = Nil => m.token = "none"
  /\ m.token \in {"valid", "expired"} => <<m.rid, m.cid>> \in issued

\* removeClientFromRoom(prev), after the takeover if there is one.
Vacated(c, prev, heir) ==
  LET d == IF prev = c THEN Directory
           ELSE [Directory EXCEPT !.watchers = Inherited(prev, c)]
  IN  IF HoldsSeat(prev)
      THEN RemoveParticipants(d, rid[prev], {cid[prev]}, heir)
      ELSE d

Roster(c, prev) == (registered \ {prev}) \cup {c}

\* Client.rid and Client.cid of c when the request is refused.
KeepsIdentity(c, prev) ==
  IF prev = c THEN UNCHANGED <<rid, cid>>
  ELSE IF HoldsSeat(prev)
  THEN rid' = [rid EXCEPT ![c] = rid[prev]] /\ cid' = [cid EXCEPT ![c] = cid[prev]]
  ELSE rid' = [rid EXCEPT ![c] = Nil] /\ cid' = [cid EXCEPT ![c] = Nil]

\* INVALID_RECONNECT_TOKEN; a token that aged out still proves that the
\* suspended record it names is dead.  (A join refused for its room id, before
\* its token is looked at, has the effect of an invalid token.)
RefuseToken(c, prev, m, d) ==
  /\ m.token \in {"expired", "invalid"}
  /\ IF m.token = "expired" /\ d.rooms[m.rid] # Nil /\ IsSuspended(d.rooms[m.rid], m.cid)
     THEN \E heir \in Heirs(d.rooms[m.rid], {m.cid}) :
            Becomes(RemoveParticipants(d, m.rid, {m.cid}, heir))
     ELSE Becomes(d)
  /\ registered' = Roster(c, prev)
  /\ KeepsIdentity(c, prev)
  /\ UNCHANGED <<tombstones, issued>>

\* ROOM_ENDED: the room was ended and the caller claims a place in it.
RefuseEnded(c, prev, m, d) ==
  /\ m.token = "valid"
  /\ m.rid \in tombstones
  /\ Becomes(d)
  /\ registered' = Roster(c, prev)
  /\ KeepsIdentity(c, prev)
  /\ UNCHANGED <<tombstones, issued>>

\* Mutant: the tombstone is not looked up.
PassesTokenGate(m) == m.token \in {"none", "valid"}

\* Neither refusal applies.
PassesGates(m) ==
  /\ m.token \in {"none", "valid"}
  /\ ~(m.token = "valid" /\ m.rid \in tombstones)

RoomFor(m, d) ==
  IF d.rooms[m.rid] = Nil THEN NewRoom(CreateMax(m.want, m.cap)) ELSE d.rooms[m.rid]

Reclaims(m, room) == m.cid # Nil /\ m.cid \in room.members

\* Mutant: the client gets the CID it asked for, not the one it was given.
AssignRequested(c, m, p) ==
  /\ rid' = [rid EXCEPT ![c] = m.rid]
  /\ cid' = [cid EXCEPT ![c] = m.cid]

Assign(c, m, p) ==
  /\ rid' = [rid EXCEPT ![c] = m.rid]
  /\ cid' = [cid EXCEPT ![c] = p]

\* The successful end of a join: seated, tombstone cleared, everyone told.
Admit(c, m, d, room, p) ==
  /\ Becomes(NotifyWatchers(Broadcast(Put(d, m.rid, Seat(room, p)), m.rid), m.rid))
  /\ tombstones' = tombstones \ {m.rid}
  /\ Assign(c, m, p)
  /\ issued' = issued \cup {<<m.rid, p>>}

\* The CID has a record: it is reattached, and a transport that still holds
\* it (a ghost) is evicted and deregistered.
JoinReattach(c, prev, m, d) ==
  LET room  == RoomFor(m, d)
      ghost == {room.client[m.cid]} \ {Nil}
  IN  /\ PassesGates(m)
      /\ Reclaims(m, room)
      /\ m.cap >= room.max
      /\ Admit(c, m, Dismiss(d, ghost), Reattach(room, m.cid, c), m.cid)
      /\ registered' = Roster(c, prev) \ ghost

\* ROOM_CAPACITY_UNSUPPORTED for a reclaimed CID: the reattach is undone and
\* the participant is left suspended, with a fresh timer.  A ghost is evicted
\* all the same, and only then are the others told; the epoch stays.
RefuseReattach(c, prev, m, d) ==
  LET room   == RoomFor(m, d)
      ghost  == {room.client[m.cid]} \ {Nil}
      undone == Put(Dismiss(d, ghost), m.rid, Suspend(Reattach(room, m.cid, c), m.cid))
  IN  /\ PassesGates(m)
      /\ Reclaims(m, room)
      /\ m.cap < room.max
      /\ Becomes(IF ghost = {} THEN undone ELSE Broadcast(undone, m.rid))
      /\ registered' = Roster(c, prev) \ ghost
      /\ Assign(c, m, m.cid)
      /\ UNCHANGED <<tombstones, issued>>

\* No record to reclaim: the CID is recovered when a valid token names it, and
\* generated otherwise.
JoinFresh(c, prev, m, d) ==
  LET room == LockCapacity(RoomFor(m, d), m.cap) IN
  /\ PassesGates(m)
  /\ ~Reclaims(m, RoomFor(m, d))
  /\ Fits(room, m.cap)
  /\ \E p \in IF m.token = "valid" THEN {m.cid}
              ELSE {q \in CIDs : \A r \in RIDs : <<r, q>> \notin issued} :
       Admit(c, m, d, AttachParticipant(room, p, c), p)
  /\ registered' = Roster(c, prev)

\* ROOM_CAPACITY_UNSUPPORTED or ROOM_FULL for a newcomer.
RefuseNewcomer(c, prev, m, d) ==
  LET room == LockCapacity(RoomFor(m, d), m.cap) IN
  /\ PassesGates(m)
  /\ ~Reclaims(m, RoomFor(m, d))
  /\ ~Fits(room, m.cap)
  /\ Becomes(Put(d, m.rid, room))
  /\ registered' = Roster(c, prev)
  /\ KeepsIdentity(c, prev)
  /\ UNCHANGED <<tombstones, issued>>

HandleJoin(c, prev, m) ==
  \E heir \in IF HoldsSeat(prev) THEN Heirs(rooms[rid[prev]], {cid[prev]}) ELSE {Nil} :
    LET d == Vacated(c, prev, heir) IN
    \/ RefuseToken(c, prev, m, d)
    \/ RefuseEnded(c, prev, m, d)
    \/ JoinReattach(c, prev, m, d)
    \/ RefuseReattach(c, prev, m, d)
    \/ JoinFresh(c, prev, m, d)
    \/ RefuseNewcomer(c, prev, m, d)

Join(c) ==
  /\ c \in registered
  /\ \E m \in Requests : WellFormed(m) /\ HandleJoin(c, c, m)

\* handleSSEPost with a pending takeover: only a join that proves the CID with
\* a token promotes the new stream, and is then handled as that stream's.
TakeOver(c, prev) ==
  /\ c \notin registered /\ prev \in registered
  /\ rid[prev] # Nil
  /\ \E m \in Requests :
       WellFormed(m) /\ m.token = "valid" /\ HandleJoin(c, prev, m)

-----------------------------------------------------------------------------
\* Leaving and ending.

\* handleLeave and removeClientFromRoom: a leave from a transport that is no
\* longer the attached one changes nothing.
Leave(c) ==
  /\ c \in registered
  /\ HoldsSeat(c)
  /\ \E heir \in Heirs(rooms[rid[c]], {cid[c]}) :
       Becomes(RemoveParticipants(Directory, rid[c], {cid[c]}, heir))
  /\ UNCHANGED <<tombstones, registered, rid, cid, issued>>

\* POST /api/leave with a valid token (evictByLeave): the participant goes,
\* attached or not, and its transport is cut off.
LeaveByToken(r, p) ==
  /\ <<r, p>> \in issued
  /\ rooms[r] # Nil
  /\ p \in rooms[r].members
  /\ LET cut == {rooms[r].client[p]} \ {Nil} IN
     /\ \E heir \in Heirs(rooms[r], {p}) :
          Becomes(Dismiss(RemoveParticipants(Directory, r, {p}, heir), cut))
     /\ registered' = registered \ cut
  /\ UNCHANGED <<tombstones, rid, cid, issued>>

\* handleEndRoom: only the transport attached as the host ends the room, which
\* leaves a tombstone behind.
EndRoom(c) ==
  /\ InRoom(c)
  /\ rooms[rid[c]].host = rooms[rid[c]].byClient[c]
  /\ tombstones' = tombstones \cup {rid[c]}
  /\ Becomes(NotifyWatchers(
       Put(Forget(Directory, ActiveClients(rooms[rid[c]])), rid[c], Nil), rid[c]))
  /\ UNCHANGED <<registered, rid, cid, issued>>

-----------------------------------------------------------------------------
\* Messages between participants.

\* handleRelay of an offer, an answer, a candidate or a restart request, to
\* one peer or (to = Nil) to all: what a suspended peer misses is marked.
Relay(c, to) ==
  /\ InRoom(c)
  /\ LET room == rooms[rid[c]]
         from == room.byClient[c]
         missed == {p \in Suspended(room) \ {from} : to \in {Nil, p}}
     IN  rooms' = [rooms EXCEPT ![rid[c]] = MarkDirty(room, from, missed)]
  /\ UNCHANGED <<tombstones, registered, rid, cid, issued, told, watchers>>

\* handleMediaLiveness: c reports the peers it receives media from, and every
\* suspended peer nobody receives media from any more is evicted at once.
\* The sender is attached, so a ghost's heir is too.
ReportLiveness(c, reported) ==
  /\ InRoom(c)
  /\ c \in LivenessClients
  /\ LET r      == rid[c]
         room   == rooms[r]
         heard  == RecordLiveness(room, (reported \cap room.members) \ {room.byClient[c]})
         ghosts == Ghosts(heard)
         d      == Put(Directory, r, heard)
     IN  IF ghosts = {} THEN Becomes(d)
         ELSE \E heir \in Heirs(heard, ghosts) :
                Becomes(RemoveParticipants(d, r, ghosts, heir))
  /\ UNCHANGED <<tombstones, registered, rid, cid, issued>>

\* handleWatchRooms: the new set of subscriptions replaces the old one.
WatchRooms(c, rids) ==
  /\ c \in registered \cap WatchClients
  /\ watchers' = [r \in RIDs |-> [watchers[r] EXCEPT ![c] =
       IF r \in rids THEN Status(rooms[r]) ELSE Nil]]
  /\ UNCHANGED <<rooms, tombstones, registered, rid, cid, issued, told>>

-----------------------------------------------------------------------------
\* Timers and the passing of time.

\* hardEvictSuspended: a participant some peer still hears is left for later
\* with its timer armed again, any other is removed.
HardEvictionFires(r, p) ==
  /\ rooms[r] # Nil
  /\ p \in rooms[r].evict
  /\ p \notin rooms[r].seen
  /\ IF IsSuspended(rooms[r], p)
     THEN \E heir \in Heirs(rooms[r], {p}) :
            Becomes(RemoveParticipants(Directory, r, {p}, heir))
     ELSE /\ rooms' = [rooms EXCEPT ![r].evict = @ \ {p}]
          /\ UNCHANGED <<told, watchers>>
  /\ UNCHANGED <<tombstones, registered, rid, cid, issued>>

\* cleanupRoomIfNoActive: the whole room goes unless someone is back.
NoActiveTimerFires(r) ==
  /\ rooms[r] # Nil
  /\ rooms[r].noActive
  /\ IF ActiveClients(rooms[r]) # {}
     THEN /\ rooms' = [rooms EXCEPT ![r].noActive = FALSE]
          /\ UNCHANGED <<told, watchers>>
     ELSE Becomes(NotifyWatchers(Put(Directory, r, Nil), r))
  /\ UNCHANGED <<tombstones, registered, rid, cid, issued>>

\* ghostEvictMinDwell has passed since p was suspended.
DwellPasses(r, p) ==
  /\ rooms[r] # Nil
  /\ p \in Suspended(rooms[r]) \ rooms[r].dwelt
  /\ rooms' = [rooms EXCEPT ![r].dwelt = @ \cup {p}]
  /\ UNCHANGED <<tombstones, registered, rid, cid, issued, told, watchers>>

\* mediaLivenessFreshnessWindow has passed since the last report about p.
ReportGoesStale(r, p) ==
  /\ rooms[r] # Nil
  /\ p \in rooms[r].seen
  /\ rooms' = [rooms EXCEPT ![r].seen = @ \ {p}]
  /\ UNCHANGED <<tombstones, registered, rid, cid, issued, told, watchers>>

\* roomTombstoneTTL has passed since the room was ended.
TombstoneExpires(r) ==
  /\ r \in tombstones
  /\ tombstones' = tombstones \ {r}
  /\ UNCHANGED <<rooms, registered, rid, cid, issued, told, watchers>>

\* The server process restarts: every map is lost, signed tokens still verify.
Restart ==
  /\ registered # {} \/ \E r \in RIDs : rooms[r] # Nil
  /\ rooms' = [r \in RIDs |-> Nil]
  /\ tombstones' = {}
  /\ registered' = {}
  /\ told' = [c \in Clients |-> Nil]
  /\ watchers' = [r \in RIDs |-> [c \in Clients |-> Nil]]
  /\ rid' = [c \in Clients |-> Nil]
  /\ cid' = [c \in Clients |-> Nil]
  /\ UNCHANGED issued

-----------------------------------------------------------------------------
Next ==
  \/ \E c \in Clients :
       \/ Connect(c)
       \/ Disconnect(c)
       \/ Join(c)
       \/ Leave(c)
       \/ EndRoom(c)
       \/ \E to \in CIDs \cup {Nil} : Relay(c, to)
       \/ \E reported \in SUBSET CIDs : ReportLiveness(c, reported)
       \/ \E rids \in SUBSET RIDs : WatchRooms(c, rids)
  \/ \E old, new \in Clients : TakeOverIdle(old, new) \/ TakeOver(new, old)
  \/ \E r \in RIDs :
       \/ NoActiveTimerFires(r)
       \/ TombstoneExpires(r)
       \/ \E p \in CIDs :
            \/ LeaveByToken(r, p)
            \/ HardEvictionFires(r, p)
            \/ DwellPasses(r, p)
            \/ ReportGoesStale(r, p)
  \/ Restart

Spec == Init /\ [][Next]_vars

\* Go runs an armed timer's callback, whatever the clients do, and time passes.
TimersFire ==
  \A r \in RIDs :
    /\ WF_vars(NoActiveTimerFires(r))
    /\ \A p \in CIDs :
         /\ WF_vars(HardEvictionFires(r, p))
         /\ WF_vars(ReportGoesStale(r, p))

FairSpec == Spec /\ TimersFire

-----------------------------------------------------------------------------
(***************************************************************************)
(* Invariants: the state of the hub between two handlers.                  *)
(***************************************************************************)

Live == {r \in RIDs : rooms[r] # Nil}

\* byCID and byClient agree in every room, after any sequence of reattaches,
\* ghost evictions, suspensions and departures.
IndexesConsistent == \A r \in Live : IndexesAgree(rooms[r])

\* An attached transport is one the hub still knows, so that its loss will
\* suspend the participant, and its own fields name the seat it holds: it is
\* attached in one room only, as one participant.
SeatIsIdentity ==
  \A r \in Live : \A c \in ActiveClients(rooms[r]) :
    /\ c \in registered
    /\ rid[c] = r
    /\ cid[c] = rooms[r].byClient[c]

\* Every room has one of its participants as the host.  So no room is empty:
\* it is deleted by the handler that empties it, and no refused join creates one.
HostPresent == \A r \in Live : HostIsMember(rooms[r])

\* Every suspended participant has an armed eviction timer, also after a
\* reattach that was refused, and nobody else has.
SlotsTimed == \A r \in Live : SlotsAreTimed(rooms[r])

\* The no-active timer is armed exactly in the rooms without a transport.
GhostRoomsTimed == \A r \in Live : GhostRoomIsTimed(rooms[r])

\* What is kept to restart negotiation with a returning peer is about a peer
\* that is away, and both ends of it are still in the room.
DirtyPairsConsistent == \A r \in Live : DirtyPairsAwaitReturn(rooms[r])

\* Media hints are kept for participants of the room only.
HintsConsistent == \A r \in Live : HintsAreOfMembers(rooms[r])

\* The rooms of the hub are in order after any sequence of joins, reattaches,
\* refusals, ghost evictions, suspensions and departures.
RoomsInOrder ==
  /\ TypeOK
  /\ IndexesConsistent
  /\ HostPresent
  /\ SlotsTimed
  /\ GhostRoomsTimed
  /\ DirtyPairsConsistent
  /\ HintsConsistent

\* No room is over capacity, whatever mix of fresh joins, recoveries, reclaims
\* and capacity locks led there.
CapacityHolds == \A r \in Live : CapacityRespected(rooms[r])

\* Every attached participant was sent the room as it is now: no handler
\* changes what room_state shows without broadcasting it.
PeersUpToDate ==
  \A r \in Live : \A c \in ActiveClients(rooms[r]) : told[c] = Snapshot(rooms[r])

\* Every watcher was sent the occupancy and the capacity of the room as they
\* are now, and is a transport the hub still knows.
WatchersUpToDate ==
  \A r \in RIDs, c \in Clients :
    watchers[r][c] # Nil => c \in registered /\ watchers[r][c] = Status(rooms[r])

(***************************************************************************)
(* Action properties: what one handler may do.                             *)
(***************************************************************************)

\* The room at r is the same object after the step: one that the step itself
\* created has seen a single join.
SameRoom(r) == rooms[r] # Nil /\ rooms'[r] # Nil /\ rooms'[r].epoch # 1

\* Whenever participants come or go, or the host changes, the epoch moves, so
\* that an SDK comparing snapshots notices.
EpochAdvances ==
  [][\A r \in RIDs : SameRoom(r) /\ rooms'[r].epoch = rooms[r].epoch
       => rooms'[r].members = rooms[r].members /\ rooms'[r].host = rooms[r].host]_vars

\* A new host is one attached before or after the step if anyone stayed
\* attached: the privilege to end the room does not go to a participant that
\* is already away and may never come back.
HostHandover ==
  [][\A r \in RIDs : SameRoom(r) /\ rooms'[r].host # rooms[r].host =>
       \/ IsActive(rooms[r], rooms'[r].host)
       \/ IsActive(rooms'[r], rooms'[r].host)
       \/ (Active(rooms[r]) \cap Active(rooms'[r])) \subseteq {rooms[r].host}]_vars

\* While the tombstone of a room lasts, nobody gets back into it under an
\* identity of the ended call: a room reopened there has only a newcomer.
EndedCallStaysEnded ==
  [][\A r \in tombstones : rooms'[r] # Nil =>
       \A p \in rooms'[r].members : <<r, p>> \notin issued]_vars

(***************************************************************************)
(* Liveness, under the fairness of the timers.                             *)
(***************************************************************************)

IsGhostRoom(r) == rooms[r] # Nil /\ Active(rooms[r]) = {}
IsAway(r, p) == rooms[r] # Nil /\ IsSuspended(rooms[r], p)

\* A room all of whose participants are suspended does not stay so: someone
\* reattaches or the room is deleted.
GhostRoomsReaped == \A r \in RIDs : IsGhostRoom(r) ~> ~IsGhostRoom(r)

\* A suspension ends, by a reattach or by the loss of the place.
SuspensionsEnd == \A r \in RIDs, p \in CIDs : IsAway(r, p) ~> ~IsAway(r, p)

\* No place stays taken by somebody who is gone for good.
PlacesComeFree == GhostRoomsReaped /\ SuspensionsEnd

(***************************************************************************)
(* What the hub is for: Calls says what participants may count on.         *)
(***************************************************************************)

\* The call that a room of the hub holds, as its participants see it.
CallOf(room) ==
  IF room = Nil THEN [here |-> {}, away |-> {}, host |-> Nil, asked |-> 0, places |-> 0]
  ELSE [here |-> Active(room), away |-> Suspended(room), host |-> room.host,
        asked |-> room.requested, places |-> IF room.locked THEN room.max ELSE 0]

Promise == INSTANCE Calls WITH
  Limit <- ServerLimit, calls <- [r \in RIDs |-> CallOf(rooms[r])],
  ended <- tombstones, keys <- issued

\* The hub does to the places of its participants only what Calls allows.
KeepsCalls == Promise!Spec

(***************************************************************************)
(* What the code's comments and documents promise and the code does not    *)
(* keep: TLC finds a counterexample (README, known divergences).           *)
(***************************************************************************)

\* The epoch advances on every suspension as well (comment on Room.Epoch).
EpochAdvancesOnSuspend ==
  [][\A r \in RIDs : SameRoom(r) /\ rooms'[r].epoch = rooms[r].epoch
       => Active(rooms'[r]) = Active(rooms[r])]_vars

=============================================================================
