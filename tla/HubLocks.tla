------------------------------ MODULE HubLocks ------------------------------
(***************************************************************************)
(* The handlers of server/signaling.go at the grain of their locks: each   *)
(* critical section under h.mu or room.mu is a step, and what a goroutine  *)
(* read in one section it uses in the next.  One room identifier; every    *)
(* time it is joined after its room was deleted a new *Room object is      *)
(* made, and goroutines may still hold the old one.                        *)
(*                                                                         *)
(* A client's messages are handled one after the other; its disconnect     *)
(* follows them on a WebSocket (both run in readPump) and may overtake one *)
(* on an SSE stream (POSTs have their own goroutines).  Timer callbacks    *)
(* and POST /api/leave are goroutines of their own.                        *)
(***************************************************************************)
EXTENDS Room

CONSTANTS
  Objects,        \* the *Room objects in use at a time
  MaxInFlight,    \* bound on the goroutines in flight at a time
  StreamClients,  \* transports that are SSE streams
  Plans           \* what runs besides joins, and who joins

ASSUME LocksAssumption ==
  /\ MaxInFlight \in Nat \ {0}
  /\ Nil \notin Objects
  /\ StreamClients \subseteq Clients
  /\ Plans \subseteq
       [goroutines : SUBSET {"leave", "end", "close", "timer", "post"},
        capabilities : SUBSET Capabilities]

VARIABLES
  heap,        \* the *Room objects
  current,     \* h.rooms[rid]: an object, or Nil
  tombstone,   \* h.tombstones has the rid
  registered,  \* h.clients
  cid,         \* Client.cid (and Client.rid, which is set with it)
  issued,      \* CIDs a reconnect token was sent for
  task,        \* the message handler of each client
  closing,     \* the disconnectClient call of each client
  callback,    \* the hardEvictSuspended call of each timer that fired
  reaping,     \* objects whose noActiveTimer fired and waits for the locks
  web,         \* the evictByLeave call of POST /api/leave
  plan         \* the member of Plans this behaviour follows

vars == <<heap, current, tombstone, registered, cid, issued, task,
          closing, callback, reaping, web, plan>>

\* at names the critical section that comes next; then, the one that follows
\* a removal; obj is the *Room the goroutine holds; cid, the CID a join claims
\* with a token or else the one it will be given; peers, the ghost to clean up.
Idle == [at |-> "idle", then |-> "idle", obj |-> Nil, cid |-> Nil, claims |-> FALSE,
         cap |-> 2, peers |-> {}]

Stages == {"idle", "vacate", "remove", "delete", "gate", "lookup", "seat",
           "evict", "reseat", "evictRefused", "seated",
           "endFind", "end", "bury", "unlist", "clear"}

\* The types, and where each goroutine can be.
TypeOK ==
  /\ heap \in [Objects -> RoomType]
  /\ current \in Objects \cup {Nil}
  /\ tombstone \in BOOLEAN
  /\ registered \subseteq Clients
  /\ cid \in [Clients -> CIDs \cup {Nil}]
  /\ issued \subseteq CIDs
  /\ task \in [Clients -> [at : Stages, then : {"idle", "gate"}, obj : Objects \cup {Nil},
                           cid : CIDs \cup {Nil}, claims : BOOLEAN, cap : Nat,
                           peers : SUBSET Clients]]
  /\ closing \in [Clients -> [at : {"no", "find", "suspend"}, obj : Objects \cup {Nil},
                              cid : CIDs \cup {Nil}]]
  /\ callback \in [Objects \X CIDs -> {"none", "due", "checked", "delete"}]
  /\ reaping \subseteq Objects
  /\ plan \in Plans
  /\ web \in [at : {"idle", "remove", "cut", "cutAndDelete", "delete"},
              obj : Objects \cup {Nil}, cid : CIDs \cup {Nil}, peers : SUBSET Clients]

Open == [at |-> "no", obj |-> Nil, cid |-> Nil]
NoLeave == [at |-> "idle", obj |-> Nil, cid |-> Nil, peers |-> {}]

Init ==
  /\ heap = [o \in Objects |-> NewRoom(2)]
  /\ current = Nil
  /\ tombstone = FALSE
  /\ registered = {}
  /\ cid = [c \in Clients |-> Nil]
  /\ issued = {}
  /\ task = [c \in Clients |-> Idle]
  /\ closing = [c \in Clients |-> Open]
  /\ callback = [x \in Objects \X CIDs |-> "none"]
  /\ reaping = {}
  /\ web = NoLeave
  /\ plan \in Plans

-----------------------------------------------------------------------------
\* The handler of c stands at a section, and goes on to another.
At(c, stage) == task[c].at = stage
Goto(c, stage) ==
  task' = [task EXCEPT ![c] = CASE stage = "idle" -> Idle
                                [] stage = "gate" -> [@ EXCEPT !.at = stage, !.obj = Nil]
                                [] stage = "seated" ->
                                     [Idle EXCEPT !.at = stage, !.cid = task[c].cid]
                                [] OTHER -> [@ EXCEPT !.at = stage]]
GotoWith(c, stage, obj) == task' = [task EXCEPT ![c].at = stage, ![c].obj = obj]

Held(c) == heap[task[c].obj]
Store(o, room) == heap' = [heap EXCEPT ![o] = room]

\* Mutant: any transport of the participant will do.
IsHeldByAny(room, p, c) == IsActive(room, p)

\* The participant is attached to this very transport.
IsHeldBy(room, p, c) == IsActive(room, p) /\ room.client[p] = c

\* end_room and the no-active timer leave an object with empty maps behind.
Cleared(r) ==
  [r EXCEPT !.members = {}, !.client = [p \in CIDs |-> Nil],
            !.byClient = [c \in Clients |-> Nil], !.host = Nil, !.dirty = {},
            !.evict = {}, !.dwelt = {}, !.seen = {}]

\* An object no goroutine holds and the hub does not list is unreachable: what
\* it still contains is lost, and its name can stand for a new one.
IsGarbage(o) ==
  /\ o # current
  /\ o \notin reaping
  /\ \A c \in Clients : task[c].obj # o /\ closing[c].obj # o
  /\ \A p \in CIDs : callback[<<o, p>>] = "none"
  /\ web.obj # o

\* A *Client that something still refers to is not free to stand for another.
IsFree(c) ==
  /\ c \notin registered
  /\ task[c] = Idle
  /\ closing[c] = Open
  /\ \A o \in Objects : heap[o].byClient[c] # Nil => IsGarbage(o)
  /\ \A d \in Clients : c \notin task[d].peers
  /\ c \notin web.peers

\* One more goroutine may start.
MayStart ==
  Cardinality({c \in Clients : task[c] # Idle}) + Cardinality({c \in Clients : closing[c] # Open})
    + Cardinality({x \in Objects \X CIDs : callback[x] # "none"})
    + Cardinality(reaping) + Cardinality({w \in {web} : w # NoLeave}) < MaxInFlight

Connect(c) ==
  /\ IsFree(c)
  /\ registered' = registered \cup {c}
  /\ cid' = [cid EXCEPT ![c] = Nil]
  /\ UNCHANGED <<heap, current, tombstone, issued, task, closing, callback, reaping, web>>

-----------------------------------------------------------------------------
(***************************************************************************)
(* handleMessage: isClientActive is the entry check of every handler.      *)
(***************************************************************************)

Start(c, frame) ==
  /\ c \in registered
  /\ task[c] = Idle
  /\ MayStart
  /\ task' = [task EXCEPT ![c] = frame]
  /\ UNCHANGED <<heap, current, tombstone, registered, cid, issued, closing, callback,
                 reaping, web>>

\* generateID never repeats itself.
Unused ==
  {p \in CIDs \ issued : /\ \A o \in Objects : p \notin heap[o].members
                         /\ \A c \in Clients : task[c].cid # p}

\* A newcomer, or the holder of a valid reconnect token.
StartJoin(c, p, cap) ==
  /\ p \in issued \cup Unused
  /\ Start(c, [Idle EXCEPT !.at = IF cid[c] = Nil THEN "gate" ELSE "vacate",
                           !.then = "gate", !.cid = p, !.claims = p \in issued, !.cap = cap])

StartLeave(c) ==
  "leave" \in plan.goroutines /\ cid[c] # Nil /\ Start(c, [Idle EXCEPT !.at = "vacate"])

StartEnd(c) ==
  "end" \in plan.goroutines /\ cid[c] # Nil /\ Start(c, [Idle EXCEPT !.at = "endFind"])

-----------------------------------------------------------------------------
\* removeClientFromRoom: find the room, remove, delete the room if emptied.

FindForRemoval(c) ==
  /\ At(c, "vacate")
  /\ IF current = Nil THEN Goto(c, task[c].then) ELSE GotoWith(c, "remove", current)
  /\ UNCHANGED <<heap, current, tombstone, registered, cid, issued, closing,
                 callback, reaping, web>>

RemoveSelf(c) ==
  /\ At(c, "remove")
  /\ LET p == cid[c] IN
     IF IsHeldBy(Held(c), p, c)
     THEN \E heir \in Heirs(Held(c), {p}) :
            /\ Store(task[c].obj, Depart(Held(c), {p}, heir))
            /\ Goto(c, IF Held(c).members = {p} THEN "delete" ELSE task[c].then)
     ELSE Goto(c, task[c].then) /\ UNCHANGED heap
  /\ UNCHANGED <<current, tombstone, registered, cid, issued, closing,
                 callback, reaping, web>>

\* Whatever room is under the rid by now is deleted.
DeleteRoom(c) ==
  /\ At(c, "delete")
  /\ current' = Nil
  /\ Goto(c, task[c].then)
  /\ UNCHANGED <<heap, tombstone, registered, cid, issued, closing, callback,
                 reaping, web>>

-----------------------------------------------------------------------------
\* handleJoin.

TombstoneGate(c) ==
  /\ At(c, "gate")
  /\ IF task[c].claims /\ tombstone THEN Goto(c, "idle")
     ELSE task' = [task EXCEPT ![c].at = "lookup", ![c].claims = FALSE]
  /\ UNCHANGED <<heap, current, tombstone, registered, cid, issued, closing,
                 callback, reaping, web>>

LookupRoom(c) ==
  /\ At(c, "lookup")
  /\ IF current # Nil
     THEN GotoWith(c, "seat", current) /\ UNCHANGED <<heap, current>>
     ELSE \E o \in Objects :
            /\ IsGarbage(o)
            /\ Store(o, NewRoom(CreateMax(task[c].cap, task[c].cap)))
            /\ current' = o
            /\ GotoWith(c, "seat", o)
  /\ UNCHANGED <<tombstone, registered, cid, issued, closing, callback, reaping, web>>

\* The CID has a record.  With a ghost the section ends before the seat is
\* complete; a refusal takes the reattach back.
SeatReclaimed(c) ==
  LET r     == Held(c)
      p     == task[c].cid
      ghost == {r.client[p]} \ {Nil}
      taken == Reattach(r, p, c)
      stage == IF task[c].cap >= r.max
               THEN IF ghost = {} THEN "seated" ELSE "evict"
               ELSE IF ghost = {} THEN "idle" ELSE "evictRefused"
  IN  /\ At(c, "seat")
      /\ p \in r.members
      /\ Store(task[c].obj, CASE stage = "seated" -> Seat(taken, p)
                              [] stage = "evict"  -> taken
                              [] OTHER            -> Suspend(taken, p))
      /\ IF ghost = {} THEN Goto(c, stage)
         ELSE task' = [task EXCEPT ![c].at = stage, ![c].peers = ghost, ![c].cap = 2]
      /\ cid' = [cid EXCEPT ![c] = p]
      /\ UNCHANGED <<current, tombstone, registered, issued, closing, callback,
                     reaping, web>>

\* No record to reclaim: an identity recovered with its token, or a new one.
SeatFresh(c) ==
  LET r == LockCapacity(Held(c), task[c].cap) IN
  /\ At(c, "seat")
  /\ task[c].cid \notin Held(c).members
  /\ IF Fits(r, task[c].cap)
     THEN /\ Store(task[c].obj, Seat(AttachParticipant(r, task[c].cid, c), task[c].cid))
          /\ cid' = [cid EXCEPT ![c] = task[c].cid]
          /\ Goto(c, "seated")
     ELSE /\ Store(task[c].obj, r)
          /\ Goto(c, "idle")
          /\ UNCHANGED cid
  /\ UNCHANGED <<current, tombstone, registered, issued, closing, callback,
                 reaping, web>>

\* cleanupEvictedClient, between the two sections of a join or after a refusal.
EvictGhost(c) ==
  /\ task[c].at \in {"evict", "evictRefused"}
  /\ registered' = registered \ task[c].peers
  /\ IF At(c, "evict") THEN task' = [task EXCEPT ![c].at = "reseat", ![c].peers = {}]
     ELSE Goto(c, "idle")
  /\ UNCHANGED <<heap, current, tombstone, cid, issued, closing, callback,
                 reaping, web>>

CompleteSeat(c) ==
  /\ At(c, "reseat")
  /\ Store(task[c].obj, Seat(Held(c), task[c].cid))
  /\ Goto(c, "seated")
  /\ UNCHANGED <<current, tombstone, registered, cid, issued, closing, callback,
                 reaping, web>>

\* clearTombstone, then joined is sent with the token.
FinishJoin(c) ==
  /\ At(c, "seated")
  /\ tombstone' = FALSE
  /\ issued' = issued \cup {task[c].cid}
  /\ Goto(c, "idle")
  /\ UNCHANGED <<heap, current, registered, cid, closing, callback, reaping, web>>

-----------------------------------------------------------------------------
\* handleEndRoom.

FindForEnd(c) ==
  /\ At(c, "endFind")
  /\ IF current = Nil THEN Goto(c, "idle") ELSE GotoWith(c, "end", current)
  /\ UNCHANGED <<heap, current, tombstone, registered, cid, issued, closing,
                 callback, reaping, web>>

\* The clients that room_ended goes to are those attached now; timers stop.
CheckHost(c) ==
  /\ At(c, "end")
  /\ LET r == Held(c) IN
     IF r.byClient[c] # Nil /\ r.host = r.byClient[c]
     THEN /\ Store(task[c].obj, BumpEpoch([r EXCEPT !.evict = {}, !.noActive = FALSE]))
          /\ Goto(c, "bury")
     ELSE Goto(c, "idle") /\ UNCHANGED heap
  /\ UNCHANGED <<current, tombstone, registered, cid, issued, closing, callback,
                 reaping, web>>

RecordTombstone(c) ==
  /\ At(c, "bury")
  /\ tombstone' = TRUE
  /\ Goto(c, "unlist")
  /\ UNCHANGED <<heap, current, registered, cid, issued, closing, callback,
                 reaping, web>>

UnlistRoom(c) ==
  /\ At(c, "unlist")
  /\ current' = Nil
  /\ Goto(c, "clear")
  /\ UNCHANGED <<heap, tombstone, registered, cid, issued, closing, callback,
                 reaping, web>>

ClearRoom(c) ==
  /\ At(c, "clear")
  /\ Store(task[c].obj, Cleared(Held(c)))
  /\ Goto(c, "idle")
  /\ UNCHANGED <<current, tombstone, registered, cid, issued, closing, callback,
                 reaping, web>>

-----------------------------------------------------------------------------
\* disconnectClient and suspendClientInRoom.

Deregister(c) ==
  /\ "close" \in plan.goroutines
  /\ c \in registered
  /\ c \in StreamClients \/ task[c] = Idle
  /\ closing[c] = Open
  /\ MayStart
  /\ registered' = registered \ {c}
  /\ closing' = [closing EXCEPT ![c].at = "find"]
  /\ UNCHANGED <<heap, current, tombstone, cid, issued, task, callback, reaping, web>>

FindForSuspend(c) ==
  /\ closing[c].at = "find"
  /\ closing' = [closing EXCEPT ![c] =
       IF cid[c] = Nil \/ current = Nil THEN Open
       ELSE [at |-> "suspend", obj |-> current, cid |-> cid[c]]]
  /\ UNCHANGED <<heap, current, tombstone, registered, cid, issued, task, callback,
                 reaping, web>>

SuspendSelf(c) ==
  /\ closing[c].at = "suspend"
  /\ LET o == closing[c].obj
         p == closing[c].cid
     IN  IF IsHeldBy(heap[o], p, c)
         THEN Store(o, BumpEpoch(Suspend(heap[o], p)))
         ELSE UNCHANGED heap
  /\ closing' = [closing EXCEPT ![c] = Open]
  /\ UNCHANGED <<current, tombstone, registered, cid, issued, task, callback,
                 reaping, web>>

-----------------------------------------------------------------------------
(***************************************************************************)
(* hardEvictSuspended, one call at a time for a participant: evict has the *)
(* timers that still run, callback those that fired.  A timer of an        *)
(* object that is no longer listed fires to no effect and is left out.     *)
(***************************************************************************)

Runs(o, p, stage) == callback' = [callback EXCEPT ![<<o, p>>] = stage]

EvictionFires(o, p) ==
  /\ "timer" \in plan.goroutines
  /\ o = current
  /\ p \in heap[o].evict
  /\ callback[<<o, p>>] = "none"
  /\ MayStart
  /\ heap' = [heap EXCEPT ![o].evict = @ \ {p}]
  /\ Runs(o, p, "due")
  /\ UNCHANGED <<current, tombstone, registered, cid, issued, task, closing,
                 reaping, web>>

EvictionFinds(o, p) ==
  /\ callback[<<o, p>>] = "due"
  /\ Runs(o, p, IF current = o THEN "checked" ELSE "none")
  /\ UNCHANGED <<heap, current, tombstone, registered, cid, issued, task, closing,
                 reaping, web>>

EvictionRemoves(o, p) ==
  /\ callback[<<o, p>>] = "checked"
  /\ IF IsSuspended(heap[o], p)
     THEN \E heir \in Heirs(heap[o], {p}) :
            /\ Store(o, Depart(heap[o], {p}, heir))
            /\ Runs(o, p, IF heap[o].members = {p} THEN "delete" ELSE "none")
     ELSE Runs(o, p, "none") /\ UNCHANGED heap
  /\ UNCHANGED <<current, tombstone, registered, cid, issued, task, closing,
                 reaping, web>>

EvictionDeletes(o, p) ==
  /\ callback[<<o, p>>] = "delete"
  /\ current' = Nil
  /\ Runs(o, p, "none")
  /\ UNCHANGED <<heap, tombstone, registered, cid, issued, task, closing,
                 reaping, web>>

\* cleanupRoomIfNoActive holds both locks at once.
NoActiveFires(o) ==
  /\ "timer" \in plan.goroutines
  /\ o = current
  /\ heap[o].noActive
  /\ o \notin reaping
  /\ MayStart
  /\ reaping' = reaping \cup {o}
  /\ UNCHANGED <<heap, current, tombstone, registered, cid, issued, task, closing,
                 callback, web>>

NoActiveRuns(o) ==
  /\ o \in reaping
  /\ reaping' = reaping \ {o}
  /\ IF current # o THEN UNCHANGED <<heap, current>>
     ELSE IF ActiveClients(heap[o]) # {}
     THEN heap' = [heap EXCEPT ![o].noActive = FALSE] /\ UNCHANGED current
     ELSE /\ Store(o, [Cleared(heap[o]) EXCEPT !.noActive = FALSE])
          /\ current' = Nil
  /\ UNCHANGED <<tombstone, registered, cid, issued, task, closing, callback, web>>

-----------------------------------------------------------------------------
\* evictByLeave, for the bearer of a valid token.

LeaveFinds(p) ==
  /\ "post" \in plan.goroutines
  /\ web = NoLeave
  /\ MayStart
  /\ p \in issued
  /\ current # Nil
  /\ web' = [at |-> "remove", obj |-> current, cid |-> p, peers |-> {}]
  /\ UNCHANGED <<heap, current, tombstone, registered, cid, issued, task, closing,
                 callback, reaping>>

LeaveRemoves ==
  /\ web.at = "remove"
  /\ LET r   == heap[web.obj]
         p   == web.cid
         cut == {r.client[p]} \ {Nil}
     IN  IF p \in r.members
         THEN /\ \E heir \in Heirs(r, {p}) : Store(web.obj, Depart(r, {p}, heir))
              /\ web' = IF cut # {}
                        THEN [web EXCEPT !.at = IF r.members = {p} THEN "cutAndDelete" ELSE "cut",
                                         !.peers = cut]
                        ELSE IF r.members = {p} THEN [web EXCEPT !.at = "delete"]
                        ELSE NoLeave
         ELSE web' = NoLeave /\ UNCHANGED heap
  /\ UNCHANGED <<current, tombstone, registered, cid, issued, task, closing,
                 callback, reaping>>

LeaveCuts ==
  /\ web.at \in {"cut", "cutAndDelete"}
  /\ registered' = registered \ web.peers
  /\ web' = IF web.at = "cut" THEN NoLeave ELSE [web EXCEPT !.at = "delete", !.peers = {}]
  /\ UNCHANGED <<heap, current, tombstone, cid, issued, task, closing, callback,
                 reaping>>

LeaveDeletes ==
  /\ web.at = "delete"
  /\ current' = Nil
  /\ web' = NoLeave
  /\ UNCHANGED <<heap, tombstone, registered, cid, issued, task, closing, callback,
                 reaping>>

-----------------------------------------------------------------------------
HandleMessage(c) ==
  \/ \E p \in CIDs, cap \in plan.capabilities : StartJoin(c, p, cap)
  \/ StartLeave(c)
  \/ StartEnd(c)
  \/ FindForRemoval(c)
  \/ RemoveSelf(c)
  \/ DeleteRoom(c)
  \/ TombstoneGate(c)
  \/ LookupRoom(c)
  \/ SeatReclaimed(c)
  \/ SeatFresh(c)
  \/ EvictGhost(c)
  \/ CompleteSeat(c)
  \/ FinishJoin(c)
  \/ FindForEnd(c)
  \/ CheckHost(c)
  \/ RecordTombstone(c)
  \/ UnlistRoom(c)
  \/ ClearRoom(c)

Close(c) == Deregister(c) \/ FindForSuspend(c) \/ SuspendSelf(c)

Evict(o, p) ==
  EvictionFires(o, p) \/ EvictionFinds(o, p) \/ EvictionRemoves(o, p) \/ EvictionDeletes(o, p)

LeaveOverHTTP ==
  (\E p \in CIDs : LeaveFinds(p)) \/ LeaveRemoves \/ LeaveCuts \/ LeaveDeletes

Next ==
  /\ \/ \E c \in Clients : Connect(c) \/ HandleMessage(c) \/ Close(c)
     \/ \E o \in Objects : NoActiveFires(o) \/ NoActiveRuns(o) \/ \E p \in CIDs : Evict(o, p)
     \/ LeaveOverHTTP
  /\ UNCHANGED plan

Spec == Init /\ [][Next]_vars

-----------------------------------------------------------------------------
(***************************************************************************)
(* What the splitting leaves true.                                         *)
(***************************************************************************)

IsEnding(o) == \E c \in Clients : task[c].obj = o /\ task[c].at \in {"bury", "unlist", "clear"}

\* Something will remove p from the listed room: a timer, its callback on the
\* way, or the end of the room.
IsReclaimable(p) ==
  p \in heap[current].evict \/ callback[<<current, p>>] # "none" \/ IsEnding(current)

\* Places are neither sold twice nor lost: in every room object, listed or not,
\* byCID and byClient agree whenever room.mu is free, also between the two
\* sections of a join with a ghost; no interleaving of joins, recoveries and
\* capacity locks overfills a room; and the place of a suspended participant of
\* the listed room is always on its way to be reclaimed.
PlacesSurvive ==
  /\ \A o \in Objects : IndexesAgree(heap[o]) /\ CapacityRespected(heap[o])
  /\ current # Nil => \A p \in Suspended(heap[current]) : IsReclaimable(p)

\* A leave or a disconnect that arrives late, after a reconnect gave the place
\* to another transport, takes the place from nobody (removeClientFromRoom).
LateDepartureHarmless ==
  [][\A c \in Clients, o \in Objects : \A p \in Active(heap[o]) :
       (RemoveSelf(c) \/ SuspendSelf(c)) /\ heap[o].client[p] # c
         => heap'[o].client[p] = heap[o].client[p]]_vars

\* No timer callback takes the place of a participant that is back, however
\* long it waited for the locks.
TimersSpareTheReturned ==
  [][\A o \in Objects :
       ((\E p \in CIDs : EvictionRemoves(o, p)) \/ NoActiveRuns(o))
         => Active(heap[o]) \subseteq Active(heap'[o])]_vars

-----------------------------------------------------------------------------
(***************************************************************************)
(* What comments and documents promise and these interleavings break.      *)
(***************************************************************************)

Quiet ==
  /\ \A c \in Clients : task[c] = Idle /\ closing[c] = Open
  /\ \A x \in Objects \X CIDs : callback[x] = "none"
  /\ web = NoLeave

\* A room is deleted when it is empty (protocol, room model): once handlers
\* have returned, an object with attached participants is the listed one.
AttachedAreListed ==
  Quiet => \A o \in Objects : Active(heap[o]) # {} => o = current

\* A lost transport suspends its participant, whose timer reaps it (comment on
\* disconnectClient): once handlers have returned, who is attached to the
\* listed room is registered.
AttachedAreRegistered ==
  Quiet /\ current # Nil => ActiveClients(heap[current]) \subseteq registered

\* A room that was ended has a tombstone (comment in handleEndRoom), unless it
\* was joined anew.
TombstoneOutlastsEnd ==
  [][\A c \in Clients : ClearRoom(c) => tombstone \/ current # Nil]_vars

\* A suspended participant keeps its place for the whole window (comment on
\* suspendHardEvictionTimeout): no callback evicts it while its timer runs.
WindowIsKept ==
  [][\A o \in Objects, p \in CIDs :
       EvictionRemoves(o, p) /\ IsSuspended(heap[o], p) => p \notin heap[o].evict]_vars
=============================================================================
