---------------------------- MODULE RoomWatching ----------------------------
(***************************************************************************)
(* RoomWatcher: the occupancy of rooms the user is not in, over a          *)
(* connection of its own that fails and comes back, as                     *)
(* useRoomStatusWatcher and the home page use it.  The server half is what *)
(* handleWatchRooms and broadcastRoomStatusUpdate do for one transport.    *)
(***************************************************************************)
EXTENDS Naturals, Sequences

CONSTANTS
  Rooms,
  ValidRooms,   \* those whose identifiers have the form in use
  Sizes,        \* capacities a room may have
  None,
  MaxEvents     \* bound: arrivals and departures in the rooms, connections that
                \* fail, and what users do on the pages

ASSUME WatchingAssumption ==
  /\ ValidRooms \subseteq Rooms
  /\ Sizes \subseteq Nat \ {0, 1}
  /\ None \notin Rooms /\ None \notin Sizes
  /\ MaxEvents \in Nat

VARIABLES
  watcher,     \* the RoomWatcher and the engine it owns
  occupancy,   \* per room, the participants and the capacity on the server
  subscribed,  \* the rooms the server has this transport down for
  overtaken,   \* rooms whose answer an update that was read later went ahead of
  events

watching == <<watcher, occupancy, subscribed, overtaken, events>>

Empty == [count |-> 0, max |-> None]

\* link is the engine's connection; up and down, what is on its way.
NewWatcher ==
  [stopped |-> FALSE, watched |-> {}, hasConnected |-> FALSE, wasConnected |-> FALSE,
   link |-> "none", statuses |-> [r \in Rooms |-> None], up |-> <<>>, down |-> <<>>]

-----------------------------------------------------------------------------
(* roomStatuses.ts *)

\* A status without a capacity keeps the one that was known.
Normalized(status, previous) ==
  IF status.max = None /\ previous # None THEN [status EXCEPT !.max = previous.max]
  ELSE status

Merged(statuses, news) ==
  [r \in Rooms |-> IF r \in DOMAIN news THEN Normalized(news[r], statuses[r])
                   ELSE statuses[r]]

StatusState(status) ==
  IF status = None \/ status.count = 0 THEN "hidden"
  ELSE IF status.count >= (IF status.max = None THEN 2 ELSE status.max) THEN "full"
  ELSE "waiting"

-----------------------------------------------------------------------------
(* RoomWatcher.ts *)

SendWatch(w, rooms) == IF w.link = "open" THEN [w EXCEPT !.up = Append(@, rooms)] ELSE w

\* Mutant: the loss of the connection is not noted.
StateChangedOnce(w) ==
  [(IF w.link = "open" /\ ~w.wasConnected /\ w.watched # {} THEN SendWatch(w, w.watched) ELSE w)
     EXCEPT !.wasConnected = @ \/ w.link = "open"]

\* The listener of the engine: on each new connection the rooms are asked for.
StateChanged(w) ==
  [(IF w.link = "open" /\ ~w.wasConnected /\ w.watched # {} THEN SendWatch(w, w.watched) ELSE w)
     EXCEPT !.wasConnected = w.link = "open"]

WatchRooms(w, rooms) ==
  LET v == [w EXCEPT !.watched = rooms]
  IN  IF w.stopped THEN w
      ELSE IF w.hasConnected THEN SendWatch(v, rooms)
      ELSE IF rooms = {} THEN v
      ELSE [v EXCEPT !.hasConnected = TRUE, !.link = "dialing"]

Stopped == [NewWatcher EXCEPT !.stopped = TRUE]

\* currentStatuses: what was learned of the rooms that are watched.
CurrentStatus(w, r) == IF r \in w.watched THEN w.statuses[r] ELSE None

-----------------------------------------------------------------------------
(* The connection. *)

Happens == events < MaxEvents /\ events' = events + 1

Opens ==
  /\ watcher.link = "dialing"
  /\ watcher' = StateChanged([watcher EXCEPT !.link = "open"])
  /\ UNCHANGED <<occupancy, subscribed, overtaken, events>>

\* Everything on its way is lost; the hub forgets the transport's watches.
Lost ==
  /\ watcher.link \in {"dialing", "open"}
  /\ Happens
  /\ watcher' = StateChanged([watcher EXCEPT !.link = "waiting", !.up = <<>>, !.down = <<>>])
  /\ subscribed' = {} /\ overtaken' = {}
  /\ UNCHANGED occupancy

\* scheduleReconnect.
Redials ==
  /\ watcher.link = "waiting"
  /\ watcher' = [watcher EXCEPT !.link = "dialing"]
  /\ UNCHANGED <<occupancy, subscribed, overtaken, events>>

Delivered ==
  /\ watcher.down # <<>>
  /\ watcher' = [watcher EXCEPT !.down = Tail(@),
                                !.statuses = Merged(@, Head(watcher.down).news)]
  /\ UNCHANGED <<occupancy, subscribed, overtaken, events>>

-----------------------------------------------------------------------------
(* The server. *)

\* handleWatchRooms: the watches are replaced, and the answer read, under h.mu.
HandleWatchRooms ==
  /\ watcher.up # <<>>
  /\ LET rooms  == Head(watcher.up) \cap ValidRooms
         answer == [isAnswer |-> TRUE, news |-> [r \in rooms |-> occupancy[r]]]
     IN  /\ subscribed' = rooms
         /\ watcher' = [watcher EXCEPT !.up = Tail(@), !.down = Append(@, answer)]
         /\ overtaken' = overtaken \ rooms
  /\ UNCHANGED <<occupancy, events>>

\* A room is created, joined, left or deleted; the second participant fixes
\* its capacity.  broadcastRoomStatusUpdate follows each.
Successors(room) ==
  (IF room.count = 0 THEN [count : {1}, max : Sizes]
   ELSE IF room.count = 1 THEN {Empty} \cup [count : {2}, max : Sizes]
   ELSE {[room EXCEPT !.count = @ - 1]})
  \cup (IF room.count > 1 /\ room.count < room.max THEN {[room EXCEPT !.count = @ + 1]} ELSE {})

Update(r, room) == [isAnswer |-> FALSE, news |-> [x \in {r} |-> room]]

\* An answer is sent after h.mu is released: an update that is newer than it may
\* be sent before it.
OccupancyChanges(r) ==
  /\ Happens
  /\ \E room \in Successors(occupancy[r]) :
       /\ occupancy' = [occupancy EXCEPT ![r] = room]
       /\ LET down == watcher.down
              last == Len(down)
          IN  \/ /\ watcher' = IF r \in subscribed
                                THEN [watcher EXCEPT !.down = Append(@, Update(r, room))]
                                ELSE watcher
                 /\ overtaken' = overtaken \ {r}
              \/ /\ r \in subscribed /\ last > 0 /\ down[last].isAnswer
                 /\ watcher' = [watcher EXCEPT
                                 !.down = SubSeq(@, 1, last - 1) \o <<Update(r, room), down[last]>>]
                 /\ overtaken' = overtaken \cup {r}
  /\ UNCHANGED subscribed

WatchingInit ==
  /\ watcher = Stopped
  /\ occupancy = [r \in Rooms |-> Empty]
  /\ subscribed = {}
  /\ overtaken = {}
  /\ events = 0

WatchingStep ==
  \/ Opens \/ Lost \/ Redials \/ Delivered \/ HandleWatchRooms
  \/ \E r \in ValidRooms : OccupancyChanges(r)

\* The connection is up and nothing is under way.
Answered ==
  watcher.link = "open" /\ watcher.up = <<>> /\ watcher.down = <<>>
=============================================================================
