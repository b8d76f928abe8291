-------------------------- MODULE SignalingEngine --------------------------
(***************************************************************************)
(* The signaling client of one browser tab: SignalingEngine.ts, its two    *)
(* transports, the part of SerenadaServerProvider.ts and of                *)
(* SerenadaSession.ts that opens, joins, loses and resumes a call, and     *)
(* what they keep in sessionStorage.  JavaScript callbacks run to          *)
(* completion, so each callback, timer and API call is one step, with the  *)
(* synchronous listeners it calls.  The server and the network are         *)
(* external: a server that answers joins as module SignalingHub does,      *)
(* connections that fail to open, close, hang, or (SSE) lose a POST.       *)
(***************************************************************************)
EXTENDS Naturals, Sequences, FiniteSets

CONSTANTS
  Rooms,          \* rooms the user may open in this tab, one at a time
  Transports,     \* transportOrder, e.g. <<"ws", "sse">>
  FallbackAfter,  \* WS_FALLBACK_CONSECUTIVE_FAILURES
  PongMisses,     \* PONG_MISS_THRESHOLD
  None,
  MaxSeats,       \* bound: seats the server hands out
  MaxEpoch,       \* bound: membership changes of the room
  MaxFaults,      \* bound: failures in the first call; one less with each later call
  MaxSessions     \* bound: calls opened in this tab

ASSUME EngineAssumption ==
  /\ Transports \in Seq({"ws", "sse"}) /\ Transports # <<>>
  /\ FallbackAfter \in Nat \ {0} /\ PongMisses \in Nat \ {0}
  /\ {MaxSeats, MaxEpoch, MaxFaults, MaxSessions} \subseteq Nat
  /\ None \notin Rooms /\ None \notin [room : Rooms, n : Nat]

VARIABLES
  tab,     \* the objects of the page: session, provider, engine, transport
  store,   \* sessionStorage: the reconnect keys and the recovery record
  srv,     \* the server's side of the call
  down,    \* messages on their way to the tab, on the current connection
  faults   \* failures so far

vars == <<tab, store, srv, down, faults>>

\* A seat is a (rid, cid) pair; a reconnect token names the seat it is for.
Seats == [room : Rooms, n : 1..MaxSeats]

\* A page with no session.  open: session.started and not inactive; joining:
\* pendingJoinOptions; asked: joinInFlight; owed: reconnectRecoveryPending;
\* resync: pendingPostReconnectResync and its timer; giveUp: joinTimeoutTimer;
\* told: provider.lastConnected and session.isConnected; roster: the epoch of
\* roomState, 0 for null; behind: peer connections not restarted since signaling
\* was lost (kept for the properties only).
BlankSession ==
  [open |-> FALSE, room |-> None, joining |-> FALSE, asked |-> FALSE,
   owed |-> FALSE, resync |-> FALSE, giveUp |-> FALSE, told |-> FALSE,
   roster |-> 0, behind |-> FALSE]

\* conn: transportId; link: the socket of that transport ("none" for a null
\* transport); late: closed transports with a callback still to come; up:
\* isConnected; out: what the transport was given to send; again: needsRejoin;
\* request: the payload of the latest join; timers: its three timers.
BlankEngine ==
  [closed |-> FALSE, conn |-> 0, link |-> "none", late |-> {}, idx |-> 1,
   connecting |-> FALSE, once |-> {}, wsFails |-> 0, up |-> FALSE,
   missed |-> 0, retry |-> FALSE, out |-> <<>>,
   currentRoom |-> None, buffered |-> None, again |-> FALSE, acked |-> FALSE,
   request |-> None, timers |-> {}, cid |-> None, lastCid |-> None,
   token |-> None, tokenRoom |-> None, epoch |-> 0]

EmptyStore == [cid |-> None, token |-> None, tokenRoom |-> None, rec |-> None]

Init ==
  /\ tab = [ses |-> BlankSession, eng |-> BlankEngine, opened |-> 0, left |-> {}]
  /\ store = EmptyStore
  /\ srv = [seat |-> None, next |-> 1, valid |-> {}, epoch |-> 0, ended |-> {},
            overtaken |-> FALSE]
  /\ down = <<>>
  /\ faults = 0

-----------------------------------------------------------------------------
(***************************************************************************)
(* Engine operations.  A handler is an operator on the page p = tab, so    *)
(* that a callback and the listeners it calls synchronously compose.       *)
(***************************************************************************)

Kind(e) == Transports[e.idx]
IsOpen(e) == e.link \in {"open", "hung"}

\* sendMessage: without an open transport the message is dropped.
SendMessage(e, m) == IF IsOpen(e) THEN [e EXCEPT !.out = Append(@, m)] ELSE e

\* Mutant: the token goes with whatever room is joined.
TokenForAny(e, room) == e.token

\* loadReconnectStorage may have loaded the token of another room.
TokenFor(e, room) == IF e.tokenRoom = room THEN e.token ELSE None

JoinRequest(e, room) ==
  LET seat == IF e.cid # None THEN e.cid ELSE e.lastCid
  IN  [type |-> "join", room |-> room, cid |-> seat,
       token |-> IF seat # None THEN TokenFor(e, room) ELSE None]

\* joinRoom.  The notifyStateChange it ends with is left to its callers, which
\* notify themselves; when the provider calls it, there is nothing to tell.
JoinRoom(e, room) ==
  LET m == JoinRequest(e, room)
      j == [e EXCEPT !.timers = {}, !.again = FALSE, !.currentRoom = room,
                     !.acked = FALSE]
  IN  IF IsOpen(e)
      THEN [SendMessage(j, m) EXCEPT !.request = m,
              !.timers = {"kickstart", "recovery", "hard"}]
      ELSE [j EXCEPT !.buffered = room]

\* doConnect: a new transport takes over; the old one's handlers are detached.
\* (A transport that throws or refuses at once is left out.)
DoConnect(e, i) ==
  IF e.closed \/ e.connecting \/ i > Len(Transports) THEN e
  ELSE [e EXCEPT !.idx = i, !.connecting = TRUE, !.conn = @ + 1,
                 !.link = "dialing", !.out = <<>>]

ScheduleReconnect(e) == IF e.closed THEN e ELSE [e EXCEPT !.retry = TRUE]

\* Mutant: one failure too early.
ShouldFallbackEarly(e, reason) ==
  /\ e.idx < Len(Transports)
  /\ \/ reason = "timeout"
     \/ Kind(e) \notin e.once
     \/ Kind(e) = "ws" /\ e.wsFails >= FallbackAfter - 1

ShouldFallback(e, reason) ==
  /\ e.idx < Len(Transports)
  /\ \/ reason = "timeout"
     \/ Kind(e) \notin e.once
     \/ Kind(e) = "ws" /\ e.wsFails >= FallbackAfter

\* leaveRoom, without the storage.
LeaveRoom(e) ==
  [SendMessage(e, [type |-> "leave", room |-> e.currentRoom]) EXCEPT
     !.timers = {}, !.currentRoom = None, !.again = FALSE, !.cid = None,
     !.lastCid = None, !.token = None, !.tokenRoom = None, !.epoch = 0]

\* resetForTerminal, without the storage.
ResetForTerminal(e) ==
  [e EXCEPT !.timers = {}, !.currentRoom = None, !.again = FALSE,
            !.token = None, !.tokenRoom = None, !.epoch = 0]

\* clearReconnectAuthorityForFreshJoin, without the storage.
DropAuthority(e) ==
  [e EXCEPT !.timers = {}, !.cid = None, !.lastCid = None,
            !.token = None, !.tokenRoom = None]

\* destroy, at the end of every session: timers are cleared, the socket is closed
\* after what it still has to send, and nothing but the answer to an SSE POST
\* calls back.  What the dead engine holds is not read again, and is left out.
Destroy(e) ==
  [BlankEngine EXCEPT !.closed = TRUE, !.conn = e.conn, !.out = e.out,
     !.late = IF Kind(e) = "sse" /\ IsOpen(e) THEN {e.conn} ELSE {}]

-----------------------------------------------------------------------------
(* What the session does when the provider reports an edge of isConnected. *)

\* handleConnected, for a provider that handles reconnection.
SessionConnected(p) ==
  LET q == [p EXCEPT !.ses.told = TRUE]
  IN  IF p.ses.joining /\ ~p.ses.asked
      THEN [q EXCEPT !.ses.asked = TRUE, !.eng = JoinRoom(@, p.ses.room)]
      ELSE IF p.ses.owed /\ p.ses.roster # 0
      THEN [q EXCEPT !.ses.owed = FALSE, !.ses.resync = TRUE]
      ELSE q

\* handleDisconnected.
SessionDisconnected(p) ==
  [p EXCEPT !.ses.told = FALSE, !.ses.asked = FALSE,
            !.ses.owed = (p.ses.roster # 0),
            !.ses.behind = @ \/ p.ses.roster # 0]

\* notifyStateChange, as the provider hears it: only edges reach the session.
Notify(p) ==
  IF ~p.ses.open \/ p.eng.up = p.ses.told THEN p
  ELSE IF p.eng.up THEN SessionConnected(p) ELSE SessionDisconnected(p)

-----------------------------------------------------------------------------
(* Transport callbacks, as doConnect wires them. *)

IsCurrent(e, id) == id = e.conn

\* Mutant: only a buffered join is made.
BufferedOnly(e) == e.buffered

\* The room onOpen joins, if any.
RoomToJoin(e) ==
  IF e.buffered # None THEN e.buffered
  ELSE IF e.again THEN e.currentRoom ELSE None

OnOpen(p, id) ==
  LET e == [p.eng EXCEPT !.connecting = FALSE, !.up = TRUE, !.missed = 0,
              !.link = "open", !.once = @ \cup {Kind(p.eng)},
              !.wsFails = IF Kind(p.eng) = "ws" THEN 0 ELSE @]
      room == IF p.eng.up THEN None ELSE RoomToJoin(e)
  IN  IF ~IsCurrent(p.eng, id) THEN p
      ELSE Notify([p EXCEPT !.eng =
             IF room = None THEN e
             ELSE JoinRoom([e EXCEPT !.buffered = None], room)])

OnClose(p, id, reason) ==
  LET e == [p.eng EXCEPT !.connecting = FALSE]
      lost == [e EXCEPT !.up = FALSE, !.link = "none", !.out = <<>>,
                 !.again = (e.currentRoom # None),
                 !.wsFails = IF Kind(e) = "ws" /\ @ < FallbackAfter
                             THEN @ + 1 ELSE @,
                 !.lastCid = IF e.cid # None THEN e.cid ELSE @]
  IN  IF ~IsCurrent(e, id) THEN p
      ELSE IF e.closed THEN [p EXCEPT !.eng = e]
      ELSE Notify([p EXCEPT !.eng =
             IF ShouldFallback(lost, reason) THEN DoConnect(lost, e.idx + 1)
             ELSE ScheduleReconnect(lost)])

-----------------------------------------------------------------------------
(* Steps of the network: connections that open, fail, hang and are lost. *)

\* Whatever happens to the connection, what was on its way is lost with it, and
\* the server suspends the participant.
Disconnected ==
  /\ down' = <<>>
  /\ srv' = [srv EXCEPT !.seat = None]

Fault == faults + tab.opened <= MaxFaults /\ faults' = faults + 1

\* onopen of the transport that is being connected.
Opens ==
  /\ tab.eng.link = "dialing"
  /\ tab' = OnOpen(tab, tab.eng.conn)
  /\ UNCHANGED <<store, srv, down, faults>>

\* onerror, onclose and the connect timeout.  A WebSocket that fails calls back
\* again when it closes: its handlers stay attached.
DialFails(reason) ==
  /\ tab.eng.link = "dialing" /\ Fault
  /\ tab' = OnClose(IF Kind(tab.eng) = "sse" THEN tab
                    ELSE [tab EXCEPT !.eng.late = @ \cup {tab.eng.conn}],
                    tab.eng.conn, reason)
  /\ UNCHANGED <<store, srv, down>>

\* An open connection is lost: onerror of a WebSocket, or an EventSource that is
\* CLOSED or whose POST is answered 410; a second callback may follow.
Lost ==
  /\ IsOpen(tab.eng) /\ Fault
  /\ tab' = OnClose([tab EXCEPT !.eng.late = @ \cup {tab.eng.conn}],
                    tab.eng.conn, "close")
  /\ Disconnected /\ UNCHANGED store

LateCallback ==
  \E id \in tab.eng.late :
    /\ tab' = OnClose([tab EXCEPT !.eng.late = @ \ {id}], id, "close")
    /\ IF tab'.eng.link = tab.eng.link THEN UNCHANGED <<srv, down>>
       ELSE Disconnected
    /\ UNCHANGED <<store, faults>>

\* A half-open connection: nothing is delivered and nothing is reported.
Hangs ==
  /\ tab.eng.link = "open" /\ Fault
  /\ tab' = [tab EXCEPT !.eng.link = "hung"]
  /\ UNCHANGED <<store, srv, down>>

\* An SSE client posts each message; a failed POST is only logged.
PostFails ==
  /\ Kind(tab.eng) = "sse" /\ tab.eng.link = "open" /\ tab.eng.out # <<>>
  /\ Fault
  /\ tab' = [tab EXCEPT !.eng.out = Tail(@)]
  /\ UNCHANGED <<store, srv, down>>

-----------------------------------------------------------------------------
(* Timers of the engine and the session. *)

\* The tick of the ping interval, when no pong came: with the last miss,
\* forceClose closes the transport and calls back.
PingUnanswered ==
  /\ tab.eng.link = "hung"
  /\ IF tab.eng.missed + 1 < PongMisses
     THEN tab' = [tab EXCEPT !.eng.missed = @ + 1] /\ UNCHANGED <<srv, down>>
     ELSE tab' = OnClose([tab EXCEPT !.eng.missed = 0], tab.eng.conn,
                         "ping-timeout")
          /\ Disconnected
  /\ UNCHANGED <<store, faults>>

ReconnectTimer ==
  /\ tab.eng.retry
  /\ tab' = [tab EXCEPT !.eng =
               DoConnect([@ EXCEPT !.retry = FALSE, !.idx = 1, !.once = {}], 1)]
  /\ UNCHANGED <<store, srv, down, faults>>

\* The join is sent again, as it was, 1.2 s and 4 s after the first.
JoinAgain ==
  \E t \in {"kickstart", "recovery"} \cap tab.eng.timers :
    /\ t = "recovery" => "kickstart" \notin tab.eng.timers
    /\ tab' = [tab EXCEPT !.eng =
                 SendMessage([tab.eng EXCEPT !.timers = @ \ {t}], tab.eng.request)]
    /\ UNCHANGED <<store, srv, down, faults>>

\* joinHardTimeout: the engine notes an error that its owner does not look at.
JoinHardTimeout ==
  /\ tab.eng.timers = {"hard"}
  /\ tab' = [tab EXCEPT !.eng.timers = {}]
  /\ UNCHANGED <<store, srv, down, faults>>

\* The session stops: resetSessionResources or destroy.
Close(p) ==
  [p EXCEPT !.ses = BlankSession, !.eng = Destroy(p.eng)]

\* joinTimeoutTimer of the session: failWithError.
SessionJoinTimeout ==
  /\ tab.ses.giveUp
  /\ IF tab.ses.roster = 0 /\ tab.ses.joining
     THEN tab' = Close(tab) /\ Disconnected
     ELSE tab' = [tab EXCEPT !.ses.giveUp = FALSE] /\ UNCHANGED <<srv, down>>
  /\ UNCHANGED <<store, faults>>

\* flushPostReconnectResync: handleSignalingReconnect restarts ICE with every
\* peer, unless signaling is down.
FlushResync(p) ==
  IF p.ses.resync
  THEN [p EXCEPT !.ses.resync = FALSE, !.ses.behind = @ /\ ~p.ses.told]
  ELSE p

ResyncTimeout ==
  /\ tab.ses.resync
  /\ tab' = FlushResync(tab)
  /\ UNCHANGED <<store, srv, down, faults>>

-----------------------------------------------------------------------------
(* Messages of the server, one handler per type (handleIncomingMessage). *)

\* persistReconnectStorage, persistClientId and persistRecoveryRecord.
Persist(seat, room) ==
  [cid |-> seat, token |-> seat, tokenRoom |-> room,
   rec |-> [room |-> room, cid |-> seat, token |-> seat]]

\* Mutant: the recovery record outlives its call.
KeepRecord(st) == [EmptyStore EXCEPT !.rec = st.rec]

\* clearReconnectStorage, and clearReconnectAuthorityForFreshJoin alike.
ClearStorage(st) == EmptyStore

\* Mutant: a second answer does not change who the client is.
FirstSeat(e, m) == IF e.cid # None THEN e.cid ELSE m.seat

SeatOf(e, m) == m.seat

Joined(m) ==
  /\ tab' = [tab EXCEPT
       !.eng = [@ EXCEPT !.cid = SeatOf(tab.eng, m), !.timers = {}, !.acked = TRUE,
                         !.epoch = m.epoch, !.token = m.seat, !.tokenRoom = m.room],
       !.ses = [@ EXCEPT !.asked = FALSE, !.joining = FALSE, !.owed = FALSE,
                         !.giveUp = FALSE, !.roster = m.epoch]]
  /\ store' = Persist(m.seat, m.room)
  /\ UNCHANGED srv

\* The last snapshot to arrive is the room, whatever its epoch.
Adopt(p, m) == [p EXCEPT !.eng.epoch = m.epoch, !.ses.roster = m.epoch]

RoomState(m) ==
  /\ tab' = FlushResync(Adopt(tab, m))
  /\ UNCHANGED <<store, srv>>

\* room_ended, and the error ROOM_ENDED: the session closes (cleanupCall,
\* failWithError) after the engine has forgotten the room.
RoomEnded(m) ==
  /\ tab' = Close([tab EXCEPT !.eng = ResetForTerminal(@)])
  /\ store' = ClearStorage(store)
  /\ srv' = [srv EXCEPT !.seat = None]

\* Any other error: failWithError, which leaves the storage alone.
Refused(m) ==
  /\ tab' = Close(tab)
  /\ srv' = [srv EXCEPT !.seat = None]
  /\ UNCHANGED store

\* retryFreshJoinAfterInvalidReconnectToken; nobody else hears of the error.
RetryFresh(e, m) == JoinRoom(DropAuthority(e), m.room)

TokenRejected(m) ==
  /\ tab' = [tab EXCEPT !.eng = RetryFresh(@, m)]
  /\ store' = ClearStorage(store)
  /\ UNCHANGED srv

Receive ==
  /\ tab.eng.link = "open" /\ down # <<>>
  /\ LET m == Head(down)
     IN  \/ m.type = "joined" /\ Joined(m)
         \/ m.type = "room_state" /\ RoomState(m)
         \/ m.type \in {"room_ended", "ROOM_ENDED"} /\ RoomEnded(m)
         \/ m.type = "ROOM_FULL" /\ Refused(m)
         \/ m.type = "INVALID_RECONNECT_TOKEN" /\ TokenRejected(m)
  /\ down' = IF tab'.eng.link = "open" THEN Tail(down) ELSE <<>>
  /\ UNCHANGED faults

-----------------------------------------------------------------------------
(***************************************************************************)
(* The server (external here): it answers a join with joined and a         *)
(* snapshot.  A fresh join of a seated transport gives up its seat, a      *)
(* valid token brings its seat back, an invalid one is refused.            *)
(***************************************************************************)

Reply(ms) == down' = down \o ms

Snapshot(room, epoch) == [type |-> "room_state", room |-> room, epoch |-> epoch]

Seat(s, room) ==
  /\ srv' = [srv EXCEPT !.seat = s, !.epoch = @ + 1, !.valid = @ \cup {s},
               !.next = IF s.n = @ THEN @ + 1 ELSE @, !.ended = @ \ {room},
               !.overtaken = FALSE]
  /\ Reply(<<[type |-> "joined", room |-> room, seat |-> s,
              epoch |-> srv.epoch + 1],
             Snapshot(room, srv.epoch + 1)>>)

HandleJoin(m) ==
  LET Refuse(code) == Reply(<<[type |-> code, room |-> m.room]>>) /\ UNCHANGED srv
  IN  IF m.token = None
      THEN IF srv.next > MaxSeats THEN Refuse("ROOM_FULL")
           ELSE Seat([room |-> m.room, n |-> srv.next], m.room)
      ELSE IF m.token \notin srv.valid \/ m.token # m.cid
              \/ m.token.room # m.room
      THEN Refuse("INVALID_RECONNECT_TOKEN")
      ELSE IF m.room \in srv.ended THEN Refuse("ROOM_ENDED")
      ELSE Seat(m.token, m.room)

ServerReceives ==
  /\ tab.eng.out # <<>> /\ tab.eng.link # "hung"
  /\ LET m == Head(tab.eng.out)
     IN  \/ m.type = "join" /\ tab.eng.link = "open" /\ HandleJoin(m)
         \/ /\ m.type = "leave"
            /\ srv' = [srv EXCEPT !.seat = None]
            /\ UNCHANGED down
         \/ /\ m.type = "end_room"
            /\ srv' = [srv EXCEPT !.seat = None, !.ended = @ \cup {m.room}]
            /\ UNCHANGED down
         \/ /\ m.type = "join" /\ tab.eng.link = "none"
            /\ UNCHANGED <<srv, down>>
  /\ tab' = [tab EXCEPT !.eng.out = Tail(@)]
  /\ UNCHANGED <<store, faults>>

\* Somebody else joins, leaves, is suspended or comes back.
PeersChange ==
  /\ srv.seat # None /\ srv.epoch < MaxEpoch
  /\ srv' = [srv EXCEPT !.epoch = @ + 1, !.overtaken = FALSE]
  /\ Reply(<<Snapshot(srv.seat.room, srv.epoch + 1)>>)
  /\ UNCHANGED <<tab, store, faults>>

\* Two broadcasts are written in the other order: each is taken under the lock
\* of the room and sent after it.
Overtakes ==
  /\ \E i \in 1..Len(down) - 1 :
       /\ down[i].type = "room_state" /\ down[i + 1].type = "room_state"
       /\ down[i].epoch < down[i + 1].epoch
       /\ down' = [down EXCEPT ![i] = down[i + 1], ![i + 1] = down[i]]
  /\ srv' = [srv EXCEPT !.overtaken = TRUE]
  /\ UNCHANGED <<tab, store, faults>>

\* The host ends the room.
RoomEnds ==
  /\ srv.seat # None /\ Fault
  /\ srv' = [srv EXCEPT !.seat = None, !.ended = @ \cup {srv.seat.room}]
  /\ Reply(<<[type |-> "room_ended", room |-> srv.seat.room]>>)
  /\ UNCHANGED <<tab, store>>

\* The tokens run out, or the server gets another secret.
TokensExpire ==
  /\ srv.valid # {} /\ Fault
  /\ srv' = [srv EXCEPT !.valid = {}]
  /\ UNCHANGED <<tab, store, down>>

-----------------------------------------------------------------------------
(* The user: opens a call, leaves or ends it, closes or reloads the page. *)

\* SerenadaCore.join: a new session with a new engine, which reads the storage
\* (loadReconnectStorage), and connects.
OpenCall(room) ==
  /\ ~tab.ses.open /\ tab.opened < MaxSessions
  /\ tab' = [opened |-> tab.opened + 1,
             ses |-> [BlankSession EXCEPT !.open = TRUE, !.room = room,
                        !.joining = TRUE, !.giveUp = TRUE],
             eng |-> DoConnect([BlankEngine EXCEPT !.lastCid = store.cid,
                        !.token = store.token, !.tokenRoom = store.tokenRoom], 1),
             left |-> tab.left]
  /\ Disconnected /\ UNCHANGED <<store, faults>>

\* leave, and end, which sends end_room first.
LeaveCall(ending) ==
  LET told == IF ending
              THEN SendMessage(tab.eng, [type |-> "end_room",
                                         room |-> tab.eng.currentRoom])
              ELSE tab.eng
  IN  /\ tab.ses.open
      /\ tab' = Close([tab EXCEPT !.eng = LeaveRoom(told),
                                  !.left = @ \cup ({tab.eng.cid} \ {None})])
      /\ store' = ClearStorage(store)
      /\ down' = <<>>
      /\ UNCHANGED <<srv, faults>>

\* The component unmounts (destroy), or the page goes away and is loaded again:
\* no leave is sent, and the storage keeps the way back.
Unload ==
  /\ tab.ses.open
  /\ tab' = Close(tab)
  /\ Disconnected /\ UNCHANGED <<store, faults>>

-----------------------------------------------------------------------------
Progress ==
  \/ Opens \/ PingUnanswered \/ ReconnectTimer \/ JoinAgain \/ JoinHardTimeout
  \/ SessionJoinTimeout \/ ResyncTimeout \/ Receive \/ ServerReceives

Next ==
  \/ Progress
  \/ \E reason \in {"close", "timeout"} : DialFails(reason)
  \/ Lost \/ LateCallback \/ Hangs \/ PostFails
  \/ PeersChange \/ Overtakes \/ RoomEnds \/ TokensExpire
  \/ \E room \in Rooms : OpenCall(room)
  \/ \E ending \in BOOLEAN : LeaveCall(ending)
  \/ Unload

Spec == Init /\ [][Next]_vars

\* Timers fire, callbacks come and messages arrive; failures need not stop, but
\* MaxFaults makes them.
LiveSpec == Spec /\ WF_vars(Progress)

-----------------------------------------------------------------------------
(* What must hold. *)

Messages ==
  [type : {"join"}, room : Rooms, cid : Seats \cup {None},
   token : Seats \cup {None}]
  \cup [type : {"leave", "end_room"}, room : Rooms \cup {None}]

Answers ==
  [type : {"joined"}, room : Rooms, seat : Seats, epoch : Nat]
  \cup [type : {"room_state"}, room : Rooms, epoch : Nat]
  \cup [type : {"room_ended", "ROOM_ENDED", "ROOM_FULL",
                "INVALID_RECONNECT_TOKEN"}, room : Rooms]

\* The recovery record and the reconnect keys say the same, whoever writes or
\* clears them (recoveryStorage.ts).
StoresInLockstep ==
  store.rec = IF store.token = None THEN None
              ELSE [room |-> store.tokenRoom, cid |-> store.cid,
                    token |-> store.token]

\* The types, and the two records of a page's storage in agreement.
TypeOK ==
  /\ {tab.eng.cid, tab.eng.lastCid, tab.eng.token, store.cid, store.token}
       \subseteq Seats \cup {None}
  /\ {tab.eng.currentRoom, tab.eng.buffered, tab.eng.tokenRoom, tab.ses.room}
       \subseteq Rooms \cup {None}
  /\ tab.eng.link \in {"none", "dialing", "open", "hung"}
  /\ tab.eng.idx \in 1..Len(Transports)
  /\ tab.eng.timers \in {{}, {"hard"}, {"recovery", "hard"},
                         {"kickstart", "recovery", "hard"}}
  /\ tab.eng.wsFails \in 0..FallbackAfter /\ tab.eng.missed < PongMisses
  /\ \A i \in DOMAIN tab.eng.out : tab.eng.out[i] \in Messages
  /\ \A i \in DOMAIN down : down[i] \in Answers
  /\ tab.left \subseteq Seats
  /\ srv.seat \in Seats \cup {None} /\ srv.valid \subseteq Seats
  /\ srv.next \in 1..MaxSeats + 1 /\ srv.ended \subseteq Rooms
  /\ faults \in 0..MaxFaults
  /\ StoresInLockstep

\* An open session has exactly one of: a connection, one being made, a timer to
\* make one; and isConnected, told to the session, says which.  The callbacks of
\* a socket that fails twice, a fallback and the reconnect timer do not add up to
\* two attempts, none, or a rejoin skipped because isConnected was still set.
ConnectionManaged ==
  LET e == tab.eng
  IN  tab.ses.open =>
        /\ tab.ses.told = e.up
        /\ \/ e.up /\ IsOpen(e) /\ ~e.connecting /\ ~e.retry
           \/ ~e.up /\ e.link = "dialing" /\ e.connecting /\ ~e.retry
           \/ ~e.up /\ e.link = "none" /\ ~e.connecting /\ e.retry

AllDelivered == tab.ses.open /\ tab.eng.link = "open" /\ tab.eng.out = <<>> /\ down = <<>>

\* When a join has been answered and nothing is under way, the client is who the
\* server seated on this connection: joins sent twice, and answers and rejections
\* that cross, leave nothing behind.  Its roster is the server's, unless the last
\* snapshot was overtaken: the epoch is adopted, never compared.
InStep ==
  AllDelivered /\ tab.eng.acked =>
    tab.eng.cid = srv.seat /\ (tab.ses.roster = srv.epoch \/ srv.overtaken)

\* A join presents the token of the seat it names, in the room it was issued for,
\* whatever calls this tab made before.
OwnToken ==
  \A i \in DOMAIN tab.eng.out :
    LET m == tab.eng.out[i]
    IN  m.type = "join" /\ m.token # None => m.token = m.cid /\ m.token.room = m.room

\* A seat the user left is neither offered for recovery nor asked for again.
LeftForGood ==
  /\ store.rec # None => store.rec.cid \notin tab.left
  /\ tab.ses.open => \A i \in DOMAIN tab.eng.out :
       tab.eng.out[i].type = "join" => tab.eng.out[i].token \notin tab.left

\* An open call is over, or joined again with its peers restarted after whatever
\* was lost, once failures stop.
Settles ==
  tab.ses.open ~>
    \/ ~tab.ses.open
    \/ tab.eng.acked /\ tab.eng.up /\ ~tab.ses.behind /\ tab.eng.cid = srv.seat

=============================================================================
