----------------------- MODULE SignalingEngineProofs -----------------------
(***************************************************************************)
(* What every callback, timer, message and API call of one tab keeps true, *)
(* however connections fail and answers cross.                             *)
(***************************************************************************)
EXTENDS SignalingEngine, SequenceTheorems, TLAPS

\* WS_FALLBACK_CONSECUTIVE_FAILURES is 3: a socket that was open and calls back twice
\* does not use up its failures while the reconnect timer runs.
FallbackIsPatient == 2 < FallbackAfter

PageFields == {"ses", "eng", "opened", "left"}

SesFields ==
  {"open", "room", "joining", "asked", "owed", "resync", "giveUp", "told", "roster", "behind"}

EngFields ==
  {"closed", "conn", "link", "late", "idx", "connecting", "once", "wsFails", "up", "missed",
   "retry", "out", "currentRoom", "buffered", "again", "acked", "request", "timers", "cid",
   "lastCid", "token", "tokenRoom", "epoch"}

SrvFields == {"seat", "next", "valid", "epoch", "ended", "overtaken"}

JoinMessages ==
  [type : {"join"}, room : Rooms, cid : Seats \cup {None}, token : Seats \cup {None}]
Farewells == [type : {"leave", "end_room"}, room : Rooms]

\* Joins that present the token of the seat they name, in its room, and of no seat
\* that was left.
Honest(left) ==
  {m \in JoinMessages :
     m.token # None => m.token = m.cid /\ m.token.room = m.room /\ m.token \notin left}

Timers ==
  {{}, {"hard"}, {"recovery", "hard"}, {"kickstart", "recovery", "hard"}}

-----------------------------------------------------------------------------
(* The engine. *)

EngOK(e) ==
  /\ DOMAIN e = EngFields
  /\ {e.cid, e.lastCid, e.token} \subseteq Seats \cup {None}
  /\ {e.currentRoom, e.tokenRoom} \subseteq Rooms \cup {None} /\ e.buffered = None
  /\ e.link \in {"none", "dialing", "open", "hung"}
  /\ e.conn \in Nat /\ e.late \subseteq 0..e.conn /\ e.idx \in 1..Len(Transports)
  /\ e.wsFails \in 0..FallbackAfter /\ e.missed \in 0..PongMisses - 1
  /\ e.timers \in Timers

\* The connection a transport of an earlier one may still call back about is closed;
\* such callbacks do not add up to a fallback while the reconnect timer runs.
Line(e) ==
  /\ \/ /\ e.up /\ IsOpen(e) /\ ~e.connecting /\ ~e.retry
        /\ Kind(e) \in e.once /\ (Kind(e) = "ws" => e.wsFails = 0)
     \/ ~e.up /\ e.link = "dialing" /\ e.connecting /\ ~e.retry /\ e.once = {}
     \/ /\ ~e.up /\ e.link = "none" /\ ~e.connecting /\ e.retry
        /\ \/ e.idx = Len(Transports)
           \/ Kind(e) \in e.once
              /\ (Kind(e) = "ws" => e.wsFails <= IF e.conn \in e.late THEN 1 ELSE 2)
  /\ e.conn \in e.late => e.link = "none"

\* The seat a join names.
Who(e) == IF e.cid # None THEN e.cid ELSE e.lastCid

\* The token is that of the seat a join would name, in the room it is kept for, and
\* what was asked presents such a token.
Holds(e, left) ==
  /\ e.token # None => /\ e.token.room = e.tokenRoom /\ e.token \notin left
                       /\ Who(e) \in {None, e.token}
  /\ e.out \in Seq(Honest(left))
  /\ e.timers # {} => e.request \in Honest(left)

-----------------------------------------------------------------------------
(* The page. *)

\* The room is joined when the connection comes, by the engine or by the session.
Aims(p) ==
  /\ p.ses.room \in Rooms
  /\ p.eng.up => p.eng.currentRoom # None
  /\ ~p.eng.up /\ p.eng.currentRoom # None => p.eng.again
  /\ p.eng.currentRoom = None => p.ses.joining /\ ~p.ses.asked /\ ~p.eng.acked

PageOK(p) ==
  /\ DOMAIN p = PageFields /\ DOMAIN p.ses = SesFields /\ EngOK(p.eng)
  /\ p.opened \in Nat /\ p.left \subseteq Seats

\* A page with a call.
Busy(p) ==
  /\ PageOK(p) /\ p.ses.open /\ ~p.eng.closed /\ p.opened # 0
  /\ p.ses.told = p.eng.up
  /\ Line(p.eng) /\ Holds(p.eng, p.left) /\ Aims(p)

\* A page without: nothing runs, and only what the socket had to send is sent.
Rests(p) ==
  /\ PageOK(p) /\ p.ses = BlankSession
  /\ p.eng.link = "none" /\ p.eng.connecting = FALSE /\ p.eng.retry = FALSE
  /\ p.eng.timers = {} /\ p.eng.cid = None
  /\ p.eng.out \in Seq(Honest({}) \cup Farewells)
  /\ p.eng.late # {} => p.eng.closed
  /\ p.opened = 0 => p.eng.late = {}

-----------------------------------------------------------------------------
(* The storage, the server and its messages. *)

StoreOK(st, left) ==
  /\ DOMAIN st = {"cid", "token", "tokenRoom", "rec"}
  /\ {st.cid, st.token} \subseteq Seats \cup {None} /\ st.tokenRoom \in Rooms \cup {None}
  /\ st.rec = IF st.token = None THEN None
              ELSE [room |-> st.tokenRoom, cid |-> st.cid, token |-> st.token]
  /\ st.token # None => /\ st.token = st.cid /\ st.token.room = st.tokenRoom
                        /\ st.token \notin left

SrvOK(v, left) ==
  /\ DOMAIN v = SrvFields
  /\ v.seat \in Seats \cup {None} /\ v.valid \subseteq Seats /\ v.ended \subseteq Rooms
  /\ v.next \in 1..MaxSeats + 1 /\ v.epoch \in Nat
  /\ \A x \in v.valid \cup left : x.n < v.next

\* Answers to a join name a seat in its room that was handed out and, while the call
\* is open, has not been left.
AnswersOK(d, next, left) ==
  \A i \in DOMAIN d : d[i].type = "joined" =>
    d[i].seat.room = d[i].room /\ d[i].seat.n < next /\ d[i].seat \notin left

\* What the client will be once it has read all of d: with the last answer that says
\* who it is, the server's seat; with the last snapshot, its epoch.
Says(m) == m.type \in {"joined", "room_state"}
SeatComes(d, v) ==
  \A i \in DOMAIN d :
    d[i].type = "joined" /\ (\A j \in DOMAIN d : i < j => d[j].type = "room_state")
      => d[i].seat = v.seat
EpochComes(d, v) ==
  v.overtaken \/
    \A i \in DOMAIN d :
      Says(d[i]) /\ (\A j \in DOMAIN d : i < j => ~Says(d[j])) => d[i].epoch = v.epoch

\* With nothing to come that says otherwise, what it is.
SeatIsKnown(d, v, e) ==
  e.acked /\ (\A i \in DOMAIN d : d[i].type = "room_state") => e.cid = v.seat
EpochIsKnown(d, v, p) ==
  p.eng.acked /\ (\A i \in DOMAIN d : ~Says(d[i])) =>
    v.overtaken \/ p.ses.roster = v.epoch

Follows(p, d, v) ==
  /\ p.eng.link = "open" =>
       SeatComes(d, v) /\ EpochComes(d, v) /\ SeatIsKnown(d, v, p.eng) /\ EpochIsKnown(d, v, p)
  /\ ~p.eng.up => d = <<>> /\ v.seat = None

-----------------------------------------------------------------------------
\* The inductive invariant.
Inv ==
  /\ \/ Busy(tab) /\ Follows(tab, down, srv) /\ AnswersOK(down, srv.next, tab.left)
     \/ Rests(tab)
  /\ StoreOK(store, tab.left)
  /\ SrvOK(srv, tab.left)
  /\ tab.eng.cid # None => tab.eng.cid.n < srv.next
  /\ down \in Seq(Answers)
  /\ faults \in 0..MaxFaults
  /\ tab.opened = 0 => srv.seat = None /\ srv.valid = {}

-----------------------------------------------------------------------------
(* Operations of the engine. *)

\* f differs from e in the fields fs only.
Differs(e, f, fs) == \A x \in EngFields \ fs : f[x] = e[x]

\* The fields that say nothing about the connection.
Aside ==
  {"out", "currentRoom", "buffered", "again", "acked", "request", "timers", "cid", "lastCid",
   "token", "tokenRoom", "epoch", "missed"}

\* A sequence over a set is one over a larger set.
LEMMA SeqGrows ==
  ASSUME NEW S, NEW T, S \subseteq T, NEW q \in Seq(S)
  PROVE  q \in Seq(T)
OBVIOUS

\* What a sequence over a set is made of.
LEMMA Parts ==
  ASSUME NEW S, NEW q \in Seq(S), q # <<>>
  PROVE  Tail(q) \in Seq(S) /\ Head(q) \in S
OBVIOUS

\* An honest join is honest whatever was left, and a message.
LEMMA HonestJoins ==
  ASSUME NEW left
  PROVE  Honest(left) \subseteq Honest({}) /\ Honest(left) \subseteq Messages
BY DEF Honest, JoinMessages, Messages

\* None is no seat and no room.
LEMMA NoneApart == None \notin Seats /\ None \notin Rooms
BY EngineAssumption DEF Seats

\* sendMessage writes nothing but what the transport is to send.
LEMMA Sends ==
  ASSUME NEW e, DOMAIN e = EngFields, NEW S, e.out \in Seq(S), NEW m, IsOpen(e) => m \in S
  PROVE  /\ DOMAIN SendMessage(e, m) = EngFields
         /\ Differs(e, SendMessage(e, m), {"out"})
         /\ SendMessage(e, m).out \in Seq(S)
<1>1. CASE ~IsOpen(e)
  BY <1>1 DEF SendMessage, Differs
<1>2. CASE IsOpen(e)
  <2> DEFINE f == [e EXCEPT !.out = Append(@, m)]
             o == Append(e.out, m)
  <2>1. o \in Seq(S)
    BY <1>2
  <2>2. f = [e EXCEPT !.out = o]
    OBVIOUS
  <2> HIDE DEF o
  <2>3. DOMAIN f = EngFields /\ f.out = o /\ Differs(e, f, {"out"})
    BY <2>2 DEF EngFields, Differs
  <2> HIDE DEF f
  <2>4. SendMessage(e, m) = f
    BY <1>2 DEF SendMessage, f
  <2> QED
    BY <2>1, <2>3, <2>4
<1> QED
  BY <1>1, <1>2

\* A join presents the token of the seat it names (TokenFor).
LEMMA RequestIsHonest ==
  ASSUME NEW e, EngOK(e), NEW room \in Rooms, NEW left \in SUBSET Seats, Holds(e, left)
  PROVE  JoinRequest(e, room) \in Honest(left)
<1> DEFINE seat == IF e.cid # None THEN e.cid ELSE e.lastCid
           t == IF seat # None THEN TokenFor(e, room) ELSE None
<1>1. seat \in Seats \cup {None} /\ t \in Seats \cup {None}
  BY DEF EngOK, TokenFor
<1>2. t # None => t = seat /\ t.room = room /\ t \notin left
  BY DEF Holds, Who, TokenFor
<1>3. JoinRequest(e, room) = [type |-> "join", room |-> room, cid |-> seat, token |-> t]
  BY DEF JoinRequest
<1> HIDE DEF seat, t
<1> QED
  BY <1>1, <1>2, <1>3 DEF Honest, JoinMessages

\* The connection is what it was when only other fields were written.
LEMMA LineKept ==
  ASSUME NEW e, NEW f, Differs(e, f, Aside), Line(e)
  PROVE  Line(f)
<1>1. /\ f.up = e.up /\ f.link = e.link /\ f.connecting = e.connecting /\ f.retry = e.retry
      /\ f.once = e.once /\ f.wsFails = e.wsFails /\ f.idx = e.idx
      /\ f.conn = e.conn /\ f.late = e.late
  BY DEF Differs, Aside, EngFields
<1> QED
  BY <1>1 DEF Line, Kind, IsOpen

JoinWrites == {"timers", "again", "currentRoom", "acked", "request", "out"}

\* joinRoom on an open transport.
LEMMA JoinRoomOK ==
  ASSUME NEW e, EngOK(e), IsOpen(e), NEW room \in Rooms, NEW left \in SUBSET Seats,
         Holds(e, left)
  PROVE  /\ EngOK(JoinRoom(e, room)) /\ Holds(JoinRoom(e, room), left)
         /\ Differs(e, JoinRoom(e, room), JoinWrites)
         /\ JoinRoom(e, room).currentRoom = room /\ ~JoinRoom(e, room).acked
<1> DEFINE m == JoinRequest(e, room)
           ts == {"kickstart", "recovery", "hard"}
           o == Append(e.out, m)
           f == JoinRoom(e, room)
<1>1. m \in Honest(left) /\ e.out \in Seq(Honest(left))
  BY RequestIsHonest DEF Holds
<1>2. o \in Seq(Honest(left))
  BY <1>1
<1>3. DOMAIN e = EngFields
  BY DEF EngOK
<1>4. f = [e EXCEPT !.timers = ts, !.again = FALSE, !.currentRoom = room, !.acked = FALSE,
                    !.out = o, !.request = m]
  <2> DEFINE j == [e EXCEPT !.timers = {}, !.again = FALSE, !.currentRoom = room,
                            !.acked = FALSE]
  <2>1. IsOpen(j) /\ j.out = e.out /\ DOMAIN j = EngFields
    BY <1>3 DEF IsOpen, EngFields
  <2>2. f = [[j EXCEPT !.out = Append(@, m)] EXCEPT !.request = m, !.timers = ts]
    BY <2>1 DEF JoinRoom, SendMessage
  <2>3. f = [j EXCEPT !.out = o, !.request = m, !.timers = ts]
    BY <2>1, <2>2
  <2> HIDE DEF o, m, ts
  <2> QED
    BY <2>3, <1>3
<1> HIDE DEF o, m, ts
<1>5. DOMAIN f = EngFields /\ Differs(e, f, JoinWrites)
  BY <1>3, <1>4 DEF Differs, JoinWrites, EngFields
<1>6. /\ f.timers = ts /\ f.currentRoom = room /\ f.acked = FALSE /\ f.out = o
      /\ f.request = m
  BY <1>3, <1>4 DEF EngFields
<1> HIDE DEF f
<1>7. /\ f.cid = e.cid /\ f.lastCid = e.lastCid /\ f.token = e.token /\ f.buffered = e.buffered
      /\ f.tokenRoom = e.tokenRoom /\ f.link = e.link /\ f.conn = e.conn /\ f.late = e.late
      /\ f.idx = e.idx /\ f.wsFails = e.wsFails /\ f.missed = e.missed
  BY <1>5 DEF Differs, JoinWrites, EngFields
<1>8. ts \in Timers
  BY DEF ts, Timers
<1>9. EngOK(f)
  BY <1>5, <1>6, <1>7, <1>8 DEF EngOK
<1>10. Holds(f, left)
  BY <1>1, <1>2, <1>6, <1>7 DEF Holds, Who
<1> QED
  BY <1>5, <1>6, <1>9, <1>10 DEF f

-----------------------------------------------------------------------------
(* Connections that open and close, with the session that hears of it. *)

\* Of the page q, what a step that opens or closes a connection leaves as p has it.
Same(p, q) ==
  /\ q.left = p.left /\ q.opened = p.opened /\ q.eng.cid = p.eng.cid

\* handleConnected: the session joins its room if it has not, and is told.
LEMMA SessionHears ==
  ASSUME NEW p, PageOK(p), p.ses.open, ~p.eng.closed, p.opened # 0, Line(p.eng),
         p.eng.up, p.eng.link = "open", Holds(p.eng, p.left), p.ses.room \in Rooms,
         p.eng.currentRoom = None => p.ses.joining /\ ~p.ses.asked, ~p.eng.acked
  PROVE  /\ Busy(SessionConnected(p)) /\ Same(p, SessionConnected(p))
         /\ SessionConnected(p).eng.up /\ ~SessionConnected(p).eng.acked
<1> DEFINE q == SessionConnected(p)
           f == JoinRoom(p.eng, p.ses.room)
<1>1. DOMAIN p = PageFields /\ DOMAIN p.ses = SesFields /\ EngOK(p.eng)
      /\ p.opened \in Nat /\ p.left \in SUBSET Seats
  BY DEF PageOK
<1>2. CASE p.ses.joining /\ ~p.ses.asked
  <2>1. q = [[p EXCEPT !.ses.told = TRUE] EXCEPT !.ses.asked = TRUE, !.eng = f]
    BY <1>1, <1>2 DEF SessionConnected, PageFields
  <2>2. /\ EngOK(f) /\ Holds(f, p.left) /\ Differs(p.eng, f, JoinWrites)
        /\ f.currentRoom = p.ses.room /\ ~f.acked
    BY <1>1, JoinRoomOK DEF IsOpen
  <2> HIDE DEF f
  <2>3. Line(f) /\ f.up = p.eng.up /\ f.closed = p.eng.closed /\ f.cid = p.eng.cid
    <3>1. Differs(p.eng, f, Aside)
      BY <2>2 DEF Differs, JoinWrites, Aside
    <3>2. f.up = p.eng.up /\ f.closed = p.eng.closed /\ f.cid = p.eng.cid
      BY <2>2 DEF Differs, JoinWrites, EngFields
    <3> QED
      BY <3>1, <3>2, LineKept
  <2>4. /\ q.eng = f /\ q.left = p.left /\ q.opened = p.opened /\ DOMAIN q = PageFields
        /\ DOMAIN q.ses = SesFields /\ q.ses.open = p.ses.open /\ q.ses.room = p.ses.room
        /\ q.ses.told = TRUE
    <3> DEFINE t == [p.ses EXCEPT !.told = TRUE, !.asked = TRUE]
    <3>1. q = [p EXCEPT !.ses = t, !.eng = f]
      BY <1>1, <2>1 DEF PageFields
    <3>2. DOMAIN t = SesFields /\ t.open = p.ses.open /\ t.room = p.ses.room /\ t.told = TRUE
      BY <1>1 DEF SesFields
    <3> HIDE DEF t
    <3> QED
      BY <1>1, <3>1, <3>2 DEF PageFields
  <2> HIDE DEF q
  <2>5. PageOK(q)
    BY <1>1, <2>2, <2>4 DEF PageOK
  <2>6. Aims(q)
    BY <2>2, <2>3, <2>4, NoneApart DEF Aims
  <2>7. q.ses.told = q.eng.up
    BY <2>3, <2>4 DEF Line
  <2> QED
    BY <2>2, <2>3, <2>4, <2>5, <2>6, <2>7 DEF Busy, Same, q
<1>3. CASE ~(p.ses.joining /\ ~p.ses.asked)
  <2>1. /\ q.eng = p.eng /\ q.left = p.left /\ q.opened = p.opened /\ DOMAIN q = PageFields
        /\ DOMAIN q.ses = SesFields /\ q.ses.open = p.ses.open /\ q.ses.room = p.ses.room
        /\ q.ses.told = TRUE
    BY <1>1, <1>3 DEF SessionConnected, PageFields, SesFields
  <2> HIDE DEF q
  <2>2. PageOK(q)
    BY <1>1, <2>1 DEF PageOK
  <2>3. Aims(q)
    BY <1>3, <2>1 DEF Aims
  <2> QED
    BY <2>1, <2>2, <2>3 DEF Busy, Same, q
<1> QED
  BY <1>2, <1>3

\* onOpen: whoever had a room joins it again, and the session is told.
LEMMA OnOpenOK ==
  ASSUME NEW p, Busy(p), p.eng.link = "dialing"
  PROVE  /\ Busy(OnOpen(p, p.eng.conn)) /\ Same(p, OnOpen(p, p.eng.conn))
         /\ OnOpen(p, p.eng.conn).eng.up /\ ~OnOpen(p, p.eng.conn).eng.acked
<1> DEFINE w == IF Kind(p.eng) = "ws" THEN 0 ELSE p.eng.wsFails
           o == p.eng.once \cup {Kind(p.eng)}
           e == [p.eng EXCEPT !.connecting = FALSE, !.up = TRUE, !.missed = 0,
                   !.link = "open", !.once = o, !.wsFails = w]
           room == RoomToJoin(e)
           f == IF room = None THEN e ELSE JoinRoom([e EXCEPT !.buffered = None], room)
           x == [p EXCEPT !.eng = f]
<1>1. /\ PageOK(p) /\ EngOK(p.eng) /\ Line(p.eng) /\ Holds(p.eng, p.left) /\ Aims(p)
      /\ ~p.eng.up /\ ~p.ses.told /\ p.ses.open /\ ~p.eng.closed /\ p.opened # 0
      /\ p.eng.connecting /\ ~p.eng.retry
  BY DEF Busy, PageOK, Line, IsOpen
<1>2. OnOpen(p, p.eng.conn) = Notify(x)
  BY <1>1 DEF OnOpen, IsCurrent
<1>3. w \in 0..FallbackAfter /\ (Kind(p.eng) = "ws" => w = 0)
  BY <1>1, EngineAssumption DEF EngOK
<1> HIDE DEF w, o
<1>4. DOMAIN p.eng = EngFields /\ e.buffered = None
      /\ p.eng.buffered = None /\ p.eng.currentRoom \in Rooms \cup {None}
  BY <1>1 DEF EngOK, EngFields
<1>5. /\ DOMAIN e = EngFields
      /\ Differs(p.eng, e, {"connecting", "up", "missed", "link", "once", "wsFails"})
      /\ e.connecting = FALSE /\ e.up = TRUE /\ e.missed = 0 /\ e.link = "open"
      /\ e.once = o /\ e.wsFails = w
  BY <1>4 DEF Differs, EngFields
<1>6. [e EXCEPT !.buffered = None] = e
  BY <1>4, <1>5
<1> HIDE DEF e
<1>7. /\ e.cid = p.eng.cid /\ e.lastCid = p.eng.lastCid /\ e.token = p.eng.token
      /\ e.tokenRoom = p.eng.tokenRoom /\ e.buffered = p.eng.buffered
      /\ e.currentRoom = p.eng.currentRoom /\ e.conn = p.eng.conn /\ e.late = p.eng.late
      /\ e.idx = p.eng.idx /\ e.retry = p.eng.retry /\ e.closed = p.eng.closed
      /\ e.again = p.eng.again /\ e.acked = p.eng.acked
      /\ e.timers = p.eng.timers /\ e.out = p.eng.out /\ e.request = p.eng.request
  BY <1>5 DEF Differs, EngFields
<1>8. EngOK(e)
  BY <1>1, <1>3, <1>5, <1>7, EngineAssumption DEF EngOK
<1>9. Holds(e, p.left)
  BY <1>1, <1>7 DEF Holds, Who
<1>10. Line(e)
  BY <1>1, <1>3, <1>5, <1>7 DEF Line, IsOpen, Kind, o
<1>11. room = e.currentRoom
  BY <1>1, <1>4, <1>7 DEF RoomToJoin, Aims
<1>12. /\ EngOK(f) /\ Holds(f, p.left) /\ Line(f) /\ f.up /\ f.link = "open" /\ ~f.acked
       /\ f.currentRoom = e.currentRoom /\ f.closed = e.closed /\ f.cid = e.cid
  <2>1. CASE room = None
    BY <1>1, <1>5, <1>7, <1>8, <1>9, <1>10, <1>11, <2>1 DEF Aims
  <2>2. CASE room # None
    <3>1. f = JoinRoom(e, room) /\ room \in Rooms /\ p.left \in SUBSET Seats
      BY <1>1, <1>4, <1>6, <1>7, <1>11, <2>2 DEF PageOK
    <3>2. /\ EngOK(f) /\ Holds(f, p.left) /\ Differs(e, f, JoinWrites)
          /\ f.currentRoom = room /\ ~f.acked
      BY <1>5, <1>8, <1>9, <3>1, JoinRoomOK DEF IsOpen
    <3> HIDE DEF f
    <3>3. Line(f) /\ f.up = e.up /\ f.link = e.link /\ f.closed = e.closed /\ f.cid = e.cid
      BY <1>10, <3>2, LineKept DEF Differs, JoinWrites, Aside, EngFields
    <3> QED
      BY <1>5, <1>11, <3>2, <3>3
  <2> QED
    BY <2>1, <2>2
<1> HIDE DEF f
<1>13. /\ DOMAIN x = PageFields /\ x.eng = f /\ x.ses = p.ses /\ x.left = p.left
       /\ x.opened = p.opened
  BY <1>1 DEF PageOK, PageFields
<1> HIDE DEF x
<1>14. PageOK(x)
  BY <1>1, <1>12, <1>13 DEF PageOK
<1>15. Notify(x) = SessionConnected(x)
  BY <1>1, <1>12, <1>13 DEF Notify
<1>16. x.eng.currentRoom = None => x.ses.joining /\ ~x.ses.asked
  BY <1>1, <1>7, <1>12, <1>13 DEF Aims
<1>17. /\ Busy(SessionConnected(x)) /\ Same(x, SessionConnected(x))
       /\ SessionConnected(x).eng.up /\ ~SessionConnected(x).eng.acked
  BY <1>1, <1>7, <1>12, <1>13, <1>14, <1>16, SessionHears DEF Aims
<1> QED
  BY <1>2, <1>7, <1>12, <1>13, <1>15, <1>17 DEF Same

\* Losing the connection again would not lead to a second attempt beside the timer's.
Closing(e, reason) ==
  \/ e.idx = Len(Transports)
  \/ e.once = {} /\ ~e.retry
  \/ /\ reason # "timeout" /\ Kind(e) \in e.once
     /\ Kind(e) = "ws" => e.wsFails <= IF e.conn \in e.late THEN 0 ELSE 1

\* What is left of the engine's connection when it is lost: an attempt with the next
\* transport, or the reconnect timer.
LEMMA Recovers ==
  ASSUME FallbackIsPatient, NEW e, EngOK(e), ~e.closed, ~e.up, e.link = "none", ~e.connecting,
         NEW reason,
         \/ e.idx = Len(Transports)
         \/ e.once = {} /\ ~e.retry
         \/ /\ reason # "timeout" /\ Kind(e) \in e.once
            /\ Kind(e) = "ws" => e.wsFails <= IF e.conn \in e.late THEN 1 ELSE 2,
         NEW g, g = IF ShouldFallback(e, reason) THEN DoConnect(e, e.idx + 1)
                    ELSE ScheduleReconnect(e)
  PROVE  /\ DOMAIN g = EngFields /\ Line(g) /\ ~g.up
         /\ Differs(e, g, {"idx", "connecting", "conn", "link", "out", "retry"})
         /\ g.out \in {e.out, <<>>} /\ g.conn \in {e.conn, e.conn + 1}
         /\ g.idx \in 1..Len(Transports) /\ g.link \in {"none", "dialing"}
<1>1. DOMAIN e = EngFields /\ e.idx \in 1..Len(Transports) /\ Len(Transports) \in Nat
      /\ e.conn \in Nat /\ e.late \subseteq 0..e.conn /\ e.wsFails \in 0..FallbackAfter
      /\ FallbackAfter \in Nat
  BY EngineAssumption DEF EngOK
<1>2. CASE ShouldFallback(e, reason)
  <2>1. e.idx < Len(Transports) /\ e.once = {} /\ ~e.retry
    BY <1>1, <1>2 DEF ShouldFallback, FallbackIsPatient
  <2>2. g = [e EXCEPT !.idx = e.idx + 1, !.connecting = TRUE, !.conn = e.conn + 1,
                      !.link = "dialing", !.out = <<>>]
    BY <1>1, <1>2, <2>1 DEF DoConnect
  <2>3. DOMAIN g = EngFields /\ Differs(e, g, {"idx", "connecting", "conn", "link", "out"})
    BY <1>1, <2>2 DEF Differs, EngFields
  <2>4. g.idx = e.idx + 1 /\ g.connecting = TRUE /\ g.conn = e.conn + 1 /\ g.link = "dialing"
        /\ g.out = <<>>
    BY <1>1, <2>2 DEF EngFields
  <2>5. g.up = e.up /\ g.retry = e.retry /\ g.once = e.once /\ g.late = e.late
    BY <2>3 DEF Differs, EngFields
  <2>6. Differs(e, g, {"idx", "connecting", "conn", "link", "out", "retry"})
    BY <2>3 DEF Differs
  <2> QED
    BY <1>1, <2>1, <2>3, <2>4, <2>5, <2>6 DEF Line
<1>3. CASE ~ShouldFallback(e, reason)
  <2>1. g = [e EXCEPT !.retry = TRUE]
    BY <1>3 DEF ScheduleReconnect
  <2>2. DOMAIN g = EngFields /\ Differs(e, g, {"retry"}) /\ g.retry = TRUE
    BY <1>1, <2>1 DEF Differs, EngFields
  <2>3. /\ g.up = e.up /\ g.link = e.link /\ g.connecting = e.connecting /\ g.idx = e.idx
        /\ g.once = e.once /\ g.late = e.late /\ g.conn = e.conn /\ g.wsFails = e.wsFails
        /\ g.out = e.out
    BY <2>2 DEF Differs, EngFields
  <2>4. e.idx = Len(Transports) \/ e.once # {}
    BY <1>1, <1>3 DEF ShouldFallback
  <2>5. Line(g)
    BY <1>1, <2>2, <2>3, <2>4 DEF Line, Kind
  <2>6. Differs(e, g, {"idx", "connecting", "conn", "link", "out", "retry"})
    BY <2>2 DEF Differs
  <2> QED
    BY <1>1, <2>2, <2>3, <2>5, <2>6
<1> QED
  BY <1>2, <1>3

\* onClose of the current transport: the session is told once, and the room will be
\* joined again.
LEMMA OnCloseOK ==
  ASSUME FallbackIsPatient, NEW p, PageOK(p), p.ses.open, ~p.eng.closed, p.opened # 0,
         p.ses.told = p.eng.up, Holds(p.eng, p.left), Aims(p), NEW reason,
         Closing(p.eng, reason)
  PROVE  /\ Busy(OnClose(p, p.eng.conn, reason)) /\ Same(p, OnClose(p, p.eng.conn, reason))
         /\ ~OnClose(p, p.eng.conn, reason).eng.up
<1> DEFINE w == IF Kind(p.eng) = "ws" /\ p.eng.wsFails < FallbackAfter
                THEN p.eng.wsFails + 1 ELSE p.eng.wsFails
           l == IF p.eng.cid # None THEN p.eng.cid ELSE p.eng.lastCid
           a == p.eng.currentRoom # None
           e == [p.eng EXCEPT !.connecting = FALSE]
           lost == [p.eng EXCEPT !.connecting = FALSE, !.up = FALSE, !.link = "none",
                      !.out = <<>>, !.again = a, !.wsFails = w, !.lastCid = l]
           g == IF ShouldFallback(lost, reason) THEN DoConnect(lost, p.eng.idx + 1)
                ELSE ScheduleReconnect(lost)
           x == [p EXCEPT !.eng = g]
           q == OnClose(p, p.eng.conn, reason)
<1>1. DOMAIN p.eng = EngFields /\ DOMAIN p = PageFields /\ EngOK(p.eng)
      /\ DOMAIN p.ses = SesFields
  BY DEF PageOK, EngOK
<1>2. e.conn = p.eng.conn /\ e.idx = p.eng.idx /\ e.closed = p.eng.closed
      /\ e.currentRoom = p.eng.currentRoom /\ e.cid = p.eng.cid /\ e.wsFails = p.eng.wsFails
      /\ e.lastCid = p.eng.lastCid /\ Kind(e) = Kind(p.eng) /\ DOMAIN e = EngFields
  BY <1>1 DEF Kind, EngFields
<1>3. lost = [e EXCEPT !.up = FALSE, !.link = "none", !.out = <<>>,
                 !.again = (e.currentRoom # None),
                 !.wsFails = IF Kind(e) = "ws" /\ @ < FallbackAfter THEN @ + 1 ELSE @,
                 !.lastCid = IF e.cid # None THEN e.cid ELSE @]
  BY <1>1, <1>2 DEF EngFields
<1>4. q = Notify(x)
  BY <1>2, <1>3 DEF OnClose, IsCurrent
<1>5. w \in 0..FallbackAfter /\ w <= p.eng.wsFails + 1 /\ p.eng.wsFails \in Nat
  <2>1. p.eng.wsFails \in 0..FallbackAfter /\ FallbackAfter \in Nat
    BY <1>1, EngineAssumption DEF EngOK
  <2> QED
    BY <2>1
<1>6. l \in Seats \cup {None}
  BY <1>1 DEF EngOK
<1> HIDE DEF w, l, a, e
<1>7. /\ DOMAIN lost = EngFields
      /\ Differs(p.eng, lost, {"connecting", "up", "link", "out", "again", "wsFails", "lastCid"})
      /\ lost.connecting = FALSE /\ lost.up = FALSE /\ lost.link = "none" /\ lost.out = <<>>
      /\ lost.again = a /\ lost.wsFails = w /\ lost.lastCid = l
  BY <1>1 DEF Differs, EngFields
<1> HIDE DEF lost
<1>8. /\ lost.cid = p.eng.cid /\ lost.token = p.eng.token /\ lost.tokenRoom = p.eng.tokenRoom
      /\ lost.buffered = p.eng.buffered /\ lost.currentRoom = p.eng.currentRoom
      /\ lost.conn = p.eng.conn /\ lost.late = p.eng.late /\ lost.idx = p.eng.idx
      /\ lost.retry = p.eng.retry /\ lost.closed = p.eng.closed /\ lost.acked = p.eng.acked
      /\ lost.timers = p.eng.timers /\ lost.request = p.eng.request
      /\ lost.once = p.eng.once /\ lost.missed = p.eng.missed
  BY <1>7 DEF Differs, EngFields
<1>9. EngOK(lost)
  BY <1>1, <1>5, <1>6, <1>7, <1>8 DEF EngOK
<1>10. \/ lost.idx = Len(Transports)
       \/ lost.once = {} /\ ~lost.retry
       \/ /\ reason # "timeout" /\ Kind(lost) \in lost.once
          /\ Kind(lost) = "ws" => lost.wsFails <= IF lost.conn \in lost.late THEN 1 ELSE 2
  BY <1>5, <1>7, <1>8 DEF Closing, Kind
<1>11. g = IF ShouldFallback(lost, reason) THEN DoConnect(lost, lost.idx + 1)
           ELSE ScheduleReconnect(lost)
  BY <1>8
<1> HIDE DEF g
<1>12. /\ DOMAIN g = EngFields /\ Line(g) /\ ~g.up
       /\ Differs(lost, g, {"idx", "connecting", "conn", "link", "out", "retry"})
       /\ g.out \in {lost.out, <<>>} /\ g.conn \in {lost.conn, lost.conn + 1}
       /\ g.idx \in 1..Len(Transports) /\ g.link \in {"none", "dialing"}
  BY <1>7, <1>8, <1>9, <1>10, <1>11, Recovers
<1>13. /\ g.cid = p.eng.cid /\ g.token = p.eng.token /\ g.tokenRoom = p.eng.tokenRoom
       /\ g.buffered = p.eng.buffered /\ g.currentRoom = p.eng.currentRoom
       /\ g.late = p.eng.late /\ g.closed = p.eng.closed /\ g.acked = p.eng.acked
       /\ g.timers = p.eng.timers /\ g.request = p.eng.request /\ g.missed = p.eng.missed
       /\ g.lastCid = l /\ g.again = a /\ g.wsFails = w /\ g.out = <<>>
  BY <1>7, <1>8, <1>12 DEF Differs, EngFields
<1>14. EngOK(g)
  <2>1. /\ {p.eng.cid, p.eng.token} \subseteq Seats \cup {None} /\ p.eng.buffered = None
        /\ {p.eng.currentRoom, p.eng.tokenRoom} \subseteq Rooms \cup {None}
        /\ p.eng.conn \in Nat /\ p.eng.late \subseteq 0..p.eng.conn
        /\ p.eng.missed \in 0..PongMisses - 1 /\ p.eng.timers \in Timers
    BY <1>1 DEF EngOK
  <2>2. g.conn \in Nat /\ g.late \subseteq 0..g.conn
    BY <2>1, <1>8, <1>12, <1>13
  <2> QED
    BY <2>1, <2>2, <1>5, <1>6, <1>12, <1>13 DEF EngOK
<1>15. Holds(g, p.left)
  BY <1>13 DEF Holds, Who, l
<1>16. /\ DOMAIN x = PageFields /\ x.eng = g /\ x.ses = p.ses /\ x.left = p.left
       /\ x.opened = p.opened
  BY <1>1 DEF PageFields
<1> HIDE DEF x
<1>17. /\ DOMAIN q = PageFields /\ q.eng = g /\ q.left = p.left /\ q.opened = p.opened
       /\ DOMAIN q.ses = SesFields /\ q.ses.open /\ q.ses.room = p.ses.room
       /\ q.ses.told = q.eng.up /\ q.ses.joining = p.ses.joining
       /\ (~p.ses.asked => ~q.ses.asked)
  <2>1. CASE x.eng.up = x.ses.told
    BY <1>1, <1>4, <1>16, <2>1 DEF Notify
  <2>2. CASE x.eng.up # x.ses.told
    <3>1. q = SessionDisconnected(x)
      BY <1>4, <1>12, <1>16, <2>2 DEF Notify
    <3> DEFINE t == [x.ses EXCEPT !.told = FALSE, !.asked = FALSE, !.owed = (x.ses.roster # 0),
                                  !.behind = @ \/ x.ses.roster # 0]
    <3>2. q = [x EXCEPT !.ses = t]
      BY <1>1, <1>16, <3>1 DEF SessionDisconnected, PageFields
    <3>3. /\ DOMAIN t = SesFields /\ t.open = p.ses.open /\ t.room = p.ses.room
          /\ t.told = FALSE /\ t.joining = p.ses.joining /\ t.asked = FALSE
      BY <1>1, <1>16 DEF SesFields
    <3>4. g.up = FALSE
      BY <1>7, <1>12 DEF Differs, EngFields
    <3> HIDE DEF t
    <3> QED
      BY <1>1, <1>16, <3>2, <3>3, <3>4 DEF PageFields
  <2> QED
    BY <2>1, <2>2
<1> HIDE DEF q
<1>18. PageOK(q)
  BY <1>14, <1>17 DEF PageOK
<1>19. Aims(q)
  BY <1>12, <1>13, <1>17 DEF Aims, a
<1> QED
  BY <1>12, <1>13, <1>15, <1>17, <1>18, <1>19 DEF Busy, Same, q

-----------------------------------------------------------------------------
(* Pages with and without a call. *)

\* Only a page with a call has a connection, a timer or something to join.
LEMMA ActiveIsBusy ==
  Inv => /\ tab.ses.open \/ tab.eng.link # "none" \/ tab.eng.retry \/ tab.eng.timers # {}
            \/ tab.ses.giveUp \/ tab.ses.resync
              => Busy(tab) /\ Follows(tab, down, srv) /\ AnswersOK(down, srv.next, tab.left)
         /\ ~tab.ses.open => Rests(tab)
         /\ PageOK(tab)
<1> SUFFICES ASSUME Inv
             PROVE  /\ tab.ses.open \/ tab.eng.link # "none" \/ tab.eng.retry
                       \/ tab.eng.timers # {} \/ tab.ses.giveUp \/ tab.ses.resync
                         => /\ Busy(tab) /\ Follows(tab, down, srv)
                            /\ AnswersOK(down, srv.next, tab.left)
                    /\ ~tab.ses.open => Rests(tab)
                    /\ PageOK(tab)
  OBVIOUS
<1>1. CASE Busy(tab) /\ Follows(tab, down, srv) /\ AnswersOK(down, srv.next, tab.left)
  BY <1>1 DEF Busy
<1>2. CASE Rests(tab)
  <2>1. ~tab.ses.open /\ ~tab.ses.giveUp /\ ~tab.ses.resync
    BY <1>2 DEF Rests, BlankSession
  <2>2. tab.eng.link = "none" /\ ~tab.eng.retry /\ tab.eng.timers = {}
    BY <1>2 DEF Rests
  <2>3. PageOK(tab)
    BY <1>2 DEF Rests
  <2> QED
    BY <1>2, <2>1, <2>2, <2>3
<1> QED
  BY <1>1, <1>2 DEF Inv

\* Fields of the engine that the session's joins do not look at.
LEMMA Unjoined ==
  ASSUME NEW p, Busy(p), NEW f, DOMAIN f = EngFields,
         Differs(p.eng, f, {"late", "missed", "link", "out"}),
         f.late \subseteq 0..p.eng.conn, f.missed \in 0..PongMisses - 1,
         f.link \in {"none", "dialing", "open", "hung"}, f.out \in Seq(Honest(p.left)),
         NEW q, q = [p EXCEPT !.eng = f]
  PROVE  /\ PageOK(q) /\ Holds(q.eng, q.left) /\ Aims(q) /\ q.ses.open /\ ~q.eng.closed
         /\ q.opened # 0 /\ q.ses.told = q.eng.up /\ q.eng = f /\ q.ses = p.ses
         /\ q.left = p.left /\ q.opened = p.opened
         /\ Line(f) => Busy(q)
<1>1. /\ PageOK(p) /\ EngOK(p.eng) /\ Holds(p.eng, p.left) /\ Aims(p) /\ p.ses.open
      /\ ~p.eng.closed /\ p.opened # 0 /\ p.ses.told = p.eng.up /\ DOMAIN p = PageFields
  BY DEF Busy, PageOK
<1>2. q.eng = f /\ q.ses = p.ses /\ q.left = p.left /\ q.opened = p.opened
      /\ DOMAIN q = PageFields
  BY <1>1 DEF PageFields
<1>3. /\ f.cid = p.eng.cid /\ f.lastCid = p.eng.lastCid /\ f.token = p.eng.token
      /\ f.tokenRoom = p.eng.tokenRoom /\ f.buffered = p.eng.buffered
      /\ f.currentRoom = p.eng.currentRoom /\ f.conn = p.eng.conn /\ f.idx = p.eng.idx
      /\ f.closed = p.eng.closed /\ f.again = p.eng.again /\ f.acked = p.eng.acked
      /\ f.timers = p.eng.timers /\ f.request = p.eng.request /\ f.up = p.eng.up
      /\ f.wsFails = p.eng.wsFails
  BY DEF Differs, EngFields
<1>4. EngOK(f)
  BY <1>1, <1>3 DEF EngOK
<1>5. Holds(f, p.left)
  BY <1>1, <1>3 DEF Holds, Who
<1>6. PageOK(q) /\ Aims(q)
  BY <1>1, <1>2, <1>3, <1>4 DEF PageOK, Aims
<1> QED
  BY <1>1, <1>2, <1>3, <1>5, <1>6 DEF Busy

\* The server forgets who is seated.
LEMMA Unseated ==
  ASSUME NEW v, NEW left, SrvOK(v, left), NEW u, u = [v EXCEPT !.seat = None]
  PROVE  /\ SrvOK(u, left) /\ u.seat = None /\ u.next = v.next /\ u.valid = v.valid
         /\ u.epoch = v.epoch
BY DEF SrvOK, SrvFields

\* What a step of a page with a call has to show.
LEMMA BusyStep ==
  ASSUME Inv, Busy(tab'), Follows(tab', down', srv'), AnswersOK(down', srv'.next, tab'.left),
         StoreOK(store', tab'.left), SrvOK(srv', tab'.left), down' \in Seq(Answers),
         tab'.eng.cid # None => tab'.eng.cid.n < srv'.next, faults' \in 0..MaxFaults
  PROVE  Inv'
BY DEF Inv, Busy

\* What one that leaves the page without has to show.
LEMMA RestStep ==
  ASSUME Inv, Rests(tab'), StoreOK(store', tab'.left), SrvOK(srv', tab'.left),
         down' \in Seq(Answers), faults' \in 0..MaxFaults,
         tab'.opened = 0 => srv'.seat = None /\ srv'.valid = {}
  PROVE  Inv'
<1>1. tab'.eng.cid = None
  BY DEF Rests
<1> QED
  BY <1>1 DEF Inv

\* A failure is counted.
LEMMA FaultCounted ==
  ASSUME Inv, Fault, tab.opened # 0
  PROVE  faults' \in 0..MaxFaults
<1>1. tab.opened \in Nat /\ faults \in 0..MaxFaults
  BY ActiveIsBusy DEF Inv, PageOK
<1>2. MaxFaults \in Nat
  BY EngineAssumption
<1>3. faults + tab.opened <= MaxFaults /\ faults' = faults + 1
  BY DEF Fault
<1> QED
  BY <1>1, <1>2, <1>3

\* While the page is not connected nothing is on its way, and it is not seated.
LEMMA Unconnected ==
  ASSUME Inv, Busy(tab), ~tab.eng.up, Follows(tab, down, srv)
  PROVE  down = <<>> /\ srv.seat = None
BY DEF Follows

\* After a connection was lost.
LEMMA LostStep ==
  ASSUME Inv, Busy(tab), Busy(tab'), Same(tab, tab'), ~tab'.eng.up, down' = <<>>,
         srv' = [srv EXCEPT !.seat = None], UNCHANGED store, faults' \in 0..MaxFaults
  PROVE  Inv'
<1>1. SrvOK(srv', tab.left) /\ srv'.seat = None /\ srv'.next = srv.next
  BY Unseated DEF Inv
<1>2. tab'.left = tab.left /\ tab'.eng.cid = tab.eng.cid
  BY DEF Same
<1>3. Follows(tab', down', srv')
  <2>1. tab'.eng.link # "open"
    BY DEF Busy, Line, IsOpen
  <2> QED
    BY <1>1, <2>1 DEF Follows
<1>4. AnswersOK(down', srv'.next, tab'.left) /\ down' \in Seq(Answers)
  BY DEF AnswersOK
<1> QED
  BY <1>1, <1>2, <1>3, <1>4, BusyStep DEF Inv

\* After a step that leaves the server and the messages alone, and the session
\* unconnected or without an answer on this connection.
LEMMA AloneStep ==
  ASSUME Inv, Busy(tab), Follows(tab, down, srv), AnswersOK(down, srv.next, tab.left),
         Busy(tab'), Same(tab, tab'), UNCHANGED <<store, srv, down>>, faults' \in 0..MaxFaults,
         Follows(tab', down, srv)
  PROVE  Inv'
BY BusyStep DEF Inv, Same

-----------------------------------------------------------------------------
(* Steps of the network. *)

\* onopen: the engine is connected, and whoever had a room asks for it again.
LEMMA OpensOK == Inv /\ Opens => Inv'
<1> SUFFICES ASSUME Inv, Opens
             PROVE  Inv'
  OBVIOUS
<1>1. /\ Busy(tab) /\ Follows(tab, down, srv) /\ AnswersOK(down, srv.next, tab.left)
      /\ tab.eng.link = "dialing" /\ tab' = OnOpen(tab, tab.eng.conn)
      /\ UNCHANGED <<store, srv, down, faults>>
  BY ActiveIsBusy DEF Opens
<1>2. Busy(tab') /\ Same(tab, tab') /\ tab'.eng.up /\ ~tab'.eng.acked
  BY <1>1, OnOpenOK
<1>3. ~tab.eng.up
  BY <1>1 DEF Busy, Line, IsOpen
<1>4. down = <<>>
  BY <1>1, <1>3, Unconnected
<1>5. Follows(tab', down, srv)
  BY <1>2, <1>4 DEF Follows, SeatComes, EpochComes, SeatIsKnown, EpochIsKnown
<1> QED
  BY <1>1, <1>2, <1>5, AloneStep DEF Inv

\* onerror, onclose and the connect timeout of an attempt.
LEMMA DialFailsOK ==
  ASSUME FallbackIsPatient, Inv, NEW reason, DialFails(reason)
  PROVE  Inv'
<1>1. /\ Busy(tab) /\ Follows(tab, down, srv) /\ AnswersOK(down, srv.next, tab.left)
      /\ tab.eng.link = "dialing" /\ UNCHANGED <<store, srv, down>> /\ Fault
      /\ tab.opened # 0 /\ EngOK(tab.eng) /\ Line(tab.eng) /\ Holds(tab.eng, tab.left)
  BY ActiveIsBusy DEF DialFails, Busy, PageOK
<1>2. DOMAIN tab.eng = EngFields /\ DOMAIN tab = PageFields
  BY <1>1 DEF EngOK, Busy, PageOK
<1>3. PICK q :
        /\ tab' = OnClose(q, tab.eng.conn, reason)
        /\ PageOK(q) /\ Holds(q.eng, q.left) /\ Aims(q) /\ q.ses.open /\ ~q.eng.closed
        /\ q.opened # 0 /\ q.ses.told = q.eng.up /\ Same(tab, q)
        /\ q.eng.conn = tab.eng.conn /\ q.eng.up = tab.eng.up
        /\ q.eng.once = tab.eng.once /\ q.eng.retry = tab.eng.retry
  <2>1. CASE Kind(tab.eng) = "sse"
    <3>1. tab' = OnClose(tab, tab.eng.conn, reason)
      BY <2>1 DEF DialFails
    <3> QED
      BY <1>1, <3>1 DEF Busy, Same
  <2>2. CASE Kind(tab.eng) # "sse"
    <3> DEFINE l == tab.eng.late \cup {tab.eng.conn}
               f == [tab.eng EXCEPT !.late = l]
               q == [tab EXCEPT !.eng = f]
    <3>1. tab' = OnClose(q, tab.eng.conn, reason)
      BY <2>2 DEF DialFails
    <3>2. l \subseteq 0..tab.eng.conn
      BY <1>1 DEF EngOK
    <3> HIDE DEF l
    <3>3. DOMAIN f = EngFields /\ Differs(tab.eng, f, {"late"}) /\ f.late = l
      BY <1>2 DEF Differs, EngFields
    <3> HIDE DEF f
    <3>4. /\ f.conn = tab.eng.conn /\ f.up = tab.eng.up /\ f.once = tab.eng.once
          /\ f.retry = tab.eng.retry /\ f.cid = tab.eng.cid
          /\ f.missed = tab.eng.missed /\ f.link = tab.eng.link /\ f.out = tab.eng.out
      BY <3>3 DEF Differs, EngFields
    <3>5. Differs(tab.eng, f, {"late", "missed", "link", "out"})
      BY <3>3 DEF Differs
    <3>6. f.missed \in 0..PongMisses - 1 /\ f.out \in Seq(Honest(tab.left))
          /\ f.link \in {"none", "dialing", "open", "hung"}
      BY <1>1, <3>4 DEF EngOK, Holds
    <3> HIDE DEF q
    <3>7. /\ PageOK(q) /\ Holds(q.eng, q.left) /\ Aims(q) /\ q.ses.open /\ ~q.eng.closed
          /\ q.opened # 0 /\ q.ses.told = q.eng.up /\ q.eng = f
          /\ q.left = tab.left /\ q.opened = tab.opened
      BY <1>1, <3>2, <3>3, <3>5, <3>6, Unjoined DEF q
    <3> QED
      BY <3>1, <3>4, <3>7 DEF Same
  <2> QED
    BY <2>1, <2>2
<1>4. Closing(q.eng, reason) /\ ~tab.eng.up
  BY <1>1, <1>3 DEF Closing, Line, IsOpen
<1>5. /\ Busy(tab') /\ Same(q, tab') /\ ~tab'.eng.up
  BY <1>3, <1>4, OnCloseOK
<1>6. Same(tab, tab')
  BY <1>3, <1>5 DEF Same
<1>7. Follows(tab', down, srv)
  <2>1. tab'.eng.link # "open"
    BY <1>5 DEF Busy, Line, IsOpen
  <2> QED
    BY <1>1, <1>4, <2>1, Unconnected DEF Follows
<1>8. faults' \in 0..MaxFaults
  BY <1>1, FaultCounted
<1> QED
  BY <1>1, <1>5, <1>6, <1>7, <1>8, AloneStep

\* The loss of an open connection.
LEMMA LostOK == FallbackIsPatient /\ Inv /\ Lost => Inv'
<1> SUFFICES ASSUME FallbackIsPatient, Inv, Lost
             PROVE  Inv'
  OBVIOUS
<1> DEFINE l == tab.eng.late \cup {tab.eng.conn}
           f == [tab.eng EXCEPT !.late = l]
           q == [tab EXCEPT !.eng = f]
<1>1. /\ Busy(tab) /\ IsOpen(tab.eng) /\ Disconnected /\ UNCHANGED store /\ Fault
      /\ tab.opened # 0 /\ EngOK(tab.eng) /\ Line(tab.eng) /\ Holds(tab.eng, tab.left)
  BY ActiveIsBusy DEF Lost, Busy, PageOK, IsOpen
<1>2. DOMAIN tab.eng = EngFields /\ DOMAIN tab = PageFields
  BY <1>1 DEF EngOK, Busy, PageOK
<1>3. tab' = OnClose(q, tab.eng.conn, "close")
  BY DEF Lost
<1>4. l \subseteq 0..tab.eng.conn
  BY <1>1 DEF EngOK
<1> HIDE DEF l
<1>5. DOMAIN f = EngFields /\ Differs(tab.eng, f, {"late"}) /\ f.late = l
  BY <1>2 DEF Differs, EngFields
<1> HIDE DEF f
<1>6. /\ f.conn = tab.eng.conn /\ f.once = tab.eng.once /\ f.wsFails = tab.eng.wsFails
      /\ f.idx = tab.eng.idx /\ f.cid = tab.eng.cid
      /\ f.missed = tab.eng.missed /\ f.link = tab.eng.link /\ f.out = tab.eng.out
  BY <1>5 DEF Differs, EngFields
<1>7. Differs(tab.eng, f, {"late", "missed", "link", "out"})
  BY <1>5 DEF Differs
<1>8. /\ PageOK(q) /\ Holds(q.eng, q.left) /\ Aims(q) /\ q.ses.open /\ ~q.eng.closed
      /\ q.opened # 0 /\ q.ses.told = q.eng.up /\ q.eng = f
      /\ q.left = tab.left /\ q.opened = tab.opened
  <2>1. f.missed \in 0..PongMisses - 1 /\ f.out \in Seq(Honest(tab.left))
        /\ f.link \in {"none", "dialing", "open", "hung"}
    BY <1>1, <1>6 DEF EngOK, Holds
  <2> HIDE DEF q
  <2> QED
    BY <1>1, <1>4, <1>5, <1>7, <2>1, Unjoined DEF q
<1> HIDE DEF q
<1>9. Closing(q.eng, "close")
  BY <1>1, <1>6, <1>8 DEF Closing, Line, IsOpen, Kind
<1>10. /\ Busy(tab') /\ Same(q, tab') /\ ~tab'.eng.up
  BY <1>3, <1>6, <1>8, <1>9, OnCloseOK
<1>11. Same(tab, tab')
  BY <1>6, <1>8, <1>10 DEF Same
<1>12. faults' \in 0..MaxFaults
  BY <1>1, FaultCounted
<1> QED
  BY <1>1, <1>10, <1>11, <1>12, LostStep DEF Disconnected

\* A ping goes unanswered; the last one closes the connection.
LEMMA PingUnansweredOK == FallbackIsPatient /\ Inv /\ PingUnanswered => Inv'
<1> SUFFICES ASSUME FallbackIsPatient, Inv, PingUnanswered
             PROVE  Inv'
  OBVIOUS
<1> DEFINE n == IF tab.eng.missed + 1 < PongMisses THEN tab.eng.missed + 1 ELSE 0
           f == [tab.eng EXCEPT !.missed = n]
           q == [tab EXCEPT !.eng = f]
<1>1. /\ Busy(tab) /\ Follows(tab, down, srv) /\ AnswersOK(down, srv.next, tab.left)
      /\ tab.eng.link = "hung" /\ UNCHANGED <<store, faults>>
      /\ EngOK(tab.eng) /\ Line(tab.eng) /\ Holds(tab.eng, tab.left)
  BY ActiveIsBusy DEF PingUnanswered, Busy, PageOK
<1>2. DOMAIN tab.eng = EngFields /\ DOMAIN tab = PageFields
  BY <1>1 DEF EngOK, Busy, PageOK
<1>3. \/ tab' = q /\ UNCHANGED <<srv, down>>
      \/ tab' = OnClose(q, tab.eng.conn, "ping-timeout") /\ Disconnected
  <2>1. CASE tab.eng.missed + 1 < PongMisses
    BY <2>1 DEF PingUnanswered
  <2>2. CASE ~(tab.eng.missed + 1 < PongMisses)
    BY <2>2 DEF PingUnanswered
  <2> QED
    BY <2>1, <2>2
<1>4. n \in 0..PongMisses - 1
  BY <1>1, EngineAssumption DEF EngOK
<1> HIDE DEF n
<1>5. DOMAIN f = EngFields /\ Differs(tab.eng, f, {"missed"}) /\ f.missed = n
  BY <1>2 DEF Differs, EngFields
<1> HIDE DEF f
<1>6. /\ f.conn = tab.eng.conn /\ f.once = tab.eng.once /\ f.wsFails = tab.eng.wsFails
      /\ f.idx = tab.eng.idx /\ f.cid = tab.eng.cid /\ f.late = tab.eng.late
      /\ f.link = tab.eng.link /\ f.out = tab.eng.out /\ f.up = tab.eng.up
  BY <1>5 DEF Differs, EngFields
<1>7. Differs(tab.eng, f, {"late", "missed", "link", "out"}) /\ Differs(tab.eng, f, Aside)
  BY <1>5 DEF Differs, Aside
<1>8. /\ PageOK(q) /\ Holds(q.eng, q.left) /\ Aims(q) /\ q.ses.open /\ ~q.eng.closed
      /\ q.opened # 0 /\ q.ses.told = q.eng.up /\ q.eng = f
      /\ q.left = tab.left /\ q.opened = tab.opened /\ Busy(q)
  <2>1. f.late \subseteq 0..tab.eng.conn /\ f.out \in Seq(Honest(tab.left))
        /\ f.link \in {"none", "dialing", "open", "hung"} /\ f.missed \in 0..PongMisses - 1
    BY <1>1, <1>4, <1>5, <1>6 DEF EngOK, Holds
  <2>2. Line(f)
    BY <1>1, <1>7, LineKept
  <2> HIDE DEF q
  <2> QED
    BY <1>1, <1>5, <1>7, <2>1, <2>2, Unjoined DEF q
<1> HIDE DEF q
<1>9. Same(tab, q) /\ tab.eng.up
  BY <1>1, <1>6, <1>8 DEF Same, Line
<1>10. CASE tab' = q /\ UNCHANGED <<srv, down>>
  <2>1. Follows(tab', down, srv)
    BY <1>1, <1>6, <1>8, <1>9, <1>10 DEF Follows
  <2> QED
    BY <1>1, <1>8, <1>9, <1>10, <2>1, AloneStep DEF Inv
<1>11. CASE tab' = OnClose(q, tab.eng.conn, "ping-timeout") /\ Disconnected
  <2>1. Closing(q.eng, "ping-timeout")
    BY <1>1, <1>6, <1>8 DEF Closing, Line, IsOpen, Kind
  <2>2. /\ Busy(tab') /\ Same(q, tab') /\ ~tab'.eng.up
    BY <1>6, <1>8, <1>11, <2>1, OnCloseOK
  <2>3. Same(tab, tab')
    BY <1>9, <2>2 DEF Same
  <2> QED
    BY <1>1, <1>11, <2>2, <2>3, LostStep DEF Disconnected, Inv
<1> QED
  BY <1>3, <1>10, <1>11

\* A callback of a closed transport: the engine has moved on, or it counts another
\* failure while the reconnect timer runs.
LEMMA LateCallbackOK == FallbackIsPatient /\ Inv /\ LateCallback => Inv'
<1> SUFFICES ASSUME FallbackIsPatient, Inv, LateCallback
             PROVE  Inv'
  OBVIOUS
<1>1. PICK id \in tab.eng.late :
        /\ tab' = OnClose([tab EXCEPT !.eng.late = @ \ {id}], id, "close")
        /\ IF tab'.eng.link = tab.eng.link THEN UNCHANGED <<srv, down>>
           ELSE Disconnected
        /\ UNCHANGED <<store, faults>>
  BY DEF LateCallback
<1> DEFINE l == tab.eng.late \ {id}
           f == [tab.eng EXCEPT !.late = l]
           q == [tab EXCEPT !.eng = f]
<1>2. tab' = OnClose(q, id, "close")
  BY <1>1
<1>3. DOMAIN tab.eng = EngFields /\ DOMAIN tab = PageFields /\ EngOK(tab.eng) /\ PageOK(tab)
  BY ActiveIsBusy DEF EngOK, PageOK
<1>4. l \subseteq 0..tab.eng.conn /\ id \notin l /\ (l # {} => tab.eng.late # {})
  BY <1>3 DEF EngOK
<1> HIDE DEF l
<1>5. /\ DOMAIN f = EngFields /\ Differs(tab.eng, f, {"late"}) /\ f.late = l
      /\ (f.connecting = FALSE => [f EXCEPT !.connecting = FALSE] = f)
  BY <1>3 DEF Differs, EngFields
<1>6. /\ f.conn = tab.eng.conn /\ f.once = tab.eng.once /\ f.wsFails = tab.eng.wsFails
      /\ f.idx = tab.eng.idx /\ f.cid = tab.eng.cid /\ f.missed = tab.eng.missed
      /\ f.link = tab.eng.link /\ f.out = tab.eng.out /\ f.up = tab.eng.up
      /\ f.connecting = tab.eng.connecting /\ f.retry = tab.eng.retry
      /\ f.closed = tab.eng.closed /\ f.timers = tab.eng.timers
  <2> HIDE DEF f
  <2> QED
    BY <1>5 DEF Differs, EngFields
<1>7. /\ DOMAIN q = PageFields /\ q.eng = f /\ q.ses = tab.ses /\ q.left = tab.left
      /\ q.opened = tab.opened
  <2> HIDE DEF f
  <2> QED
    BY <1>3 DEF PageFields
<1>8. id # f.conn => tab' = q
  <2> HIDE DEF f, q
  <2>1. q.eng.conn = f.conn
    BY <1>7
  <2>2. ASSUME NEW e, e = [q.eng EXCEPT !.connecting = FALSE]
        PROVE  e.conn = q.eng.conn
    BY <1>5, <1>7, <2>2 DEF EngFields
  <2> QED
    BY <1>2, <2>1, <2>2 DEF OnClose, IsCurrent
<1> HIDE DEF f
<1>9. Differs(tab.eng, f, {"late", "missed", "link", "out"})
  BY <1>5 DEF Differs
<1>10. CASE Busy(tab)
  <2>1. /\ Follows(tab, down, srv) /\ AnswersOK(down, srv.next, tab.left)
        /\ Line(tab.eng) /\ Holds(tab.eng, tab.left)
    BY <1>10, ActiveIsBusy DEF Busy
  <2>2. /\ PageOK(q) /\ Holds(q.eng, q.left) /\ Aims(q) /\ q.ses.open /\ ~q.eng.closed
        /\ q.opened # 0 /\ q.ses.told = q.eng.up /\ (Line(f) => Busy(q))
    <3>1. f.missed \in 0..PongMisses - 1 /\ f.out \in Seq(Honest(tab.left))
          /\ f.link \in {"none", "dialing", "open", "hung"}
      BY <1>3, <1>6, <2>1 DEF EngOK, Holds
    <3> HIDE DEF q
    <3> QED
      BY <1>4, <1>5, <1>9, <1>10, <3>1, Unjoined DEF q
  <2> HIDE DEF q
  <2>3. Same(tab, q)
    BY <1>6, <1>7 DEF Same
  <2>4. CASE id # f.conn
    <3>1. Line(f)
      <4>1. tab.eng.conn \in f.late <=> tab.eng.conn \in tab.eng.late
        BY <1>5, <1>6, <2>4 DEF l
      <4> QED
        BY <1>6, <2>1, <4>1 DEF Line, Kind, IsOpen
    <3>2. Busy(tab') /\ UNCHANGED <<srv, down>> /\ tab' = q
      BY <1>1, <1>6, <1>7, <1>8, <2>2, <2>4, <3>1
    <3>3. Follows(q, down, srv)
      <4>1. f.acked = tab.eng.acked
        BY <1>5 DEF Differs, EngFields
      <4> QED
        BY <1>6, <1>7, <2>1, <4>1 DEF Follows, SeatIsKnown, EpochIsKnown
    <3> QED
      BY <1>1, <1>10, <2>1, <2>3, <3>2, <3>3, AloneStep DEF Inv
  <2>5. CASE id = f.conn
    <3>1. tab.eng.link = "none" /\ ~tab.eng.up
      BY <1>6, <2>1, <2>5 DEF Line, IsOpen
    <3>2. Closing(q.eng, "close")
      <4>1. q.eng.conn \notin q.eng.late
        BY <1>4, <1>5, <1>7, <2>5
      <4> QED
        BY <1>6, <1>7, <2>1, <2>5, <3>1, <4>1 DEF Closing, Line, IsOpen, Kind
    <3>3. /\ Busy(tab') /\ Same(q, tab') /\ ~tab'.eng.up
      BY <1>2, <1>7, <2>2, <2>5, <3>2, OnCloseOK
    <3>4. Same(tab, tab') /\ down = <<>> /\ srv.seat = None
      BY <1>10, <2>1, <2>3, <3>1, <3>3, Unconnected DEF Same
    <3>5. CASE UNCHANGED <<srv, down>>
      <4>1. tab'.eng.link # "open"
        BY <3>3 DEF Busy, Line, IsOpen
      <4>2. Follows(tab', down, srv)
        BY <3>4, <4>1 DEF Follows
      <4> QED
        BY <1>1, <1>10, <2>1, <3>3, <3>4, <3>5, <4>2, AloneStep DEF Inv
    <3>6. CASE Disconnected
      BY <1>1, <1>10, <3>3, <3>4, <3>6, LostStep DEF Disconnected, Inv
    <3> QED
      BY <1>1, <3>5, <3>6
  <2> QED
    BY <2>4, <2>5
<1>11. CASE Rests(tab)
  <2>1. tab' = q
    <3>1. CASE id # f.conn
      BY <1>8, <3>1
    <3>2. CASE id = f.conn
      <4>1. f.closed /\ f.connecting = FALSE
        BY <1>6, <1>11 DEF Rests
      <4>2. [f EXCEPT !.connecting = FALSE] = f
        BY <1>5, <4>1
      <4>3. [q EXCEPT !.eng = f] = q
        BY <1>7 DEF PageFields
      <4> HIDE DEF q
      <4> QED
        BY <1>2, <1>7, <3>2, <4>1, <4>2, <4>3 DEF OnClose, IsCurrent
    <3> QED
      BY <3>1, <3>2
  <2> HIDE DEF q
  <2>2. UNCHANGED <<srv, down>>
    BY <1>1, <1>6, <1>7, <2>1
  <2>3. EngOK(f)
    <3>1. /\ f.lastCid = tab.eng.lastCid /\ f.token = tab.eng.token
          /\ f.tokenRoom = tab.eng.tokenRoom /\ f.buffered = tab.eng.buffered
          /\ f.currentRoom = tab.eng.currentRoom
      BY <1>5 DEF Differs, EngFields
    <3> QED
      BY <1>3, <1>4, <1>5, <1>6, <3>1 DEF EngOK
  <2>4. PageOK(q)
    BY <1>3, <1>7, <2>3 DEF PageOK
  <2>5. Rests(q)
    BY <1>4, <1>5, <1>6, <1>7, <1>11, <2>4 DEF Rests
  <2> QED
    BY <1>1, <1>7, <2>1, <2>2, <2>5, RestStep DEF Inv
<1> QED
  BY <1>10, <1>11 DEF Inv

\* A connection that hangs looks open.
LEMMA HangsOK == Inv /\ Hangs => Inv'
<1> SUFFICES ASSUME Inv, Hangs
             PROVE  Inv'
  OBVIOUS
<1> DEFINE f == [tab.eng EXCEPT !.link = "hung"]
<1>1. /\ Busy(tab) /\ Follows(tab, down, srv) /\ AnswersOK(down, srv.next, tab.left)
      /\ tab.eng.link = "open" /\ UNCHANGED <<store, srv, down>> /\ Fault
      /\ EngOK(tab.eng) /\ Line(tab.eng) /\ Holds(tab.eng, tab.left) /\ tab.opened # 0
      /\ tab' = [tab EXCEPT !.eng = f]
  BY ActiveIsBusy DEF Hangs, Busy, PageOK
<1>2. DOMAIN f = EngFields /\ Differs(tab.eng, f, {"link"}) /\ f.link = "hung"
  BY <1>1 DEF Differs, EngFields, EngOK
<1> HIDE DEF f
<1>3. /\ f.missed = tab.eng.missed /\ f.late = tab.eng.late /\ f.out = tab.eng.out
      /\ f.up = tab.eng.up /\ f.connecting = tab.eng.connecting /\ f.retry = tab.eng.retry
      /\ f.idx = tab.eng.idx /\ f.once = tab.eng.once /\ f.wsFails = tab.eng.wsFails
      /\ f.conn = tab.eng.conn /\ f.cid = tab.eng.cid
  BY <1>2 DEF Differs, EngFields
<1>4. Line(f)
  BY <1>1, <1>2, <1>3 DEF Line, IsOpen, Kind
<1>5. Differs(tab.eng, f, {"late", "missed", "link", "out"})
  BY <1>2 DEF Differs
<1>6. Busy(tab') /\ tab'.eng = f /\ tab'.left = tab.left /\ tab'.opened = tab.opened
  <2>1. f.late \subseteq 0..tab.eng.conn /\ f.missed \in 0..PongMisses - 1
        /\ f.link \in {"none", "dialing", "open", "hung"} /\ f.out \in Seq(Honest(tab.left))
    BY <1>1, <1>2, <1>3 DEF EngOK, Holds
  <2> QED
    BY <1>1, <1>2, <1>4, <1>5, <2>1, Unjoined
<1>7. Same(tab, tab') /\ Follows(tab', down, srv)
  BY <1>1, <1>2, <1>3, <1>6 DEF Same, Follows, Line
<1> QED
  BY <1>1, <1>6, <1>7, AloneStep, FaultCounted

\* A POST that fails takes its message with it.
LEMMA PostFailsOK == Inv /\ PostFails => Inv'
<1> SUFFICES ASSUME Inv, PostFails
             PROVE  Inv'
  OBVIOUS
<1> DEFINE o == Tail(tab.eng.out)
           f == [tab.eng EXCEPT !.out = o]
<1>1. /\ Busy(tab) /\ Follows(tab, down, srv) /\ AnswersOK(down, srv.next, tab.left)
      /\ tab.eng.out # <<>> /\ UNCHANGED <<store, srv, down>> /\ Fault
      /\ EngOK(tab.eng) /\ Line(tab.eng) /\ Holds(tab.eng, tab.left) /\ tab.opened # 0
      /\ tab' = [tab EXCEPT !.eng = f]
  BY ActiveIsBusy DEF PostFails, Busy, PageOK
<1>2. o \in Seq(Honest(tab.left))
  BY <1>1, Parts DEF Holds
<1> HIDE DEF o
<1>3. DOMAIN f = EngFields /\ Differs(tab.eng, f, {"out"}) /\ f.out = o
  BY <1>1 DEF Differs, EngFields, EngOK
<1> HIDE DEF f
<1>4. /\ f.missed = tab.eng.missed /\ f.late = tab.eng.late /\ f.link = tab.eng.link
      /\ f.up = tab.eng.up /\ f.cid = tab.eng.cid /\ f.acked = tab.eng.acked
  BY <1>3 DEF Differs, EngFields
<1>5. Line(f)
  BY <1>1, <1>3, LineKept DEF Differs, Aside
<1>6. Differs(tab.eng, f, {"late", "missed", "link", "out"})
  BY <1>3 DEF Differs
<1>7. Busy(tab') /\ tab'.eng = f /\ tab'.left = tab.left /\ tab'.opened = tab.opened
      /\ tab'.ses = tab.ses
  <2>1. f.late \subseteq 0..tab.eng.conn /\ f.missed \in 0..PongMisses - 1
        /\ f.link \in {"none", "dialing", "open", "hung"} /\ f.out \in Seq(Honest(tab.left))
    BY <1>1, <1>2, <1>3, <1>4 DEF EngOK
  <2> QED
    BY <1>1, <1>3, <1>5, <1>6, <2>1, Unjoined
<1>8. Same(tab, tab') /\ Follows(tab', down, srv)
  BY <1>1, <1>4, <1>7 DEF Same, Follows, SeatIsKnown, EpochIsKnown
<1> QED
  BY <1>1, <1>7, <1>8, AloneStep, FaultCounted

-----------------------------------------------------------------------------
(* Timers. *)

\* The reconnect timer starts over with the first transport.
LEMMA ReconnectTimerOK == Inv /\ ReconnectTimer => Inv'
<1> SUFFICES ASSUME Inv, ReconnectTimer
             PROVE  Inv'
  OBVIOUS
<1> DEFINE e == [tab.eng EXCEPT !.retry = FALSE, !.idx = 1, !.once = {}]
           n == tab.eng.conn + 1
           f == [tab.eng EXCEPT !.retry = FALSE, !.once = {}, !.idx = 1, !.connecting = TRUE,
                   !.conn = n, !.link = "dialing", !.out = <<>>]
<1>1. /\ Busy(tab) /\ Follows(tab, down, srv) /\ AnswersOK(down, srv.next, tab.left)
      /\ tab.eng.retry /\ UNCHANGED <<store, srv, down, faults>> /\ PageOK(tab)
      /\ EngOK(tab.eng) /\ Line(tab.eng) /\ Holds(tab.eng, tab.left) /\ Aims(tab)
      /\ ~tab.eng.closed /\ tab.ses.open /\ tab.opened # 0 /\ tab.ses.told = tab.eng.up
      /\ tab' = [tab EXCEPT !.eng = DoConnect(e, 1)]
  BY ActiveIsBusy DEF ReconnectTimer, Busy, PageOK
<1>2. DOMAIN tab.eng = EngFields /\ DOMAIN tab = PageFields /\ tab.eng.conn \in Nat
      /\ tab.eng.late \subseteq 0..tab.eng.conn
  BY <1>1 DEF EngOK, PageOK
<1>3. ~tab.eng.up /\ ~tab.eng.connecting
  BY <1>1 DEF Line
<1>4. DoConnect(e, 1) = f
  <2>1. Len(Transports) \in Nat /\ Len(Transports) # 0
    BY EngineAssumption
  <2>2. ~e.closed /\ ~e.connecting /\ e.conn = tab.eng.conn
    BY <1>1, <1>2, <1>3 DEF EngFields
  <2>3. DoConnect(e, 1) = [e EXCEPT !.idx = 1, !.connecting = TRUE, !.conn = n,
                             !.link = "dialing", !.out = <<>>]
    <3> HIDE DEF e
    <3> QED
      BY <2>1, <2>2 DEF DoConnect
  <2> HIDE DEF n
  <2> QED
    BY <2>3
<1>5. n \in Nat /\ n \notin tab.eng.late /\ tab.eng.late \subseteq 0..n
  BY <1>2
<1> HIDE DEF n
<1>6. /\ DOMAIN f = EngFields /\ f.retry = FALSE /\ f.once = {} /\ f.idx = 1
      /\ f.connecting = TRUE /\ f.conn = n /\ f.link = "dialing" /\ f.out = <<>>
      /\ Differs(tab.eng, f, {"retry", "once", "idx", "connecting", "conn", "link", "out"})
  BY <1>2 DEF Differs, EngFields
<1> HIDE DEF f
<1>7. /\ f.cid = tab.eng.cid /\ f.lastCid = tab.eng.lastCid /\ f.token = tab.eng.token
      /\ f.tokenRoom = tab.eng.tokenRoom /\ f.buffered = tab.eng.buffered
      /\ f.currentRoom = tab.eng.currentRoom /\ f.closed = tab.eng.closed
      /\ f.again = tab.eng.again /\ f.acked = tab.eng.acked /\ f.timers = tab.eng.timers
      /\ f.request = tab.eng.request /\ f.up = tab.eng.up /\ f.wsFails = tab.eng.wsFails
      /\ f.late = tab.eng.late /\ f.missed = tab.eng.missed
  BY <1>6 DEF Differs, EngFields
<1>8. EngOK(f)
  <2>1. 1 \in 1..Len(Transports)
    BY EngineAssumption
  <2> QED
    BY <1>1, <1>5, <1>6, <1>7, <2>1 DEF EngOK
<1>9. Line(f)
  BY <1>3, <1>5, <1>6, <1>7 DEF Line
<1>10. Holds(f, tab.left)
  BY <1>1, <1>6, <1>7 DEF Holds, Who
<1>11. /\ DOMAIN tab' = PageFields /\ tab'.eng = f /\ tab'.ses = tab.ses
       /\ tab'.left = tab.left /\ tab'.opened = tab.opened
  BY <1>1, <1>2, <1>4 DEF PageFields
<1>12. Busy(tab')
  BY <1>1, <1>7, <1>8, <1>9, <1>10, <1>11 DEF Busy, PageOK, Aims
<1>13. Same(tab, tab') /\ Follows(tab', down, srv)
  BY <1>1, <1>3, <1>6, <1>7, <1>11 DEF Same, Follows
<1> QED
  BY <1>1, <1>12, <1>13, AloneStep DEF Inv

\* A step that writes the join timers, and what is to be sent, of a page with a call.
LEMMA TimersStep ==
  ASSUME Inv, Busy(tab), Follows(tab, down, srv), AnswersOK(down, srv.next, tab.left),
         UNCHANGED <<store, srv, down, faults>>, NEW f, DOMAIN f = EngFields,
         Differs(tab.eng, f, {"timers", "out"}), f.timers \in Timers,
         f.timers # {} => tab.eng.timers # {}, f.out \in Seq(Honest(tab.left)),
         tab' = [tab EXCEPT !.eng = f]
  PROVE  Inv'
<1>1. /\ PageOK(tab) /\ EngOK(tab.eng) /\ Line(tab.eng) /\ Holds(tab.eng, tab.left)
      /\ Aims(tab) /\ ~tab.eng.closed /\ tab.ses.open /\ tab.opened # 0
      /\ tab.ses.told = tab.eng.up /\ DOMAIN tab = PageFields
  BY DEF Busy, PageOK
<1>2. /\ f.cid = tab.eng.cid /\ f.lastCid = tab.eng.lastCid /\ f.token = tab.eng.token
      /\ f.tokenRoom = tab.eng.tokenRoom /\ f.buffered = tab.eng.buffered
      /\ f.currentRoom = tab.eng.currentRoom /\ f.closed = tab.eng.closed
      /\ f.again = tab.eng.again /\ f.acked = tab.eng.acked /\ f.idx = tab.eng.idx
      /\ f.request = tab.eng.request /\ f.up = tab.eng.up /\ f.wsFails = tab.eng.wsFails
      /\ f.late = tab.eng.late /\ f.missed = tab.eng.missed /\ f.link = tab.eng.link
      /\ f.conn = tab.eng.conn
  BY DEF Differs, EngFields
<1>3. EngOK(f) /\ Holds(f, tab.left)
  BY <1>1, <1>2 DEF EngOK, Holds, Who
<1>4. Line(f)
  BY <1>1, LineKept DEF Differs, Aside
<1>5. /\ DOMAIN tab' = PageFields /\ tab'.eng = f /\ tab'.ses = tab.ses
      /\ tab'.left = tab.left /\ tab'.opened = tab.opened
  BY <1>1 DEF PageFields
<1>6. Busy(tab')
  BY <1>1, <1>2, <1>3, <1>4, <1>5 DEF Busy, PageOK, Aims
<1>7. Same(tab, tab') /\ Follows(tab', down, srv)
  BY <1>2, <1>5 DEF Same, Follows, SeatIsKnown, EpochIsKnown
<1> QED
  BY <1>6, <1>7, AloneStep DEF Inv

\* kickstart and recovery: the join goes again as it was.
LEMMA JoinAgainOK == Inv /\ JoinAgain => Inv'
<1> SUFFICES ASSUME Inv, JoinAgain
             PROVE  Inv'
  OBVIOUS
<1>1. PICK t \in {"kickstart", "recovery"} \cap tab.eng.timers :
        /\ t = "recovery" => "kickstart" \notin tab.eng.timers
        /\ tab' = [tab EXCEPT !.eng =
                     SendMessage([tab.eng EXCEPT !.timers = @ \ {t}], tab.eng.request)]
        /\ UNCHANGED <<store, srv, down, faults>>
  BY DEF JoinAgain
<1> DEFINE ts == tab.eng.timers \ {t}
           e == [tab.eng EXCEPT !.timers = ts]
           f == SendMessage(e, tab.eng.request)
<1>2. /\ Busy(tab) /\ Follows(tab, down, srv) /\ AnswersOK(down, srv.next, tab.left)
      /\ EngOK(tab.eng) /\ Holds(tab.eng, tab.left) /\ tab.eng.timers \in Timers
  BY <1>1, ActiveIsBusy DEF Busy, PageOK, EngOK
<1>3. ts \in Timers
  <2>1. tab.eng.timers # {} /\ tab.eng.timers # {"hard"}
    BY <1>1
  <2>2. CASE tab.eng.timers = {"recovery", "hard"}
    <3>1. ts = {"hard"}
      BY <1>1, <2>2
    <3> QED
      BY <3>1 DEF Timers
  <2>3. CASE tab.eng.timers = {"kickstart", "recovery", "hard"}
    <3>1. ts = {"recovery", "hard"}
      BY <1>1, <2>3
    <3> QED
      BY <3>1 DEF Timers
  <2> QED
    BY <1>2, <2>1, <2>2, <2>3 DEF Timers
<1>4. tab.eng.request \in Honest(tab.left) /\ tab.eng.out \in Seq(Honest(tab.left))
  <2>1. tab.eng.timers # {}
    BY <1>1
  <2> QED
    BY <1>2, <2>1 DEF Holds
<1>5. tab' = [tab EXCEPT !.eng = f]
  BY <1>1
<1> HIDE DEF ts
<1>6. DOMAIN e = EngFields /\ Differs(tab.eng, e, {"timers"}) /\ e.timers = ts
  BY <1>2 DEF Differs, EngFields, EngOK
<1> HIDE DEF e
<1>7. e.out = tab.eng.out
  BY <1>6 DEF Differs, EngFields
<1>8. DOMAIN f = EngFields /\ Differs(e, f, {"out"}) /\ f.out \in Seq(Honest(tab.left))
  BY <1>4, <1>6, <1>7, Sends
<1> HIDE DEF f
<1>9. Differs(tab.eng, f, {"timers", "out"}) /\ f.timers = ts
  BY <1>6, <1>8 DEF Differs, EngFields
<1>10. f.timers # {} => tab.eng.timers # {}
  BY <1>9 DEF ts
<1> QED
  BY <1>1, <1>2, <1>3, <1>5, <1>8, <1>9, <1>10, TimersStep

\* The last join timer gives up asking.
LEMMA JoinHardTimeoutOK == Inv /\ JoinHardTimeout => Inv'
<1> SUFFICES ASSUME Inv, JoinHardTimeout
             PROVE  Inv'
  OBVIOUS
<1> DEFINE f == [tab.eng EXCEPT !.timers = {}]
<1>1. /\ Busy(tab) /\ Follows(tab, down, srv) /\ AnswersOK(down, srv.next, tab.left)
      /\ EngOK(tab.eng) /\ Holds(tab.eng, tab.left) /\ tab' = [tab EXCEPT !.eng = f]
      /\ UNCHANGED <<store, srv, down, faults>>
  BY ActiveIsBusy DEF JoinHardTimeout, Busy, PageOK
<1>2. DOMAIN f = EngFields /\ Differs(tab.eng, f, {"timers"}) /\ f.timers = {}
  BY <1>1 DEF Differs, EngFields, EngOK
<1> HIDE DEF f
<1>3. f.out = tab.eng.out /\ Differs(tab.eng, f, {"timers", "out"})
  BY <1>2 DEF Differs, EngFields
<1> QED
  BY <1>1, <1>2, <1>3, TimersStep DEF Timers, Holds

-----------------------------------------------------------------------------
(* Calls that open and close. *)

\* cleanupCall and destroy: what is left sends its last messages and no more.
LEMMA Closes ==
  ASSUME NEW p, DOMAIN p = PageFields, EngOK(p.eng), p.eng.out \in Seq(Honest({}) \cup Farewells),
         p.opened \in Nat, p.opened # 0, p.left \subseteq Seats
  PROVE  /\ Rests(Close(p)) /\ Close(p).left = p.left /\ Close(p).opened = p.opened
<1> DEFINE c == IF Kind(p.eng) = "sse" /\ IsOpen(p.eng) THEN {p.eng.conn} ELSE {}
           f == [BlankEngine EXCEPT !.closed = TRUE, !.conn = p.eng.conn,
                                    !.out = p.eng.out, !.late = c]
           q == Close(p)
<1>1. q = [p EXCEPT !.ses = BlankSession, !.eng = f]
  BY DEF Close, Destroy
<1>2. p.eng.conn \in Nat /\ c \subseteq 0..p.eng.conn
  BY DEF EngOK
<1> HIDE DEF c
<1>3. /\ DOMAIN f = EngFields /\ f.closed = TRUE /\ f.conn = p.eng.conn /\ f.out = p.eng.out
      /\ f.late = c /\ f.cid = None /\ f.lastCid = None /\ f.token = None
      /\ f.tokenRoom = None /\ f.currentRoom = None /\ f.buffered = None /\ f.link = "none"
      /\ f.idx = 1 /\ f.wsFails = 0 /\ f.missed = 0 /\ f.timers = {}
      /\ f.connecting = FALSE /\ f.retry = FALSE
  BY DEF BlankEngine, EngFields
<1> HIDE DEF f
<1>4. EngOK(f)
  <2>1. 1 \in 1..Len(Transports) /\ 0 \in 0..FallbackAfter /\ 0 \in 0..PongMisses - 1
    BY EngineAssumption
  <2> QED
    BY <1>2, <1>3, <2>1 DEF EngOK, Timers
<1>5. /\ DOMAIN q = PageFields /\ q.eng = f /\ q.ses = BlankSession /\ q.left = p.left
      /\ q.opened = p.opened
  BY <1>1 DEF PageFields
<1> HIDE DEF q
<1>6. DOMAIN BlankSession = SesFields
  BY DEF BlankSession, SesFields
<1>7. PageOK(q)
  BY <1>4, <1>5, <1>6 DEF PageOK
<1> QED
  BY <1>3, <1>5, <1>7 DEF Rests, q

\* What the engine had to send, it may still send when the call is over.
LEMMA StillSent ==
  ASSUME NEW left, NEW o \in Seq(Honest(left))
  PROVE  o \in Seq(Honest({}) \cup Farewells)
BY HonestJoins, SeqGrows

\* The session ends without a word, and the server sees the connection go.
LEMMA ClosedStep ==
  ASSUME Inv, Busy(tab), tab' = Close(tab), Disconnected, UNCHANGED <<store, faults>>
  PROVE  Inv'
<1>1. /\ DOMAIN tab = PageFields /\ EngOK(tab.eng) /\ tab.opened \in Nat /\ tab.opened # 0
      /\ tab.left \subseteq Seats /\ tab.eng.out \in Seq(Honest({}) \cup Farewells)
  BY StillSent DEF Busy, PageOK, Holds
<1>2. Rests(tab') /\ tab'.left = tab.left /\ tab'.opened = tab.opened
  BY <1>1, Closes
<1>3. SrvOK(srv', tab.left)
  BY Unseated DEF Disconnected, Inv
<1>4. down' \in Seq(Answers)
  BY DEF Disconnected
<1> QED
  BY <1>1, <1>2, <1>3, <1>4, RestStep DEF Inv

\* The page goes away in the middle of a call.
LEMMA UnloadOK == Inv /\ Unload => Inv'
BY ActiveIsBusy, ClosedStep DEF Unload

\* A session that writes its own timers and notes only.
LEMMA SessionStep ==
  ASSUME Inv, Busy(tab), UNCHANGED <<store, srv, down, faults>>,
         Follows(tab, down, srv), AnswersOK(down, srv.next, tab.left),
         NEW t, DOMAIN t = SesFields, tab' = [tab EXCEPT !.ses = t],
         t.open = tab.ses.open, t.room = tab.ses.room, t.joining = tab.ses.joining,
         t.asked = tab.ses.asked, t.told = tab.ses.told, t.roster = tab.ses.roster
  PROVE  Inv'
<1>1. /\ PageOK(tab) /\ EngOK(tab.eng) /\ Line(tab.eng) /\ Holds(tab.eng, tab.left)
      /\ Aims(tab) /\ ~tab.eng.closed /\ tab.ses.open /\ tab.opened # 0
      /\ tab.ses.told = tab.eng.up /\ DOMAIN tab = PageFields
  BY DEF Busy, PageOK
<1>2. /\ DOMAIN tab' = PageFields /\ tab'.eng = tab.eng /\ tab'.ses = t
      /\ tab'.left = tab.left /\ tab'.opened = tab.opened
  BY <1>1 DEF PageFields
<1>3. Busy(tab')
  BY <1>1, <1>2 DEF Busy, PageOK, Aims
<1>4. Same(tab, tab') /\ Follows(tab', down, srv)
  BY <1>2 DEF Same, Follows, EpochIsKnown
<1> QED
  BY <1>3, <1>4, AloneStep DEF Inv

\* joinTimeoutTimer closes a call nobody answered.
LEMMA SessionJoinTimeoutOK == Inv /\ SessionJoinTimeout => Inv'
<1> SUFFICES ASSUME Inv, SessionJoinTimeout
             PROVE  Inv'
  OBVIOUS
<1>1. /\ Busy(tab) /\ Follows(tab, down, srv) /\ AnswersOK(down, srv.next, tab.left)
      /\ DOMAIN tab = PageFields /\ DOMAIN tab.ses = SesFields
  BY ActiveIsBusy DEF SessionJoinTimeout, Busy, PageOK
<1>2. CASE tab.ses.roster = 0 /\ tab.ses.joining
  BY <1>1, <1>2, ClosedStep DEF SessionJoinTimeout
<1>3. CASE ~(tab.ses.roster = 0 /\ tab.ses.joining)
  <2> DEFINE t == [tab.ses EXCEPT !.giveUp = FALSE]
  <2>1. tab' = [tab EXCEPT !.ses = t] /\ UNCHANGED <<store, srv, down, faults>>
    BY <1>3 DEF SessionJoinTimeout
  <2>2. /\ DOMAIN t = SesFields /\ t.open = tab.ses.open /\ t.room = tab.ses.room
        /\ t.joining = tab.ses.joining /\ t.asked = tab.ses.asked
        /\ t.told = tab.ses.told /\ t.roster = tab.ses.roster
    BY <1>1 DEF SesFields
  <2> HIDE DEF t
  <2> QED
    BY <1>1, <2>1, <2>2, SessionStep
<1> QED
  BY <1>2, <1>3

\* The peers are restarted without waiting for a snapshot.
LEMMA ResyncTimeoutOK == Inv /\ ResyncTimeout => Inv'
<1> SUFFICES ASSUME Inv, ResyncTimeout
             PROVE  Inv'
  OBVIOUS
<1> DEFINE b == tab.ses.behind /\ ~tab.ses.told
           t == [tab.ses EXCEPT !.resync = FALSE, !.behind = b]
<1>1. /\ Busy(tab) /\ Follows(tab, down, srv) /\ AnswersOK(down, srv.next, tab.left)
      /\ DOMAIN tab = PageFields /\ DOMAIN tab.ses = SesFields /\ tab.ses.resync
      /\ tab' = FlushResync(tab) /\ UNCHANGED <<store, srv, down, faults>>
  BY ActiveIsBusy DEF ResyncTimeout, Busy, PageOK
<1>2. tab' = [tab EXCEPT !.ses = t]
  BY <1>1 DEF FlushResync, PageFields
<1> HIDE DEF b
<1>3. /\ DOMAIN t = SesFields /\ t.open = tab.ses.open /\ t.room = tab.ses.room
      /\ t.joining = tab.ses.joining /\ t.asked = tab.ses.asked
      /\ t.told = tab.ses.told /\ t.roster = tab.ses.roster
  BY <1>1 DEF SesFields
<1> HIDE DEF t
<1> QED
  BY <1>1, <1>2, <1>3, SessionStep

\* leave and end: the seat is left, and nothing is kept that would bring it back.
LEMMA LeaveCallOK ==
  ASSUME Inv, NEW ending, LeaveCall(ending)
  PROVE  Inv'
<1> DEFINE T == Honest({}) \cup Farewells
           gone == tab.left \cup ({tab.eng.cid} \ {None})
           m1 == [type |-> "end_room", room |-> tab.eng.currentRoom]
           e1 == IF ending THEN SendMessage(tab.eng, m1) ELSE tab.eng
           m2 == [type |-> "leave", room |-> e1.currentRoom]
           e2 == SendMessage(e1, m2)
           f == [e2 EXCEPT !.timers = {}, !.currentRoom = None, !.again = FALSE, !.cid = None,
                   !.lastCid = None, !.token = None, !.tokenRoom = None, !.epoch = 0]
           q == [tab EXCEPT !.eng = f, !.left = gone]
<1>1. /\ Busy(tab) /\ DOMAIN tab = PageFields /\ EngOK(tab.eng) /\ tab.opened \in Nat
      /\ tab.opened # 0 /\ tab.left \subseteq Seats /\ tab.eng.out \in Seq(T)
      /\ DOMAIN tab.eng = EngFields
  BY ActiveIsBusy, StillSent DEF LeaveCall, Busy, PageOK, Holds, EngOK
<1>2. tab' = Close(q) /\ store' = EmptyStore /\ down' = <<>> /\ UNCHANGED <<srv, faults>>
  <2>1. f = LeaveRoom(e1)
    BY DEF LeaveRoom
  <2> QED
    BY <2>1 DEF LeaveCall, ClearStorage
<1>3. IsOpen(tab.eng) => tab.eng.currentRoom \in Rooms
  BY <1>1 DEF EngOK, Busy, Line, IsOpen, Aims
<1>4. IsOpen(tab.eng) => m1 \in T
  BY <1>3 DEF Farewells
<1> HIDE DEF m1, T
<1>5. DOMAIN e1 = EngFields /\ Differs(tab.eng, e1, {"out"}) /\ e1.out \in Seq(T)
  <2>1. CASE ending
    BY <1>1, <1>4, <2>1, Sends
  <2>2. CASE ~ending
    BY <1>1, <2>2 DEF Differs
  <2> QED
    BY <2>1, <2>2
<1> HIDE DEF e1
<1>6. IsOpen(e1) => m2 \in T
  <2>1. e1.currentRoom = tab.eng.currentRoom /\ (IsOpen(e1) <=> IsOpen(tab.eng))
    BY <1>5 DEF Differs, EngFields, IsOpen
  <2> QED
    BY <1>3, <2>1 DEF Farewells, T
<1> HIDE DEF m2
<1>7. DOMAIN e2 = EngFields /\ Differs(e1, e2, {"out"}) /\ e2.out \in Seq(T)
  BY <1>5, <1>6, Sends
<1> HIDE DEF e2
<1>8. /\ DOMAIN f = EngFields /\ f.out = e2.out /\ f.timers = {} /\ f.currentRoom = None
      /\ f.cid = None /\ f.lastCid = None /\ f.token = None /\ f.tokenRoom = None
      /\ f.buffered = e2.buffered /\ f.link = e2.link /\ f.conn = e2.conn
      /\ f.late = e2.late /\ f.idx = e2.idx /\ f.wsFails = e2.wsFails /\ f.missed = e2.missed
  BY <1>7 DEF EngFields
<1> HIDE DEF f
<1>9. /\ f.buffered = tab.eng.buffered /\ f.link = tab.eng.link /\ f.conn = tab.eng.conn
      /\ f.late = tab.eng.late /\ f.idx = tab.eng.idx /\ f.wsFails = tab.eng.wsFails
      /\ f.missed = tab.eng.missed
  BY <1>5, <1>7, <1>8 DEF Differs, EngFields
<1>10. EngOK(f)
  BY <1>1, <1>8, <1>9 DEF EngOK, Timers
<1>11. gone \subseteq Seats
  BY <1>1 DEF EngOK
<1>12. SrvOK(srv, gone)
  BY DEF Inv, SrvOK
<1> HIDE DEF gone
<1>13. DOMAIN q = PageFields /\ q.eng = f /\ q.left = gone /\ q.opened = tab.opened
  BY <1>1 DEF PageFields
<1> HIDE DEF q
<1>14. q.eng.out \in Seq(Honest({}) \cup Farewells)
  BY <1>7, <1>8, <1>13 DEF T
<1>15. Rests(tab') /\ tab'.left = gone /\ tab'.opened = tab.opened
  BY <1>1, <1>2, <1>10, <1>11, <1>13, <1>14, Closes
<1>16. StoreOK(store', gone)
  BY <1>2 DEF StoreOK, EmptyStore
<1> QED
  BY <1>1, <1>2, <1>12, <1>15, <1>16, RestStep DEF Inv

\* SerenadaCore.join: the new engine takes the way back from the storage.
LEMMA OpenCallOK ==
  ASSUME Inv, NEW room \in Rooms, OpenCall(room)
  PROVE  Inv'
<1> DEFINE e == [BlankEngine EXCEPT !.lastCid = store.cid, !.token = store.token,
                                    !.tokenRoom = store.tokenRoom]
           f == [e EXCEPT !.idx = 1, !.connecting = TRUE, !.conn = 1, !.link = "dialing",
                          !.out = <<>>]
           t == [BlankSession EXCEPT !.open = TRUE, !.room = room, !.joining = TRUE,
                                     !.giveUp = TRUE]
<1>1. /\ tab' = [opened |-> tab.opened + 1, ses |-> t, eng |-> DoConnect(e, 1),
                 left |-> tab.left]
      /\ Disconnected /\ UNCHANGED <<store, faults>>
  BY DEF OpenCall
<1>2. DoConnect(e, 1) = f
  <2>1. Len(Transports) \in Nat /\ Len(Transports) # 0
    BY EngineAssumption
  <2>2. ~e.closed /\ ~e.connecting /\ e.conn = 0
    BY DEF BlankEngine
  <2> HIDE DEF e
  <2> QED
    BY <2>1, <2>2 DEF DoConnect
<1>3. /\ DOMAIN f = EngFields /\ f.closed = FALSE /\ f.conn = 1 /\ f.link = "dialing"
      /\ f.late = {} /\ f.idx = 1 /\ f.connecting = TRUE /\ f.once = {} /\ f.wsFails = 0
      /\ f.up = FALSE /\ f.missed = 0 /\ f.retry = FALSE /\ f.out = <<>>
      /\ f.currentRoom = None /\ f.buffered = None /\ f.acked = FALSE
      /\ f.timers = {} /\ f.cid = None /\ f.lastCid = store.cid /\ f.token = store.token
      /\ f.tokenRoom = store.tokenRoom
  BY DEF BlankEngine, EngFields
<1>4. /\ DOMAIN t = SesFields /\ t.open = TRUE /\ t.room = room /\ t.joining = TRUE
      /\ t.asked = FALSE /\ t.told = FALSE
  BY DEF BlankSession, SesFields
<1> HIDE DEF e, f, t
<1>5. /\ DOMAIN tab' = PageFields /\ tab'.eng = f /\ tab'.ses = t /\ tab'.left = tab.left
      /\ tab'.opened = tab.opened + 1
  BY <1>1, <1>2 DEF PageFields
<1>6. tab.opened \in Nat /\ tab.left \subseteq Seats /\ StoreOK(store, tab.left)
  BY ActiveIsBusy DEF PageOK, Inv
<1>7. EngOK(f)
  <2>1. 1 \in 1..Len(Transports) /\ 0 \in 0..FallbackAfter /\ 0 \in 0..PongMisses - 1
    BY EngineAssumption
  <2> QED
    BY <1>3, <1>6, <2>1 DEF EngOK, Timers, StoreOK
<1>8. Line(f)
  BY <1>3 DEF Line
<1>9. Holds(f, tab.left)
  BY <1>3, <1>6 DEF Holds, Who, StoreOK
<1>10. Busy(tab')
  <2>1. PageOK(tab') /\ tab'.opened # 0
    BY <1>4, <1>5, <1>6, <1>7 DEF PageOK
  <2>2. Aims(tab')
    BY <1>3, <1>4, <1>5 DEF Aims
  <2> QED
    BY <1>3, <1>4, <1>5, <1>8, <1>9, <2>1, <2>2 DEF Busy
<1>11. SrvOK(srv', tab.left) /\ srv'.seat = None /\ down' = <<>>
  BY <1>1, Unseated DEF Disconnected, Inv
<1>12. Follows(tab', down', srv')
  BY <1>3, <1>5, <1>11 DEF Follows
<1>13. AnswersOK(down', srv'.next, tab'.left) /\ down' \in Seq(Answers)
  BY <1>11 DEF AnswersOK
<1> QED
  BY <1>1, <1>3, <1>5, <1>6, <1>10, <1>11, <1>12, <1>13, BusyStep DEF Inv

-----------------------------------------------------------------------------
(* What is on its way. *)

\* One more answer.
LEMMA OneMore ==
  ASSUME NEW d \in Seq(Answers), NEW m \in Answers, NEW k, k = d \o <<m>>
  PROVE  /\ k \in Seq(Answers) /\ Len(d) \in Nat
         /\ DOMAIN d = 1..Len(d) /\ DOMAIN k = 1..Len(d) + 1
         /\ k[Len(d) + 1] = m /\ \A i \in 1..Len(d) : k[i] = d[i]
OBVIOUS

\* Two answers more are one, and another.
LEMMA TwoMore ==
  ASSUME NEW d \in Seq(Answers), NEW a \in Answers, NEW b \in Answers
  PROVE  d \o <<a>> \in Seq(Answers) /\ d \o <<a, b>> = (d \o <<a>>) \o <<b>>
<1> DEFINE k == d \o <<a>>
           l == d \o <<a, b>>
           m == k \o <<b>>
           n == Len(d)
<1>1. n \in Nat /\ k \in Seq(Answers) /\ Len(k) = n + 1
  OBVIOUS
<1>2. l \in Seq(Answers) /\ Len(l) = n + 2
  OBVIOUS
<1>3. m \in Seq(Answers) /\ Len(m) = n + 2
  BY <1>1
<1>4. \A i \in 1..n + 2 : l[i] = IF i <= n THEN d[i] ELSE IF i = n + 1 THEN a ELSE b
  BY <1>1, <1>2
<1>5. \A i \in 1..n + 1 : k[i] = IF i <= n THEN d[i] ELSE a
  BY <1>1
<1>6. \A i \in 1..n + 2 : m[i] = IF i <= n + 1 THEN k[i] ELSE b
  <2> HIDE DEF k, n
  <2> QED
    BY <1>1, <1>3
<1>7. \A i \in 1..n + 2 : l[i] = m[i]
  <2> HIDE DEF k, l, m, n
  <2> QED
    BY <1>1, <1>4, <1>5, <1>6
<1>8. l = m
  <2> HIDE DEF k, l, m, n
  <2> QED
    BY <1>1, <1>2, <1>3, <1>7, SeqEqual
<1> QED
  BY <1>1, <1>8

\* One answer less.
LEMMA OneLess ==
  ASSUME NEW d \in Seq(Answers), d # <<>>, NEW k, k = Tail(d)
  PROVE  /\ k \in Seq(Answers) /\ Len(d) \in Nat \ {0} /\ d[1] \in Answers /\ d[1] = Head(d)
         /\ DOMAIN d = 1..Len(d) /\ DOMAIN k = 1..Len(d) - 1
         /\ \A i \in 1..Len(d) - 1 : k[i] = d[i + 1]
<1>1. Len(d) \in Nat \ {0} /\ DOMAIN d = 1..Len(d) /\ d[1] = Head(d) /\ d[1] \in Answers
  OBVIOUS
<1>2. k \in Seq(Answers) /\ DOMAIN k = 1..Len(d) - 1
  OBVIOUS
<1>3. \A i \in 1..Len(d) - 1 : k[i] = d[i + 1]
  OBVIOUS
<1> QED
  BY <1>1, <1>2, <1>3

\* The answers to joins stay good when another comes.
LEMMA AnswersGrow ==
  ASSUME NEW d \in Seq(Answers), NEW m \in Answers, NEW next \in Nat, NEW left,
         AnswersOK(d, next, left),
         m.type = "joined" =>
           m.seat.room = m.room /\ m.seat.n < next /\ m.seat \notin left
  PROVE  AnswersOK(d \o <<m>>, next, left)
<1> DEFINE k == d \o <<m>>
           n == Len(d)
<1>1. /\ n \in Nat /\ DOMAIN d = 1..n /\ DOMAIN k = 1..n + 1 /\ k[n + 1] = m
      /\ \A i \in 1..n : k[i] = d[i]
  BY OneMore
<1> HIDE DEF k, n
<1>2. \A i \in DOMAIN k : i = n + 1 \/ i \in DOMAIN d
  BY <1>1
<1>3. AnswersOK(k, next, left)
  BY <1>1, <1>2 DEF AnswersOK
<1> QED
  BY <1>3 DEF k

\* What the client will be, after one answer more that says it.
LEMMA ComesNew ==
  ASSUME NEW d \in Seq(Answers), NEW m \in Answers, NEW u
  PROVE  /\ m.type = "joined" /\ u.seat = m.seat => SeatComes(d \o <<m>>, u)
         /\ ~Says(m) => SeatComes(d \o <<m>>, u)
         /\ Says(m) /\ u.epoch = m.epoch => EpochComes(d \o <<m>>, u)
<1> DEFINE k == d \o <<m>>
           n == Len(d)
<1>1. /\ n \in Nat /\ DOMAIN d = 1..n /\ DOMAIN k = 1..n + 1 /\ k[n + 1] = m
      /\ \A i \in 1..n : k[i] = d[i]
  BY OneMore
<1> HIDE DEF k, n
<1>2. /\ \A i \in DOMAIN k : i = n + 1 \/ i < n + 1
      /\ n + 1 \in DOMAIN k
  BY <1>1
<1>3. ASSUME m.type = "joined", u.seat = m.seat
      PROVE  SeatComes(k, u)
  BY <1>1, <1>2, <1>3 DEF SeatComes
<1>4. ASSUME ~Says(m)
      PROVE  SeatComes(k, u)
  BY <1>1, <1>2, <1>4 DEF SeatComes, Says
<1>5. ASSUME Says(m), u.epoch = m.epoch
      PROVE  EpochComes(k, u)
  BY <1>1, <1>2, <1>5 DEF EpochComes
<1> QED
  BY <1>3, <1>4, <1>5 DEF k

\* And after one that leaves it as it was.
LEMMA ComesMore ==
  ASSUME NEW d \in Seq(Answers), NEW m \in Answers, NEW v, NEW u
  PROVE  /\ m.type = "room_state" /\ SeatComes(d, v) /\ u.seat = v.seat
              => SeatComes(d \o <<m>>, u)
         /\ ~Says(m) /\ EpochComes(d, v) /\ u.epoch = v.epoch /\ u.overtaken = v.overtaken
              => EpochComes(d \o <<m>>, u)
<1> DEFINE k == d \o <<m>>
           n == Len(d)
<1>1. /\ n \in Nat /\ DOMAIN d = 1..n /\ DOMAIN k = 1..n + 1 /\ k[n + 1] = m
      /\ \A i \in 1..n : k[i] = d[i]
  BY OneMore
<1> HIDE DEF k, n
<1>2. /\ \A i \in DOMAIN k : i = n + 1 \/ i \in DOMAIN d
      /\ \A i \in DOMAIN d : i < n + 1 /\ i \in DOMAIN k /\ k[i] = d[i]
      /\ n + 1 \in DOMAIN k
  BY <1>1
<1>3. ASSUME m.type = "room_state", SeatComes(d, v), u.seat = v.seat
      PROVE  SeatComes(k, u)
  BY <1>1, <1>2, <1>3 DEF SeatComes
<1>4. ASSUME ~Says(m), EpochComes(d, v), u.epoch = v.epoch, u.overtaken = v.overtaken
      PROVE  EpochComes(k, u)
  BY <1>1, <1>2, <1>4 DEF EpochComes
<1> QED
  BY <1>3, <1>4 DEF k

\* What is known does not change when an answer comes that says nothing of it.
LEMMA KnownMore ==
  ASSUME NEW d \in Seq(Answers), NEW m \in Answers, NEW v, NEW u, NEW p
  PROVE  /\ m.type = "room_state" /\ SeatIsKnown(d, v, p.eng) /\ u.seat = v.seat
              => SeatIsKnown(d \o <<m>>, u, p.eng)
         /\ m.type # "room_state" => SeatIsKnown(d \o <<m>>, u, p.eng)
         /\ Says(m) => EpochIsKnown(d \o <<m>>, u, p)
         /\ ~Says(m) /\ EpochIsKnown(d, v, p) /\ u.epoch = v.epoch
            /\ u.overtaken = v.overtaken => EpochIsKnown(d \o <<m>>, u, p)
<1> DEFINE k == d \o <<m>>
           n == Len(d)
<1>1. /\ n \in Nat /\ DOMAIN d = 1..n /\ DOMAIN k = 1..n + 1 /\ k[n + 1] = m
      /\ \A i \in 1..n : k[i] = d[i]
  BY OneMore
<1> HIDE DEF k, n
<1>2. n + 1 \in DOMAIN k /\ \A i \in DOMAIN d : i \in DOMAIN k /\ k[i] = d[i]
  BY <1>1
<1>3. /\ m.type = "room_state" /\ SeatIsKnown(d, v, p.eng) /\ u.seat = v.seat
           => SeatIsKnown(k, u, p.eng)
      /\ m.type # "room_state" => SeatIsKnown(k, u, p.eng)
  BY <1>1, <1>2 DEF SeatIsKnown
<1>4. /\ Says(m) => EpochIsKnown(k, u, p)
      /\ ~Says(m) /\ EpochIsKnown(d, v, p) /\ u.epoch = v.epoch
         /\ u.overtaken = v.overtaken => EpochIsKnown(k, u, p)
  BY <1>1, <1>2 DEF EpochIsKnown
<1> QED
  BY <1>3, <1>4 DEF k

\* What the client will be, and is, when one answer was read.
LEMMA ComesLess ==
  ASSUME NEW d \in Seq(Answers), d # <<>>, NEW v, NEW next, NEW left
  PROVE  /\ AnswersOK(d, next, left) => AnswersOK(Tail(d), next, left)
         /\ SeatComes(d, v) => SeatComes(Tail(d), v)
         /\ EpochComes(d, v) => EpochComes(Tail(d), v)
         /\ SeatComes(d, v) /\ Head(d).type = "joined"
            /\ (\A i \in DOMAIN Tail(d) : Tail(d)[i].type = "room_state")
              => Head(d).seat = v.seat
         /\ EpochComes(d, v) /\ Says(Head(d)) /\ (\A i \in DOMAIN Tail(d) : ~Says(Tail(d)[i]))
              => v.overtaken \/ Head(d).epoch = v.epoch
         /\ Head(d).type = "room_state"
            /\ (\A i \in DOMAIN Tail(d) : Tail(d)[i].type = "room_state")
              => \A i \in DOMAIN d : d[i].type = "room_state"
<1> DEFINE k == Tail(d)
           n == Len(d)
           h == Head(d)
<1>1. /\ n \in Nat \ {0} /\ h = d[1] /\ DOMAIN d = 1..n /\ DOMAIN k = 1..n - 1
      /\ \A i \in 1..n - 1 : k[i] = d[i + 1]
  BY OneLess
<1> HIDE DEF k, n, h
<1>2. /\ \A i \in DOMAIN k : i \in Nat /\ i + 1 \in DOMAIN d /\ 1 < i + 1 /\ k[i] = d[i + 1]
      /\ \A j \in DOMAIN d : j \in Nat /\ (j = 1 \/ j - 1 \in DOMAIN k)
      /\ 1 \in DOMAIN d
  BY <1>1
<1>3. AnswersOK(d, next, left) => AnswersOK(k, next, left)
  BY <1>2 DEF AnswersOK
<1>4. \A j \in DOMAIN d : 1 < j => j - 1 \in DOMAIN k /\ d[j] = k[j - 1]
  BY <1>1, <1>2
<1>5. ASSUME SeatComes(d, v)
      PROVE  SeatComes(k, v)
  <2> SUFFICES ASSUME NEW i \in DOMAIN k, k[i].type = "joined",
                      \A j \in DOMAIN k : i < j => k[j].type = "room_state"
               PROVE  k[i].seat = v.seat
    BY DEF SeatComes
  <2>1. \A j \in DOMAIN d : i + 1 < j => d[j].type = "room_state"
    <3> SUFFICES ASSUME NEW j \in DOMAIN d, i + 1 < j
                 PROVE  d[j].type = "room_state"
      OBVIOUS
    <3>1. 1 < j /\ i < j - 1
      BY <1>2
    <3> QED
      BY <1>4, <3>1
  <2> QED
    BY <1>2, <1>5, <2>1 DEF SeatComes
<1>6. ASSUME EpochComes(d, v)
      PROVE  EpochComes(k, v)
  <2> SUFFICES ASSUME ~v.overtaken, NEW i \in DOMAIN k, Says(k[i]),
                      \A j \in DOMAIN k : i < j => ~Says(k[j])
               PROVE  k[i].epoch = v.epoch
    BY DEF EpochComes
  <2>1. \A j \in DOMAIN d : i + 1 < j => ~Says(d[j])
    <3> SUFFICES ASSUME NEW j \in DOMAIN d, i + 1 < j
                 PROVE  ~Says(d[j])
      OBVIOUS
    <3>1. 1 < j /\ i < j - 1
      BY <1>2
    <3> QED
      BY <1>4, <3>1
  <2> QED
    BY <1>2, <1>6, <2>1 DEF EpochComes
<1>7. ASSUME SeatComes(d, v), h.type = "joined", \A i \in DOMAIN k : k[i].type = "room_state"
      PROVE  h.seat = v.seat
  <2>1. \A j \in DOMAIN d : 1 < j => d[j].type = "room_state"
    BY <1>4, <1>7
  <2>2. 1 \in DOMAIN d /\ d[1].type = "joined"
    BY <1>1, <1>7
  <2> QED
    BY <1>1, <1>7, <2>1, <2>2 DEF SeatComes
<1>8. ASSUME EpochComes(d, v), Says(h), \A i \in DOMAIN k : ~Says(k[i])
      PROVE  v.overtaken \/ h.epoch = v.epoch
  <2>1. \A j \in DOMAIN d : 1 < j => ~Says(d[j])
    BY <1>4, <1>8
  <2>2. 1 \in DOMAIN d /\ Says(d[1])
    BY <1>1, <1>8
  <2> QED
    BY <1>1, <1>8, <2>1, <2>2 DEF EpochComes
<1>9. ASSUME h.type = "room_state", \A i \in DOMAIN k : k[i].type = "room_state"
      PROVE  \A i \in DOMAIN d : d[i].type = "room_state"
  <2> SUFFICES ASSUME NEW i \in DOMAIN d
               PROVE  d[i].type = "room_state"
    OBVIOUS
  <2>1. i = 1 \/ 1 < i
    BY <1>1
  <2> QED
    BY <1>1, <1>4, <1>9, <2>1
<1> QED
  BY <1>3, <1>5, <1>6, <1>7, <1>8, <1>9 DEF k, h

-----------------------------------------------------------------------------
(* Steps of the server. *)

\* After a step of the server that the page has not noticed.
LEMMA ServerStep ==
  ASSUME Inv, UNCHANGED <<tab, store>>, SrvOK(srv', tab.left), down' \in Seq(Answers),
         faults' \in 0..MaxFaults, srv'.next = srv.next, tab.opened # 0,
         Busy(tab) => Follows(tab, down', srv') /\ AnswersOK(down', srv.next, tab.left)
  PROVE  Inv'
<1>1. CASE Busy(tab)
  BY <1>1, BusyStep DEF Inv
<1>2. CASE Rests(tab)
  BY <1>2, RestStep DEF Inv
<1> QED
  BY <1>1, <1>2 DEF Inv

\* A page that is not connected is not seated.
LEMMA SeatedIsConnected ==
  ASSUME Inv, srv.seat # None
  PROVE  /\ tab.opened # 0 /\ srv.seat \in Seats /\ srv.seat.room \in Rooms
         /\ srv.epoch \in Nat /\ srv.next \in Nat /\ down \in Seq(Answers)
         /\ Busy(tab) => /\ tab.eng.up /\ Follows(tab, down, srv)
                         /\ AnswersOK(down, srv.next, tab.left)
<1>1. Busy(tab) => /\ tab.eng.up /\ Follows(tab, down, srv)
                   /\ AnswersOK(down, srv.next, tab.left)
  <2> SUFFICES ASSUME Busy(tab)
               PROVE  /\ tab.eng.up /\ Follows(tab, down, srv)
                      /\ AnswersOK(down, srv.next, tab.left)
    OBVIOUS
  <2>1. Follows(tab, down, srv) /\ AnswersOK(down, srv.next, tab.left)
    BY ActiveIsBusy DEF Busy
  <2> QED
    BY <2>1, Unconnected
<1>2. srv.seat \in Seats /\ srv.epoch \in Nat /\ srv.next \in 1..MaxSeats + 1
  BY DEF Inv, SrvOK
<1>3. MaxSeats \in Nat
  BY EngineAssumption
<1>4. srv.seat.room \in Rooms
  BY <1>2 DEF Seats
<1>5. tab.opened # 0 /\ down \in Seq(Answers)
  BY DEF Inv
<1> QED
  BY <1>1, <1>2, <1>3, <1>4, <1>5

\* A snapshot of a changed membership follows what was on its way.
LEMMA PeersChangeOK == Inv /\ PeersChange => Inv'
<1> SUFFICES ASSUME Inv, PeersChange
             PROVE  Inv'
  OBVIOUS
<1> DEFINE n == srv.epoch + 1
           m == Snapshot(srv.seat.room, n)
<1>1. /\ srv.seat # None /\ srv' = [srv EXCEPT !.epoch = n, !.overtaken = FALSE]
      /\ down' = down \o <<m>> /\ UNCHANGED <<tab, store, faults>>
  BY DEF PeersChange, Reply
<1>2. n \in Nat /\ m \in Answers /\ m.type = "room_state" /\ m.epoch = n
  BY <1>1, SeatedIsConnected DEF Snapshot, Answers
<1> HIDE DEF n, m
<1>3. /\ srv'.seat = srv.seat /\ srv'.next = srv.next /\ srv'.epoch = n
      /\ SrvOK(srv', tab.left)
  BY <1>1, <1>2 DEF Inv, SrvOK, SrvFields
<1>4. down' \in Seq(Answers)
  BY <1>1, <1>2, SeatedIsConnected, OneMore
<1>5. ASSUME Busy(tab)
      PROVE  Follows(tab, down', srv') /\ AnswersOK(down', srv.next, tab.left)
  <2>1. tab.eng.up /\ Follows(tab, down, srv) /\ AnswersOK(down, srv.next, tab.left)
        /\ down \in Seq(Answers) /\ srv.next \in Nat
    BY <1>1, <1>5, SeatedIsConnected
  <2>2. AnswersOK(down', srv.next, tab.left)
    BY <1>1, <1>2, <2>1, AnswersGrow
  <2>3. SeatComes(down, srv) => SeatComes(down', srv')
    <3>1. SeatComes(down, srv) => SeatComes(down \o <<m>>, srv')
      BY <1>2, <1>3, <2>1, ComesMore
    <3> QED
      BY <1>1, <3>1
  <2>4. EpochComes(down', srv')
    <3>1. EpochComes(down \o <<m>>, srv')
      BY <1>2, <1>3, <2>1, ComesNew DEF Says
    <3> QED
      BY <1>1, <3>1
  <2>5. SeatIsKnown(down, srv, tab.eng) => SeatIsKnown(down', srv', tab.eng)
    <3>1. SeatIsKnown(down, srv, tab.eng) => SeatIsKnown(down \o <<m>>, srv', tab.eng)
      BY <1>2, <1>3, <2>1, KnownMore
    <3> QED
      BY <1>1, <3>1
  <2>6. EpochIsKnown(down', srv', tab)
    <3>1. EpochIsKnown(down \o <<m>>, srv', tab)
      BY <1>2, <2>1, KnownMore DEF Says
    <3> QED
      BY <1>1, <3>1
  <2> QED
    BY <2>1, <2>2, <2>3, <2>4, <2>5, <2>6 DEF Follows
<1>6. tab.opened # 0
  BY <1>1, SeatedIsConnected
<1>7. faults' \in 0..MaxFaults
  BY <1>1 DEF Inv
<1> QED
  BY <1>1, <1>3, <1>4, <1>5, <1>6, <1>7, ServerStep

\* The room is gone: a last message says so.
LEMMA RoomEndsOK == Inv /\ RoomEnds => Inv'
<1> SUFFICES ASSUME Inv, RoomEnds
             PROVE  Inv'
  OBVIOUS
<1> DEFINE m == [type |-> "room_ended", room |-> srv.seat.room]
           o == srv.ended \cup {srv.seat.room}
<1>1. /\ srv.seat # None /\ srv' = [srv EXCEPT !.seat = None, !.ended = o]
      /\ down' = down \o <<m>> /\ UNCHANGED <<tab, store>> /\ Fault
  BY DEF RoomEnds, Reply
<1>2. m \in Answers /\ m.type = "room_ended"
  BY <1>1, SeatedIsConnected DEF Answers
<1>3. o \subseteq Rooms
  BY <1>1, SeatedIsConnected DEF Inv, SrvOK
<1> HIDE DEF m, o
<1>4. /\ srv'.next = srv.next /\ srv'.epoch = srv.epoch /\ srv'.overtaken = srv.overtaken
      /\ SrvOK(srv', tab.left)
  BY <1>1, <1>3 DEF Inv, SrvOK, SrvFields
<1>5. down' \in Seq(Answers)
  BY <1>1, <1>2, SeatedIsConnected, OneMore
<1>6. ASSUME Busy(tab)
      PROVE  Follows(tab, down', srv') /\ AnswersOK(down', srv.next, tab.left)
  <2>1. tab.eng.up /\ Follows(tab, down, srv) /\ AnswersOK(down, srv.next, tab.left)
        /\ down \in Seq(Answers) /\ srv.next \in Nat
    BY <1>1, <1>6, SeatedIsConnected
  <2>2. AnswersOK(down', srv.next, tab.left)
    BY <1>1, <1>2, <2>1, AnswersGrow
  <2>3. ~Says(m) /\ m.type # "room_state"
    BY <1>2 DEF Says
  <2>4. SeatComes(down', srv') /\ (EpochComes(down, srv) => EpochComes(down', srv'))
    <3>1. SeatComes(down \o <<m>>, srv')
      BY <1>2, <2>1, <2>3, ComesNew
    <3>2. EpochComes(down, srv) => EpochComes(down \o <<m>>, srv')
      BY <1>2, <1>4, <2>1, <2>3, ComesMore
    <3> QED
      BY <1>1, <3>1, <3>2
  <2>5. SeatIsKnown(down', srv', tab.eng)
        /\ (EpochIsKnown(down, srv, tab) => EpochIsKnown(down', srv', tab))
    <3>1. SeatIsKnown(down \o <<m>>, srv', tab.eng)
      BY <1>2, <2>1, <2>3, KnownMore
    <3>2. EpochIsKnown(down, srv, tab) => EpochIsKnown(down \o <<m>>, srv', tab)
      BY <1>2, <1>4, <2>1, <2>3, KnownMore
    <3> QED
      BY <1>1, <3>1, <3>2
  <2> QED
    BY <2>1, <2>2, <2>4, <2>5 DEF Follows
<1>7. tab.opened # 0
  BY <1>1, SeatedIsConnected
<1>8. faults' \in 0..MaxFaults
  BY <1>1, <1>7, FaultCounted
<1> QED
  BY <1>1, <1>4, <1>5, <1>6, <1>7, <1>8, ServerStep

\* Tokens that run out change nothing for who is seated.
LEMMA TokensExpireOK == Inv /\ TokensExpire => Inv'
<1> SUFFICES ASSUME Inv, TokensExpire
             PROVE  Inv'
  OBVIOUS
<1>1. /\ srv.valid # {} /\ srv' = [srv EXCEPT !.valid = {}] /\ Fault
      /\ UNCHANGED <<tab, store, down>>
  BY DEF TokensExpire
<1>2. tab.opened # 0 /\ down \in Seq(Answers)
  BY <1>1 DEF Inv
<1>3. faults' \in 0..MaxFaults
  BY <1>1, <1>2, FaultCounted
<1>4. /\ srv'.seat = srv.seat /\ srv'.next = srv.next /\ srv'.epoch = srv.epoch
      /\ srv'.overtaken = srv.overtaken /\ SrvOK(srv', tab.left)
  BY <1>1 DEF Inv, SrvOK, SrvFields
<1>5. ASSUME Busy(tab)
      PROVE  Follows(tab, down, srv') /\ AnswersOK(down, srv.next, tab.left)
  <2>1. Follows(tab, down, srv) /\ AnswersOK(down, srv.next, tab.left)
    BY <1>5, ActiveIsBusy DEF Busy
  <2> QED
    BY <1>4, <2>1 DEF Follows, SeatComes, EpochComes, SeatIsKnown, EpochIsKnown
<1> QED
  BY <1>1, <1>2, <1>3, <1>4, <1>5, ServerStep

\* One broadcast passes another: the answers to joins stay where they are.
LEMMA OvertakesOK == Inv /\ Overtakes => Inv'
<1> SUFFICES ASSUME Inv, Overtakes
             PROVE  Inv'
  OBVIOUS
<1>1. PICK i \in 1..Len(down) - 1 :
        /\ down[i].type = "room_state" /\ down[i + 1].type = "room_state"
        /\ down' = [down EXCEPT ![i] = down[i + 1], ![i + 1] = down[i]]
  BY DEF Overtakes
<1>2. srv' = [srv EXCEPT !.overtaken = TRUE] /\ UNCHANGED <<tab, store, faults>>
  BY DEF Overtakes
<1>3. /\ down \in Seq(Answers) /\ Len(down) \in Nat /\ DOMAIN down = 1..Len(down)
      /\ i \in DOMAIN down /\ i + 1 \in DOMAIN down
  <2>1. down \in Seq(Answers)
    BY DEF Inv
  <2> QED
    BY <1>1, <2>1
<1>4. /\ down' \in Seq(Answers) /\ DOMAIN down' = DOMAIN down
      /\ \A j \in DOMAIN down : down'[j].type = down[j].type
      /\ \A j \in DOMAIN down : down[j].type = "joined" => down'[j] = down[j]
  <2> DEFINE a == down[i]
             b == down[i + 1]
  <2>1. a \in Answers /\ b \in Answers
    BY <1>3
  <2>2. down' = [down EXCEPT ![i] = b, ![i + 1] = a]
    BY <1>1
  <2>3. a.type = "room_state" /\ b.type = "room_state"
    BY <1>1
  <2> HIDE DEF a, b
  <2>4. down' \in Seq(Answers) /\ DOMAIN down' = DOMAIN down
    BY <1>3, <2>1, <2>2
  <2>5. \A j \in DOMAIN down : down'[j] = IF j = i + 1 THEN a ELSE IF j = i THEN b ELSE down[j]
    BY <1>3, <2>2
  <2> QED
    BY <1>1, <2>3, <2>4, <2>5
<1>5. /\ srv'.seat = srv.seat /\ srv'.next = srv.next /\ srv'.overtaken = TRUE
      /\ SrvOK(srv', tab.left)
  BY <1>2 DEF Inv, SrvOK, SrvFields
<1>6. ASSUME Busy(tab)
      PROVE  Follows(tab, down', srv') /\ AnswersOK(down', srv.next, tab.left)
  <2>1. Follows(tab, down, srv) /\ AnswersOK(down, srv.next, tab.left) /\ down # <<>>
    BY <1>3, <1>6, ActiveIsBusy DEF Busy
  <2>2. AnswersOK(down', srv.next, tab.left)
    BY <1>4, <2>1 DEF AnswersOK
  <2>3. SeatComes(down, srv) => SeatComes(down', srv')
    BY <1>4, <1>5 DEF SeatComes
  <2>4. EpochComes(down', srv') /\ EpochIsKnown(down', srv', tab)
    BY <1>5 DEF EpochComes, EpochIsKnown
  <2>5. SeatIsKnown(down, srv, tab.eng) => SeatIsKnown(down', srv', tab.eng)
    BY <1>4, <1>5 DEF SeatIsKnown
  <2> QED
    BY <2>1, <2>2, <2>3, <2>4, <2>5 DEF Follows
<1>7. CASE Busy(tab)
  BY <1>2, <1>4, <1>5, <1>6, <1>7, BusyStep DEF Inv
<1>8. CASE Rests(tab)
  <2>1. srv'.valid = srv.valid
    BY <1>2 DEF Inv, SrvOK, SrvFields
  <2> QED
    BY <1>2, <1>4, <1>5, <1>8, <2>1, RestStep DEF Inv
<1> QED
  BY <1>7, <1>8 DEF Inv

\* The page without what the server has taken from it.
LEMMA OneSent ==
  ASSUME Inv, tab.eng.out # <<>>, NEW f, f = [tab.eng EXCEPT !.out = Tail(tab.eng.out)],
         NEW q, q = [tab EXCEPT !.eng = f]
  PROVE  /\ q.left = tab.left /\ q.opened = tab.opened /\ q.ses = tab.ses
         /\ q.eng.cid = tab.eng.cid /\ q.eng.link = tab.eng.link /\ q.eng.up = tab.eng.up
         /\ q.eng.acked = tab.eng.acked
         /\ Busy(tab) => Busy(q) /\ Head(tab.eng.out) \in Honest(tab.left)
         /\ Rests(tab) => Rests(q) /\ Head(tab.eng.out) \in Honest({}) \cup Farewells
<1> DEFINE o == Tail(tab.eng.out)
<1>1. DOMAIN tab = PageFields /\ DOMAIN tab.eng = EngFields /\ PageOK(tab) /\ EngOK(tab.eng)
  BY ActiveIsBusy DEF PageOK, EngOK
<1> HIDE DEF o
<1>2. DOMAIN f = EngFields /\ Differs(tab.eng, f, {"out"}) /\ f.out = o
  BY <1>1 DEF Differs, EngFields, o
<1>3. /\ q.eng = f /\ q.ses = tab.ses /\ q.left = tab.left /\ q.opened = tab.opened
      /\ DOMAIN q = PageFields
  BY <1>1 DEF PageFields
<1>4. /\ f.cid = tab.eng.cid /\ f.lastCid = tab.eng.lastCid /\ f.token = tab.eng.token
      /\ f.tokenRoom = tab.eng.tokenRoom /\ f.buffered = tab.eng.buffered
      /\ f.currentRoom = tab.eng.currentRoom /\ f.conn = tab.eng.conn /\ f.idx = tab.eng.idx
      /\ f.closed = tab.eng.closed /\ f.acked = tab.eng.acked /\ f.link = tab.eng.link
      /\ f.timers = tab.eng.timers /\ f.up = tab.eng.up /\ f.late = tab.eng.late
      /\ f.wsFails = tab.eng.wsFails /\ f.missed = tab.eng.missed
      /\ f.connecting = tab.eng.connecting /\ f.retry = tab.eng.retry
  BY <1>2 DEF Differs, EngFields
<1>5. ASSUME Busy(tab)
      PROVE  Busy(q) /\ Head(tab.eng.out) \in Honest(tab.left)
  <2>1. Line(tab.eng) /\ tab.eng.out \in Seq(Honest(tab.left))
    BY <1>5 DEF Busy, Holds
  <2>2. o \in Seq(Honest(tab.left)) /\ Head(tab.eng.out) \in Honest(tab.left)
    BY <2>1, Parts DEF o
  <2>3. Line(f) /\ Differs(tab.eng, f, {"late", "missed", "link", "out"})
    BY <1>2, <2>1, LineKept DEF Differs, Aside
  <2>4. f.late \subseteq 0..tab.eng.conn /\ f.missed \in 0..PongMisses - 1
        /\ f.link \in {"none", "dialing", "open", "hung"} /\ f.out \in Seq(Honest(tab.left))
    BY <1>1, <1>2, <1>4, <2>2 DEF EngOK
  <2> QED
    BY <1>2, <1>5, <2>2, <2>3, <2>4, Unjoined
<1>6. ASSUME Rests(tab)
      PROVE  Rests(q) /\ Head(tab.eng.out) \in Honest({}) \cup Farewells
  <2> DEFINE T == Honest({}) \cup Farewells
  <2>1. tab.eng.out \in Seq(T)
    BY <1>6 DEF Rests
  <2> HIDE DEF T
  <2>2. o \in Seq(T) /\ Head(tab.eng.out) \in T
    BY <2>1, Parts DEF o
  <2>3. EngOK(f)
    BY <1>1, <1>2, <1>4 DEF EngOK
  <2>4. PageOK(q)
    BY <1>1, <1>3, <2>3 DEF PageOK
  <2>5. q.eng.out \in Seq(Honest({}) \cup Farewells)
    BY <1>2, <1>3, <2>2 DEF T
  <2> QED
    BY <1>3, <1>4, <1>6, <2>2, <2>4, <2>5 DEF Rests, T
<1> QED
  BY <1>3, <1>4, <1>5, <1>6

\* A join is refused: the answer says nothing of seats or epochs.
LEMMA RefusalOK ==
  ASSUME Inv, Busy(tab), Follows(tab, down, srv), AnswersOK(down, srv.next, tab.left),
         tab.eng.up, NEW m \in Answers, ~Says(m), down' = down \o <<m>>
  PROVE  Follows(tab, down', srv) /\ AnswersOK(down', srv.next, tab.left)
<1>1. down \in Seq(Answers) /\ srv.next \in Nat
  BY EngineAssumption DEF Inv, SrvOK
<1>2. m.type # "joined" /\ m.type # "room_state"
  BY DEF Says
<1>3. AnswersOK(down', srv.next, tab.left)
  BY <1>1, <1>2, AnswersGrow
<1>4. SeatComes(down', srv) /\ (EpochComes(down, srv) => EpochComes(down', srv))
  <2>1. SeatComes(down \o <<m>>, srv)
    BY <1>1, ComesNew
  <2>2. EpochComes(down, srv) => EpochComes(down \o <<m>>, srv)
    BY <1>1, ComesMore
  <2> QED
    BY <2>1, <2>2
<1>5. SeatIsKnown(down', srv, tab.eng)
      /\ (EpochIsKnown(down, srv, tab) => EpochIsKnown(down', srv, tab))
  <2>1. SeatIsKnown(down \o <<m>>, srv, tab.eng)
    BY <1>1, <1>2, KnownMore
  <2>2. EpochIsKnown(down, srv, tab) => EpochIsKnown(down \o <<m>>, srv, tab)
    BY <1>1, KnownMore
  <2> QED
    BY <2>1, <2>2
<1> QED
  BY <1>3, <1>4, <1>5 DEF Follows

\* A join is answered with a seat that was not left, and a snapshot.
LEMMA SeatingOK ==
  ASSUME Inv, Busy(tab), AnswersOK(down, srv.next, tab.left), tab.eng.up,
         NEW s \in Seats, NEW room \in Rooms, s.room = room, Seat(s, room),
         \/ s.n = srv.next /\ srv.next <= MaxSeats
         \/ s \in srv.valid /\ s \notin tab.left
  PROVE  /\ Follows(tab, down', srv') /\ AnswersOK(down', srv'.next, tab.left)
         /\ SrvOK(srv', tab.left) /\ down' \in Seq(Answers) /\ srv.next <= srv'.next
<1> DEFINE n == srv.epoch + 1
           next == IF s.n = srv.next THEN srv.next + 1 ELSE srv.next
           a == [type |-> "joined", room |-> room, seat |-> s, epoch |-> n]
           b == Snapshot(room, n)
           k == down \o <<a>>
           val == srv.valid \cup {s}
           end == srv.ended \ {room}
<1>1. /\ down \in Seq(Answers) /\ srv.epoch \in Nat /\ srv.next \in 1..MaxSeats + 1
      /\ MaxSeats \in Nat /\ srv.valid \subseteq Seats /\ srv.ended \subseteq Rooms
      /\ \A x \in srv.valid \cup tab.left : x.n < srv.next
      /\ DOMAIN srv = SrvFields
  BY EngineAssumption DEF Inv, SrvOK
<1>2. srv' = [srv EXCEPT !.seat = s, !.epoch = n, !.valid = val, !.next = next, !.ended = end,
                !.overtaken = FALSE]
      /\ down' = down \o <<a, b>>
  BY DEF Seat, Reply
<1>3. next \in 1..MaxSeats + 1 /\ s.n < next /\ srv.next <= next /\ s \notin tab.left
      /\ (\A x \in srv.valid \cup tab.left : x.n < next) /\ next \in Nat
  <2>1. CASE s.n = srv.next /\ srv.next <= MaxSeats
    <3>1. next = srv.next + 1 /\ ~(s.n < srv.next)
      BY <1>1, <2>1
    <3>2. s \notin tab.left
      BY <1>1, <3>1
    <3>3. \A x \in srv.valid \cup tab.left : x.n \in Nat
      BY <1>1, ActiveIsBusy DEF PageOK, Seats
    <3>4. \A x \in srv.valid \cup tab.left : x.n < next
      <4> HIDE DEF next
      <4> QED
        BY <1>1, <3>1, <3>3
    <3> QED
      BY <1>1, <2>1, <3>1, <3>2, <3>4
  <2>2. CASE s \in srv.valid /\ s \notin tab.left
    <3>1. s.n < srv.next /\ s.n \in Nat
      BY <1>1, <2>2 DEF Seats
    <3>2. next = srv.next
      BY <1>1, <3>1
    <3> QED
      BY <1>1, <2>2, <3>1, <3>2
  <2> QED
    BY <2>1, <2>2
<1>4. n \in Nat /\ val \subseteq Seats /\ end \subseteq Rooms
      /\ \A x \in val \cup tab.left : x.n < next
  BY <1>1, <1>3
<1>5. /\ a \in Answers /\ a.type = "joined" /\ a.seat = s /\ a.room = room /\ a.epoch = n
      /\ b \in Answers /\ b.type = "room_state" /\ b.epoch = n
  <2> HIDE DEF n
  <2> QED
    BY <1>4 DEF Answers, Snapshot
<1> HIDE DEF n, next, a, b, val, end
<1>6. /\ srv'.seat = s /\ srv'.epoch = n /\ srv'.next = next
      /\ SrvOK(srv', tab.left)
  BY <1>1, <1>2, <1>3, <1>4 DEF SrvOK, SrvFields
<1>7. k \in Seq(Answers) /\ down' = k \o <<b>>
  BY <1>1, <1>2, <1>5, TwoMore
<1>8. AnswersOK(down, next, tab.left)
  <2>1. \A i \in DOMAIN down : down[i].type = "joined" => down[i].seat.n \in Nat
    BY <1>1 DEF Answers, Seats
  <2>2. \A i \in DOMAIN down : down[i].type = "joined" => down[i].seat.n < next
    BY <1>1, <1>3, <2>1 DEF AnswersOK
  <2> QED
    BY <2>2 DEF AnswersOK
<1>9. AnswersOK(k, next, tab.left) /\ SeatComes(k, srv')
  <2>1. AnswersOK(down \o <<a>>, next, tab.left)
    BY <1>1, <1>3, <1>5, <1>8, AnswersGrow
  <2>2. SeatComes(down \o <<a>>, srv')
    BY <1>1, <1>5, <1>6, ComesNew
  <2> QED
    BY <2>1, <2>2 DEF k
<1> HIDE DEF k
<1>10. AnswersOK(k \o <<b>>, next, tab.left)
  BY <1>3, <1>5, <1>7, <1>9, AnswersGrow
<1>11. SeatComes(k \o <<b>>, srv') /\ EpochComes(k \o <<b>>, srv')
  <2>1. SeatComes(k \o <<b>>, srv')
    BY <1>5, <1>7, <1>9, ComesMore
  <2>2. EpochComes(k \o <<b>>, srv')
    BY <1>5, <1>6, <1>7, ComesNew DEF Says
  <2> QED
    BY <2>1, <2>2
<1>12. SeatIsKnown(k, srv', tab.eng)
  <2>1. SeatIsKnown(down \o <<a>>, srv', tab.eng)
    BY <1>1, <1>5, KnownMore
  <2> QED
    BY <2>1 DEF k
<1>13. SeatIsKnown(k \o <<b>>, srv', tab.eng) /\ EpochIsKnown(k \o <<b>>, srv', tab)
  BY <1>5, <1>7, <1>12, KnownMore DEF Says
<1>14. down' \in Seq(Answers)
  BY <1>5, <1>7, OneMore
<1> QED
  BY <1>3, <1>6, <1>7, <1>10, <1>11, <1>13, <1>14 DEF Follows

\* Of the page, Follows reads these only.
LEMMA FollowsKept ==
  ASSUME NEW p, NEW q, NEW d, NEW v, Follows(p, d, v), q.eng.link = p.eng.link,
         q.eng.up = p.eng.up, q.eng.acked = p.eng.acked, q.eng.cid = p.eng.cid,
         q.ses = p.ses
  PROVE  Follows(q, d, v)
BY DEF Follows, SeatIsKnown, EpochIsKnown

\* A join is refused, or it gets a new seat, or the one whose token it presents.
LEMMA HandlesJoin ==
  ASSUME NEW left \in SUBSET Seats, SrvOK(srv, left), NEW m \in Honest(left), HandleJoin(m)
  PROVE  \/ /\ UNCHANGED srv
            /\ \E a \in Answers : ~Says(a) /\ down' = down \o <<a>>
         \/ \E s \in Seats : /\ s.room = m.room /\ Seat(s, m.room)
                             /\ \/ s.n = srv.next /\ srv.next <= MaxSeats
                                \/ s \in srv.valid /\ s \notin left
<1>1. m.room \in Rooms /\ (m.token # None => m.token \notin left)
  BY DEF Honest, JoinMessages
<1>2. ASSUME NEW code \in {"ROOM_ENDED", "ROOM_FULL", "INVALID_RECONNECT_TOKEN"},
             down' = down \o <<[type |-> code, room |-> m.room]>>
      PROVE  \E a \in Answers : ~Says(a) /\ down' = down \o <<a>>
  <2> DEFINE a == [type |-> code, room |-> m.room]
  <2>1. a \in Answers /\ ~Says(a)
    BY <1>1 DEF Answers, Says
  <2> QED
    BY <1>2, <2>1
<1>3. CASE m.token = None /\ srv.next > MaxSeats
  BY <1>2, <1>3 DEF HandleJoin, Reply
<1>4. CASE m.token = None /\ ~(srv.next > MaxSeats)
  <2> DEFINE s == [room |-> m.room, n |-> srv.next]
  <2>1. Seat(s, m.room)
    BY <1>4 DEF HandleJoin
  <2>2. srv.next \in 1..MaxSeats
    <3>1. srv.next \in 1..MaxSeats + 1 /\ MaxSeats \in Nat
      BY EngineAssumption DEF SrvOK
    <3> QED
      BY <1>4, <3>1
  <2>3. s \in Seats /\ s.room = m.room /\ s.n = srv.next
    BY <1>1, <2>2 DEF Seats
  <2>4. srv.next <= MaxSeats
    BY <2>2, EngineAssumption
  <2> HIDE DEF s
  <2> QED
    BY <2>1, <2>3, <2>4
<1>5. CASE m.token # None
  <2>1. CASE m.token \notin srv.valid \/ m.token # m.cid \/ m.token.room # m.room
    BY <1>2, <1>5, <2>1 DEF HandleJoin, Reply
  <2>2. CASE ~(m.token \notin srv.valid \/ m.token # m.cid \/ m.token.room # m.room)
    <3>1. CASE m.room \in srv.ended
      BY <1>2, <1>5, <2>2, <3>1 DEF HandleJoin, Reply
    <3>2. CASE m.room \notin srv.ended
      <4>1. Seat(m.token, m.room)
        BY <1>5, <2>2, <3>2 DEF HandleJoin
      <4>2. m.token \in Seats
        BY <2>2 DEF SrvOK
      <4> QED
        BY <1>1, <1>5, <2>2, <4>1, <4>2
    <3> QED
      BY <3>1, <3>2
  <2> QED
    BY <2>1, <2>2
<1> QED
  BY <1>3, <1>4, <1>5

\* The server takes one message: a join, or the last words of a page at rest.
LEMMA ServerReceivesOK == Inv /\ ServerReceives => Inv'
<1> SUFFICES ASSUME Inv, ServerReceives
             PROVE  Inv'
  OBVIOUS
<1> DEFINE m == Head(tab.eng.out)
           f == [tab.eng EXCEPT !.out = Tail(tab.eng.out)]
<1>1. /\ tab.eng.out # <<>> /\ tab' = [tab EXCEPT !.eng = f]
      /\ UNCHANGED <<store, faults>>
  BY DEF ServerReceives
<1>2. \/ m.type = "join" /\ tab.eng.link = "open" /\ HandleJoin(m)
      \/ m.type = "leave" /\ srv' = [srv EXCEPT !.seat = None] /\ UNCHANGED down
      \/ /\ m.type = "end_room" /\ UNCHANGED down
         /\ srv' = [srv EXCEPT !.seat = None, !.ended = @ \cup {m.room}]
      \/ m.type = "join" /\ tab.eng.link = "none" /\ UNCHANGED <<srv, down>>
  BY DEF ServerReceives
<1> HIDE DEF m, f
<1>3. /\ tab'.left = tab.left /\ tab'.opened = tab.opened /\ tab'.ses = tab.ses
      /\ tab'.eng.cid = tab.eng.cid /\ tab'.eng.link = tab.eng.link
      /\ tab'.eng.up = tab.eng.up /\ tab'.eng.acked = tab.eng.acked
      /\ Busy(tab) => Busy(tab') /\ m \in Honest(tab.left)
      /\ Rests(tab) => Rests(tab') /\ m \in Honest({}) \cup Farewells
  BY <1>1, OneSent DEF m, f
<1>4. /\ StoreOK(store, tab.left) /\ SrvOK(srv, tab.left) /\ down \in Seq(Answers)
      /\ faults \in 0..MaxFaults /\ tab.left \in SUBSET Seats
      /\ (tab.eng.cid # None => tab.eng.cid.n < srv.next /\ tab.eng.cid \in Seats)
      /\ srv.next \in Nat
  <2>1. StoreOK(store, tab.left) /\ SrvOK(srv, tab.left) /\ down \in Seq(Answers)
        /\ faults \in 0..MaxFaults /\ (tab.eng.cid # None => tab.eng.cid.n < srv.next)
    BY DEF Inv
  <2>2. tab.left \in SUBSET Seats /\ (tab.eng.cid # None => tab.eng.cid \in Seats)
    BY ActiveIsBusy DEF PageOK, EngOK
  <2>3. srv.next \in Nat
    BY <2>1, EngineAssumption DEF SrvOK
  <2> QED
    BY <2>1, <2>2, <2>3
<1>5. CASE Busy(tab)
  <2>1. /\ Follows(tab, down, srv) /\ AnswersOK(down, srv.next, tab.left)
        /\ (tab.eng.link = "open" => tab.eng.up)
    BY <1>5, ActiveIsBusy DEF Busy, Line
  <2>2. m \in Honest(tab.left) /\ m.type = "join" /\ m.room \in Rooms
    BY <1>3, <1>5 DEF Honest, JoinMessages
  <2>3. CASE tab.eng.link = "none" /\ UNCHANGED <<srv, down>>
    <3>1. Follows(tab', down', srv')
      BY <1>3, <2>1, <2>3, FollowsKept
    <3> QED
      BY <1>1, <1>3, <1>4, <1>5, <2>1, <2>3, <3>1, BusyStep
  <2>4. ASSUME tab.eng.up, UNCHANGED srv, NEW a \in Answers, ~Says(a), down' = down \o <<a>>
        PROVE  Inv'
    <3>1. Follows(tab, down', srv) /\ AnswersOK(down', srv.next, tab.left)
      BY <1>5, <2>1, <2>4, RefusalOK
    <3>2. Follows(tab', down', srv')
      BY <1>3, <2>4, <3>1, FollowsKept
    <3>3. down' \in Seq(Answers)
      BY <1>4, <2>4, OneMore
    <3> QED
      BY <1>1, <1>3, <1>4, <1>5, <2>4, <3>1, <3>2, <3>3, BusyStep
  <2>5. ASSUME tab.eng.up, NEW s \in Seats, s.room = m.room, Seat(s, m.room),
               \/ s.n = srv.next /\ srv.next <= MaxSeats
               \/ s \in srv.valid /\ s \notin tab.left
        PROVE  Inv'
    <3>1. /\ Follows(tab, down', srv') /\ AnswersOK(down', srv'.next, tab.left)
          /\ SrvOK(srv', tab.left) /\ down' \in Seq(Answers) /\ srv.next <= srv'.next
      BY <1>5, <2>1, <2>2, <2>5, SeatingOK
    <3>2. Follows(tab', down', srv')
      BY <1>3, <3>1, FollowsKept
    <3>3. tab.eng.cid # None => tab.eng.cid.n < srv'.next
      <4>1. srv'.next \in Nat
        BY <3>1, EngineAssumption DEF SrvOK
      <4>2. tab.eng.cid # None => tab.eng.cid.n \in Nat
        BY <1>4 DEF Seats
      <4> QED
        BY <1>4, <3>1, <4>1, <4>2
    <3> QED
      BY <1>1, <1>3, <1>4, <1>5, <3>1, <3>2, <3>3, BusyStep
  <2>6. CASE tab.eng.link = "open" /\ HandleJoin(m)
    BY <1>4, <2>1, <2>2, <2>4, <2>5, <2>6, HandlesJoin
  <2> QED
    BY <1>2, <2>2, <2>3, <2>6
<1>6. CASE Rests(tab)
  <2>1. tab.eng.link = "none" /\ Rests(tab') /\ m \in Honest({}) \cup Farewells
    BY <1>3, <1>6 DEF Rests
  <2>2. down' \in Seq(Answers)
    BY <1>2, <1>4, <2>1
  <2>3. SrvOK(srv', tab.left) /\ (srv.seat = None /\ srv.valid = {} =>
                                     srv'.seat = None /\ srv'.valid = {})
    <3>1. CASE srv' = [srv EXCEPT !.seat = None]
      BY <1>4, <3>1, Unseated
    <3>2. CASE m.type = "end_room" /\ srv' = [srv EXCEPT !.seat = None, !.ended = @ \cup {m.room}]
      <4>1. m.room \in Rooms
        BY <2>1, <3>2 DEF Honest, JoinMessages, Farewells
      <4> QED
        BY <1>4, <3>2, <4>1 DEF SrvOK, SrvFields
    <3>3. CASE UNCHANGED srv
      BY <1>4, <3>3
    <3> QED
      BY <1>2, <2>1, <3>1, <3>2, <3>3
  <2> QED
    BY <1>1, <1>3, <1>4, <2>1, <2>2, <2>3, RestStep DEF Inv
<1> QED
  BY <1>5, <1>6 DEF Inv

-----------------------------------------------------------------------------
(* What the server says. *)

\* What the next answer to be read says, with what is on its way behind it.
LEMMA NextAnswer ==
  ASSUME Inv, tab.eng.link = "open", down # <<>>
  PROVE  LET m == Head(down)
             k == Tail(down)
         IN  /\ Busy(tab) /\ m \in Answers /\ k \in Seq(Answers)
             /\ AnswersOK(k, srv.next, tab.left) /\ SeatComes(k, srv) /\ EpochComes(k, srv)
             /\ m.type = "joined" =>
                  m.seat.room = m.room /\ m.seat.n < srv.next /\ m.seat \notin tab.left
             /\ m.type = "joined" /\ (\A i \in DOMAIN k : k[i].type = "room_state")
                  => m.seat = srv.seat
             /\ Says(m) /\ (\A i \in DOMAIN k : ~Says(k[i]))
                  => srv.overtaken \/ m.epoch = srv.epoch
             /\ m.type = "room_state" /\ SeatIsKnown(down, srv, tab.eng)
                  => SeatIsKnown(k, srv, tab.eng)
<1> DEFINE m == Head(down)
           k == Tail(down)
<1>1. /\ Busy(tab) /\ SeatComes(down, srv) /\ EpochComes(down, srv)
      /\ AnswersOK(down, srv.next, tab.left) /\ down \in Seq(Answers)
  BY ActiveIsBusy DEF Follows, Inv
<1>2. m \in Answers /\ k \in Seq(Answers) /\ m = down[1] /\ 1 \in DOMAIN down
  BY <1>1, OneLess
<1>3. m.type = "joined" =>
        m.seat.room = m.room /\ m.seat.n < srv.next /\ m.seat \notin tab.left
  BY <1>1, <1>2 DEF AnswersOK
<1>4. /\ AnswersOK(k, srv.next, tab.left) /\ SeatComes(k, srv) /\ EpochComes(k, srv)
      /\ m.type = "joined" /\ (\A i \in DOMAIN k : k[i].type = "room_state")
           => m.seat = srv.seat
      /\ Says(m) /\ (\A i \in DOMAIN k : ~Says(k[i]))
           => srv.overtaken \/ m.epoch = srv.epoch
      /\ m.type = "room_state" /\ (\A i \in DOMAIN k : k[i].type = "room_state")
           => \A i \in DOMAIN down : down[i].type = "room_state"
  BY <1>1, ComesLess
<1> HIDE DEF m, k
<1>5. m.type = "room_state" /\ SeatIsKnown(down, srv, tab.eng) => SeatIsKnown(k, srv, tab.eng)
  BY <1>4 DEF SeatIsKnown
<1> QED
  BY <1>1, <1>2, <1>3, <1>4, <1>5 DEF m, k

\* joined: the client is who the answer says, and keeps its token.
LEMMA JoinedOK ==
  ASSUME Inv, tab.eng.link = "open", down # <<>>, Head(down).type = "joined",
         Joined(Head(down)), UNCHANGED faults,
         down' = IF tab'.eng.link = "open" THEN Tail(down) ELSE <<>>
  PROVE  Inv'
<1> DEFINE m == Head(down)
           k == Tail(down)
           f == [tab.eng EXCEPT !.cid = m.seat, !.timers = {}, !.acked = TRUE,
                   !.epoch = m.epoch, !.token = m.seat, !.tokenRoom = m.room]
           t == [tab.ses EXCEPT !.asked = FALSE, !.joining = FALSE, !.owed = FALSE,
                   !.giveUp = FALSE, !.roster = m.epoch]
<1>1. /\ Busy(tab) /\ m \in Answers /\ k \in Seq(Answers)
      /\ AnswersOK(k, srv.next, tab.left) /\ SeatComes(k, srv) /\ EpochComes(k, srv)
      /\ m.seat.room = m.room /\ m.seat.n < srv.next /\ m.seat \notin tab.left
      /\ ((\A i \in DOMAIN k : k[i].type = "room_state") => m.seat = srv.seat)
      /\ ((\A i \in DOMAIN k : ~Says(k[i])) => srv.overtaken \/ m.epoch = srv.epoch)
  BY NextAnswer DEF Says
<1>2. /\ tab' = [tab EXCEPT !.eng = f, !.ses = t] /\ UNCHANGED srv
      /\ store' = [cid |-> m.seat, token |-> m.seat, tokenRoom |-> m.room,
                   rec |-> [room |-> m.room, cid |-> m.seat, token |-> m.seat]]
  <2>1. tab' = [tab EXCEPT !.eng = f, !.ses = t]
    BY DEF Joined, SeatOf
  <2> QED
    BY <2>1 DEF Joined, Persist
<1>3. m.seat \in Seats /\ m.room \in Rooms
  <2>1. m.type = "joined"
    OBVIOUS
  <2> HIDE DEF m
  <2> QED
    BY <1>1, <2>1 DEF Answers
<1>4. down' = IF tab'.eng.link = "open" THEN k ELSE <<>>
  OBVIOUS
<1> HIDE DEF m, k
<1>5. /\ PageOK(tab) /\ EngOK(tab.eng) /\ Line(tab.eng) /\ Holds(tab.eng, tab.left)
      /\ Aims(tab) /\ ~tab.eng.closed /\ tab.ses.open /\ tab.opened # 0
      /\ tab.ses.told = tab.eng.up /\ DOMAIN tab = PageFields /\ DOMAIN tab.ses = SesFields
      /\ DOMAIN tab.eng = EngFields
  BY <1>1 DEF Busy, PageOK, EngOK
<1>6. /\ DOMAIN f = EngFields /\ f.cid = m.seat /\ f.timers = {} /\ f.acked = TRUE
      /\ f.token = m.seat /\ f.tokenRoom = m.room
      /\ Differs(tab.eng, f, {"cid", "timers", "acked", "epoch", "token", "tokenRoom"})
  BY <1>5 DEF Differs, EngFields
<1>7. /\ DOMAIN t = SesFields /\ t.open = tab.ses.open /\ t.room = tab.ses.room
      /\ t.told = tab.ses.told /\ t.roster = m.epoch
  BY <1>5 DEF SesFields
<1> HIDE DEF f, t
<1>8. /\ f.lastCid = tab.eng.lastCid /\ f.buffered = tab.eng.buffered
      /\ f.currentRoom = tab.eng.currentRoom /\ f.conn = tab.eng.conn /\ f.idx = tab.eng.idx
      /\ f.closed = tab.eng.closed /\ f.link = tab.eng.link /\ f.out = tab.eng.out
      /\ f.up = tab.eng.up /\ f.late = tab.eng.late
      /\ f.wsFails = tab.eng.wsFails /\ f.missed = tab.eng.missed
  BY <1>6 DEF Differs, EngFields
<1>9. /\ tab'.eng = f /\ tab'.ses = t /\ tab'.left = tab.left /\ tab'.opened = tab.opened
      /\ DOMAIN tab' = PageFields
  BY <1>2, <1>5 DEF PageFields
<1>10. EngOK(f)
  BY <1>3, <1>5, <1>6, <1>8 DEF EngOK, Timers
<1>11. Line(f)
  BY <1>5, <1>6, LineKept DEF Differs, Aside
<1>12. Holds(f, tab.left)
  BY <1>1, <1>5, <1>6, <1>8 DEF Holds, Who
<1>13. tab.eng.up
  BY <1>5 DEF Line
<1>14. Busy(tab')
  <2>1. PageOK(tab')
    BY <1>5, <1>7, <1>9, <1>10 DEF PageOK
  <2>2. Aims(tab')
    BY <1>5, <1>7, <1>8, <1>9, <1>13 DEF Aims
  <2> QED
    BY <1>5, <1>7, <1>8, <1>9, <1>11, <1>12, <2>1, <2>2 DEF Busy
<1>15. down' = k
  BY <1>4, <1>8, <1>9
<1>16. Follows(tab', k, srv)
  BY <1>1, <1>6, <1>7, <1>8, <1>9, <1>13 DEF Follows, SeatIsKnown, EpochIsKnown
<1>17. StoreOK(store', tab.left)
  <2>1. m.seat # None
    BY <1>3, NoneApart
  <2> QED
    BY <1>1, <1>2, <1>3, <2>1 DEF StoreOK
<1> QED
  BY <1>1, <1>2, <1>6, <1>9, <1>14, <1>15, <1>16, <1>17, BusyStep DEF Inv

\* room_state: the roster is the one that came last.
LEMMA RoomStateOK ==
  ASSUME Inv, tab.eng.link = "open", down # <<>>, Head(down).type = "room_state",
         RoomState(Head(down)), UNCHANGED faults,
         down' = IF tab'.eng.link = "open" THEN Tail(down) ELSE <<>>
  PROVE  Inv'
<1> DEFINE m == Head(down)
           k == Tail(down)
           f == [tab.eng EXCEPT !.epoch = m.epoch]
           b == tab.ses.behind /\ ~tab.ses.told
           t1 == [tab.ses EXCEPT !.roster = m.epoch]
           t2 == [tab.ses EXCEPT !.roster = m.epoch, !.resync = FALSE, !.behind = b]
           t == IF tab.ses.resync THEN t2 ELSE t1
<1>1. /\ Busy(tab) /\ m \in Answers /\ k \in Seq(Answers)
      /\ AnswersOK(k, srv.next, tab.left) /\ SeatComes(k, srv) /\ EpochComes(k, srv)
      /\ (SeatIsKnown(down, srv, tab.eng) => SeatIsKnown(k, srv, tab.eng))
      /\ ((\A i \in DOMAIN k : ~Says(k[i])) => srv.overtaken \/ m.epoch = srv.epoch)
  BY NextAnswer DEF Says
<1>2. /\ PageOK(tab) /\ EngOK(tab.eng) /\ Line(tab.eng) /\ Holds(tab.eng, tab.left)
      /\ Aims(tab) /\ ~tab.eng.closed /\ tab.ses.open /\ tab.opened # 0
      /\ tab.ses.told = tab.eng.up /\ DOMAIN tab = PageFields /\ DOMAIN tab.ses = SesFields
      /\ DOMAIN tab.eng = EngFields /\ SeatIsKnown(down, srv, tab.eng)
  BY <1>1, ActiveIsBusy DEF Busy, PageOK, EngOK, Follows
<1>3. down' = (IF tab'.eng.link = "open" THEN k ELSE <<>>) /\ UNCHANGED <<store, srv>>
  BY DEF RoomState
<1>4. tab' = [tab EXCEPT !.eng = f, !.ses = t]
  <2> DEFINE p == [tab EXCEPT !.eng = f, !.ses = t1]
  <2>1. tab' = FlushResync(p)
    <3>1. Adopt(tab, m) = p
      BY <1>2 DEF Adopt, PageFields
    <3> QED
      BY <3>1 DEF RoomState
  <2> HIDE DEF f, m
  <2>2. /\ p.ses = t1 /\ t1.resync = tab.ses.resync /\ t1.behind = tab.ses.behind
        /\ t1.told = tab.ses.told
    BY <1>2 DEF PageFields, SesFields
  <2>3. CASE ~tab.ses.resync
    BY <2>1, <2>2, <2>3 DEF FlushResync
  <2>4. CASE tab.ses.resync
    <3>1. tab' = [p EXCEPT !.ses.resync = FALSE, !.ses.behind = b]
      BY <2>1, <2>2, <2>4 DEF FlushResync
    <3>2. [t1 EXCEPT !.resync = FALSE, !.behind = b] = t2
      BY <1>2 DEF SesFields
    <3> HIDE DEF b, t1, t2
    <3>3. tab' = [tab EXCEPT !.eng = f, !.ses = [t1 EXCEPT !.resync = FALSE, !.behind = b]]
      BY <1>2, <3>1 DEF PageFields
    <3> QED
      BY <2>4, <3>2, <3>3
  <2> QED
    BY <2>3, <2>4
<1> HIDE DEF m, k, b
<1>5. DOMAIN f = EngFields /\ Differs(tab.eng, f, {"epoch"})
  BY <1>2 DEF Differs, EngFields
<1>6. /\ DOMAIN t = SesFields /\ t.open = tab.ses.open /\ t.room = tab.ses.room
      /\ t.told = tab.ses.told /\ t.roster = m.epoch /\ t.joining = tab.ses.joining
      /\ t.asked = tab.ses.asked
  BY <1>2 DEF SesFields
<1> HIDE DEF f, t
<1>7. /\ f.cid = tab.eng.cid /\ f.lastCid = tab.eng.lastCid /\ f.token = tab.eng.token
      /\ f.tokenRoom = tab.eng.tokenRoom /\ f.buffered = tab.eng.buffered
      /\ f.currentRoom = tab.eng.currentRoom /\ f.conn = tab.eng.conn /\ f.idx = tab.eng.idx
      /\ f.closed = tab.eng.closed /\ f.link = tab.eng.link /\ f.out = tab.eng.out
      /\ f.up = tab.eng.up /\ f.late = tab.eng.late /\ f.acked = tab.eng.acked
      /\ f.wsFails = tab.eng.wsFails /\ f.missed = tab.eng.missed
      /\ f.timers = tab.eng.timers /\ f.request = tab.eng.request /\ f.again = tab.eng.again
  BY <1>5 DEF Differs, EngFields
<1>8. /\ tab'.eng = f /\ tab'.ses = t /\ tab'.left = tab.left /\ tab'.opened = tab.opened
      /\ DOMAIN tab' = PageFields
  BY <1>2, <1>4 DEF PageFields
<1>9. EngOK(f) /\ Holds(f, tab.left)
  BY <1>2, <1>5, <1>7 DEF EngOK, Holds, Who
<1>10. Line(f)
  BY <1>2, <1>5, LineKept DEF Differs, Aside
<1>11. tab.eng.up
  BY <1>2 DEF Line
<1>12. Busy(tab')
  BY <1>2, <1>6, <1>7, <1>8, <1>9, <1>10 DEF Busy, PageOK, Aims
<1>13. down' = k
  BY <1>3, <1>7, <1>8
<1>14. Follows(tab', k, srv)
  BY <1>1, <1>2, <1>6, <1>7, <1>8, <1>11 DEF Follows, SeatIsKnown, EpochIsKnown
<1> QED
  BY <1>1, <1>3, <1>7, <1>8, <1>12, <1>13, <1>14, BusyStep DEF Inv

\* room_ended and ROOM_ENDED: the call is over, and nothing is kept of it.
LEMMA RoomEndedOK ==
  ASSUME Inv, Busy(tab), NEW m, RoomEnded(m), UNCHANGED faults, down' \in {<<>>, Tail(down)},
         tab'.eng.link # "open" => down' = <<>>
  PROVE  Inv'
<1> DEFINE f == [tab.eng EXCEPT !.timers = {}, !.currentRoom = None, !.again = FALSE,
                                !.token = None, !.tokenRoom = None, !.epoch = 0]
           q == [tab EXCEPT !.eng = f]
<1>1. /\ DOMAIN tab = PageFields /\ EngOK(tab.eng) /\ tab.opened \in Nat /\ tab.opened # 0
      /\ tab.left \subseteq Seats /\ tab.eng.out \in Seq(Honest({}) \cup Farewells)
      /\ DOMAIN tab.eng = EngFields
  BY StillSent DEF Busy, PageOK, Holds, EngOK
<1>2. tab' = Close(q) /\ store' = EmptyStore /\ srv' = [srv EXCEPT !.seat = None]
  BY DEF RoomEnded, ResetForTerminal, ClearStorage
<1>3. /\ DOMAIN f = EngFields /\ f.out = tab.eng.out /\ f.timers = {} /\ f.currentRoom = None
      /\ f.token = None /\ f.tokenRoom = None /\ f.cid = tab.eng.cid
      /\ f.lastCid = tab.eng.lastCid /\ f.buffered = tab.eng.buffered /\ f.link = tab.eng.link
      /\ f.conn = tab.eng.conn /\ f.late = tab.eng.late /\ f.idx = tab.eng.idx
      /\ f.wsFails = tab.eng.wsFails /\ f.missed = tab.eng.missed
  BY <1>1 DEF EngFields
<1> HIDE DEF f
<1>4. EngOK(f)
  BY <1>1, <1>3 DEF EngOK, Timers
<1>5. DOMAIN q = PageFields /\ q.eng = f /\ q.left = tab.left /\ q.opened = tab.opened
  BY <1>1 DEF PageFields
<1> HIDE DEF q
<1>6. Rests(tab') /\ tab'.left = tab.left /\ tab'.opened = tab.opened
  BY <1>1, <1>2, <1>3, <1>4, <1>5, Closes
<1>7. SrvOK(srv', tab.left)
  BY <1>2, Unseated DEF Inv
<1>8. StoreOK(store', tab.left)
  BY <1>2 DEF StoreOK, EmptyStore
<1>9. down' \in Seq(Answers)
  <2>1. tab'.eng.link = "none"
    BY <1>6 DEF Rests
  <2> QED
    BY <2>1
<1> QED
  BY <1>1, <1>6, <1>7, <1>8, <1>9, RestStep DEF Inv

\* Any other error: the call is over, and the storage keeps the way back.
LEMMA RefusedOK ==
  ASSUME Inv, Busy(tab), NEW m, Refused(m), UNCHANGED faults,
         tab'.eng.link # "open" => down' = <<>>
  PROVE  Inv'
<1>1. tab' = Close(tab) /\ srv' = [srv EXCEPT !.seat = None] /\ UNCHANGED <<store, faults>>
  BY DEF Refused
<1>2. /\ DOMAIN tab = PageFields /\ EngOK(tab.eng) /\ tab.opened \in Nat /\ tab.opened # 0
      /\ tab.left \subseteq Seats /\ tab.eng.out \in Seq(Honest({}) \cup Farewells)
  BY StillSent DEF Busy, PageOK, Holds
<1>3. Rests(tab')
  BY <1>1, <1>2, Closes
<1>4. tab'.eng.link = "none"
  BY <1>3 DEF Rests
<1> QED
  BY <1>1, <1>4, ClosedStep DEF Disconnected

\* INVALID_RECONNECT_TOKEN: the room is joined again, as nobody.
LEMMA TokenRejectedOK ==
  ASSUME Inv, tab.eng.link = "open", down # <<>>,
         Head(down).type = "INVALID_RECONNECT_TOKEN",
         TokenRejected(Head(down)), UNCHANGED faults,
         down' = IF tab'.eng.link = "open" THEN Tail(down) ELSE <<>>
  PROVE  Inv'
<1> DEFINE room == Head(down).room
           k == Tail(down)
           e == [tab.eng EXCEPT !.timers = {}, !.cid = None, !.lastCid = None,
                                !.token = None, !.tokenRoom = None]
           f == JoinRoom(e, room)
<1>1. /\ Busy(tab) /\ Head(down) \in Answers /\ k \in Seq(Answers)
      /\ AnswersOK(k, srv.next, tab.left) /\ SeatComes(k, srv) /\ EpochComes(k, srv)
  BY NextAnswer
<1>2. room \in Rooms
  <2> DEFINE m == Head(down)
  <2>1. m \in Answers /\ m.type = "INVALID_RECONNECT_TOKEN"
    BY <1>1
  <2> HIDE DEF m
  <2>2. m.room \in Rooms
    BY <2>1 DEF Answers
  <2> QED
    BY <2>2 DEF m
<1>3. /\ tab' = [tab EXCEPT !.eng = f] /\ store' = EmptyStore /\ UNCHANGED srv
      /\ down' = IF tab'.eng.link = "open" THEN k ELSE <<>>
  BY DEF TokenRejected, RetryFresh, DropAuthority, ClearStorage
<1> HIDE DEF room, k
<1>4. /\ PageOK(tab) /\ EngOK(tab.eng) /\ Line(tab.eng) /\ Holds(tab.eng, tab.left)
      /\ Aims(tab) /\ ~tab.eng.closed /\ tab.ses.open /\ tab.opened # 0
      /\ tab.ses.told = tab.eng.up /\ DOMAIN tab = PageFields
      /\ DOMAIN tab.eng = EngFields /\ tab.left \in SUBSET Seats
  BY <1>1 DEF Busy, PageOK, EngOK
<1>5. /\ DOMAIN e = EngFields /\ e.timers = {} /\ e.cid = None /\ e.lastCid = None
      /\ e.token = None /\ e.tokenRoom = None
      /\ Differs(tab.eng, e, {"timers", "cid", "lastCid", "token", "tokenRoom"})
  BY <1>4 DEF Differs, EngFields
<1> HIDE DEF e
<1>6. /\ e.buffered = tab.eng.buffered /\ e.closed = tab.eng.closed
      /\ e.currentRoom = tab.eng.currentRoom /\ e.conn = tab.eng.conn /\ e.idx = tab.eng.idx
      /\ e.link = tab.eng.link /\ e.out = tab.eng.out /\ e.late = tab.eng.late
      /\ e.wsFails = tab.eng.wsFails /\ e.missed = tab.eng.missed /\ e.up = tab.eng.up
  BY <1>5 DEF Differs, EngFields
<1>7. EngOK(e) /\ Holds(e, tab.left) /\ IsOpen(e)
  BY <1>4, <1>5, <1>6 DEF EngOK, Holds, Who, IsOpen, Timers
<1>8. /\ EngOK(f) /\ Holds(f, tab.left) /\ Differs(e, f, JoinWrites)
      /\ f.currentRoom = room /\ ~f.acked
  BY <1>2, <1>4, <1>7, JoinRoomOK
<1> HIDE DEF f
<1>9. /\ f.cid = None /\ f.up = tab.eng.up /\ f.link = tab.eng.link
      /\ f.closed = tab.eng.closed
  BY <1>5, <1>6, <1>8 DEF Differs, JoinWrites, EngFields
<1>10. Line(f)
  <2>1. Line(e)
    BY <1>4, <1>5, LineKept DEF Differs, Aside
  <2> QED
    BY <1>8, <2>1, LineKept DEF Differs, JoinWrites, Aside
<1>11. /\ tab'.eng = f /\ tab'.ses = tab.ses /\ tab'.left = tab.left
       /\ tab'.opened = tab.opened /\ DOMAIN tab' = PageFields
  BY <1>3, <1>4 DEF PageFields
<1>12. tab.eng.up
  BY <1>4 DEF Line
<1>13. Busy(tab')
  <2>1. PageOK(tab')
    BY <1>4, <1>8, <1>11 DEF PageOK
  <2>2. Aims(tab')
    BY <1>2, <1>4, <1>8, <1>9, <1>11, <1>12, NoneApart DEF Aims
  <2> QED
    BY <1>4, <1>8, <1>9, <1>10, <1>11, <2>1, <2>2 DEF Busy
<1>14. down' = k
  BY <1>3, <1>9, <1>11
<1>15. Follows(tab', k, srv)
  BY <1>1, <1>8, <1>9, <1>11, <1>12 DEF Follows, SeatIsKnown, EpochIsKnown
<1>16. StoreOK(store', tab.left)
  BY <1>3 DEF StoreOK, EmptyStore
<1> QED
  BY <1>1, <1>3, <1>9, <1>11, <1>13, <1>14, <1>15, <1>16, BusyStep DEF Inv

\* handleIncomingMessage, whatever the message.
LEMMA ReceiveOK == Inv /\ Receive => Inv'
<1> SUFFICES ASSUME Inv, Receive
             PROVE  Inv'
  OBVIOUS
<1>1. /\ tab.eng.link = "open" /\ down # <<>> /\ UNCHANGED faults
      /\ down' = IF tab'.eng.link = "open" THEN Tail(down) ELSE <<>>
      /\ Busy(tab)
  BY ActiveIsBusy DEF Receive
<1>2. \/ Head(down).type = "joined" /\ Joined(Head(down))
      \/ Head(down).type = "room_state" /\ RoomState(Head(down))
      \/ RoomEnded(Head(down))
      \/ Refused(Head(down))
      \/ Head(down).type = "INVALID_RECONNECT_TOKEN" /\ TokenRejected(Head(down))
  BY DEF Receive
<1>3. CASE Head(down).type = "joined" /\ Joined(Head(down))
  BY <1>1, <1>3, JoinedOK
<1>4. CASE Head(down).type = "room_state" /\ RoomState(Head(down))
  BY <1>1, <1>4, RoomStateOK
<1>5. CASE RoomEnded(Head(down))
  BY <1>1, <1>5, RoomEndedOK
<1>6. CASE Refused(Head(down))
  BY <1>1, <1>6, RefusedOK
<1>7. CASE Head(down).type = "INVALID_RECONNECT_TOKEN" /\ TokenRejected(Head(down))
  BY <1>1, <1>7, TokenRejectedOK
<1> QED
  BY <1>2, <1>3, <1>4, <1>5, <1>6, <1>7

-----------------------------------------------------------------------------
(* The theorems. *)

\* A page that was just loaded has no call.
LEMMA InvInitially == Init => Inv
<1> SUFFICES ASSUME Init
             PROVE  Inv
  OBVIOUS
<1> DEFINE e == BlankEngine
<1>1. /\ tab = [ses |-> BlankSession, eng |-> e, opened |-> 0, left |-> {}]
      /\ store = EmptyStore /\ down = <<>> /\ faults = 0
      /\ srv = [seat |-> None, next |-> 1, valid |-> {}, epoch |-> 0, ended |-> {},
                overtaken |-> FALSE]
  BY DEF Init
<1>2. /\ DOMAIN e = EngFields /\ e.cid = None /\ e.lastCid = None /\ e.token = None
      /\ e.tokenRoom = None /\ e.currentRoom = None /\ e.buffered = None /\ e.link = "none"
      /\ e.conn = 0 /\ e.late = {} /\ e.idx = 1 /\ e.wsFails = 0 /\ e.missed = 0
      /\ e.timers = {} /\ e.connecting = FALSE /\ e.retry = FALSE /\ e.out = <<>>
  BY DEF BlankEngine, EngFields
<1> HIDE DEF e
<1>3. EngOK(e)
  <2>1. 1 \in 1..Len(Transports) /\ 0 \in 0..FallbackAfter /\ 0 \in 0..PongMisses - 1
    BY EngineAssumption
  <2> QED
    BY <1>2, <2>1 DEF EngOK, Timers
<1>4. /\ DOMAIN tab = PageFields /\ tab.ses = BlankSession /\ tab.eng = e /\ tab.opened = 0
      /\ tab.left = {}
  BY <1>1 DEF PageFields
<1>5. PageOK(tab)
  <2>1. DOMAIN BlankSession = SesFields
    BY DEF BlankSession, SesFields
  <2> QED
    BY <1>3, <1>4, <2>1 DEF PageOK
<1>6. Rests(tab)
  <2>1. e.out \in Seq(Honest({}) \cup Farewells)
    BY <1>2
  <2>2. tab.eng.late = {}
    BY <1>2, <1>4
  <2> QED
    BY <1>2, <1>4, <1>5, <2>1, <2>2 DEF Rests
<1>7. StoreOK(store, tab.left)
  BY <1>1 DEF StoreOK, EmptyStore
<1>8. SrvOK(srv, tab.left)
  <2>1. 1 \in 1..MaxSeats + 1
    BY EngineAssumption
  <2> QED
    BY <1>1, <1>4, <2>1 DEF SrvOK, SrvFields
<1>9. faults \in 0..MaxFaults /\ srv.seat = None /\ srv.valid = {} /\ down \in Seq(Answers)
  BY <1>1, EngineAssumption
<1> QED
  BY <1>2, <1>4, <1>6, <1>7, <1>8, <1>9 DEF Inv

\* Every step keeps the invariant.
LEMMA InvStep == FallbackIsPatient /\ Inv /\ [Next]_vars => Inv'
<1> SUFFICES ASSUME FallbackIsPatient, Inv, [Next]_vars
             PROVE  Inv'
  OBVIOUS
<1>1. CASE Opens
  BY <1>1, OpensOK
<1>2. CASE PingUnanswered
  BY <1>2, PingUnansweredOK
<1>3. CASE ReconnectTimer
  BY <1>3, ReconnectTimerOK
<1>4. CASE JoinAgain
  BY <1>4, JoinAgainOK
<1>5. CASE JoinHardTimeout
  BY <1>5, JoinHardTimeoutOK
<1>6. CASE SessionJoinTimeout
  BY <1>6, SessionJoinTimeoutOK
<1>7. CASE ResyncTimeout
  BY <1>7, ResyncTimeoutOK
<1>8. CASE Receive
  BY <1>8, ReceiveOK
<1>9. CASE ServerReceives
  BY <1>9, ServerReceivesOK
<1>10. ASSUME NEW reason \in {"close", "timeout"}, DialFails(reason)
       PROVE  Inv'
  BY <1>10, DialFailsOK
<1>11. CASE Lost
  BY <1>11, LostOK
<1>12. CASE LateCallback
  BY <1>12, LateCallbackOK
<1>13. CASE Hangs
  BY <1>13, HangsOK
<1>14. CASE PostFails
  BY <1>14, PostFailsOK
<1>15. CASE PeersChange
  BY <1>15, PeersChangeOK
<1>16. CASE Overtakes
  BY <1>16, OvertakesOK
<1>17. CASE RoomEnds
  BY <1>17, RoomEndsOK
<1>18. CASE TokensExpire
  BY <1>18, TokensExpireOK
<1>19. ASSUME NEW room \in Rooms, OpenCall(room)
       PROVE  Inv'
  BY <1>19, OpenCallOK
<1>20. ASSUME NEW ending \in BOOLEAN, LeaveCall(ending)
       PROVE  Inv'
  BY <1>20, LeaveCallOK
<1>21. CASE Unload
  BY <1>21, UnloadOK
<1>22. CASE UNCHANGED vars
  BY <1>22 DEF vars, Inv, Busy, Rests, PageOK, Aims, Follows, SeatComes, EpochComes,
               SeatIsKnown, EpochIsKnown, AnswersOK, StoreOK, SrvOK
<1> QED
  BY <1>1, <1>2, <1>3, <1>4, <1>5, <1>6, <1>7, <1>8, <1>9, <1>10, <1>11, <1>12, <1>13, <1>14,
     <1>15, <1>16, <1>17, <1>18, <1>19, <1>20, <1>21, <1>22 DEF Next, Progress

\* The page with or without a call, what the storage keeps of it, and what the server's
\* answers will make of it (Inv), for any transports, rooms and bounds.
THEOREM EngineInvariant == FallbackIsPatient => (Spec => []Inv)
<1> SUFFICES ASSUME FallbackIsPatient
             PROVE  Spec => []Inv
  OBVIOUS
<1>1. Init => Inv
  BY InvInitially
<1>2. Inv /\ [Next]_vars => Inv'
  BY InvStep
<1> QED
  BY <1>1, <1>2, PTL DEF Spec

\* The types of the page, the storage and the server, and the two records of the storage
\* in agreement.
THEOREM TypeTheorem == FallbackIsPatient => (Spec => []TypeOK)
<1>1. Inv => TypeOK
  <2> SUFFICES ASSUME Inv
               PROVE  TypeOK
    OBVIOUS
  <2>1. /\ PageOK(tab) /\ EngOK(tab.eng) /\ StoreOK(store, tab.left) /\ SrvOK(srv, tab.left)
        /\ down \in Seq(Answers) /\ faults \in 0..MaxFaults /\ tab.left \subseteq Seats
    BY ActiveIsBusy DEF PageOK, Inv
  <2>2. tab.ses.room \in Rooms \cup {None}
    BY DEF Inv, Busy, Aims, Rests, BlankSession
  <2>3. \A i \in DOMAIN tab.eng.out : tab.eng.out[i] \in Messages
    <3>1. Honest(tab.left) \subseteq Messages /\ Honest({}) \cup Farewells \subseteq Messages
      BY HonestJoins DEF Farewells, Messages
    <3>2. tab.eng.out \in Seq(Messages)
      <4>1. CASE Busy(tab)
        BY <3>1, <4>1, SeqGrows DEF Busy, Holds
      <4>2. CASE Rests(tab)
        BY <3>1, <4>2, SeqGrows DEF Rests
      <4> QED
        BY <4>1, <4>2 DEF Inv
    <3> QED
      BY <3>2
  <2>4. \A i \in DOMAIN down : down[i] \in Answers
    BY <2>1
  <2>5. tab.eng.missed < PongMisses
    BY <2>1, EngineAssumption DEF EngOK
  <2>6. StoresInLockstep
    BY <2>1 DEF StoreOK, StoresInLockstep
  <2>7. {tab.eng.currentRoom, tab.eng.buffered, tab.eng.tokenRoom, tab.ses.room}
           \subseteq Rooms \cup {None}
    BY <2>1, <2>2 DEF EngOK
  <2>8. {tab.eng.cid, tab.eng.lastCid, tab.eng.token, store.cid, store.token}
           \subseteq Seats \cup {None}
    BY <2>1 DEF EngOK, StoreOK
  <2>9. /\ tab.eng.link \in {"none", "dialing", "open", "hung"}
        /\ tab.eng.idx \in 1..Len(Transports) /\ tab.eng.wsFails \in 0..FallbackAfter
        /\ tab.eng.timers \in {{}, {"hard"}, {"recovery", "hard"},
                               {"kickstart", "recovery", "hard"}}
    BY <2>1 DEF EngOK, Timers
  <2>10. /\ srv.seat \in Seats \cup {None} /\ srv.valid \subseteq Seats
         /\ srv.next \in 1..MaxSeats + 1 /\ srv.ended \subseteq Rooms
    BY <2>1 DEF SrvOK
  <2> QED
    BY <2>1, <2>3, <2>4, <2>5, <2>6, <2>7, <2>8, <2>9, <2>10 DEF TypeOK
<1> QED
  BY <1>1, EngineInvariant, PTL

\* Whatever sockets do, an open session has exactly one of a connection, an attempt and
\* a timer to make one, and has been told which (doConnect, onClose, scheduleReconnect).
THEOREM ConnectionTheorem == FallbackIsPatient => (Spec => []ConnectionManaged)
<1>1. Inv => ConnectionManaged
  <2> SUFFICES ASSUME Inv, tab.ses.open
               PROVE  Busy(tab)
    BY DEF ConnectionManaged, Busy, Line
  <2> QED
    BY ActiveIsBusy
<1> QED
  BY <1>1, EngineInvariant, PTL

\* Joins sent twice, rejections and answers that cross leave the client who the server
\* seated, with the server's roster unless a snapshot was overtaken.
THEOREM InStepTheorem == FallbackIsPatient => (Spec => []InStep)
<1>1. Inv => InStep
  <2> SUFFICES ASSUME Inv, AllDelivered, tab.eng.acked
               PROVE  tab.eng.cid = srv.seat /\ (tab.ses.roster = srv.epoch \/ srv.overtaken)
    BY DEF InStep
  <2>1. Follows(tab, down, srv) /\ tab.eng.link = "open" /\ down = <<>>
    BY ActiveIsBusy DEF AllDelivered
  <2> QED
    BY <2>1 DEF Follows, SeatIsKnown, EpochIsKnown
<1> QED
  BY <1>1, EngineInvariant, PTL

\* What is on its way to the server is an honest join, or the last words of a call.
LEMMA OutIsHonest ==
  ASSUME Inv, NEW i \in DOMAIN tab.eng.out, tab.eng.out[i].type = "join"
  PROVE  /\ tab.eng.out[i] \in Honest({})
         /\ tab.ses.open => tab.eng.out[i] \in Honest(tab.left)
<1>1. CASE Busy(tab)
  <2>1. tab.eng.out \in Seq(Honest(tab.left))
    BY <1>1 DEF Busy, Holds
  <2>2. tab.eng.out[i] \in Honest(tab.left)
    BY <2>1
  <2> QED
    BY <2>2, HonestJoins
<1>2. CASE Rests(tab)
  <2>1. tab.eng.out \in Seq(Honest({}) \cup Farewells) /\ ~tab.ses.open
    BY <1>2 DEF Rests, BlankSession
  <2>2. tab.eng.out[i] \in Honest({}) \cup Farewells
    BY <2>1
  <2>3. tab.eng.out[i] \notin Farewells
    BY DEF Farewells
  <2> QED
    BY <2>1, <2>2, <2>3
<1> QED
  BY <1>1, <1>2 DEF Inv

\* A join presents the token of the seat it names in the room it was issued for
\* (TokenFor), through every way a token is loaded, kept, replaced or dropped.
THEOREM TokenTheorem == FallbackIsPatient => (Spec => []OwnToken)
<1>1. Inv => OwnToken
  BY OutIsHonest DEF OwnToken, Honest
<1> QED
  BY <1>1, EngineInvariant, PTL

\* A seat the user left is not offered for recovery, nor asked for in a later call.
THEOREM LeftTheorem == FallbackIsPatient => (Spec => []LeftForGood)
<1>1. Inv => LeftForGood
  <2> SUFFICES ASSUME Inv
               PROVE  LeftForGood
    OBVIOUS
  <2>1. StoreOK(store, tab.left)
    BY DEF Inv
  <2>2. store.rec # None => store.rec.cid \notin tab.left
    BY <2>1 DEF StoreOK
  <2>3. None \notin tab.left
    BY ActiveIsBusy, NoneApart DEF PageOK
  <2>4. ASSUME tab.ses.open, NEW i \in DOMAIN tab.eng.out, tab.eng.out[i].type = "join"
        PROVE  tab.eng.out[i].token \notin tab.left
    <3>1. tab.eng.out[i] \in Honest(tab.left)
      BY <2>4, OutIsHonest
    <3> QED
      BY <2>3, <3>1 DEF Honest
  <2> QED
    BY <2>2, <2>4 DEF LeftForGood
<1> QED
  BY <1>1, EngineInvariant, PTL
=============================================================================
