--------------------------- MODULE WebAppProofs ---------------------------
(***************************************************************************)
(* Proofs about WebApp: what the room watcher has learned is what the      *)
(* server knows, through every change of the lists, the connection and the *)
(* page, and the camera of the preview is on exactly while the preview is. *)
(***************************************************************************)
EXTENDS WebApp, SequenceTheorems, TLAPS

\* What is known of a room; news of rooms; the messages of the server.
Status == {Empty} \cup [count : Nat \ {0}, max : Sizes]
IsSeq(s) == s \in Seq({s[i] : i \in DOMAIN s})
NewsOK(m) ==
  /\ DOMAIN m.news \subseteq ValidRooms
  /\ \A r \in DOMAIN m.news : m.news[r] \in Status

Fields == {"stopped", "watched", "hasConnected", "wasConnected", "link", "statuses", "up", "down"}
WatcherOK(w) ==
  /\ DOMAIN w = Fields /\ DOMAIN w.statuses = Rooms
  /\ w.link \in {"none", "dialing", "open", "waiting"}
  /\ w.link # "none" => w.hasConnected
  /\ w.wasConnected <=> w.link = "open"
  /\ IsSeq(w.up) /\ IsSeq(w.down)
  /\ w.link # "open" => w.up = <<>> /\ w.down = <<>>
  /\ \A i \in DOMAIN w.down : NewsOK(w.down[i])
  /\ \A r \in Rooms \ ValidRooms : w.statuses[r] = None

OccupancyOK(occ) ==
  /\ DOMAIN occ = Rooms
  /\ \A r \in Rooms : occ[r] \in Status
  /\ \A r \in Rooms \ ValidRooms : occ[r] = Empty

\* The server has the transport down for what the page lists, or will have once it
\* has read the last request.
Asks(w, sub) ==
  IF w.up = <<>> THEN sub = w.watched \cap ValidRooms ELSE w.up[Len(w.up)] = w.watched

\* Once the messages on their way are read, the mark at r is right.
WillKnow(w, occ, r) ==
  /\ \A i \in DOMAIN w.down :
       r \in DOMAIN w.down[i].news
       /\ (\A j \in DOMAIN w.down : i < j => r \notin DOMAIN w.down[j].news)
         => w.down[i].news[r] = occ[r]
  /\ (\A i \in DOMAIN w.down : r \notin DOMAIN w.down[i].news) =>
       StatusState(w.statuses[r]) = StatusState(occ[r])

\* The watcher and its server.
Watches(w, sub, occ, ovt) ==
  /\ WatcherOK(w) /\ OccupancyOK(occ)
  /\ sub \subseteq ValidRooms
  /\ w.link # "open" => sub = {}
  /\ w.link = "open" => Asks(w, sub)
  /\ \A r \in sub \ ovt : WillKnow(w, occ, r)

CallPage == [at : {"call"}, room : Rooms, invited : BOOLEAN, joined : BOOLEAN,
             preview : {"asking", "on", "none"}]

PageOK(p, w) ==
  /\ p.at = "call" => p \in CallPage
  /\ p.at = "home" => ~w.stopped /\ w.watched = Listed(p)

\* The inductive invariant.
Inv ==
  /\ Watches(watcher, subscribed, occupancy, overtaken)
  /\ PageOK(page, watcher)
  /\ camera \in [cancelled : Nat, live : {0, 1}]
  /\ PreviewReleased
-----------------------------------------------------------------------------
(* Sequences of messages. *)

LEMMA EmptyIsSeq == IsSeq(<<>>) /\ DOMAIN <<>> = {}
BY DEF IsSeq

LEMMA SeqIsSeq ==
  ASSUME NEW S, NEW s \in Seq(S)
  PROVE  IsSeq(s)
<1>1. DOMAIN s = 1..Len(s) /\ Len(s) \in Nat /\ s = [i \in 1..Len(s) |-> s[i]]
  OBVIOUS
<1>2. \A i \in 1..Len(s) : s[i] \in {s[j] : j \in DOMAIN s}
  BY <1>1
<1> QED BY <1>1, <1>2 DEF IsSeq

LEMMA AppendIsSeq ==
  ASSUME NEW s, IsSeq(s), NEW e
  PROVE  LET t == Append(s, e)
         IN  /\ IsSeq(t) /\ t # <<>> /\ Len(t) = Len(s) + 1 /\ t[Len(t)] = e
             /\ DOMAIN t = DOMAIN s \cup {Len(t)} /\ Len(t) \notin DOMAIN s
             /\ DOMAIN s \subseteq Nat
             /\ \A i \in DOMAIN s : t[i] = s[i] /\ i < Len(t)
<1> DEFINE S == {s[i] : i \in DOMAIN s} \cup {e}
           t == Append(s, e)
<1>1. s \in Seq(S)
  <2>1. \A i \in 1..Len(s) : s[i] \in S
    BY DEF IsSeq
  <2> QED BY <2>1 DEF IsSeq
<1>2. t \in Seq(S) /\ Len(t) = Len(s) + 1 /\ t[Len(t)] = e /\ Len(s) \in Nat
      /\ DOMAIN s = 1..Len(s) /\ \A i \in 1..Len(s) : t[i] = s[i]
  BY <1>1
<1>4. IsSeq(t)
  BY <1>2, SeqIsSeq
<1> QED BY <1>2, <1>4

LEMMA TailIsSeq ==
  ASSUME NEW s, IsSeq(s), s # <<>>
  PROVE  LET t == Tail(s)
         IN  /\ IsSeq(t)
             /\ t # <<>> => t[Len(t)] = s[Len(s)]
             /\ t = <<>> => Head(s) = s[Len(s)]
             /\ Head(s) = s[1] /\ 1 \in DOMAIN s /\ DOMAIN s \subseteq Nat \ {0}
             /\ DOMAIN t \subseteq Nat \ {0}
             /\ \A i \in DOMAIN s : i = 1 \/ (i - 1 \in DOMAIN t /\ t[i - 1] = s[i])
             /\ \A i \in DOMAIN t : i + 1 \in DOMAIN s /\ t[i] = s[i + 1]
<1> DEFINE S == {s[i] : i \in DOMAIN s}
           t == Tail(s)
<1>1. s \in Seq(S)
  BY DEF IsSeq
<1>2. t \in Seq(S) /\ Len(t) = Len(s) - 1 /\ Len(s) \in Nat \ {0}
      /\ DOMAIN s = 1..Len(s) /\ DOMAIN t = 1..Len(t)
      /\ \A i \in 1..Len(t) : t[i] = s[i + 1]
  BY <1>1
<1>4. IsSeq(t)
  BY <1>2, SeqIsSeq
<1>5. t = <<>> => Len(t) = 0
  <2>1. Len(<<>>) = 0
    OBVIOUS
  <2> QED BY <2>1, Zenon
<1>6. Head(s) = s[1]
  BY <1>1
<1>7. t # <<>> => Len(t) # 0
  BY <1>2
<1> HIDE DEF t, S
<1>8. /\ t # <<>> => t[Len(t)] = s[Len(s)]
      /\ Len(t) = 0 => Head(s) = s[Len(s)]
      /\ 1 \in DOMAIN s /\ DOMAIN s \subseteq Nat \ {0} /\ DOMAIN t \subseteq Nat \ {0}
  BY <1>2, <1>6, <1>7
<1>9. /\ \A i \in DOMAIN s : i = 1 \/ (i - 1 \in DOMAIN t /\ t[i - 1] = s[i])
      /\ \A i \in DOMAIN t : i + 1 \in DOMAIN s /\ t[i] = s[i + 1]
  BY <1>2
<1> QED BY <1>4, <1>5, <1>6, <1>8, <1>9 DEF t

-----------------------------------------------------------------------------
(* Marks. *)

LEMMA StatusTypes ==
  /\ Empty \in Status
  /\ \A x \in Status : /\ DOMAIN x = {"count", "max"}
                       /\ x.count \in Nat
                       /\ x.max = None => x.count = 0
BY WatchingAssumption DEF Status, Empty

\* News of a room are a mark like what they say, whatever was known before.
LEMMA NormalizedShows ==
  ASSUME NEW x \in Status, NEW y
  PROVE  StatusState(Normalized(x, y)) = StatusState(x)
<1>1. CASE x.max = None /\ y # None
  <2>1. x.count = 0 /\ DOMAIN x = {"count", "max"}
    BY <1>1, StatusTypes
  <2>2. Normalized(x, y).count = 0
    BY <1>1, <2>1 DEF Normalized
  <2> QED BY <2>1, <2>2 DEF StatusState
<1>2. CASE ~(x.max = None /\ y # None)
  BY <1>2 DEF Normalized
<1> QED BY <1>1, <1>2
-----------------------------------------------------------------------------
(* The watcher. *)

\* The page was left, or never watched.
LEMMA NewIsWatcher ==
  /\ WatcherOK(NewWatcher) /\ WatcherOK(Stopped)
  /\ NewWatcher.link = "none" /\ Stopped.link = "none"
  /\ NewWatcher.watched = {} /\ ~NewWatcher.stopped
<1> DEFINE n == NewWatcher
           z == Stopped
<1>1. /\ DOMAIN n = Fields /\ DOMAIN n.statuses = Rooms
      /\ n.link = "none" /\ n.watched = {} /\ ~n.stopped /\ ~n.wasConnected
      /\ n.up = <<>> /\ n.down = <<>> /\ \A r \in Rooms : n.statuses[r] = None
  BY DEF NewWatcher, Fields
<1>2. DOMAIN z = Fields /\ \A f \in Fields \ {"stopped"} : z[f] = n[f]
  BY <1>1 DEF Stopped, Fields
<1>3. WatcherOK(n)
  BY <1>1, EmptyIsSeq DEF WatcherOK
<1>4. WatcherOK(z)
  BY <1>1, <1>2, EmptyIsSeq DEF WatcherOK, Fields
<1> QED BY <1>1, <1>2, <1>3, <1>4 DEF Fields

LEMMA NewWatches ==
  ASSUME NEW w \in {NewWatcher, Stopped}, NEW occ, OccupancyOK(occ)
  PROVE  Watches(w, {}, occ, {})
BY NewIsWatcher DEF Watches

\* A request for what is watched now.
LEMMA SendWatchOK ==
  ASSUME NEW w, WatcherOK(w), w.link = "open", NEW v, v = SendWatch(w, w.watched)
  PROVE  /\ WatcherOK(v) /\ v.link = "open"
         /\ v.up # <<>> /\ v.up[Len(v.up)] = w.watched
         /\ \A f \in Fields \ {"up"} : v[f] = w[f]
<1>1. v = [w EXCEPT !.up = Append(w.up, w.watched)]
  BY DEF SendWatch
<1>2. DOMAIN v = Fields /\ v.up = Append(w.up, w.watched) /\ \A f \in Fields \ {"up"} : v[f] = w[f]
  BY <1>1 DEF WatcherOK, Fields
<1>3. IsSeq(v.up) /\ v.up # <<>> /\ v.up[Len(v.up)] = w.watched
  BY <1>2, AppendIsSeq DEF WatcherOK
<1> QED BY <1>2, <1>3 DEF WatcherOK, Fields

\* The effect of the page: the watcher of a page that is not stopped comes to watch
\* the rooms it lists.
LEMMA WatchRoomsOK ==
  ASSUME NEW w, NEW rooms, NEW sub, NEW occ, NEW ovt,
         Watches(w, sub, occ, ovt), ~w.stopped,
         NEW v, v = WatchRooms(w, rooms)
  PROVE  Watches(v, sub, occ, ovt) /\ ~v.stopped /\ v.watched = rooms
<1> DEFINE u == [w EXCEPT !.watched = rooms]
<1>1. /\ WatcherOK(u) /\ u.watched = rooms
      /\ \A f \in Fields \ {"watched"} : u[f] = w[f]
  BY DEF Watches, WatcherOK, Fields
<1> HIDE DEF u
<1>2. CASE w.hasConnected /\ w.link = "open"
  <2>1. v = SendWatch(u, u.watched)
    BY <1>1, <1>2 DEF WatchRooms, u
  <2>2. /\ WatcherOK(v) /\ v.link = "open"
        /\ v.up # <<>> /\ v.up[Len(v.up)] = rooms
        /\ \A f \in Fields \ {"up", "watched"} : v[f] = w[f]
        /\ v.watched = rooms
    BY <1>1, <1>2, <2>1, SendWatchOK DEF Fields
  <2> QED BY <2>2 DEF Watches, Asks, WillKnow, Fields
<1>3. CASE w.hasConnected /\ w.link # "open"
  <2>1. v = u
    BY <1>1, <1>3 DEF WatchRooms, SendWatch, u, Fields
  <2> QED BY <1>1, <1>3, <2>1 DEF Watches, WillKnow, Fields
<1>4. CASE ~w.hasConnected /\ rooms = {}
  <2>1. v = u
    BY <1>4 DEF WatchRooms, u
  <2> QED BY <1>1, <1>4, <2>1 DEF Watches, WatcherOK, WillKnow, Fields
<1>5. CASE ~w.hasConnected /\ rooms # {}
  <2>1. v = [u EXCEPT !.hasConnected = TRUE, !.link = "dialing"]
    BY <1>5 DEF WatchRooms, u
  <2>2. /\ DOMAIN v = Fields /\ v.hasConnected /\ v.link = "dialing"
        /\ \A f \in Fields \ {"hasConnected", "link"} : v[f] = u[f]
    BY <1>1, <2>1 DEF WatcherOK, Fields
  <2>3. w.link = "none"
    BY <1>5 DEF Watches, WatcherOK
  <2> QED BY <1>1, <2>2, <2>3 DEF Watches, WatcherOK, WillKnow, Fields
<1> QED BY <1>2, <1>3, <1>4, <1>5
-----------------------------------------------------------------------------
(* The connection. *)

Watching == Watches(watcher, subscribed, occupancy, overtaken)

LEMMA OpensOK ==
  ASSUME Watching, Opens
  PROVE  Watching' /\ watcher'.stopped = watcher.stopped /\ watcher'.watched = watcher.watched
<1> DEFINE w == watcher
           u == [w EXCEPT !.link = "open"]
           a == SendWatch(u, u.watched)
           v == IF u.link = "open" /\ ~u.wasConnected /\ u.watched # {} THEN a ELSE u
<1>1. /\ DOMAIN u = Fields /\ u.link = "open" /\ w.link = "dialing"
      /\ \A f \in Fields \ {"link"} : u[f] = w[f]
      /\ DOMAIN w = Fields /\ w.up = <<>> /\ w.down = <<>> /\ ~w.wasConnected /\ w.hasConnected
      /\ subscribed = {}
  BY DEF Watching, Watches, WatcherOK, Opens, Fields
<1>2. watcher' = [v EXCEPT !.wasConnected = v.link = "open"]
      /\ UNCHANGED <<occupancy, subscribed, overtaken>>
  <2>1. /\ watcher' = [v EXCEPT !.wasConnected = u.link = "open"]
        /\ UNCHANGED <<occupancy, subscribed, overtaken>>
    BY DEF Opens, StateChanged
  <2>2. v.link = "open"
    BY <1>1 DEF SendWatch, Fields
  <2> QED BY <1>1, <2>1, <2>2
<1> HIDE DEF u
<1>3. a = [u EXCEPT !.up = Append(u.up, u.watched)]
  BY <1>1 DEF SendWatch
<1>4. /\ DOMAIN v = Fields /\ \A f \in Fields \ {"up"} : v[f] = u[f]
      /\ \/ v.up = <<>> /\ w.watched = {}
         \/ v.up = Append(w.up, w.watched)
  BY <1>1, <1>3 DEF Fields
<1> HIDE DEF v
<1>5. /\ DOMAIN watcher' = Fields /\ watcher'.wasConnected
      /\ watcher'.link = "open" /\ watcher'.up = v.up
      /\ \A f \in Fields \ {"up", "link", "wasConnected"} : watcher'[f] = w[f]
  BY <1>1, <1>2, <1>4 DEF Fields
<1>6. IsSeq(watcher'.up) /\ (watcher'.up = <<>> => w.watched = {})
      /\ (watcher'.up # <<>> => watcher'.up[Len(watcher'.up)] = w.watched)
  <2>1. IsSeq(w.up)
    BY <1>1, EmptyIsSeq
  <2>2. CASE v.up = <<>> /\ w.watched = {}
    BY <1>5, <2>2, EmptyIsSeq
  <2>3. CASE v.up = Append(w.up, w.watched)
    BY <1>5, <2>1, <2>3, AppendIsSeq
  <2> QED BY <1>4, <2>2, <2>3
<1>7. WatcherOK(watcher')
  <2>1. WatcherOK(w)
    BY DEF Watching, Watches
  <2>2. /\ watcher'.statuses = w.statuses /\ watcher'.down = w.down
        /\ watcher'.hasConnected = w.hasConnected
    BY <1>5 DEF Fields
  <2> QED BY <1>1, <1>5, <1>6, <2>1, <2>2 DEF WatcherOK
<1>8. Asks(watcher', subscribed')
  BY <1>1, <1>2, <1>5, <1>6 DEF Asks, Fields
<1> QED BY <1>1, <1>2, <1>5, <1>7, <1>8 DEF Watching, Watches, Fields

LEMMA LostOK ==
  ASSUME Watching, Lost
  PROVE  Watching' /\ watcher'.stopped = watcher.stopped /\ watcher'.watched = watcher.watched
<1> DEFINE u == [watcher EXCEPT !.link = "waiting", !.up = <<>>, !.down = <<>>]
<1>1. /\ DOMAIN u = Fields /\ u.link = "waiting" /\ u.up = <<>> /\ u.down = <<>>
      /\ \A f \in Fields \ {"link", "up", "down"} : u[f] = watcher[f]
  BY DEF Watching, Watches, WatcherOK, Fields
<1>2. watcher' = [u EXCEPT !.wasConnected = u.link = "open"]
  BY <1>1 DEF Lost, StateChanged
<1> HIDE DEF u
<1>3. /\ DOMAIN watcher' = Fields /\ ~watcher'.wasConnected
      /\ \A f \in Fields \ {"wasConnected"} : watcher'[f] = u[f]
  BY <1>1, <1>2 DEF Fields
<1>4. watcher.link # "none"
  BY DEF Lost
<1>5. WatcherOK(watcher')
  BY <1>1, <1>3, <1>4, EmptyIsSeq DEF Watching, Watches, WatcherOK, Fields
<1> QED BY <1>1, <1>3, <1>5 DEF Watching, Watches, Lost, Fields

LEMMA RedialsOK ==
  ASSUME Watching, Redials
  PROVE  Watching' /\ watcher'.stopped = watcher.stopped /\ watcher'.watched = watcher.watched
<1>1. /\ DOMAIN watcher' = Fields /\ watcher'.link = "dialing" /\ watcher.link = "waiting"
      /\ \A f \in Fields \ {"link"} : watcher'[f] = watcher[f]
  BY DEF Watching, Watches, WatcherOK, Redials, Fields
<1>2. WatcherOK(watcher')
  BY <1>1 DEF Watching, Watches, WatcherOK, Fields
<1> QED BY <1>1, <1>2 DEF Watching, Watches, Redials, WillKnow, Fields

-----------------------------------------------------------------------------
(* Messages. *)

LEMMA DeliveredOK ==
  ASSUME Watching, Delivered
  PROVE  Watching' /\ watcher'.stopped = watcher.stopped /\ watcher'.watched = watcher.watched
<1> DEFINE w == watcher
           m == Head(w.down)
           t == Tail(w.down)
<1>1. WatcherOK(w) /\ IsSeq(w.down) /\ w.down # <<>>
  BY DEF Watching, Watches, WatcherOK, Delivered
<1>2. /\ DOMAIN watcher' = Fields /\ watcher'.down = t
      /\ watcher'.statuses = Merged(w.statuses, m.news)
      /\ \A f \in Fields \ {"down", "statuses"} : watcher'[f] = w[f]
      /\ UNCHANGED <<occupancy, subscribed, overtaken>>
  BY DEF Watching, Watches, WatcherOK, Delivered, Fields
<1>3. /\ IsSeq(t) /\ m = w.down[1] /\ 1 \in DOMAIN w.down
      /\ DOMAIN w.down \subseteq Nat \ {0} /\ DOMAIN t \subseteq Nat \ {0}
      /\ \A i \in DOMAIN w.down : i = 1 \/ (i - 1 \in DOMAIN t /\ t[i - 1] = w.down[i])
      /\ \A i \in DOMAIN t : i + 1 \in DOMAIN w.down /\ t[i] = w.down[i + 1]
  BY <1>1, TailIsSeq
<1> HIDE DEF m, t
<1>4. NewsOK(m)
  BY <1>1, <1>3 DEF WatcherOK
<1>5. /\ DOMAIN watcher'.statuses = Rooms
      /\ \A r \in Rooms : watcher'.statuses[r] =
           IF r \in DOMAIN m.news THEN Normalized(m.news[r], w.statuses[r]) ELSE w.statuses[r]
  BY <1>2 DEF Merged
<1>6. WatcherOK(watcher')
  <2>1. \A i \in DOMAIN t : NewsOK(t[i])
    BY <1>1, <1>3 DEF WatcherOK
  <2>2. \A r \in Rooms \ ValidRooms : watcher'.statuses[r] = None
    BY <1>1, <1>4, <1>5 DEF NewsOK, WatcherOK
  <2>3. w.link = "open"
    BY <1>1 DEF WatcherOK
  <2> QED BY <1>1, <1>2, <1>3, <1>5, <2>1, <2>2, <2>3 DEF WatcherOK, Fields
<1>7. ASSUME NEW r \in subscribed \ overtaken
      PROVE  WillKnow(watcher', occupancy, r)
  <2>1. WillKnow(w, occupancy, r) /\ r \in Rooms
    BY <1>7, WatchingAssumption DEF Watching, Watches
  <2>2. ASSUME NEW i \in DOMAIN t, r \in DOMAIN t[i].news,
               \A j \in DOMAIN t : i < j => r \notin DOMAIN t[j].news
        PROVE  t[i].news[r] = occupancy[r]
    <3>1. i + 1 \in DOMAIN w.down /\ t[i] = w.down[i + 1]
      BY <1>3
    <3>2. \A j \in DOMAIN w.down : i + 1 < j => r \notin DOMAIN w.down[j].news
      <4>1. SUFFICES ASSUME NEW j \in DOMAIN w.down, i + 1 < j
                     PROVE  r \notin DOMAIN w.down[j].news
        OBVIOUS
      <4>2. j - 1 \in DOMAIN t /\ t[j - 1] = w.down[j] /\ i < j - 1
        BY <1>3, <4>1
      <4> QED BY <2>2, <4>2
    <3> QED BY <2>1, <2>2, <3>1, <3>2 DEF WillKnow
  <2>3. ASSUME \A i \in DOMAIN t : r \notin DOMAIN t[i].news
        PROVE  StatusState(watcher'.statuses[r]) = StatusState(occupancy[r])
    <3>1. \A j \in DOMAIN w.down : 1 < j => r \notin DOMAIN w.down[j].news
      BY <1>3, <2>3
    <3>2. CASE r \in DOMAIN m.news
      <4>1. m.news[r] = occupancy[r] /\ m.news[r] \in Status
        BY <1>3, <1>4, <2>1, <3>1, <3>2 DEF WillKnow, NewsOK
      <4>2. StatusState(Normalized(m.news[r], w.statuses[r])) = StatusState(m.news[r])
        BY <4>1, NormalizedShows
      <4> QED BY <1>5, <2>1, <3>2, <4>1, <4>2
    <3>3. CASE r \notin DOMAIN m.news
      <4>1. \A j \in DOMAIN w.down : r \notin DOMAIN w.down[j].news
        BY <1>3, <2>3, <3>3
      <4> QED BY <1>5, <2>1, <3>3, <4>1 DEF WillKnow
    <3> QED BY <3>2, <3>3
  <2> QED BY <1>2, <2>2, <2>3 DEF WillKnow
<1>8. Asks(w, subscribed) => Asks(watcher', subscribed)
  BY <1>2 DEF Asks, Fields
<1> QED BY <1>2, <1>6, <1>7, <1>8 DEF Watching, Watches, Fields

\* A message is queued last: what it says of a room is what will be known.
LEMMA AppendKnows ==
  ASSUME NEW w, WatcherOK(w), NEW m, NEW v,
         DOMAIN v = Fields, v.down = Append(w.down, m),
         v.statuses = w.statuses,
         NEW occ, NEW r
  PROVE  /\ r \in DOMAIN m.news /\ m.news[r] = occ[r] => WillKnow(v, occ, r)
         /\ r \notin DOMAIN m.news /\ WillKnow(w, occ, r) => WillKnow(v, occ, r)
<1> DEFINE d == w.down
           t == Append(d, m)
           n == Len(t)
<1>1. /\ t[n] = m /\ DOMAIN t = DOMAIN d \cup {n} /\ n \notin DOMAIN d
      /\ \A i \in DOMAIN d : t[i] = d[i] /\ i < n
      /\ DOMAIN d \subseteq Nat
  BY AppendIsSeq DEF WatcherOK
<1>2. n \in Nat
  BY DEF WatcherOK, IsSeq
<1> HIDE DEF t, n
<1>3. v.down = t
  BY DEF t
<1>4. ASSUME r \in DOMAIN m.news, m.news[r] = occ[r]
      PROVE  WillKnow(v, occ, r)
  BY <1>1, <1>2, <1>3, <1>4 DEF WillKnow
<1>5. ASSUME r \notin DOMAIN m.news, WillKnow(w, occ, r)
      PROVE  WillKnow(v, occ, r)
  <2>1. ~(n < n)
    BY <1>2
  <2> QED BY <1>1, <1>3, <1>5, <2>1 DEF WillKnow
<1> QED BY <1>4, <1>5
LEMMA HandleWatchRoomsOK ==
  ASSUME Watching, HandleWatchRooms
  PROVE  Watching' /\ watcher'.stopped = watcher.stopped /\ watcher'.watched = watcher.watched
<1> DEFINE w == watcher
           rooms == Head(w.up) \cap ValidRooms
           news == [r \in rooms |-> occupancy[r]]
           answer == [isAnswer |-> TRUE, news |-> news]
           t == Tail(w.up)
<1>1. WatcherOK(w) /\ OccupancyOK(occupancy) /\ IsSeq(w.up) /\ w.up # <<>> /\ w.link = "open"
      /\ Asks(w, subscribed)
  BY DEF Watching, Watches, WatcherOK, HandleWatchRooms
<1>2. /\ DOMAIN watcher' = Fields /\ watcher'.up = t /\ watcher'.down = Append(w.down, answer)
      /\ \A f \in Fields \ {"up", "down"} : watcher'[f] = w[f]
      /\ subscribed' = rooms /\ overtaken' = overtaken \ rooms /\ occupancy' = occupancy
  <2>1. watcher' = [w EXCEPT !.up = t, !.down = Append(w.down, answer)]
    BY DEF HandleWatchRooms
  <2> QED BY <1>1, <2>1 DEF WatcherOK, HandleWatchRooms, Fields
<1>3. /\ IsSeq(t) /\ (t # <<>> => t[Len(t)] = w.up[Len(w.up)])
      /\ (t = <<>> => Head(w.up) = w.up[Len(w.up)])
  BY <1>1, TailIsSeq
<1>4. Asks(watcher', subscribed')
  BY <1>1, <1>2, <1>3 DEF Asks, Fields
<1>5. rooms \subseteq ValidRooms /\ DOMAIN news = rooms /\ answer.news = news
      /\ \A r \in rooms : news[r] = occupancy[r] /\ news[r] \in Status
  BY <1>1, WatchingAssumption DEF OccupancyOK
<1>6. NewsOK(answer)
  BY <1>5 DEF NewsOK
<1> HIDE DEF news, t, rooms, answer
<1>7. WatcherOK(watcher')
  <2>1. IsSeq(watcher'.down) /\ \A i \in DOMAIN watcher'.down : NewsOK(watcher'.down[i])
    <3>1. LET d == Append(w.down, answer)
          IN  /\ IsSeq(d) /\ d[Len(d)] = answer /\ DOMAIN d = DOMAIN w.down \cup {Len(d)}
              /\ \A i \in DOMAIN w.down : d[i] = w.down[i]
      BY <1>1, AppendIsSeq DEF WatcherOK
    <3> QED BY <1>1, <1>2, <1>6, <3>1 DEF WatcherOK
  <2> QED BY <1>1, <1>2, <1>3, <2>1 DEF WatcherOK, Fields
<1>8. \A r \in rooms : WillKnow(watcher', occupancy, r)
  BY <1>1, <1>2, <1>5, AppendKnows DEF Fields
<1> QED BY <1>1, <1>2, <1>4, <1>5, <1>7, <1>8 DEF Watching, Watches, Fields

\* A change of one room leaves what is known of the others.
LEMMA OtherRooms ==
  ASSUME NEW w, NEW occ, NEW occ2, NEW r, NEW q, q # r, occ2[q] = occ[q], WillKnow(w, occ, q)
  PROVE  WillKnow(w, occ2, q)
BY DEF WillKnow

LEMMA SuccessorsOK ==
  ASSUME NEW x \in Status, NEW y \in Successors(x)
  PROVE  y \in Status
<1>1. CASE x = Empty
  BY <1>1, WatchingAssumption DEF Status, Successors, Empty
<1>2. CASE x \in [count : Nat \ {0}, max : Sizes]
  <2>1. CASE y \in [count : {1}, max : Sizes] \/ y = Empty \/ y \in [count : {2}, max : Sizes]
    BY <2>1 DEF Status
  <2>2. CASE y = [x EXCEPT !.count = @ - 1] /\ x.count # 1
    BY <1>2, <2>2 DEF Status
  <2>3. CASE y = [x EXCEPT !.count = @ + 1]
    BY <1>2, <2>3 DEF Status
  <2> QED BY <1>2, <2>1, <2>2, <2>3 DEF Successors
<1> QED BY <1>1, <1>2 DEF Status
LEMMA FrontIsSeq ==
  ASSUME NEW S, NEW s \in Seq(S), Len(s) > 0
  PROVE  LET a == SubSeq(s, 1, Len(s) - 1)
         IN  a \in Seq(S) /\ Len(a) = Len(s) - 1 /\ \A i \in 1..Len(s) - 1 : a[i] = s[i]
<1> DEFINE k == Len(s) - 1
<1>1. k \in Int /\ k >= 0 /\ Len(s) = k + 1 /\ \A i \in 1..k : s[i] \in S
  BY LenProperties
<1> HIDE DEF k
<1>2. /\ SubSeq(s, 1, k) \in Seq(S)
      /\ Len(SubSeq(s, 1, k)) = IF 1 <= k THEN k - 1 + 1 ELSE 0
      /\ \A i \in 1..k - 1 + 1 : SubSeq(s, 1, k)[i] = s[1 + i - 1]
  BY <1>1, SubSeqProperties
<1>3. k - 1 + 1 = k /\ \A i \in 1..k : 1 + i - 1 = i
  BY <1>1
<1> QED BY <1>1, <1>2, <1>3 DEF k

Two(x, y) == <<x, y>>
Ahead(s, e) == SubSeq(s, 1, Len(s) - 1) \o Two(e, s[Len(s)])

LEMMA JoinIsSeq ==
  ASSUME NEW S, NEW a \in Seq(S), NEW b \in Seq(S), Len(b) = 2
  PROVE  /\ a \o b \in Seq(S) /\ Len(a \o b) = Len(a) + 2
         /\ (a \o b)[Len(a) + 1] = b[1] /\ (a \o b)[Len(a) + 2] = b[2]
         /\ \A i \in 1..Len(a) : (a \o b)[i] = a[i]
<1>1. Len(a) \in Nat
  BY LenProperties
<1>3. /\ a \o b \in Seq(S) /\ Len(a \o b) = Len(a) + Len(b)
      /\ \A i \in 1..Len(a) + Len(b) : (a \o b)[i] = IF i <= Len(a) THEN a[i] ELSE b[i - Len(a)]
  BY ConcatProperties
<1>4. (a \o b)[Len(a) + 1] = b[1] /\ (a \o b)[Len(a) + 2] = b[2]
  <2>1. Len(a) + 1 \in 1..Len(a) + 2 /\ Len(a) + 2 \in 1..Len(a) + 2
        /\ Len(a) + 1 - Len(a) = 1 /\ Len(a) + 2 - Len(a) = 2
        /\ ~(Len(a) + 1 <= Len(a)) /\ ~(Len(a) + 2 <= Len(a))
    BY <1>1
  <2> QED BY <1>3, <2>1
<1>5. \A i \in 1..Len(a) : i \in 1..Len(a) + 2 /\ i <= Len(a)
  BY <1>1
<1> QED BY <1>3, <1>4, <1>5

\* A message that goes ahead of the last one.
LEMMA AheadIsSeq ==
  ASSUME NEW s, IsSeq(s), Len(s) > 0, NEW e
  PROVE  LET n == Len(s)
             t == Ahead(s, e)
         IN  /\ IsSeq(t) /\ n \in Nat \ {0}
             /\ DOMAIN s = 1..n /\ DOMAIN t = 1..n + 1
             /\ t[n] = e /\ t[n + 1] = s[n]
             /\ \A i \in 1..n : i < n => t[i] = s[i]
<1> DEFINE S == {s[i] : i \in DOMAIN s} \cup {e}
           n == Len(s)
           a == SubSeq(s, 1, n - 1)
           b == Two(e, s[n])
<1>1. s \in Seq({s[i] : i \in DOMAIN s})
  BY DEF IsSeq
<1>2. n \in Nat \ {0} /\ DOMAIN s = 1..n
  BY <1>1
<1>3. \A i \in 1..n : s[i] \in S
  BY <1>2
<1>4. s \in Seq(S) /\ s[n] \in S /\ e \in S
  BY <1>1, <1>2, <1>3
<1> HIDE DEF S
<1>5. a \in Seq(S) /\ Len(a) = n - 1 /\ \A i \in 1..n - 1 : a[i] = s[i]
  BY <1>2, <1>4, FrontIsSeq
<1>6. b \in Seq(S) /\ Len(b) = 2 /\ b[1] = e /\ b[2] = s[n]
  <2> DEFINE x == s[n]
  <2>1. e \in S /\ x \in S
    BY <1>4
  <2> HIDE DEF x
  <2>2. Two(e, x) \in Seq(S) /\ Len(Two(e, x)) = 2 /\ Two(e, x)[1] = e /\ Two(e, x)[2] = x
    BY <2>1 DEF Two
  <2> QED BY <2>2 DEF x
<1>7. /\ a \o b \in Seq(S) /\ Len(a \o b) = Len(a) + 2
      /\ (a \o b)[Len(a) + 1] = b[1] /\ (a \o b)[Len(a) + 2] = b[2]
      /\ \A i \in 1..Len(a) : (a \o b)[i] = a[i]
  <2> HIDE DEF a, b
  <2> QED BY <1>5, <1>6, JoinIsSeq
<1> HIDE DEF a, b
<1>8. IsSeq(a \o b)
  BY <1>7, SeqIsSeq
<1>9. Len(a) + 1 = n /\ Len(a) + 2 = n + 1
  BY <1>2, <1>5
<1>10. /\ (a \o b)[n] = e /\ (a \o b)[n + 1] = s[n]
       /\ DOMAIN (a \o b) = 1..n + 1
  BY <1>6, <1>7, <1>9
<1>11. \A i \in 1..n : i < n => i \in 1..n - 1 /\ i \in 1..Len(a)
  BY <1>2, <1>5
<1>12. \A i \in 1..n : i < n => (a \o b)[i] = s[i]
  BY <1>5, <1>7, <1>11
<1> QED BY <1>2, <1>8, <1>10, <1>12 DEF a, b, Ahead

LEMMA AheadNews ==
  ASSUME NEW s, IsSeq(s), Len(s) > 0, NEW e, NewsOK(e), \A i \in DOMAIN s : NewsOK(s[i])
  PROVE  IsSeq(Ahead(s, e)) /\ \A i \in DOMAIN Ahead(s, e) : NewsOK(Ahead(s, e)[i])
<1> DEFINE n == Len(s)
           t == Ahead(s, e)
<1>1. /\ IsSeq(t) /\ n \in Nat \ {0}
      /\ DOMAIN s = 1..n /\ DOMAIN t = 1..n + 1
      /\ t[n] = e /\ t[n + 1] = s[n]
      /\ \A i \in 1..n : i < n => t[i] = s[i]
  BY AheadIsSeq
<1> HIDE DEF n, t
<1>2. \A i \in 1..n + 1 : i = n \/ i = n + 1 \/ (i \in 1..n /\ i < n)
  BY <1>1
<1>3. n \in 1..n
  BY <1>1
<1>4. \A i \in DOMAIN t : NewsOK(t[i])
  BY <1>1, <1>2, <1>3
<1> QED BY <1>1, <1>4 DEF t

\* ... leaves what is known of the rooms it does not mention.
LEMMA AheadKnows ==
  ASSUME NEW w, WatcherOK(w), Len(w.down) > 0, NEW m, NEW v,
         v.down = Ahead(w.down, m),
         v.statuses = w.statuses, NEW occ, NEW r, r \notin DOMAIN m.news, WillKnow(w, occ, r)
  PROVE  WillKnow(v, occ, r)
<1> DEFINE d == w.down
           n == Len(d)
           t == Ahead(d, m)
<1>1. /\ n \in Nat \ {0} /\ DOMAIN d = 1..n /\ DOMAIN t = 1..n + 1
      /\ t[n] = m /\ t[n + 1] = d[n] /\ \A i \in 1..n : i < n => t[i] = d[i]
  <2>1. IsSeq(d) /\ Len(d) > 0
    BY DEF WatcherOK
  <2> QED BY <2>1, AheadIsSeq
<1>2. v.down = t
  OBVIOUS
<1> HIDE DEF t, n, d
<1> DEFINE Same(i, k) == (i = k /\ i < n) \/ (i = n + 1 /\ k = n)
<1>3. \A i \in 1..n + 1, k \in 1..n : Same(i, k) => t[i] = d[k]
  BY <1>1
<1>4. \A i \in DOMAIN t : r \in DOMAIN t[i].news => \E k \in DOMAIN d : Same(i, k)
  <2>1. SUFFICES ASSUME NEW i \in 1..n + 1, r \in DOMAIN t[i].news
                 PROVE  \E k \in 1..n : Same(i, k)
    BY <1>1
  <2>2. i # n
    BY <1>1, <2>1
  <2>3. CASE i < n
    <3>1. i \in 1..n
      BY <1>1, <2>3
    <3> QED BY <2>3, <3>1
  <2>4. CASE i = n + 1
    <3>1. n \in 1..n
      BY <1>1
    <3> QED BY <2>4, <3>1
  <2> QED BY <1>1, <2>2, <2>3, <2>4
<1>5. \A k \in DOMAIN d : \E i \in DOMAIN t : Same(i, k)
  <2>1. SUFFICES ASSUME NEW k \in 1..n
                 PROVE  \E i \in 1..n + 1 : Same(i, k)
    BY <1>1
  <2>2. CASE k < n
    <3>1. k \in 1..n + 1
      BY <1>1
    <3> QED BY <2>2, <3>1
  <2>3. CASE k = n
    <3>1. n + 1 \in 1..n + 1
      BY <1>1
    <3> QED BY <2>3, <3>1
  <2> QED BY <1>1, <2>2, <2>3
<1>6. ASSUME NEW i \in DOMAIN t, r \in DOMAIN t[i].news,
             \A j \in DOMAIN t : i < j => r \notin DOMAIN t[j].news
      PROVE  t[i].news[r] = occ[r]
  <2>1. PICK k \in DOMAIN d : t[i] = d[k] /\ Same(i, k)
    BY <1>1, <1>3, <1>4, <1>6
  <2>2. ASSUME NEW l \in DOMAIN d, k < l
        PROVE  r \notin DOMAIN d[l].news
    <3>1. PICK j \in DOMAIN t : t[j] = d[l] /\ Same(j, l)
      BY <1>1, <1>3, <1>5
    <3>2. i < j
      BY <1>1, <2>1, <2>2, <3>1
    <3> QED BY <1>6, <3>1, <3>2
  <2> QED BY <1>6, <2>1, <2>2 DEF WillKnow, d
<1>7. ASSUME \A i \in DOMAIN t : r \notin DOMAIN t[i].news
      PROVE  StatusState(w.statuses[r]) = StatusState(occ[r])
  <2>1. \A k \in DOMAIN d : r \notin DOMAIN d[k].news
    BY <1>1, <1>3, <1>5, <1>7
  <2> QED BY <2>1 DEF WillKnow, d
<1> QED BY <1>2, <1>6, <1>7 DEF WillKnow

LEMMA OccupancyChangesOK ==
  ASSUME Watching, NEW r \in ValidRooms, OccupancyChanges(r)
  PROVE  Watching' /\ watcher'.stopped = watcher.stopped /\ watcher'.watched = watcher.watched
<1> DEFINE w == watcher
           d == w.down
           n == Len(d)
           t(u) == Ahead(d, u)
<1>1. /\ WatcherOK(w) /\ OccupancyOK(occupancy) /\ subscribed \subseteq ValidRooms
      /\ w.link # "open" => subscribed = {} /\ d = <<>>
      /\ w.link = "open" => Asks(w, subscribed)
      /\ \A q \in subscribed \ overtaken : WillKnow(w, occupancy, q)
      /\ r \in Rooms /\ subscribed' = subscribed /\ ValidRooms \subseteq Rooms
  BY WatchingAssumption DEF Watching, Watches, WatcherOK, OccupancyChanges
<1>2. PICK room \in Successors(occupancy[r]) :
        /\ occupancy' = [occupancy EXCEPT ![r] = room]
        /\ \/ /\ watcher' = IF r \in subscribed
                            THEN [w EXCEPT !.down = Append(d, Update(r, room))] ELSE w
              /\ overtaken' = overtaken \ {r}
           \/ /\ r \in subscribed /\ n > 0
              /\ watcher' = [w EXCEPT !.down = t(Update(r, room))]
              /\ overtaken' = overtaken \cup {r}
  BY DEF OccupancyChanges, Ahead, Two
<1> DEFINE u == Update(r, room)
<1> HIDE DEF t
<1>3. room \in Status /\ OccupancyOK(occupancy') /\ occupancy'[r] = room
      /\ \A q \in Rooms \ {r} : occupancy'[q] = occupancy[q]
  BY <1>1, <1>2, SuccessorsOK DEF OccupancyOK
<1>4. DOMAIN u.news = {r} /\ u.news[r] = room /\ NewsOK(u)
  BY <1>3 DEF Update, NewsOK
<1> HIDE DEF u
<1>5. \A q \in subscribed \ overtaken : q # r => WillKnow(w, occupancy', q)
  BY <1>1, <1>3, OtherRooms
<1>6. CASE r \notin subscribed /\ watcher' = w /\ overtaken' = overtaken \ {r}
  BY <1>1, <1>3, <1>5, <1>6 DEF Watching, Watches
<1>7. CASE /\ r \in subscribed /\ watcher' = [w EXCEPT !.down = Append(d, u)]
           /\ overtaken' = overtaken \ {r}
  <2>1. /\ DOMAIN watcher' = Fields /\ watcher'.down = Append(d, u)
        /\ \A f \in Fields \ {"down"} : watcher'[f] = w[f]
    BY <1>1, <1>7 DEF WatcherOK, Fields
  <2>2. LET e == Append(d, u)
        IN  /\ IsSeq(e) /\ e[Len(e)] = u /\ DOMAIN e = DOMAIN d \cup {Len(e)}
            /\ \A i \in DOMAIN d : e[i] = d[i]
    BY <1>1, AppendIsSeq DEF WatcherOK
  <2>3. WatcherOK(watcher')
    BY <1>1, <1>4, <1>7, <2>1, <2>2 DEF WatcherOK, Fields
  <2>4. \A q : /\ q = r => WillKnow(watcher', occupancy', q)
               /\ q # r /\ WillKnow(w, occupancy', q) => WillKnow(watcher', occupancy', q)
    <3>1. watcher'.statuses = w.statuses
      BY <2>1 DEF Fields
    <3> QED BY <1>1, <1>3, <1>4, <2>1, <3>1, AppendKnows
  <2>5. Asks(w, subscribed) => Asks(watcher', subscribed)
    BY <2>1 DEF Asks, Fields
  <2> QED BY <1>1, <1>3, <1>5, <1>7, <2>1, <2>3, <2>4, <2>5 DEF Watching, Watches, Fields
<1>8. CASE /\ r \in subscribed /\ n > 0 /\ watcher' = [w EXCEPT !.down = t(u)]
           /\ overtaken' = overtaken \cup {r}
  <2>1. /\ DOMAIN watcher' = Fields /\ watcher'.down = t(u)
        /\ \A f \in Fields \ {"down"} : watcher'[f] = w[f]
    BY <1>1, <1>8 DEF WatcherOK, Fields
  <2>2. IsSeq(t(u)) /\ \A i \in DOMAIN t(u) : NewsOK(t(u)[i])
    <3>1. IsSeq(d) /\ Len(d) > 0 /\ \A i \in DOMAIN d : NewsOK(d[i])
      BY <1>1, <1>8 DEF WatcherOK
    <3> HIDE DEF d
    <3> QED BY <1>4, <3>1, AheadNews DEF t
  <2>4. WatcherOK(watcher')
    BY <1>1, <1>8, <2>1, <2>2 DEF WatcherOK, Fields
  <2>5. \A q : q # r /\ WillKnow(w, occupancy', q) => WillKnow(watcher', occupancy', q)
    <3>1. watcher'.statuses = w.statuses
          /\ watcher'.down = Ahead(w.down, u)
      BY <2>1 DEF Fields, t
    <3> QED BY <1>1, <1>4, <1>8, <3>1, AheadKnows
  <2>6. Asks(w, subscribed) => Asks(watcher', subscribed)
    BY <2>1 DEF Asks, Fields
  <2> QED BY <1>1, <1>3, <1>5, <1>8, <2>1, <2>4, <2>5, <2>6 DEF Watching, Watches, Fields
<1> QED BY <1>2, <1>6, <1>7, <1>8 DEF u
LEMMA WatchingStepOK ==
  ASSUME Watching, WatchingStep
  PROVE  Watching' /\ watcher'.stopped = watcher.stopped /\ watcher'.watched = watcher.watched
BY OpensOK, LostOK, RedialsOK, DeliveredOK, HandleWatchRoomsOK, OccupancyChangesOK
   DEF WatchingStep

-----------------------------------------------------------------------------
(* The pages. *)

\* The camera, when the page may have changed.
CameraOK(c, p) ==
  /\ c \in [cancelled : Nat, live : {0, 1}]
  /\ c.live = IF p.at = "call" /\ p.preview = "on" THEN 1 ELSE 0

LEMMA InvParts == Inv <=> Watching /\ PageOK(page, watcher) /\ CameraOK(camera, page)
BY DEF Inv, Watching, CameraOK, PreviewReleased

\* A preview that is over gives the camera back, now or when it comes.
LEMMA PreviewOverOK ==
  ASSUME NEW c, NEW p, p \in CallPage, CameraOK(c, p)
  PROVE  PreviewOver(c, p) \in [cancelled : Nat, live : {0}]
<1>1. CASE p.preview = "on"
  BY <1>1 DEF CameraOK, PreviewOver, CallPage
<1>2. CASE p.preview = "asking"
  BY <1>2 DEF CameraOK, PreviewOver, CallPage
<1>3. CASE p.preview = "none"
  BY <1>3 DEF CameraOK, PreviewOver, CallPage
<1> QED BY <1>1, <1>2, <1>3 DEF CallPage

LEMMA LeaveOK ==
  ASSUME Inv, Leave
  PROVE  /\ camera' \in [cancelled : Nat, live : {0}]
         /\ subscribed' = {} /\ overtaken' = {} /\ occupancy' = occupancy
         /\ OccupancyOK(occupancy)
<1>1. PageOK(page, watcher) /\ CameraOK(camera, page) /\ OccupancyOK(occupancy)
  BY InvParts DEF Watching, Watches
<1>2. CASE page.at = "call"
  BY <1>1, <1>2, PreviewOverOK DEF Leave, PageOK
<1>3. CASE page.at # "call"
  BY <1>1, <1>3 DEF Leave, CameraOK
<1> QED BY <1>1, <1>2, <1>3 DEF Leave

\* A page that is loaded watches what it lists.
LEMMA LoadOK ==
  ASSUME NEW w, NEW s, NEW sub, NEW ovt, NEW occ,
         Watches(w, sub, occ, ovt), ~w.stopped, Load(w, s)
  PROVE  Watches(watcher', sub, occ, ovt) /\ PageOK(page', watcher') /\ page'.at = "home"
<1> DEFINE h == Home(Cleaned(s))
<1>1. page' = h /\ watcher' = WatchRooms(w, Listed(h)) /\ h.at = "home"
  BY DEF Load, Home
<1> HIDE DEF h
<1>2. /\ Watches(watcher', sub, occ, ovt)
      /\ ~watcher'.stopped /\ watcher'.watched = Listed(h)
  BY <1>1, WatchRoomsOK
<1> QED BY <1>1, <1>2 DEF PageOK

LEMMA CallRoomOK ==
  ASSUME NEW r \in Rooms, NEW invited \in BOOLEAN
  PROVE  /\ CallRoom(r, invited) \in CallPage /\ CallRoom(r, invited).preview = "asking"
         /\ LET p == [CallRoom(r, invited) EXCEPT !.joined = TRUE, !.preview = "none"]
            IN  p \in CallPage /\ p.preview = "none"
BY DEF CallRoom, CallPage

LEMMA GoHomeOK ==
  ASSUME Inv, NEW s, GoHome(s)
  PROVE  Inv'
<1>1. /\ camera' \in [cancelled : Nat, live : {0}]
      /\ subscribed' = {} /\ overtaken' = {} /\ occupancy' = occupancy
      /\ OccupancyOK(occupancy)
  BY LeaveOK DEF GoHome
<1>2. Watches(NewWatcher, {}, occupancy, {}) /\ ~NewWatcher.stopped
  BY <1>1, NewWatches, NewIsWatcher
<1>3. Watches(watcher', {}, occupancy, {}) /\ PageOK(page', watcher') /\ page'.at = "home"
  BY <1>2, LoadOK DEF GoHome
<1>4. Watching' /\ CameraOK(camera', page')
  BY <1>1, <1>3 DEF Watching, CameraOK
<1> QED BY <1>3, <1>4, InvParts DEF Inv, Watching, CameraOK, PreviewReleased

LEMMA GoToCallOK ==
  ASSUME Inv, NEW r \in Rooms, NEW invited \in BOOLEAN, GoToCall(r, invited)
  PROVE  Inv'
<1>1. /\ camera' \in [cancelled : Nat, live : {0}]
      /\ subscribed' = {} /\ overtaken' = {} /\ occupancy' = occupancy
      /\ OccupancyOK(occupancy)
  BY LeaveOK DEF GoToCall
<1>2. Watches(watcher', {}, occupancy, {}) /\ watcher' = Stopped
  BY <1>1, NewWatches DEF GoToCall
<1>3. page' \in CallPage /\ page'.preview # "on"
  BY CallRoomOK DEF GoToCall
<1>4. page'.at = "call"
  BY <1>3 DEF CallPage
<1>5. Watching' /\ CameraOK(camera', page') /\ PageOK(page', watcher')
  BY <1>1, <1>2, <1>3, <1>4 DEF Watching, CameraOK, PageOK
<1> QED BY <1>5 DEF Inv, Watching, CameraOK, PreviewReleased

LEMMA OpenOK ==
  ASSUME Inv, Open
  PROVE  Inv'
<1>1. /\ camera' = [cancelled |-> 0, live |-> 0]
      /\ subscribed' = {} /\ overtaken' = {} /\ occupancy' = occupancy
      /\ OccupancyOK(occupancy)
  BY DEF Open, Inv, Watches
<1>2. CASE Load(NewWatcher, storage)
  <2>1. Watches(NewWatcher, {}, occupancy, {}) /\ ~NewWatcher.stopped
    BY <1>1, NewWatches, NewIsWatcher
  <2>2. Watches(watcher', {}, occupancy, {}) /\ PageOK(page', watcher') /\ page'.at = "home"
    BY <1>2, <2>1, LoadOK
  <2> QED BY <1>1, <2>2 DEF Inv, PreviewReleased
<1>3. ASSUME NEW r \in Rooms, NEW invited \in BOOLEAN,
             page' = CallRoom(r, invited), watcher' = Stopped
      PROVE  Inv'
  <2>1. Watches(watcher', {}, occupancy, {})
    BY <1>1, <1>3, NewWatches
  <2>2. page' \in CallPage /\ page'.preview = "asking"
    BY <1>3, CallRoomOK
  <2>3. page'.at = "call"
    BY <2>2 DEF CallPage
  <2> QED BY <1>1, <2>1, <2>2, <2>3 DEF Inv, PreviewReleased, PageOK
<1> QED BY <1>2, <1>3 DEF Open

LEMMA EditListsOK ==
  ASSUME Inv, NEW r \in Rooms, EditLists(r)
  PROVE  Inv'
<1>1. Watching /\ ~watcher.stopped /\ page.at = "home"
  BY DEF Inv, Watching, PageOK, EditLists
<1>2. /\ UNCHANGED <<occupancy, subscribed, overtaken, camera>>
      /\ \/ Load(watcher, RemoveRecentCall(storage, r))
         \/ Load(watcher, RemoveRoom(storage, r))
         \/ Load(watcher, SaveRoom(storage, r))
  BY DEF EditLists
<1>3. /\ Watches(watcher', subscribed, occupancy, overtaken)
      /\ PageOK(page', watcher') /\ page'.at = "home"
  BY <1>1, <1>2, LoadOK DEF Watching
<1> QED BY <1>1, <1>2, <1>3 DEF Inv, PreviewReleased

-----------------------------------------------------------------------------
(* The call page. *)

LEMMA PreviewComesOK ==
  ASSUME Inv, PreviewComes
  PROVE  Inv'
<1>1. page \in CallPage /\ page.at = "call" /\ page.preview = "asking"
      /\ camera \in [cancelled : Nat, live : {0, 1}] /\ camera.live = 0
  BY DEF Inv, PageOK, PreviewComes, PreviewReleased
<1>2. page' \in CallPage /\ page'.at = "call"
  BY <1>1 DEF PreviewComes, CallPage
<1>3. /\ camera' \in [cancelled : Nat, live : {0, 1}]
      /\ camera'.live = IF page'.preview = "on" THEN 1 ELSE 0
  <2>1. CASE page' = [page EXCEPT !.preview = "on"] /\ camera' = [camera EXCEPT !.live = @ + 1]
    <3>1. page'.preview = "on" /\ camera' = [camera EXCEPT !.live = 1]
      BY <1>1, <2>1 DEF CallPage
    <3> QED BY <1>1, <3>1
  <2>2. CASE page' = [page EXCEPT !.preview = "none"] /\ camera' = camera
    BY <1>1, <2>2 DEF CallPage
  <2> QED BY <2>1, <2>2 DEF PreviewComes
<1>4. Watches(watcher', subscribed', occupancy', overtaken')
  BY DEF Inv, PreviewComes, watching
<1> QED BY <1>2, <1>3, <1>4 DEF Inv, PageOK, PreviewReleased

LEMMA LatePreviewOK ==
  ASSUME Inv, LatePreview
  PROVE  Inv'
<1>1. camera \in [cancelled : Nat, live : {0, 1}] /\ camera.cancelled > 0
  BY DEF Inv, LatePreview
<1>2. camera' \in [cancelled : Nat, live : {0, 1}] /\ camera'.live = camera.live
  BY <1>1 DEF LatePreview, CameraReturned
<1> QED BY <1>2 DEF Inv, LatePreview, PageOK, PreviewReleased, watching

LEMMA JoinOK ==
  ASSUME Inv, Join
  PROVE  Inv'
<1>1. page \in CallPage /\ page.at = "call" /\ CameraOK(camera, page)
  BY DEF Inv, PageOK, Join, CameraOK, PreviewReleased
<1>2. camera' \in [cancelled : Nat, live : {0}]
  BY <1>1, PreviewOverOK DEF Join
<1>3. page' \in CallPage /\ page'.at = "call" /\ page'.preview = "none"
  BY <1>1 DEF Join, CallPage
<1> QED BY <1>2, <1>3 DEF Inv, Join, PageOK, PreviewReleased

-----------------------------------------------------------------------------
(* The theorems. *)

LEMMA InitOK == Init => Inv
<1> SUFFICES ASSUME Init PROVE Inv
  OBVIOUS
<1>1. OccupancyOK(occupancy)
  BY WatchingAssumption, StatusTypes DEF Init, WatchingInit, OccupancyOK
<1>2. Watches(watcher, subscribed, occupancy, overtaken)
  BY <1>1, NewWatches DEF Init, WatchingInit
<1> QED BY <1>2 DEF Init, Inv, PageOK, PreviewReleased

LEMMA NextOK == Inv /\ [Next]_vars => Inv'
<1> SUFFICES ASSUME Inv, [Next]_vars PROVE Inv'
  OBVIOUS
<1>1. CASE Open \/ PreviewComes \/ LatePreview \/ Join
  BY <1>1, OpenOK, PreviewComesOK, LatePreviewOK, JoinOK
<1>2. CASE StartCall
  BY <1>2 DEF StartCall, Inv, PageOK, PreviewReleased
<1>3. CASE BackHome
  BY <1>3, GoHomeOK DEF BackHome
<1>4. CASE \E r \in Rooms, invited \in BOOLEAN : OpenCall(r, invited)
  BY <1>4, GoToCallOK DEF OpenCall
<1>5. CASE \E r \in Rooms : EditLists(r)
  BY <1>5, EditListsOK
<1>6. ASSUME NEW r \in ValidRooms, RoomCreated(r)
      PROVE  Inv'
  <2>1. CASE GoToCall(r, FALSE)
    BY <2>1, GoToCallOK, WatchingAssumption
  <2>2. CASE UNCHANGED <<watching, page, camera>>
    BY <2>2 DEF Inv, PageOK, PreviewReleased, watching
  <2> QED BY <1>6, <2>1, <2>2 DEF RoomCreated
<1>7. CASE \E r \in ValidRooms : OtherTab(r)
  BY <1>7 DEF OtherTab, Inv, PageOK, PreviewReleased
<1>8. CASE WatchingStep /\ UNCHANGED <<storage, page, camera, creating, visits>>
  BY <1>8, WatchingStepOK DEF Inv, Watching, PageOK, PreviewReleased
<1>9. CASE UNCHANGED vars
  BY <1>9 DEF vars, watching, Inv, PageOK, PreviewReleased
<1> QED BY <1>1, <1>2, <1>3, <1>4, <1>5, <1>6, <1>7, <1>8, <1>9 DEF Next

\* The inductive invariant of the pages holds for any rooms, storage and number
\* of events: what the watcher has or is about to read is what the server knows
\* (RoomWatcher.ts), and the preview has its camera (CallRoom.tsx).
THEOREM PagesInvariant == Spec => []Inv
<1> QED BY InitOK, NextOK, PTL DEF Spec

\* Once everything is answered, the mark at every room on the page says what the
\* server knows of it, through edits of the lists, lost connections and updates
\* that cross answers (RoomWatcher.ts, handleWatchRooms).
THEOREM MarksTheorem == Spec => []MarksTrue
<1>1. Inv => MarksTrue
  <2> SUFFICES ASSUME Inv, page.at = "home", Answered,
                      NEW r \in Rooms \ overtaken, r \in Listed(page)
               PROVE  StatusState(CurrentStatus(watcher, r)) = StatusState(occupancy[r])
    BY DEF MarksTrue
  <2>1. /\ WatcherOK(watcher) /\ OccupancyOK(occupancy)
        /\ r \in watcher.watched /\ watcher.down = <<>>
        /\ subscribed = watcher.watched \cap ValidRooms
        /\ \A q \in subscribed \ overtaken : WillKnow(watcher, occupancy, q)
    BY DEF Inv, Watches, PageOK, Answered, Asks
  <2>2. CurrentStatus(watcher, r) = watcher.statuses[r]
    BY <2>1 DEF CurrentStatus
  <2>3. CASE r \in ValidRooms
    BY <2>1, <2>2, <2>3, EmptyIsSeq DEF WillKnow
  <2>4. CASE r \notin ValidRooms
    <3>1. watcher.statuses[r] = None /\ occupancy[r] = Empty
      BY <2>1, <2>4 DEF WatcherOK, OccupancyOK
    <3> QED BY <2>2, <3>1 DEF StatusState, Empty
  <2> QED BY <2>3, <2>4
<1> QED BY <1>1, PagesInvariant, PTL

\* The camera of the preview is on only while the preview is, also when it was
\* granted after the user joined, went to another room or left (CallRoom.tsx).
THEOREM PreviewTheorem == Spec => []PreviewReleased
<1>1. Inv => PreviewReleased
  BY DEF Inv
<1> QED BY <1>1, PagesInvariant, PTL
=============================================================================
