--------------------------- MODULE SessionProofs ---------------------------
(***************************************************************************)
(* What every handler, timer and callback of a SerenadaSession keeps true, *)
(* also when the host leaves in the middle of it.                          *)
(*                                                                         *)
(* A handler composes operators from session to session.  Between two of   *)
(* them the session is Moving: its roster may have changed while the       *)
(* engine's view, the suspicions and the tracker have not followed.        *)
(* updateRoomState makes it Ready, rebuildState makes it Settled, and when *)
(* the host leaves it is Gone.                                             *)
(***************************************************************************)
EXTENDS Session, TLAPS

Fields ==
  {"phase", "destroyed", "terminated", "started", "pendingJoin", "joinInFlight",
   "recoveryPending", "resync", "joinTimer", "reconnectTimer", "endingTimer", "liveness",
   "emitting", "fetch", "connected", "cid", "inRoom", "room", "content", "lostTimers",
   "lost", "permDone", "permBusy", "stream", "capture", "active", "iceDown", "status",
   "retryTimer", "lastStatus", "o", "acts"}

EntryType ==
  [status : {Out, "active", "suspended"},
   snap : {None} \cup [sid : {NoSid}, revision : Revisions, active : BOOLEAN]]

Messages == [sid : Sids \cup {NoSid}, revision : Revisions \cup {None}, active : BOOLEAN]

OutageFields == {"started", "since", "drops", "recoveries", "downtime", "finalized"}

PlanType ==
  [hosted : BOOLEAN, budget : Nat,
   events : SUBSET {"loss", "ice", "roster", "peers", "content", "end"},
   remotes : SUBSET Remotes, acts : SUBSET {"state", "event"}]

\* The shape of a session, and the types of the fields that a step computes with.
IsSession(x) ==
  /\ DOMAIN x = Fields
  /\ x.room \in [Remotes -> EntryType]
  /\ x.content \in [Remotes -> Contents \cup {None}]
  /\ x.lostTimers \subseteq Remotes /\ x.lost \subseteq Remotes
  /\ DOMAIN x.o = OutageFields

Occupied(x) == x.inRoom /\ Present(x) # {}
Suspended(x) == {r \in Remotes : x.room[r].status = "suspended"}

\* The tracker of a live call has an outage open exactly if the status it was last
\* told of is degraded, and has seen the call begin if the phase says so.
Tracks(o, phase, status) ==
  /\ ~o.finalized
  /\ o.started = No => o.since = No /\ status = "connected"
  /\ o.started # No => (o.since # No <=> status # "connected")
  /\ phase = "inCall" => o.started # No

\* While it is not in its room, the session waits for the answer to a join it has
\* sent or will send; the backoff runs only without a connection.
Joins(x) ==
  /\ x.started
  /\ ~x.inRoom /\ ~x.cid => x.joinTimer /\ x.pendingJoin
  /\ x.reconnectTimer => ~x.connected
  /\ x.pendingJoin /\ x.connected => x.joinInFlight

Moving(x) ==
  /\ IsSession(x) /\ ~Inactive(x)
  /\ x.lostTimers \cap x.lost = {}
  /\ Tracks(x.o, x.phase, x.lastStatus)
  /\ Joins(x)

\* The engine reports a degraded status only in a call with somebody in it.
Ready(x) ==
  /\ Moving(x)
  /\ x.active => Occupied(x)
  /\ x.status # "connected" => x.active

Settled(x) ==
  /\ Ready(x)
  /\ x.lostTimers \cup x.lost = Suspended(x)
  /\ x.lastStatus = x.status

Stopped(x) ==
  /\ ~x.joinTimer /\ ~x.reconnectTimer /\ ~x.resync /\ ~x.liveness /\ ~x.retryTimer
  /\ x.lostTimers = {} /\ x.fetch = 0
  /\ x.endingTimer => ~x.destroyed

Ended(x) == IsSession(x) /\ Inactive(x) /\ Stopped(x)

\* The host has left.
Gone(x) == Ended(x) /\ x.destroyed /\ ~x.inRoom

\* y differs from x in the fields fs only.
Differs(x, y, fs) == \A f \in Fields \ fs : y[f] = x[f]

\* The fields that rebuildState writes.
Rebuilt == {"phase", "content", "lostTimers", "lost", "permBusy", "o", "lastStatus"}

\* The provider names no sender session, as the hosted one: then the revisions of
\* a participant have one order.
OneSender == Sids \subseteq {NoSid}

\* From x to y no participant of y's roster shows older content than before, and
\* what its entry carries is shown.
Rises(x, y) ==
  OneSender => \A r \in Remotes : y.room[r].status # Out =>
    /\ x.content[r] # None =>
         y.content[r] # None /\ x.content[r].gate <= y.content[r].gate
    /\ y.room[r].snap # None =>
         y.content[r] # None /\ y.room[r].snap.revision <= y.content[r].gate

\* What a rebuild makes of a session.
Becomes(x, y) ==
  \/ Gone(y)
  \/ /\ Settled(y) /\ Rises(x, y)
     /\ y.room = x.room /\ y.inRoom = x.inRoom /\ y.reconnectTimer = x.reconnectTimer

\* Every revision delivered of a participant's stay is covered by what is shown.
Covers(x, d) ==
  \A r \in Remotes : d[r] # {} =>
    x.content[r] # None /\ \A v \in d[r] : v <= x.content[r].gate

\* The same for what comes with the step from x to y.
Shows(x, y, more) ==
  OneSender => \A r \in Remotes : y.room[r].status # Out =>
    /\ x.content[r] # None =>
         y.content[r] # None /\ x.content[r].gate <= y.content[r].gate
    /\ \A v \in more[r] : y.content[r] # None /\ v <= y.content[r].gate

\* The inductive invariant.
Inv ==
  /\ IsSession(s) /\ plan \in PlanType
  /\ delivered \in [Remotes -> SUBSET Revisions]
  /\ \A r \in Remotes : s.room[r].status = Out => delivered[r] = {}
  /\ \/ Ended(s)
     \/ /\ Settled(s)
        /\ link = "down" => s.reconnectTimer
        /\ OneSender => Covers(s, delivered)

-----------------------------------------------------------------------------
(* The tracker. *)

\* Feeding or finalizing the tracker keeps its shape.
LEMMA OutagesShaped ==
  ASSUME NEW o, DOMAIN o = OutageFields
  PROVE  /\ DOMAIN Finalize(o, 0) = OutageFields
         /\ \A phase, next, status, new :
              DOMAIN Feed(o, phase, next, status, new, 0) = OutageFields
<1>1. \A e : DOMAIN CloseSilently(e, 0) = DOMAIN e
  BY DEF CloseSilently
<1>2. DOMAIN Finalize(o, 0) = OutageFields
  BY <1>1 DEF Finalize
<1>3. ASSUME NEW phase, NEW next, NEW status, NEW new
      PROVE  DOMAIN Feed(o, phase, next, status, new, 0) = OutageFields
  <2>1. DOMAIN AfterPhase(o, phase, next, 0) = OutageFields
    BY <1>1 DEF AfterPhase, OnPhaseTransition
  <2> QED
    BY <1>1, <2>1 DEF Feed, OnConnectionStatusTransition, OpenDropout
<1> QED
  BY <1>2, <1>3

\* feedQualityTracker leaves the tracker knowing the phase and the status it was
\* given, if a degraded status comes only with a call.
LEMMA FeedTracks ==
  ASSUME NEW o, DOMAIN o = OutageFields, NEW phase, NEW next, NEW status, NEW new,
         Tracks(o, phase, status), new # "connected" => next = "inCall"
  PROVE  Tracks(Feed(o, phase, next, status, new, 0), next, new)
<1> DEFINE m == AfterPhase(o, phase, next, 0)
<1>1. DOMAIN m = OutageFields /\ ~m.finalized
  BY DEF AfterPhase, OnPhaseTransition, CloseSilently, OutageFields, Tracks
<1>2. CASE next = "inCall"
  <2>1. m.started # No /\ (m.since # No <=> status # "connected")
    BY <1>2 DEF AfterPhase, OnPhaseTransition, OutageFields, Tracks, No
  <2> HIDE DEF m
  <2> QED
    BY <1>1, <1>2, <2>1
    DEF Feed, m, OnConnectionStatusTransition, OpenDropout, CloseSilently, Recovers,
        OutageFields, Tracks, No
<1>3. CASE next # "inCall"
  <2>1. m.since # No => m.started # No /\ status # "connected"
    BY <1>3 DEF AfterPhase, OnPhaseTransition, CloseSilently, OutageFields, Tracks, No
  <2>2. new = status => m.since = No
    BY <1>3 DEF AfterPhase, OnPhaseTransition, CloseSilently, OutageFields, Tracks, No
  <2> HIDE DEF m
  <2> QED
    BY <1>1, <1>3, <2>1, <2>2
    DEF Feed, m, OnConnectionStatusTransition, CloseSilently, Recovers,
        OutageFields, Tracks, No
<1> QED
  BY <1>2, <1>3
-----------------------------------------------------------------------------
(* The roster as it is shown, and rebuildState. *)

\* What applyRemoteContentState keeps of a participant's content: with one sender
\* session it never goes back, and covers what has just come.
LEMMA ContentApplied ==
  ASSUME NEW old \in Contents \cup {None}, NEW new \in Messages, NEW snapshot \in BOOLEAN
  PROVE  /\ ApplyContent(old, new, snapshot) \in Contents \cup {None}
         /\ OneSender /\ old # None =>
              /\ ApplyContent(old, new, snapshot) # None
              /\ old.gate <= ApplyContent(old, new, snapshot).gate
         /\ OneSender /\ new.revision # None =>
              /\ ApplyContent(old, new, snapshot) # None
              /\ new.revision <= ApplyContent(old, new, snapshot).gate
<1> DEFINE a == ApplyContent(old, new, snapshot)
           gate == IF new.revision # None THEN new.revision
                   ELSE IF old # None /\ old.sid = new.sid THEN old.gate ELSE 0
<1>1. /\ new.revision \in Nat \cup {None} /\ new.sid \in Sids \cup {NoSid}
      /\ new.active \in BOOLEAN
      /\ old # None => old.gate \in Nat /\ old.sid \in Sids \cup {NoSid}
  BY SessionAssumption DEF Messages, Contents
<1>2. gate \in Nat
  BY <1>1
<1>3. OneSender /\ old # None => old.sid = new.sid
  BY <1>1 DEF OneSender
<1>4. CASE ~Supersedes(old, new, snapshot)
  <2>1. a = old /\ old # None
    BY <1>4 DEF ApplyContent, Supersedes
  <2>2. OneSender /\ new.revision # None => new.revision <= old.gate
    BY <1>1, <1>3, <1>4, <2>1, SessionAssumption DEF Supersedes
  <2> QED
    BY <1>1, <2>1, <2>2
<1>5. CASE Supersedes(old, new, snapshot)
  <2>1. a = [sid |-> new.sid, active |-> new.active, gate |-> gate]
    BY <1>5 DEF ApplyContent
  <2>2. a \in Contents /\ a.gate = gate
    BY <1>1, <1>2, <2>1 DEF Contents
  <2>3. a # None
    BY <2>2, SessionAssumption
  <2>4. OneSender /\ old # None => old.gate <= gate
    BY <1>1, <1>3, <1>5, SessionAssumption DEF Supersedes
  <2>5. OneSender /\ new.revision # None => new.revision <= gate
    BY <1>1
  <2> HIDE DEF a, gate
  <2> QED
    BY <2>2, <2>3, <2>4, <2>5 DEF a
<1> QED
  BY <1>4, <1>5

\* Reconciling the content writes nothing else, keeps its type, and shows what the
\* roster says.
LEMMA ContentReconciled ==
  ASSUME NEW x, IsSession(x)
  PROVE  /\ IsSession(ReconcileContent(x))
         /\ Differs(x, ReconcileContent(x), {"content"})
         /\ Rises(x, ReconcileContent(x))
<1> DEFINE c == [r \in Remotes |->
                   IF x.room[r].status = Out THEN None
                   ELSE IF x.room[r].snap = None THEN x.content[r]
                   ELSE ApplyContent(x.content[r], x.room[r].snap, TRUE)]
           y == ReconcileContent(x)
<1>1. y = [x EXCEPT !.content = c]
  BY DEF ReconcileContent
<1>2. ASSUME NEW r \in Remotes
      PROVE  /\ c[r] \in Contents \cup {None}
             /\ OneSender /\ x.room[r].status # Out =>
                  /\ x.content[r] # None => c[r] # None /\ x.content[r].gate <= c[r].gate
                  /\ x.room[r].snap # None =>
                       c[r] # None /\ x.room[r].snap.revision <= c[r].gate
  <2>1. x.content[r] \in Contents \cup {None} /\ x.room[r] \in EntryType
    BY DEF IsSession
  <2>2. x.content[r] # None => x.content[r].gate <= x.content[r].gate
    BY <2>1 DEF Contents
  <2>3. CASE x.room[r].status = Out \/ x.room[r].snap = None
    BY <2>1, <2>2, <2>3
  <2>4. CASE ~(x.room[r].status = Out \/ x.room[r].snap = None)
    <3>1. x.room[r].snap \in Messages /\ x.room[r].snap.revision \in Revisions
      BY <2>1, <2>4 DEF EntryType, Messages
    <3>2. c[r] = ApplyContent(x.content[r], x.room[r].snap, TRUE)
      BY <2>4
    <3>3. x.room[r].snap.revision # None
      BY <3>1, SessionAssumption
    <3> HIDE DEF c
    <3> QED
      BY <2>1, <3>1, <3>2, <3>3, ContentApplied
  <2> QED
    BY <2>3, <2>4
<1>3. c \in [Remotes -> Contents \cup {None}]
  BY <1>2
<1> HIDE DEF c
<1>4. DOMAIN x = Fields
  BY DEF IsSession
<1>5. DOMAIN y = Fields /\ y.content = c /\ Differs(x, y, {"content"})
  BY <1>1, <1>4 DEF Fields, Differs
<1>6. y.room = x.room /\ y.lostTimers = x.lostTimers /\ y.lost = x.lost /\ y.o = x.o
  BY <1>5 DEF Fields, Differs
<1> HIDE DEF y
<1>7. IsSession(y)
  BY <1>3, <1>5, <1>6 DEF IsSession
<1>8. Rises(x, y)
  BY <1>2, <1>5, <1>6 DEF Rises
<1> QED
  BY <1>5, <1>7, <1>8 DEF y
\* Reconciling the suspensions follows the roster, and presumes nobody lost that it
\* still counts down for.
LEMMA SuspensionsReconciled ==
  ASSUME NEW x, IsSession(x)
  PROVE  /\ IsSession(ReconcileSuspensions(x))
         /\ Differs(x, ReconcileSuspensions(x), {"lostTimers", "lost"})
         /\ ReconcileSuspensions(x).lostTimers \cup ReconcileSuspensions(x).lost = Suspended(x)
         /\ x.lostTimers \cap x.lost = {} =>
              ReconcileSuspensions(x).lostTimers \cap ReconcileSuspensions(x).lost = {}
<1> DEFINE t == (x.lostTimers \cap Suspended(x)) \cup (Suspended(x) \ x.lost)
           l == x.lost \cap Suspended(x)
           y == ReconcileSuspensions(x)
<1>1. y = [x EXCEPT !.lostTimers = t, !.lost = l]
  BY DEF ReconcileSuspensions, Suspended
<1>2. t \subseteq Remotes /\ l \subseteq Remotes /\ t \cup l = Suspended(x)
      /\ (x.lostTimers \cap x.lost = {} => t \cap l = {})
  BY DEF IsSession, Suspended
<1> HIDE DEF t, l
<1>3. DOMAIN y = Fields /\ y.lostTimers = t /\ y.lost = l /\ Differs(x, y, {"lostTimers", "lost"})
  BY <1>1 DEF IsSession, Fields, Differs
<1> HIDE DEF y
<1>4. y.room = x.room /\ y.content = x.content /\ y.o = x.o
  BY <1>3 DEF Fields, Differs
<1>5. IsSession(y)
  BY <1>2, <1>3, <1>4 DEF IsSession
<1> QED
  BY <1>2, <1>3, <1>5 DEF y

\* What rebuildState does up to the tracker.
LEMMA Derived ==
  ASSUME NEW x, IsSession(x)
  PROVE  /\ IsSession(Derive(x))
         /\ Differs(x, Derive(x), Rebuilt \ {"phase"})
         /\ Derive(x).o = Feed(x.o, x.phase, NextPhase(x), x.lastStatus, x.status, 0)
         /\ Derive(x).lastStatus = x.status
         /\ Derive(x).lostTimers \cup Derive(x).lost = Suspended(x)
         /\ x.lostTimers \cap x.lost = {} => Derive(x).lostTimers \cap Derive(x).lost = {}
         /\ Rises(x, Derive(x))
<1> DEFINE c == CheckPermissions(x)
           u == ReconcileSuspensions(c)
           y == ReconcileContent(u)
           feed(z) == Feed(z.o, z.phase, NextPhase(x), z.lastStatus, z.status, 0)
           d == Derive(x)
<1>1. /\ IsSession(c) /\ Differs(x, c, {"permBusy"})
      /\ c.room = x.room /\ c.lostTimers = x.lostTimers /\ c.lost = x.lost
  BY DEF CheckPermissions, IsSession, Differs, Fields
<1>2. c.content = x.content /\ Suspended(c) = Suspended(x)
  BY <1>1 DEF Differs, Fields, Suspended
<1> HIDE DEF c
<1>3. /\ IsSession(u) /\ Differs(c, u, {"lostTimers", "lost"})
      /\ u.lostTimers \cup u.lost = Suspended(x)
      /\ x.lostTimers \cap x.lost = {} => u.lostTimers \cap u.lost = {}
  BY <1>1, <1>2, SuspensionsReconciled
<1> HIDE DEF u
<1>4. IsSession(y) /\ Differs(u, y, {"content"}) /\ Rises(u, y)
  BY <1>3, ContentReconciled
<1> HIDE DEF y
<1>5. /\ y.room = x.room /\ y.lostTimers = u.lostTimers /\ y.lost = u.lost
      /\ y.o = x.o /\ y.phase = x.phase /\ y.lastStatus = x.lastStatus /\ y.status = x.status
      /\ u.content = x.content
  BY <1>1, <1>2, <1>3, <1>4 DEF Differs, Fields
<1>6. d = [y EXCEPT !.o = feed(y), !.lastStatus = y.status]
  BY DEF Derive, y, u, c
<1>7. DOMAIN feed(y) = OutageFields
  BY <1>4, OutagesShaped DEF IsSession
<1>8. feed(y) = Feed(x.o, x.phase, NextPhase(x), x.lastStatus, x.status, 0)
  BY <1>5
<1> HIDE DEF feed
<1>9. DOMAIN d = Fields /\ d.o = feed(y) /\ d.lastStatus = y.status
      /\ Differs(y, d, {"o", "lastStatus"})
  BY <1>4, <1>6 DEF IsSession, Fields, Differs
<1> HIDE DEF d
<1>10. /\ d.room = x.room /\ d.content = y.content
       /\ d.lostTimers = u.lostTimers /\ d.lost = u.lost
  BY <1>5, <1>9 DEF Fields, Differs
<1>11. IsSession(d)
  BY <1>4, <1>5, <1>7, <1>9, <1>10 DEF IsSession
<1>12. Differs(x, d, Rebuilt \ {"phase"})
  BY <1>1, <1>3, <1>4, <1>9 DEF Differs, Rebuilt
<1>13. Rises(x, d)
  BY <1>4, <1>5, <1>10 DEF Rises
<1> QED
  BY <1>3, <1>5, <1>8, <1>9, <1>10, <1>11, <1>12, <1>13 DEF d

\* A handler that has come to rebuildState ends with a settled session.
LEMMA PublishSettles ==
  ASSUME NEW x, Ready(x)
  PROVE  /\ Settled(Publish(Derive(x))) /\ Rises(x, Publish(Derive(x)))
         /\ Differs(x, Publish(Derive(x)), Rebuilt)
<1> DEFINE d == Derive(x)
           y == Publish(d)
<1>1. /\ IsSession(x) /\ ~Inactive(x) /\ x.lostTimers \cap x.lost = {}
      /\ Tracks(x.o, x.phase, x.lastStatus) /\ Joins(x)
      /\ x.active => Occupied(x)
      /\ x.status # "connected" => x.active
  BY DEF Ready, Moving
<1>2. /\ IsSession(d) /\ Differs(x, d, Rebuilt \ {"phase"})
      /\ d.o = Feed(x.o, x.phase, NextPhase(x), x.lastStatus, x.status, 0)
      /\ d.lastStatus = x.status /\ d.lostTimers \cup d.lost = Suspended(x)
      /\ d.lostTimers \cap d.lost = {} /\ Rises(x, d)
  BY <1>1, Derived
<1> HIDE DEF d
<1>3. d.phase = x.phase /\ d.inRoom = x.inRoom /\ d.room = x.room
  BY <1>2 DEF Differs, Rebuilt, Fields
<1>4. NextPhase(d) = NextPhase(x)
  BY <1>3 DEF NextPhase, Present
<1>5. y = [d EXCEPT !.phase = NextPhase(x)]
  BY <1>4 DEF Publish
<1>6. DOMAIN y = Fields /\ y.phase = NextPhase(x) /\ Differs(d, y, {"phase"})
  BY <1>2, <1>5 DEF IsSession, Fields, Differs
<1> HIDE DEF y
<1>7. Differs(x, y, Rebuilt)
  BY <1>2, <1>6 DEF Differs, Rebuilt
<1>8. /\ y.o = d.o /\ y.lastStatus = x.status /\ y.lostTimers = d.lostTimers
      /\ y.lost = d.lost /\ y.content = d.content /\ y.room = x.room /\ y.inRoom = x.inRoom
      /\ y.status = x.status /\ y.active = x.active
      /\ y.destroyed = x.destroyed /\ y.terminated = x.terminated
  BY <1>2, <1>3, <1>6, <1>7 DEF Differs, Rebuilt, Fields
<1>9. /\ y.started = x.started /\ y.pendingJoin = x.pendingJoin
      /\ y.joinInFlight = x.joinInFlight /\ y.joinTimer = x.joinTimer
      /\ y.reconnectTimer = x.reconnectTimer /\ y.connected = x.connected /\ y.cid = x.cid
  BY <1>7 DEF Differs, Rebuilt, Fields
<1>10. IsSession(y)
  BY <1>2, <1>3, <1>6, <1>8 DEF IsSession
<1>11. x.status # "connected" => NextPhase(x) = "inCall"
  BY <1>1 DEF Occupied, NextPhase
<1>12. Tracks(d.o, NextPhase(x), x.status)
  BY <1>1, <1>2, <1>11, FeedTracks DEF IsSession
<1>13. Joins(y)
  BY <1>1, <1>8, <1>9 DEF Joins
<1>14. Occupied(x) => Occupied(y)
  BY <1>8 DEF Occupied, Present
<1>15. Moving(y)
  BY <1>1, <1>2, <1>6, <1>8, <1>10, <1>12, <1>13 DEF Moving, Inactive
<1>16. Settled(y)
  BY <1>1, <1>2, <1>8, <1>14, <1>15 DEF Settled, Ready, Suspended
<1>17. Rises(x, y)
  BY <1>2, <1>3, <1>8 DEF Rises
<1> QED
  BY <1>7, <1>16, <1>17 DEF y, d
-----------------------------------------------------------------------------
(* The ways out. *)

\* rebuildState writes a session, whatever state the session is in.
LEMMA PublishTyped ==
  ASSUME NEW x, IsSession(x)
  PROVE  IsSession(Publish(Derive(x))) /\ Differs(x, Publish(Derive(x)), Rebuilt)
<1> DEFINE d == Derive(x)
           y == Publish(d)
<1>1. IsSession(d) /\ Differs(x, d, Rebuilt \ {"phase"})
  BY Derived
<1> HIDE DEF d
<1>2. DOMAIN y = Fields /\ Differs(d, y, {"phase"})
  BY <1>1 DEF Publish, IsSession, Fields, Differs
<1> HIDE DEF y
<1>3. y.room = d.room /\ y.content = d.content /\ y.lostTimers = d.lostTimers
      /\ y.lost = d.lost /\ y.o = d.o
  BY <1>2 DEF Differs, Fields
<1>4. IsSession(y)
  BY <1>1, <1>2, <1>3 DEF IsSession
<1>5. Differs(x, y, Rebuilt)
  BY <1>1, <1>2 DEF Differs, Rebuilt
<1> QED
  BY <1>4, <1>5 DEF y, d

\* Once destroyed, a session has stopped all it had started.
LEMMA DestroyEnds ==
  ASSUME NEW x, IsSession(x), ~x.destroyed
  PROVE  /\ Ended(Destroy(x)) /\ Destroy(x).destroyed
         /\ Destroy(x).inRoom = x.inRoom
<1> DEFINE y == Destroy(x)
           c == IF x.capture = "live" THEN "stale" ELSE x.capture
           t == Finalize(x.o, 0)
<1>1. y = [x EXCEPT !.destroyed = TRUE, !.o = t, !.fetch = 0,
                 !.reconnectTimer = FALSE, !.endingTimer = FALSE, !.joinTimer = FALSE,
                 !.resync = FALSE, !.lostTimers = {}, !.lost = {}, !.liveness = FALSE,
                 !.active = FALSE, !.status = "connected", !.retryTimer = FALSE,
                 !.stream = FALSE, !.capture = c]
  BY DEF Destroy
<1>2. DOMAIN t = OutageFields
  BY OutagesShaped DEF IsSession
<1> HIDE DEF c, t
<1>3. /\ DOMAIN y = Fields /\ y.room = x.room /\ y.content = x.content
      /\ y.o = t /\ y.inRoom = x.inRoom /\ y.destroyed = TRUE
      /\ y.lostTimers = {} /\ y.lost = {}
  <2>1. DOMAIN x = Fields
    BY DEF IsSession
  <2>2. DOMAIN y = DOMAIN x
    BY <1>1
  <2>3. y.room = x.room /\ y.content = x.content /\ y.o = t /\ y.inRoom = x.inRoom
    BY <1>1, <2>1 DEF Fields
  <2>4. y.destroyed = TRUE /\ y.lostTimers = {} /\ y.lost = {}
    BY <1>1, <2>1 DEF Fields
  <2> QED
    BY <2>1, <2>2, <2>3, <2>4
<1>4. Stopped(y)
  BY <1>1 DEF IsSession, Fields, Stopped
<1> HIDE DEF y
<1> QED
  BY <1>2, <1>3, <1>4 DEF Ended, IsSession, Inactive, y

\* Without a room, nobody is there and nothing is shown.
LEMMA EmptyRoster ==
  Nobody \in [Remotes -> EntryType]
  /\ [r \in Remotes |-> None] \in [Remotes -> Contents \cup {None}]
BY DEF Nobody, EntryType

\* resetSessionResources stops all that runs.
LEMMA ResetStops ==
  ASSUME NEW x, IsSession(x)
  PROVE  /\ IsSession(Reset(x)) /\ Stopped(Reset(x))
         /\ Reset(x).destroyed = x.destroyed /\ Reset(x).terminated = x.terminated
<1> DEFINE y == Reset(x)
           c == IF x.capture = "live" THEN "stale" ELSE x.capture
           n == [r \in Remotes |-> None]
<1>1. y = [x EXCEPT !.reconnectTimer = FALSE, !.joinTimer = FALSE, !.endingTimer = FALSE,
            !.resync = FALSE, !.lostTimers = {}, !.lost = {}, !.liveness = FALSE, !.fetch = 0,
            !.started = FALSE, !.connected = FALSE, !.pendingJoin = FALSE,
            !.joinInFlight = FALSE, !.recoveryPending = FALSE, !.inRoom = FALSE,
            !.cid = FALSE, !.room = Nobody, !.content = n,
            !.active = FALSE, !.iceDown = FALSE, !.status = "connected", !.retryTimer = FALSE,
            !.stream = FALSE, !.capture = c]
  BY DEF Reset
<1>2. n \in [Remotes -> Contents \cup {None}]
  BY EmptyRoster
<1> HIDE DEF c, n
<1>3. /\ DOMAIN y = Fields /\ y.room = Nobody /\ y.content = n
      /\ y.lostTimers = {} /\ y.lost = {}
  <2>1. DOMAIN x = Fields
    BY DEF IsSession
  <2>2. DOMAIN y = DOMAIN x
    BY <1>1
  <2>3. y.room = Nobody /\ y.content = n /\ y.lostTimers = {} /\ y.lost = {}
    BY <1>1, <2>1 DEF Fields
  <2> QED
    BY <2>1, <2>2, <2>3
<1>4. y.o = x.o /\ y.destroyed = x.destroyed /\ y.terminated = x.terminated
  BY <1>1 DEF IsSession, Fields
<1>5. Stopped(y)
  BY <1>1 DEF IsSession, Fields, Stopped
<1> HIDE DEF y
<1> QED
  BY <1>2, <1>3, <1>4, <1>5, EmptyRoster DEF IsSession, y

\* The two ends that the session finds out about by itself.
LEMMA TerminationEnds ==
  ASSUME NEW x, IsSession(x)
  PROVE  /\ Ended(FailWith(x))
         /\ ~x.destroyed => Ended(Cleanup(x))
<1> DEFINE t == [x EXCEPT !.terminated = TRUE, !.o = Finalize(@, 0)]
           y == Reset(t)
<1>1. DOMAIN Finalize(x.o, 0) = OutageFields
  BY OutagesShaped DEF IsSession
<1>2. /\ DOMAIN t = Fields /\ t.room = x.room /\ t.content = x.content
      /\ t.o = Finalize(x.o, 0) /\ t.lostTimers = x.lostTimers /\ t.lost = x.lost
      /\ t.terminated = TRUE /\ t.destroyed = x.destroyed
  BY DEF IsSession, Fields
<1>3. FailWith(x) = [y EXCEPT !.phase = "error"]
      /\ Cleanup(x) = [y EXCEPT !.phase = "ending", !.endingTimer = TRUE]
  BY DEF FailWith, Cleanup
<1> HIDE DEF t
<1>4. IsSession(t)
  BY <1>1, <1>2 DEF IsSession
<1>5. IsSession(y) /\ Stopped(y) /\ y.terminated = TRUE /\ y.destroyed = x.destroyed
  BY <1>2, <1>4, ResetStops
<1> HIDE DEF y
<1>6. Ended(FailWith(x))
  BY <1>3, <1>5 DEF Ended, IsSession, Stopped, Inactive, Fields
<1>7. ~x.destroyed => Ended(Cleanup(x))
  BY <1>3, <1>5 DEF Ended, IsSession, Stopped, Inactive, Fields
<1> QED
  BY <1>6, <1>7

\* The host may leave at any time.
LEMMA LeaveEnds ==
  ASSUME NEW x, IsSession(x), ~Inactive(x)
  PROVE  Gone(Leave(x))
<1> DEFINE told == [x EXCEPT !.acts = "none", !.o = Finalize(@, 0), !.reconnectTimer = FALSE,
                             !.fetch = 0, !.pendingJoin = FALSE, !.joinInFlight = FALSE,
                             !.iceDown = FALSE, !.status = "connected", !.retryTimer = FALSE]
           y == Publish(Derive(told))
           n == [r \in Remotes |-> None]
           z == [y EXCEPT !.inRoom = FALSE, !.room = Nobody, !.content = n, !.phase = "idle"]
<1>1. DOMAIN Finalize(x.o, 0) = OutageFields
  BY OutagesShaped DEF IsSession
<1>2. /\ DOMAIN told = Fields /\ told.room = x.room /\ told.content = x.content
      /\ told.o = Finalize(x.o, 0) /\ told.lostTimers = x.lostTimers /\ told.lost = x.lost
      /\ told.terminated = x.terminated /\ told.destroyed = x.destroyed
  BY DEF IsSession, Fields
<1>3. Leave(x) = Destroy([RebuildUnheard(told) EXCEPT
                    !.inRoom = FALSE, !.room = Nobody, !.content = n, !.phase = "idle"])
  BY DEF Leave
<1>4. n \in [Remotes -> Contents \cup {None}]
  BY EmptyRoster
<1> HIDE DEF told, n
<1>5. IsSession(told) /\ ~Inactive(told)
  BY <1>1, <1>2 DEF IsSession, Inactive
<1>6. RebuildUnheard(told) = y
  BY <1>5 DEF RebuildUnheard
<1>7. IsSession(y) /\ Differs(told, y, Rebuilt)
  BY <1>5, PublishTyped
<1>8. ~y.destroyed
  BY <1>5, <1>7 DEF Differs, Rebuilt, Fields, Inactive
<1> HIDE DEF y
<1>9. /\ DOMAIN z = Fields /\ z.room = Nobody /\ z.content = n /\ z.o = y.o
      /\ z.lostTimers = y.lostTimers /\ z.lost = y.lost /\ z.inRoom = FALSE
      /\ ~z.destroyed
  BY <1>7, <1>8 DEF IsSession, Fields
<1>10. Leave(x) = Destroy(z)
  BY <1>3, <1>6
<1> HIDE DEF z
<1>11. IsSession(z)
  BY <1>4, <1>7, <1>9, EmptyRoster DEF IsSession
<1> QED
  BY <1>9, <1>10, <1>11, DestroyEnds DEF Gone

-----------------------------------------------------------------------------
(* The middle of a handler. *)

\* rebuildState, with the host listening.
LEMMA RebuildOK ==
  ASSUME NEW x, Ready(x)
  PROVE  Becomes(x, Rebuild(x))
<1> DEFINE d == Derive(x)
           y == Publish(d)
<1>1. IsSession(x) /\ ~Inactive(x)
  BY DEF Ready, Moving
<1>2. /\ Settled(y) /\ Rises(x, y) /\ y.room = x.room /\ y.inRoom = x.inRoom
      /\ y.reconnectTimer = x.reconnectTimer
  BY PublishSettles DEF Differs, Rebuilt, Fields
<1>3. IsSession(d) /\ ~Inactive(d)
  BY <1>1, Derived DEF Differs, Rebuilt, Fields, Inactive
<1>4. IsSession(y) /\ ~Inactive(y)
  BY <1>2 DEF Settled, Ready, Moving
<1>5. Gone(Leave(d)) /\ Gone(Leave(y))
  BY <1>3, <1>4, LeaveEnds
<1> HIDE DEF d, y
<1>6. Rebuild(x) \in {Leave(d), Leave(y), y}
  BY <1>1 DEF Rebuild, d, y
<1> QED
  BY <1>2, <1>5, <1>6 DEF Becomes

\* A session that is over is not rebuilt.
LEMMA RebuildNot ==
  ASSUME NEW x, Inactive(x)
  PROVE  Rebuild(x) = x
BY DEF Rebuild

\* The connection status writes itself and its timer, and is "connected" unless
\* there is somebody to be connected to.
LEMMA StatusUpdated ==
  ASSUME NEW x, IsSession(x)
  PROVE  /\ IsSession(UpdateStatus(x))
         /\ Differs(x, UpdateStatus(x), {"status", "retryTimer"})
         /\ UpdateStatus(x).status # "connected" => x.active
BY DEF UpdateStatus, IsSession, Differs, Fields
\* The fields that Moving does not speak of; and those that Ready does not either.
Aside ==
  {"active", "status", "iceDown", "retryTimer", "recoveryPending", "resync", "endingTimer",
   "liveness", "emitting", "fetch", "permDone", "permBusy", "stream", "capture", "acts"}
FarAside == Aside \ {"active", "status"}

\* Writing such a field disturbs nothing.
LEMMA AsideKeeps ==
  ASSUME NEW x, NEW y, DOMAIN y = Fields
  PROVE  /\ Differs(x, y, Aside) /\ IsSession(x) =>
              /\ IsSession(y) /\ y.room = x.room /\ y.inRoom = x.inRoom
              /\ y.content = x.content /\ y.reconnectTimer = x.reconnectTimer
              /\ Inactive(y) = Inactive(x)
         /\ Differs(x, y, Aside) /\ Moving(x) => Moving(y)
         /\ Differs(x, y, FarAside) /\ Ready(x) => Ready(y)
         /\ Differs(x, y, FarAside) /\ Settled(x) => Settled(y)
<1>1. ASSUME Differs(x, y, Aside)
      PROVE  /\ y.room = x.room /\ y.inRoom = x.inRoom /\ y.content = x.content
             /\ y.lostTimers = x.lostTimers /\ y.lost = x.lost /\ y.o = x.o
             /\ y.phase = x.phase /\ y.lastStatus = x.lastStatus
             /\ y.destroyed = x.destroyed /\ y.terminated = x.terminated
             /\ y.started = x.started /\ y.pendingJoin = x.pendingJoin
             /\ y.joinInFlight = x.joinInFlight /\ y.joinTimer = x.joinTimer
             /\ y.reconnectTimer = x.reconnectTimer /\ y.connected = x.connected
             /\ y.cid = x.cid
  BY <1>1 DEF Differs, Aside, Fields
<1>2. Differs(x, y, FarAside) =>
        Differs(x, y, Aside) /\ y.active = x.active /\ y.status = x.status
  BY DEF Differs, Aside, FarAside, Fields
<1>3. Differs(x, y, Aside) /\ IsSession(x) => IsSession(y) /\ Inactive(y) = Inactive(x)
  BY <1>1 DEF IsSession, Inactive
<1>4. Differs(x, y, Aside) /\ Joins(x) => Joins(y)
  BY <1>1 DEF Joins
<1>5. Differs(x, y, Aside) => Occupied(y) = Occupied(x) /\ Suspended(y) = Suspended(x)
  BY <1>1 DEF Occupied, Present, Suspended
<1>6. Differs(x, y, Aside) /\ Moving(x) => Moving(y)
  BY <1>1, <1>3, <1>4 DEF Moving
<1>7. Differs(x, y, FarAside) /\ Ready(x) => Ready(y)
  BY <1>2, <1>5, <1>6 DEF Ready
<1>8. Differs(x, y, FarAside) /\ Settled(x) => Settled(y)
  BY <1>1, <1>2, <1>5, <1>7 DEF Settled
<1> QED
  BY <1>1, <1>3, <1>6, <1>7, <1>8

\* updateRoomState: whatever the roster has become, the engine follows it and calls
\* back.
LEMMA UpdateRoomOK ==
  ASSUME NEW x, Moving(x)
  PROVE  Becomes(x, UpdateRoom(x))
<1> DEFINE anybody == x.inRoom /\ Present(x) # {}
           k == x.iceDown /\ anybody
           v == [x EXCEPT !.active = anybody, !.iceDown = k]
           w == UpdateStatus(v)
<1>1. UpdateRoom(x) = Rebuild(w)
  BY Zenon DEF UpdateRoom
<1>2. IsSession(x)
  BY DEF Moving
<1>3. v.active => Occupied(x)
  BY <1>2 DEF IsSession, Fields, Occupied
<1> HIDE DEF anybody, k
<1>4. DOMAIN v = Fields /\ Differs(x, v, {"active", "iceDown"})
  BY <1>2 DEF IsSession, Differs, Fields
<1> HIDE DEF v
<1>5. Differs(x, v, Aside)
  BY <1>4 DEF Differs, Aside
<1>6. IsSession(v)
  BY <1>2, <1>4, <1>5, AsideKeeps
<1>7. /\ IsSession(w) /\ Differs(v, w, {"status", "retryTimer"})
      /\ w.status # "connected" => v.active
  BY <1>6, StatusUpdated
<1> HIDE DEF w
<1>8. Differs(x, w, Aside) /\ w.active = v.active
  BY <1>5, <1>7 DEF Differs, Aside, Fields
<1>9. /\ Moving(w) /\ w.room = x.room /\ w.inRoom = x.inRoom /\ w.content = x.content
      /\ w.reconnectTimer = x.reconnectTimer
  BY <1>2, <1>7, <1>8, AsideKeeps DEF IsSession
<1>10. Ready(w)
  BY <1>3, <1>7, <1>8, <1>9 DEF Ready, Occupied, Present
<1>11. Becomes(w, Rebuild(w))
  BY <1>10, RebuildOK
<1> QED
  BY <1>1, <1>9, <1>11 DEF Becomes, Rises

\* maybeStartMediaLivenessTimer starts a timer only where somebody is.
LEMMA LivenessStarted ==
  ASSUME NEW x, NEW y, Becomes(x, y)
  PROVE  Becomes(x, StartLiveness(y))
<1> DEFINE z == StartLiveness(y)
<1>1. CASE Gone(y)
  BY <1>1 DEF Becomes, Gone, StartLiveness
<1>2. CASE ~Gone(y)
  <2>1. Settled(y) /\ IsSession(y)
    BY <1>2 DEF Becomes, Settled, Ready, Moving
  <2>2. DOMAIN z = Fields /\ Differs(y, z, {"liveness"})
    BY <2>1 DEF StartLiveness, IsSession, Fields, Differs
  <2> HIDE DEF z
  <2>3. Differs(y, z, FarAside) /\ Differs(y, z, Aside)
    BY <2>2 DEF Differs, FarAside, Aside
  <2>4. /\ Settled(z) /\ z.room = y.room /\ z.inRoom = y.inRoom /\ z.content = y.content
        /\ z.reconnectTimer = y.reconnectTimer
    BY <2>1, <2>2, <2>3, AsideKeeps
  <2> QED
    BY <1>2, <2>4 DEF Becomes, Rises, z
<1> QED
  BY <1>1, <1>2

\* flushPostReconnectResync.
LEMMA Flushed ==
  ASSUME NEW x, NEW y, Becomes(x, y)
  PROVE  Becomes(x, Flush(y))
<1> DEFINE z == Flush(y)
<1>1. IsSession(y)
  BY DEF Becomes, Gone, Ended, Settled, Ready, Moving
<1>2. DOMAIN z = Fields /\ Differs(y, z, {"resync"}) /\ z.resync = FALSE
  BY <1>1 DEF Flush, IsSession, Fields, Differs
<1> HIDE DEF z
<1>3. Differs(y, z, FarAside) /\ Differs(y, z, Aside)
  BY <1>2 DEF Differs, FarAside, Aside
<1>4. /\ IsSession(z) /\ z.room = y.room /\ z.inRoom = y.inRoom /\ z.content = y.content
      /\ z.reconnectTimer = y.reconnectTimer
      /\ Settled(y) => Settled(z)
  BY <1>1, <1>2, <1>3, AsideKeeps
<1>5. CASE Gone(y)
  <2>1. Stopped(z) /\ Inactive(z) /\ z.destroyed
    BY <1>2, <1>5 DEF Gone, Ended, Stopped, Inactive, Differs, Fields
  <2> QED
    BY <1>4, <1>5, <2>1 DEF Becomes, Gone, Ended, z
<1>6. CASE ~Gone(y)
  BY <1>4, <1>6 DEF Becomes, Rises, z
<1> QED
  BY <1>5, <1>6

\* What is shown rises from rebuild to rebuild.
LEMMA RisesAgain ==
  ASSUME NEW x, NEW y, NEW z, IsSession(x), IsSession(y), IsSession(z),
         z.room = y.room, Rises(x, y), Rises(y, z)
  PROVE  Rises(x, z)
<1> SUFFICES ASSUME OneSender, NEW r \in Remotes, z.room[r].status # Out
             PROVE  /\ x.content[r] # None =>
                         z.content[r] # None /\ x.content[r].gate <= z.content[r].gate
                    /\ z.room[r].snap # None =>
                         z.content[r] # None /\ z.room[r].snap.revision <= z.content[r].gate
  BY DEF Rises
<1>1. /\ x.content[r] # None => x.content[r].gate \in Nat
      /\ y.content[r] # None => y.content[r].gate \in Nat
      /\ z.content[r] # None => z.content[r].gate \in Nat
  BY DEF IsSession, Contents
<1>2. x.content[r] # None => y.content[r] # None /\ x.content[r].gate <= y.content[r].gate
  BY DEF Rises
<1>3. /\ y.content[r] # None => z.content[r] # None /\ y.content[r].gate <= z.content[r].gate
      /\ z.room[r].snap # None =>
           z.content[r] # None /\ z.room[r].snap.revision <= z.content[r].gate
  BY DEF Rises
<1> QED
  BY <1>1, <1>2, <1>3

\* A second rebuild shows no less than the first.
LEMMA RebuiltAgain ==
  ASSUME NEW x, NEW y, IsSession(x), Becomes(x, y)
  PROVE  Becomes(x, Rebuild(y))
<1>1. CASE Gone(y)
  BY <1>1, RebuildNot DEF Becomes, Gone, Ended
<1>2. CASE ~Gone(y)
  <2>1. Becomes(y, Rebuild(y)) /\ Settled(y) /\ IsSession(y)
    BY <1>2, RebuildOK DEF Becomes, Settled, Ready, Moving
  <2>2. CASE Gone(Rebuild(y))
    BY <2>2 DEF Becomes
  <2>3. CASE ~Gone(Rebuild(y))
    <3>1. Settled(Rebuild(y)) /\ IsSession(Rebuild(y)) /\ Rebuild(y).room = y.room
      BY <2>1, <2>3 DEF Becomes, Settled, Ready, Moving
    <3>2. Rises(x, y) /\ Rises(y, Rebuild(y)) /\ y.room = x.room
      BY <1>2, <2>1, <2>3 DEF Becomes
    <3>3. Rises(x, Rebuild(y))
      BY <2>1, <3>1, <3>2, RisesAgain
    <3> QED
      BY <1>2, <2>1, <2>3, <3>1, <3>3 DEF Becomes
  <2> QED
    BY <2>2, <2>3
<1> QED
  BY <1>1, <1>2
-----------------------------------------------------------------------------
(* The handlers of the provider's events. *)

\* What a handler makes of a session x when the roster is then `room`.
Ends(x, y, room) == Ended(y) \/ (Settled(y) /\ Rises(x, y) /\ y.room = room)

\* handleConnected asks for the join that is due; nothing waits for the backoff.
LEMMA HandleConnectedOK ==
  ASSUME NEW x, Settled(x)
  PROVE  Ends(x, HandleConnected(x), x.room)
<1> DEFINE v == [x EXCEPT !.connected = TRUE, !.reconnectTimer = FALSE]
           up == UpdateStatus(v)
           joins == [up EXCEPT !.joinInFlight = TRUE]
           syncs == [up EXCEPT !.recoveryPending = FALSE, !.resync = TRUE]
<1>1. \E a \in {joins, syncs, up} :
        /\ HandleConnected(x) = Rebuild(a)
        /\ up.pendingJoin /\ ~up.joinInFlight => a = joins
  BY DEF HandleConnected
<1>2. PICK a \in {joins, syncs, up} :
        /\ HandleConnected(x) = Rebuild(a)
        /\ up.pendingJoin /\ ~up.joinInFlight => a = joins
  BY <1>1
<1>3. IsSession(x) /\ Ready(x) /\ Moving(x)
  BY DEF Settled, Ready, Moving
<1>4. DOMAIN v = Fields /\ Differs(x, v, {"connected", "reconnectTimer"})
      /\ v.reconnectTimer = FALSE
  BY <1>3 DEF IsSession, Differs, Fields
<1> HIDE DEF v
<1>5. v.room = x.room /\ v.content = x.content /\ v.lostTimers = x.lostTimers
      /\ v.lost = x.lost /\ v.o = x.o
  BY <1>4 DEF Differs, Fields
<1>6. IsSession(v)
  BY <1>3, <1>4, <1>5 DEF IsSession
<1>7. IsSession(up) /\ Differs(v, up, {"status", "retryTimer"})
      /\ (up.status # "connected" => v.active)
  BY <1>6, StatusUpdated
<1> HIDE DEF up
<1>8. /\ DOMAIN a = Fields
      /\ Differs(up, a, {"joinInFlight", "recoveryPending", "resync"})
      /\ a.pendingJoin => a.joinInFlight
  BY <1>2, <1>7 DEF IsSession, Differs, Fields
<1> HIDE DEF joins, syncs
<1>9. /\ a.room = x.room /\ a.content = x.content /\ a.lostTimers = x.lostTimers
      /\ a.lost = x.lost /\ a.o = x.o /\ a.inRoom = x.inRoom /\ a.active = x.active
      /\ a.phase = x.phase /\ a.lastStatus = x.lastStatus
      /\ a.destroyed = x.destroyed /\ a.terminated = x.terminated
      /\ a.started = x.started /\ a.pendingJoin = x.pendingJoin
      /\ a.joinTimer = x.joinTimer /\ a.cid = x.cid
      /\ a.reconnectTimer = FALSE /\ (a.status # "connected" => x.active)
  BY <1>4, <1>7, <1>8 DEF Differs, Fields
<1>10. IsSession(a)
  BY <1>3, <1>8, <1>9 DEF IsSession
<1>11. Joins(a)
  BY <1>3, <1>8, <1>9 DEF Joins, Moving
<1>12. Ready(a)
  BY <1>3, <1>9, <1>10, <1>11 DEF Ready, Moving, Inactive, Occupied, Present
<1>13. Becomes(a, Rebuild(a))
  BY <1>12, RebuildOK
<1> QED
  BY <1>2, <1>9, <1>13 DEF Ends, Becomes, Gone, Rises

\* handleDisconnected: without a provider that tries again, the backoff begins.
LEMMA HandleDisconnectedOK ==
  ASSUME NEW x, Settled(x)
  PROVE  /\ Ends(x, HandleDisconnected(x), x.room)
         /\ ~plan.hosted /\ ~Inactive(HandleDisconnected(x)) =>
              HandleDisconnected(x).reconnectTimer
<1> DEFINE v == [x EXCEPT !.connected = FALSE, !.joinInFlight = FALSE]
           down == UpdateStatus(v)
           owes == [down EXCEPT !.recoveryPending = x.inRoom]
           tries == ScheduleReconnect([down EXCEPT !.pendingJoin = TRUE])
           a == IF plan.hosted THEN owes ELSE tries
<1>1. HandleDisconnected(x) = Rebuild(a)
  BY DEF HandleDisconnected
<1>3. IsSession(x) /\ Ready(x) /\ Moving(x)
  BY DEF Settled, Ready, Moving
<1>4. DOMAIN v = Fields /\ Differs(x, v, {"connected", "joinInFlight"})
      /\ v.connected = FALSE
  BY <1>3 DEF IsSession, Differs, Fields
<1> HIDE DEF v
<1>5. v.room = x.room /\ v.content = x.content /\ v.lostTimers = x.lostTimers
      /\ v.lost = x.lost /\ v.o = x.o
  BY <1>4 DEF Differs, Fields
<1>6. IsSession(v)
  BY <1>3, <1>4, <1>5 DEF IsSession
<1>7. IsSession(down) /\ Differs(v, down, {"status", "retryTimer"})
      /\ (down.status # "connected" => v.active)
  BY <1>6, StatusUpdated
<1> HIDE DEF down
<1>8. /\ down.room = x.room /\ down.content = x.content /\ down.lostTimers = x.lostTimers
      /\ down.lost = x.lost /\ down.o = x.o /\ down.inRoom = x.inRoom
      /\ down.active = x.active
      /\ down.phase = x.phase /\ down.lastStatus = x.lastStatus
      /\ down.destroyed = x.destroyed /\ down.terminated = x.terminated
      /\ down.started = x.started /\ down.pendingJoin = x.pendingJoin
      /\ down.joinTimer = x.joinTimer /\ down.cid = x.cid
      /\ down.connected = FALSE /\ (down.status # "connected" => x.active)
  BY <1>4, <1>7 DEF Differs, Fields
<1>9. /\ DOMAIN a = Fields
      /\ Differs(down, a, {"recoveryPending", "pendingJoin", "reconnectTimer"})
      /\ ~plan.hosted => a.pendingJoin /\ a.reconnectTimer
      /\ plan.hosted => a.pendingJoin = down.pendingJoin
  <2>1. CASE plan.hosted
    BY <1>7, <2>1 DEF IsSession, Differs, Fields
  <2>2. CASE ~plan.hosted
    <3> DEFINE w == [down EXCEPT !.pendingJoin = TRUE]
    <3>1. /\ DOMAIN w = Fields /\ Differs(down, w, {"pendingJoin"}) /\ w.pendingJoin
          /\ w.started = x.started /\ w.destroyed = x.destroyed
          /\ w.terminated = x.terminated
      BY <1>7, <1>8 DEF IsSession, Differs, Fields
    <3>2. a = ScheduleReconnect(w)
      BY <2>2
    <3> HIDE DEF w, a
    <3>3. a = [w EXCEPT !.reconnectTimer = TRUE]
      BY <1>3, <3>1, <3>2 DEF ScheduleReconnect, Moving, Joins, Inactive
    <3>4. DOMAIN a = Fields /\ Differs(w, a, {"reconnectTimer"}) /\ a.reconnectTimer
      BY <3>1, <3>3 DEF Differs, Fields
    <3> QED
      BY <2>2, <3>1, <3>4 DEF Differs, Fields
  <2> QED
    BY <2>1, <2>2
<1> HIDE DEF a
<1>10. /\ a.room = x.room /\ a.content = x.content /\ a.lostTimers = x.lostTimers
       /\ a.lost = x.lost /\ a.o = x.o /\ a.inRoom = x.inRoom /\ a.active = x.active
       /\ a.phase = x.phase /\ a.lastStatus = x.lastStatus
       /\ a.destroyed = x.destroyed /\ a.terminated = x.terminated
       /\ a.started = x.started /\ a.joinTimer = x.joinTimer /\ a.cid = x.cid
       /\ a.connected = FALSE /\ (a.status # "connected" => x.active)
       /\ a.pendingJoin \/ a.pendingJoin = x.pendingJoin
  BY <1>8, <1>9 DEF Differs, Fields
<1>11. IsSession(a)
  BY <1>3, <1>9, <1>10 DEF IsSession
<1>12. Joins(a)
  BY <1>3, <1>10 DEF Joins, Moving
<1>13. Ready(a)
  BY <1>3, <1>10, <1>11, <1>12 DEF Ready, Moving, Inactive, Occupied, Present
<1>14. Becomes(a, Rebuild(a))
  BY <1>13, RebuildOK
<1> QED
  BY <1>1, <1>9, <1>10, <1>14 DEF Ends, Becomes, Gone, Ended, Rises
\* A roster that changes leaves the session moving; in its room, it owes no join.
LEMMA RosterMoves ==
  ASSUME NEW x, Settled(x), NEW y, DOMAIN y = Fields,
         Differs(x, y, Aside \cup {"joinInFlight", "pendingJoin", "joinTimer", "cid",
                                   "inRoom", "room", "content"}),
         y.room \in [Remotes -> EntryType],
         y.content \in [Remotes -> Contents \cup {None}],
         (y.pendingJoin = x.pendingJoin /\ y.joinInFlight = x.joinInFlight) \/ ~y.pendingJoin,
         y.inRoom = TRUE \/ (/\ y.inRoom = x.inRoom /\ y.cid = x.cid
                             /\ y.joinTimer = x.joinTimer /\ y.pendingJoin = x.pendingJoin)
  PROVE  Moving(y)
<1>1. Moving(x)
  BY DEF Settled, Ready
<1>2. /\ y.lostTimers = x.lostTimers /\ y.lost = x.lost /\ y.o = x.o
      /\ y.phase = x.phase /\ y.lastStatus = x.lastStatus
      /\ y.destroyed = x.destroyed /\ y.terminated = x.terminated
      /\ y.started = x.started /\ y.reconnectTimer = x.reconnectTimer
      /\ y.connected = x.connected
  BY DEF Differs, Aside, Fields
<1>3. IsSession(y)
  BY <1>1, <1>2 DEF Moving, IsSession
<1>4. Joins(y)
  BY <1>1, <1>2 DEF Moving, Joins
<1> QED
  BY <1>1, <1>2, <1>3, <1>4 DEF Moving, Inactive

\* handleJoined.
LEMMA HandleJoinedOK ==
  ASSUME NEW x, Settled(x), NEW roster \in [Remotes -> EntryType]
  PROVE  /\ Ends(x, HandleJoined(x, roster), roster)
         /\ ~Inactive(HandleJoined(x, roster)) =>
              HandleJoined(x, roster).reconnectTimer = x.reconnectTimer
<1> DEFINE v == [x EXCEPT !.joinInFlight = FALSE, !.pendingJoin = FALSE,
                          !.recoveryPending = FALSE, !.joinTimer = FALSE, !.cid = TRUE,
                          !.inRoom = TRUE, !.room = roster]
           y == Rebuild(StartLiveness(UpdateRoom(v)))
           z == [y EXCEPT !.fetch = 1]
<1>1. HandleJoined(x, roster) = IF y.destroyed THEN y ELSE z
  BY DEF HandleJoined
<1>2. IsSession(x)
  BY DEF Settled, Ready, Moving
<1>3. /\ DOMAIN v = Fields /\ v.room = roster /\ v.content = x.content /\ v.inRoom = TRUE
      /\ v.pendingJoin = FALSE /\ v.reconnectTimer = x.reconnectTimer
      /\ Differs(x, v, Aside \cup {"joinInFlight", "pendingJoin", "joinTimer", "cid",
                                   "inRoom", "room", "content"})
  BY <1>2 DEF IsSession, Differs, Aside, Fields
<1> HIDE DEF v
<1>4. Moving(v)
  BY <1>2, <1>3, RosterMoves DEF IsSession
<1>5. IsSession(v)
  BY <1>4 DEF Moving
<1>6. Becomes(v, UpdateRoom(v))
  BY <1>4, UpdateRoomOK
<1>7. Becomes(v, StartLiveness(UpdateRoom(v)))
  BY <1>6, LivenessStarted
<1>8. Becomes(v, y)
  BY <1>5, <1>7, RebuiltAgain
<1> HIDE DEF y
<1>9. CASE Gone(y)
  BY <1>1, <1>9 DEF Gone, Ends, Ended, Inactive
<1>10. CASE ~Gone(y)
  <2>1. Settled(y) /\ Rises(v, y) /\ y.room = roster /\ y.reconnectTimer = x.reconnectTimer
    BY <1>3, <1>8, <1>10 DEF Becomes
  <2>2. ~y.destroyed /\ IsSession(y)
    BY <2>1 DEF Settled, Ready, Moving, Inactive
  <2>3. DOMAIN z = Fields /\ Differs(y, z, {"fetch"})
    BY <2>2 DEF IsSession, Differs, Fields
  <2> HIDE DEF z
  <2>4. Differs(y, z, FarAside) /\ Differs(y, z, Aside)
    BY <2>3 DEF Differs, FarAside, Aside
  <2>5. Settled(z) /\ z.room = roster /\ z.content = y.content
        /\ z.reconnectTimer = x.reconnectTimer
    BY <2>1, <2>2, <2>3, <2>4, AsideKeeps
  <2>6. Rises(x, z)
    BY <1>3, <2>1, <2>5 DEF Rises
  <2> QED
    BY <1>1, <2>2, <2>5, <2>6 DEF Ends
<1> QED
  BY <1>9, <1>10

\* handleRoomStateUpdated.
LEMMA HandleRoomStateOK ==
  ASSUME NEW x, Settled(x), NEW roster \in [Remotes -> EntryType]
  PROVE  /\ Ends(x, HandleRoomState(x, roster), roster)
         /\ ~Inactive(HandleRoomState(x, roster)) =>
              HandleRoomState(x, roster).reconnectTimer = x.reconnectTimer
<1> DEFINE v == [x EXCEPT !.inRoom = TRUE, !.room = roster]
           y == Rebuild(Flush(StartLiveness(UpdateRoom(v))))
<1>1. HandleRoomState(x, roster) = y
  BY DEF HandleRoomState
<1>2. IsSession(x)
  BY DEF Settled, Ready, Moving
<1>3. /\ DOMAIN v = Fields /\ v.room = roster /\ v.content = x.content /\ v.inRoom = TRUE
      /\ v.pendingJoin = x.pendingJoin /\ v.joinInFlight = x.joinInFlight
      /\ v.reconnectTimer = x.reconnectTimer
      /\ Differs(x, v, Aside \cup {"joinInFlight", "pendingJoin", "joinTimer", "cid",
                                   "inRoom", "room", "content"})
  BY <1>2 DEF IsSession, Differs, Aside, Fields
<1> HIDE DEF v
<1>4. Moving(v)
  BY <1>2, <1>3, RosterMoves DEF IsSession
<1>5. IsSession(v)
  BY <1>4 DEF Moving
<1>6. Becomes(v, UpdateRoom(v))
  BY <1>4, UpdateRoomOK
<1>7. Becomes(v, Flush(StartLiveness(UpdateRoom(v))))
  BY <1>6, LivenessStarted, Flushed
<1>8. Becomes(v, y)
  BY <1>5, <1>7, RebuiltAgain
<1> HIDE DEF y
<1> QED
  BY <1>1, <1>3, <1>8 DEF Becomes, Ends, Gone, Ended, Rises

\* handlePeerJoined, of a participant that may have been there.
LEMMA HandlePeerJoinedOK ==
  ASSUME NEW x, Settled(x), x.inRoom, NEW r \in Remotes
  PROVE  /\ Ends(x, HandlePeerJoined(x, r),
                 [x.room EXCEPT ![r] = [status |-> "active", snap |-> None]])
         /\ ~Inactive(HandlePeerJoined(x, r)) =>
              HandlePeerJoined(x, r).reconnectTimer = x.reconnectTimer
<1> DEFINE e == [status |-> "active", snap |-> None]
           roster == [x.room EXCEPT ![r] = e]
           v == [x EXCEPT !.inRoom = TRUE, !.room[r] = e]
           y == Rebuild(StartLiveness(UpdateRoom(v)))
<1>1. HandlePeerJoined(x, r) = y
  BY DEF HandlePeerJoined
<1>2. IsSession(x)
  BY DEF Settled, Ready, Moving
<1>3. e \in EntryType
  BY DEF EntryType
<1> HIDE DEF e
<1>4. roster \in [Remotes -> EntryType]
  BY <1>2, <1>3 DEF IsSession
<1>5. v = [x EXCEPT !.inRoom = TRUE, !.room = roster]
  BY <1>2 DEF IsSession, Fields
<1> HIDE DEF roster, v
<1>6. /\ DOMAIN v = Fields /\ v.room = roster /\ v.content = x.content /\ v.inRoom = TRUE
      /\ v.pendingJoin = x.pendingJoin /\ v.joinInFlight = x.joinInFlight
      /\ v.reconnectTimer = x.reconnectTimer
      /\ Differs(x, v, Aside \cup {"joinInFlight", "pendingJoin", "joinTimer", "cid",
                                   "inRoom", "room", "content"})
  BY <1>2, <1>5 DEF IsSession, Differs, Aside, Fields
<1>7. Moving(v)
  BY <1>2, <1>4, <1>6, RosterMoves DEF IsSession
<1>8. IsSession(v)
  BY <1>7 DEF Moving
<1>9. Becomes(v, UpdateRoom(v))
  BY <1>7, UpdateRoomOK
<1>10. Becomes(v, StartLiveness(UpdateRoom(v)))
  BY <1>9, LivenessStarted
<1>11. Becomes(v, y)
  BY <1>8, <1>10, RebuiltAgain
<1> HIDE DEF y
<1>12. Ends(x, y, roster) /\ (~Inactive(y) => y.reconnectTimer = x.reconnectTimer)
  BY <1>6, <1>11 DEF Becomes, Ends, Gone, Ended, Rises
<1> QED
  BY <1>1, <1>12 DEF roster, e

\* handlePeerLeft: of who is gone, nothing is shown.
LEMMA HandlePeerLeftOK ==
  ASSUME NEW x, Settled(x), x.inRoom, NEW r \in Remotes
  PROVE  /\ Ends(x, HandlePeerLeft(x, r),
                 [x.room EXCEPT ![r] = [status |-> Out, snap |-> None]])
         /\ ~Inactive(HandlePeerLeft(x, r)) =>
              HandlePeerLeft(x, r).reconnectTimer = x.reconnectTimer
<1> DEFINE e == [status |-> Out, snap |-> None]
           roster == [x.room EXCEPT ![r] = e]
           content == [x.content EXCEPT ![r] = None]
           v == [x EXCEPT !.content[r] = None, !.room[r] = e]
           y == Rebuild(UpdateRoom(v))
<1>1. HandlePeerLeft(x, r) = y
  BY DEF HandlePeerLeft
<1>2. IsSession(x)
  BY DEF Settled, Ready, Moving
<1>3. e \in EntryType /\ e.status = Out
  BY DEF EntryType
<1> HIDE DEF e
<1>4. /\ roster \in [Remotes -> EntryType] /\ roster[r].status = Out
      /\ content \in [Remotes -> Contents \cup {None}]
      /\ \A q \in Remotes \ {r} : content[q] = x.content[q]
  BY <1>2, <1>3 DEF IsSession
<1>5. v = [x EXCEPT !.content = content, !.room = roster]
  BY <1>2 DEF IsSession, Fields
<1> HIDE DEF roster, content, v
<1>6. /\ DOMAIN v = Fields /\ v.room = roster /\ v.content = content /\ v.inRoom = x.inRoom
      /\ v.pendingJoin = x.pendingJoin /\ v.joinInFlight = x.joinInFlight
      /\ v.joinTimer = x.joinTimer /\ v.cid = x.cid
      /\ v.reconnectTimer = x.reconnectTimer
      /\ Differs(x, v, Aside \cup {"joinInFlight", "pendingJoin", "joinTimer", "cid",
                                   "inRoom", "room", "content"})
  BY <1>2, <1>5 DEF IsSession, Differs, Aside, Fields
<1>7. Moving(v)
  BY <1>2, <1>4, <1>6, RosterMoves DEF IsSession
<1>8. IsSession(v)
  BY <1>7 DEF Moving
<1>9. Becomes(v, UpdateRoom(v))
  BY <1>7, UpdateRoomOK
<1>10. Becomes(v, y)
  BY <1>8, <1>9, RebuiltAgain
<1> HIDE DEF y
<1>11. Rises(v, y) /\ y.room = roster => Rises(x, y)
  BY <1>4, <1>6 DEF Rises
<1>12. Ends(x, y, roster) /\ (~Inactive(y) => y.reconnectTimer = x.reconnectTimer)
  BY <1>6, <1>10, <1>11 DEF Becomes, Ends, Gone, Ended
<1> QED
  BY <1>1, <1>12 DEF roster, e

\* handleRemoteContentState: what is accepted is shown, or something newer is.
LEMMA HandleContentOK ==
  ASSUME NEW x, Settled(x), NEW r \in Remotes, NEW new \in Messages
  PROVE  /\ Ended(HandleContent(x, r, new))
            \/ /\ Settled(HandleContent(x, r, new))
               /\ HandleContent(x, r, new).room = x.room
               /\ HandleContent(x, r, new).reconnectTimer = x.reconnectTimer
               /\ OneSender => \A q \in Remotes : x.room[q].status # Out =>
                    /\ x.content[q] # None =>
                         /\ HandleContent(x, r, new).content[q] # None
                         /\ x.content[q].gate <= HandleContent(x, r, new).content[q].gate
                    /\ q = r /\ new.revision # None =>
                         /\ HandleContent(x, r, new).content[q] # None
                         /\ new.revision <= HandleContent(x, r, new).content[q].gate
<1> DEFINE y == HandleContent(x, r, new)
           a == ApplyContent(x.content[r], new, FALSE)
<1>1. IsSession(x) /\ Ready(x) /\ Moving(x)
  BY DEF Settled, Ready, Moving
<1>2. /\ \A q \in Remotes : x.content[q] \in Contents \cup {None}
      /\ \A q \in Remotes : x.content[q] # None => x.content[q].gate \in Nat
      /\ new.revision # None => new.revision \in Nat
  BY <1>1, SessionAssumption DEF IsSession, Contents, Messages
<1>3. /\ a \in Contents \cup {None} /\ (a # None => a.gate \in Nat)
      /\ OneSender /\ x.content[r] # None => a # None /\ x.content[r].gate <= a.gate
      /\ OneSender /\ new.revision # None => a # None /\ new.revision <= a.gate
  BY <1>2, ContentApplied DEF Contents
<1>4. CASE ~Supersedes(x.content[r], new, FALSE)
  <2>1. y = x /\ a = x.content[r]
    BY <1>4 DEF HandleContent, ApplyContent
  <2> HIDE DEF y, a
  <2>2. \A q \in Remotes : x.content[q] # None => x.content[q].gate <= x.content[q].gate
    BY <1>2
  <2> QED
    BY <1>3, <2>1, <2>2 DEF y
<1>5. CASE Supersedes(x.content[r], new, FALSE)
  <2> DEFINE c == [x.content EXCEPT ![r] = a]
             v == [x EXCEPT !.content[r] = ApplyContent(@, new, FALSE)]
  <2>1. y = Rebuild(v)
    BY <1>5 DEF HandleContent
  <2>2. v = [x EXCEPT !.content = c]
    BY <1>1 DEF IsSession, Fields
  <2> HIDE DEF v, a
  <2>3. c \in [Remotes -> Contents \cup {None}] /\ c[r] = a
        /\ \A q \in Remotes \ {r} : c[q] = x.content[q]
    BY <1>1, <1>3 DEF IsSession
  <2> HIDE DEF c
  <2>4. /\ DOMAIN v = Fields /\ Differs(x, v, {"content"}) /\ v.content = c
        /\ v.room = x.room /\ v.inRoom = x.inRoom /\ v.pendingJoin = x.pendingJoin
        /\ v.joinInFlight = x.joinInFlight /\ v.active = x.active /\ v.status = x.status
        /\ v.cid = x.cid /\ v.joinTimer = x.joinTimer
        /\ v.reconnectTimer = x.reconnectTimer
    BY <1>1, <2>2 DEF IsSession, Differs, Fields
  <2>5. Differs(x, v, Aside \cup {"joinInFlight", "pendingJoin", "joinTimer", "cid",
                                  "inRoom", "room", "content"})
    BY <2>4 DEF Differs
  <2>6. Moving(v)
    BY <1>1, <2>3, <2>4, <2>5, RosterMoves DEF IsSession
  <2>7. Ready(v)
    BY <1>1, <2>4, <2>6 DEF Ready, Occupied, Present
  <2>8. Becomes(v, y)
    BY <2>1, <2>7, RebuildOK
  <2> HIDE DEF y
  <2>9. CASE Gone(y)
    BY <2>9 DEF Gone, y
  <2>10. CASE ~Gone(y)
    <3>1. Settled(y) /\ Rises(v, y) /\ y.room = x.room /\ y.reconnectTimer = x.reconnectTimer
      BY <2>4, <2>8, <2>10 DEF Becomes
    <3>2. \A q \in Remotes : y.content[q] # None => y.content[q].gate \in Nat
      BY <3>1 DEF Settled, Ready, Moving, IsSession, Contents
    <3>3. ASSUME OneSender, NEW q \in Remotes, x.room[q].status # Out
          PROVE  /\ x.content[q] # None =>
                      y.content[q] # None /\ x.content[q].gate <= y.content[q].gate
                 /\ q = r /\ new.revision # None =>
                      y.content[q] # None /\ new.revision <= y.content[q].gate
      <4>1. c[q] # None => y.content[q] # None /\ c[q].gate <= y.content[q].gate
        BY <2>4, <3>1, <3>3 DEF Rises
      <4>2. CASE q = r
        <5>1. x.content[q] # None => c[q] # None /\ x.content[q].gate <= c[q].gate
          BY <1>3, <2>3, <3>3, <4>2
        <5>2. new.revision # None => c[q] # None /\ new.revision <= c[q].gate
          BY <1>3, <2>3, <3>3, <4>2
        <5> QED
          BY <1>2, <1>3, <2>3, <3>2, <4>1, <4>2, <5>1, <5>2
      <4>3. CASE q # r
        BY <2>3, <4>1, <4>3
      <4> QED
        BY <4>2, <4>3
    <3> QED
      BY <3>1, <3>3 DEF y
  <2> QED
    BY <2>9, <2>10
<1> QED
  BY <1>4, <1>5
-----------------------------------------------------------------------------
(* The steps. *)

\* Who has ended stays ended, whatever of this is written.
LEMMA EndedStays ==
  ASSUME NEW x, Ended(x), NEW y, DOMAIN y = Fields,
         Differs(x, y, {"acts", "capture", "stream", "permDone", "permBusy", "phase",
                        "emitting"})
  PROVE  Ended(y)
<1>1. /\ y.room = x.room /\ y.content = x.content /\ y.lostTimers = x.lostTimers
      /\ y.lost = x.lost /\ y.o = x.o
      /\ y.destroyed = x.destroyed /\ y.terminated = x.terminated
  BY DEF Differs, Fields
<1>2. /\ y.joinTimer = x.joinTimer /\ y.reconnectTimer = x.reconnectTimer
      /\ y.resync = x.resync /\ y.liveness = x.liveness /\ y.retryTimer = x.retryTimer
      /\ y.fetch = x.fetch /\ y.endingTimer = x.endingTimer
  BY DEF Differs, Fields
<1> QED
  BY <1>1, <1>2 DEF Ended, IsSession, Inactive, Stopped

\* A step that ends the session, or leaves it settled with what it brought shown,
\* keeps Inv.
LEMMA StepOK ==
  ASSUME Inv, NEW next, NEW more \in [Remotes -> SUBSET Revisions], Step(next, more),
         plan' \in PlanType,
         \/ Ended(next)
         \/ /\ Settled(s) /\ Settled(next) /\ Shows(s, next, more)
            /\ link' = "down" => next.reconnectTimer
  PROVE  Inv'
<1>1. IsSession(next)
  BY DEF Ended, Settled, Ready, Moving
<1>2. s' = [next EXCEPT !.acts = "none"]
  BY DEF Step
<1>3. DOMAIN s' = Fields /\ Differs(next, s', {"acts"})
  BY <1>1, <1>2 DEF IsSession, Differs, Fields
<1>4. Differs(next, s', Aside) /\ Differs(next, s', FarAside)
      /\ Differs(next, s', {"acts", "capture", "stream", "permDone", "permBusy", "phase",
                            "emitting"})
  BY <1>3 DEF Differs, Aside, FarAside
<1>5. /\ IsSession(s') /\ s'.room = next.room /\ s'.content = next.content
      /\ s'.reconnectTimer = next.reconnectTimer
  BY <1>1, <1>3, <1>4, AsideKeeps
<1>6. /\ Ended(next) => Ended(s')
      /\ Settled(next) => Settled(s')
  BY <1>3, <1>4, AsideKeeps, EndedStays
<1>7. delivered' = [r \in Remotes |-> IF s'.room[r].status = Out THEN {}
                                      ELSE delivered[r] \cup more[r]]
  BY DEF Step
<1>8. delivered \in [Remotes -> SUBSET Revisions]
      /\ \A r \in Remotes : s.room[r].status = Out => delivered[r] = {}
  BY DEF Inv
<1>9. /\ delivered' \in [Remotes -> SUBSET Revisions]
      /\ \A r \in Remotes : s'.room[r].status = Out => delivered'[r] = {}
  BY <1>7, <1>8
<1>10. Inv' = (/\ IsSession(s') /\ plan' \in PlanType
               /\ delivered' \in [Remotes -> SUBSET Revisions]
               /\ \A r \in Remotes : s'.room[r].status = Out => delivered'[r] = {}
               /\ \/ Ended(s')
                  \/ /\ Settled(s')
                     /\ link' = "down" => s'.reconnectTimer
                     /\ OneSender => Covers(s', delivered'))
  BY DEF Inv, IsSession, Ended, Settled, Ready, Moving, Joins, Inactive, Stopped, Occupied,
         Present, Suspended, Covers, Out
<1>11. CASE Ended(next)
  BY <1>5, <1>6, <1>9, <1>10, <1>11
<1>12. CASE ~Ended(next)
  <2>1. /\ Settled(s) /\ Settled(next) /\ Shows(s, next, more)
        /\ link' = "down" => next.reconnectTimer
    BY <1>12
  <2>2. OneSender => Covers(s, delivered)
    BY <2>1 DEF Inv, Ended, Settled, Ready, Moving
  <2>3. OneSender => Covers(s', delivered')
    <3> SUFFICES ASSUME OneSender, NEW r \in Remotes, delivered'[r] # {}
                 PROVE  s'.content[r] # None /\ \A v \in delivered'[r] : v <= s'.content[r].gate
      BY DEF Covers
    <3>1. next.room[r].status # Out /\ delivered'[r] = delivered[r] \cup more[r]
      BY <1>5, <1>7
    <3>2. /\ s.content[r] # None => s.content[r].gate \in Nat
          /\ next.content[r] # None => next.content[r].gate \in Nat
          /\ \A v \in delivered[r] \cup more[r] : v \in Nat
      BY <1>1, <1>8, SessionAssumption DEF Inv, IsSession, Contents
    <3>3. ASSUME NEW v \in delivered[r] \cup more[r]
          PROVE  next.content[r] # None /\ v <= next.content[r].gate
      <4>1. CASE v \in more[r]
        BY <2>1, <3>1, <4>1 DEF Shows
      <4>2. CASE v \in delivered[r]
        <5>1. s.content[r] # None /\ v <= s.content[r].gate
          BY <2>2, <4>2 DEF Covers
        <5>2. next.content[r] # None /\ s.content[r].gate <= next.content[r].gate
          BY <2>1, <3>1, <5>1 DEF Shows
        <5> QED
          BY <3>2, <5>1, <5>2
      <4> QED
        BY <4>1, <4>2
    <3> QED
      BY <1>5, <3>1, <3>3
  <2> QED
    BY <1>5, <1>6, <1>9, <1>10, <2>1, <2>3
<1> QED
  BY <1>11, <1>12
\* A session that is not inactive is settled between steps, and waits if it must.
LEMMA ActiveIsSettled ==
  ASSUME Inv
  PROVE  /\ IsSession(s) /\ Nothing \in [Remotes -> SUBSET Revisions]
         /\ ~Inactive(s) => Settled(s) /\ (link = "down" => s.reconnectTimer)
         /\ Inactive(s) => Ended(s)
BY DEF Inv, Ended, Settled, Ready, Moving, Nothing

\* The host that may act is no difference.
LEMMA ActingOK ==
  ASSUME Inv, NEW x \in Acting
  PROVE  /\ IsSession(x) /\ Differs(s, x, {"acts"})
         /\ x.room = s.room /\ x.content = s.content /\ x.inRoom = s.inRoom
         /\ x.reconnectTimer = s.reconnectTimer
         /\ Inactive(x) = Inactive(s)
         /\ ~Inactive(s) => Settled(x)
         /\ Inactive(s) => Ended(x)
<1>1. DOMAIN x = Fields /\ Differs(s, x, {"acts"})
  BY ActiveIsSettled DEF Acting, IsSession, Differs, Fields
<1>2. Differs(s, x, Aside) /\ Differs(s, x, FarAside)
      /\ Differs(s, x, {"acts", "capture", "stream", "permDone", "permBusy", "phase",
                        "emitting"})
  BY <1>1 DEF Differs, Aside, FarAside
<1> QED
  BY <1>1, <1>2, ActiveIsSettled, AsideKeeps, EndedStays

\* What a rebuild shows is what the step shows, when nothing came with it.
LEMMA ShowsNothing ==
  ASSUME NEW x, NEW y, x.content = s.content, Rises(x, y)
  PROVE  Shows(s, y, Nothing)
BY DEF Shows, Rises, Nothing

\* A step that ends with a rebuild.
LEMMA RebuildStep ==
  ASSUME Inv, ~Inactive(s), NEW x, Ready(x), x.content = s.content,
         link' = "down" => x.reconnectTimer, plan' \in PlanType, Step(Rebuild(x), Nothing)
  PROVE  Inv'
<1>1. Becomes(x, Rebuild(x))
  BY RebuildOK
<1>2. CASE Gone(Rebuild(x))
  BY <1>2, StepOK, ActiveIsSettled DEF Gone
<1>3. CASE ~Gone(Rebuild(x))
  BY <1>1, <1>3, StepOK, ActiveIsSettled, ShowsNothing DEF Becomes
<1> QED
  BY <1>2, <1>3

\* A step that writes what no part of the invariant of a live session reads.
LEMMA AsideStep ==
  ASSUME Inv, ~Inactive(s), NEW y, DOMAIN y = Fields, Differs(s, y, FarAside),
         link' = link, plan' \in PlanType, Step(y, Nothing)
  PROVE  Inv'
<1>1. Differs(s, y, Aside)
  BY DEF Differs, FarAside
<1>2. Settled(y) /\ y.content = s.content /\ y.reconnectTimer = s.reconnectTimer
  BY <1>1, ActiveIsSettled, AsideKeeps
<1>3. Shows(s, y, Nothing)
  BY <1>2, ActiveIsSettled DEF Shows, Nothing, IsSession, Contents
<1> QED
  BY <1>2, <1>3, ActiveIsSettled, StepOK

\* A step that ends the session, or finds it ended.
LEMMA EndStep ==
  ASSUME Inv, NEW y, Ended(y), plan' \in PlanType, Step(y, Nothing)
  PROVE  Inv'
BY ActiveIsSettled, StepOK

\* A spent budget leaves a plan.
LEMMA PlanKept ==
  ASSUME Inv, UNCHANGED plan \/ \E kind : Spend(kind)
  PROVE  /\ plan' \in PlanType
         /\ plan'.hosted = plan.hosted
<1>1. plan \in PlanType
  BY DEF Inv
<1>2. CASE UNCHANGED plan
  BY <1>1, <1>2
<1>3. CASE ~UNCHANGED plan
  <2>1. plan.budget > 0 /\ plan' = [plan EXCEPT !.budget = @ - 1]
    BY <1>3 DEF Spend
  <2>2. plan.budget - 1 \in Nat
    BY <1>1, <2>1 DEF PlanType
  <2> QED
    BY <1>1, <2>1, <2>2 DEF PlanType
<1> QED
  BY <1>2, <1>3

\* What a roster brings is of the revisions, and is shown.
LEMMA RosterShows ==
  ASSUME NEW roster \in Rosters
  PROVE  /\ roster \in [Remotes -> EntryType]
         /\ Said(roster) \in [Remotes -> SUBSET Revisions]
         /\ \A x, y : x.content = s.content /\ Rises(x, y) /\ y.room = roster
                        => Shows(s, y, Said(roster))
<1>1. Entries \subseteq EntryType
  <2>1. Snapshots \subseteq {None} \cup [sid : {NoSid}, revision : Revisions, active : BOOLEAN]
    <3> DEFINE on(v) == v % 2 = 1
    <3>1. \A v : on(v) \in BOOLEAN
      OBVIOUS
    <3>2. Snapshots = {None} \cup {[sid |-> NoSid, revision |-> v, active |-> on(v)] :
                                     v \in Revisions}
      BY Zenon DEF Snapshots
    <3> HIDE DEF on
    <3> QED
      BY <3>1, <3>2
  <2> QED
    BY <2>1 DEF Entries, EntryType
<1>2. roster \in [Remotes -> EntryType]
  BY <1>1 DEF Rosters
<1>3. Said(roster) \in [Remotes -> SUBSET Revisions]
  BY <1>2 DEF Said, EntryType
<1>4. \A r \in Remotes : \A v \in Said(roster)[r] :
        roster[r].snap # None /\ v = roster[r].snap.revision
  BY DEF Said
<1>5. ASSUME NEW x, NEW y, x.content = s.content, Rises(x, y), y.room = roster
      PROVE  Shows(s, y, Said(roster))
  BY <1>4, <1>5 DEF Shows, Rises
<1> QED
  BY <1>2, <1>3, <1>5

\* The connection is made.
LEMMA ConnectedOK == Inv /\ Connected => Inv'
<1> SUFFICES ASSUME Inv, Connected
             PROVE  Inv'
  OBVIOUS
<1>1. PICK x \in Acting : Step(IF Inactive(x) THEN x ELSE HandleConnected(x), Nothing)
  BY DEF Connected
<1>2. plan' \in PlanType /\ link' # "down"
  BY PlanKept DEF Connected
<1>3. CASE Inactive(s)
  BY <1>1, <1>2, <1>3, ActingOK, EndStep
<1>4. CASE ~Inactive(s)
  <2>1. Settled(x) /\ ~Inactive(x) /\ x.content = s.content
    BY <1>4, ActingOK
  <2>2. Ends(x, HandleConnected(x), x.room) /\ Step(HandleConnected(x), Nothing)
    BY <1>1, <2>1, HandleConnectedOK
  <2> QED
    BY <1>2, <1>4, <2>1, <2>2, ActiveIsSettled, ShowsNothing, StepOK DEF Ends
<1> QED
  BY <1>3, <1>4

\* The connection is lost.
LEMMA DisconnectedOK == Inv /\ Disconnected => Inv'
<1> SUFFICES ASSUME Inv, Disconnected
             PROVE  Inv'
  OBVIOUS
<1>1. PICK x \in Acting : Step(IF Inactive(x) THEN x ELSE HandleDisconnected(x), Nothing)
  BY DEF Disconnected
<1>2. plan' \in PlanType /\ (link' = "down" => ~plan.hosted)
  BY PlanKept DEF Disconnected
<1>3. CASE Inactive(s)
  BY <1>1, <1>2, <1>3, ActingOK, EndStep
<1>4. CASE ~Inactive(s)
  <2>1. Settled(x) /\ ~Inactive(x) /\ x.content = s.content
    BY <1>4, ActingOK
  <2> DEFINE y == HandleDisconnected(x)
  <2>2. Ends(x, y, x.room) /\ Step(y, Nothing)
        /\ (~plan.hosted /\ ~Inactive(y) => y.reconnectTimer)
    BY <1>1, <2>1, HandleDisconnectedOK
  <2> HIDE DEF y
  <2>3. Settled(y) => ~Inactive(y)
    BY DEF Settled, Ready, Moving
  <2> QED
    BY <1>2, <1>4, <2>1, <2>2, <2>3, ActiveIsSettled, ShowsNothing, StepOK DEF Ends
<1> QED
  BY <1>3, <1>4

\* A roster arrives, with the answer to a join or by itself.
LEMMA RosterOK == Inv /\ (Joined \/ RoomStateUpdated) => Inv'
<1> SUFFICES ASSUME Inv, Joined \/ RoomStateUpdated
             PROVE  Inv'
  OBVIOUS
<1>1. PICK x \in Acting, roster \in Rosters :
        \/ Step(HandleJoined(x, roster), Said(roster))
        \/ Step(HandleRoomState(x, roster), Said(roster))
  BY DEF Joined, RoomStateUpdated
<1>2. plan' \in PlanType /\ link' = link /\ ~Inactive(s)
  BY PlanKept DEF Joined, RoomStateUpdated
<1>3. Settled(x) /\ x.content = s.content /\ x.reconnectTimer = s.reconnectTimer
  BY <1>2, ActingOK
<1>4. roster \in [Remotes -> EntryType]
  BY RosterShows
<1>5. PICK y : /\ Step(y, Said(roster)) /\ Ends(x, y, roster)
               /\ ~Inactive(y) => y.reconnectTimer = x.reconnectTimer
  BY <1>1, <1>3, <1>4, HandleJoinedOK, HandleRoomStateOK
<1>6. Settled(y) => ~Inactive(y)
  BY DEF Settled, Ready, Moving
<1> QED
  BY <1>2, <1>3, <1>5, <1>6, ActiveIsSettled, RosterShows, StepOK DEF Ends

\* A participant joins or leaves.
LEMMA PeerOK ==
  ASSUME Inv, NEW r \in Remotes, PeerJoined(r) \/ PeerLeft(r)
  PROVE  Inv'
<1>1. PICK x \in Acting :
        Step(HandlePeerJoined(x, r), Nothing) \/ Step(HandlePeerLeft(x, r), Nothing)
  BY DEF PeerJoined, PeerLeft
<1>2. plan' \in PlanType /\ link' = link /\ ~Inactive(s) /\ s.inRoom
  BY PlanKept DEF PeerJoined, PeerLeft
<1>3. Settled(x) /\ x.content = s.content /\ x.reconnectTimer = s.reconnectTimer /\ x.inRoom
  BY <1>2, ActingOK
<1>4. PICK y, room : /\ Step(y, Nothing) /\ Ends(x, y, room)
                     /\ ~Inactive(y) => y.reconnectTimer = x.reconnectTimer
  BY <1>1, <1>3, HandlePeerJoinedOK, HandlePeerLeftOK
<1>5. Settled(y) => ~Inactive(y)
  BY DEF Settled, Ready, Moving
<1> QED
  BY <1>2, <1>3, <1>4, <1>5, ActiveIsSettled, ShowsNothing, StepOK DEF Ends

\* A content_state arrives.
LEMMA ContentStateOK ==
  ASSUME Inv, NEW r \in Remotes, ContentState(r)
  PROVE  Inv'
<1>1. PICK x \in Acting, sid \in Sids, v \in Revisions \cup {None}, on \in BOOLEAN :
        Step(HandleContent(x, r, [sid |-> sid, revision |-> v, active |-> on]),
             [Nothing EXCEPT ![r] = IF v = None THEN {} ELSE {v}])
  BY DEF ContentState
<1>2. plan' \in PlanType /\ link' = link /\ ~Inactive(s)
  BY PlanKept DEF ContentState
<1>3. /\ Settled(x) /\ x.content = s.content /\ x.room = s.room
      /\ x.reconnectTimer = s.reconnectTimer
  BY <1>2, ActingOK
<1> DEFINE new == [sid |-> sid, revision |-> v, active |-> on]
           y == HandleContent(x, r, new)
           more == [Nothing EXCEPT ![r] = IF v = None THEN {} ELSE {v}]
<1>4. new \in Messages /\ new.revision = v
  BY DEF Messages
<1> HIDE DEF new
<1>5. \/ Ended(y)
      \/ /\ Settled(y) /\ y.room = x.room /\ y.reconnectTimer = x.reconnectTimer
         /\ OneSender => \A q \in Remotes : x.room[q].status # Out =>
              /\ x.content[q] # None =>
                   y.content[q] # None /\ x.content[q].gate <= y.content[q].gate
              /\ q = r /\ new.revision # None =>
                   y.content[q] # None /\ new.revision <= y.content[q].gate
  BY <1>3, <1>4, HandleContentOK
<1>6. Step(y, more)
  BY <1>1 DEF new
<1> HIDE DEF y
<1>7. more \in [Remotes -> SUBSET Revisions]
      /\ \A q \in Remotes : \A w \in more[q] : q = r /\ w = v /\ v # None
  BY DEF Nothing
<1> HIDE DEF more
<1>8. CASE Ended(y)
  BY <1>2, <1>6, <1>7, <1>8, StepOK
<1>9. CASE ~Ended(y)
  <2>1. Shows(s, y, more)
    BY <1>3, <1>4, <1>5, <1>7, <1>9 DEF Shows
  <2> QED
    BY <1>2, <1>3, <1>5, <1>6, <1>7, <1>9, <2>1, ActiveIsSettled, StepOK
<1> QED
  BY <1>8, <1>9
\* The room ends, the signaling fails, or the host leaves, destroys or cancels.
LEMMA EndingOK ==
  Inv /\ (RoomEnded \/ ErrorEvent \/ HostLeaves \/ HostDestroys \/ HostCancels) => Inv'
<1> SUFFICES ASSUME Inv, RoomEnded \/ ErrorEvent \/ HostLeaves \/ HostDestroys \/ HostCancels
             PROVE  Inv'
  OBVIOUS
<1>1. plan' \in PlanType
  BY PlanKept DEF RoomEnded, ErrorEvent, HostLeaves, HostDestroys, HostCancels
<1>2. IsSession(s)
  BY ActiveIsSettled
<1>3. CASE RoomEnded \/ ErrorEvent \/ HostLeaves
  <2>1. ~Inactive(s) /\ ~s.destroyed
    BY <1>3 DEF RoomEnded, ErrorEvent, HostLeaves, Inactive
  <2>2. Ended(Cleanup(s)) /\ Ended(FailWith(s)) /\ Ended(Leave(s))
    BY <1>2, <2>1, TerminationEnds, LeaveEnds DEF Gone
  <2> QED
    BY <1>1, <1>3, <2>2, EndStep DEF RoomEnded, ErrorEvent, HostLeaves
<1>4. CASE HostDestroys
  <2>1. Ended(Destroy(s))
    BY <1>2, <1>4, DestroyEnds DEF HostDestroys
  <2> QED
    BY <1>1, <1>4, <2>1, EndStep DEF HostDestroys
<1>5. CASE HostCancels
  <2> DEFINE x == [s EXCEPT !.permDone = TRUE, !.phase = "idle"]
  <2>1. DOMAIN x = Fields /\ Differs(s, x, {"permDone", "phase"}) /\ Step(Destroy(x), Nothing)
    BY <1>2, <1>5 DEF HostCancels, IsSession, Differs, Fields
  <2> HIDE DEF x
  <2>2. /\ x.room = s.room /\ x.content = s.content /\ x.lostTimers = s.lostTimers
        /\ x.lost = s.lost /\ x.o = s.o
        /\ x.destroyed = s.destroyed /\ x.terminated = s.terminated
    BY <2>1 DEF Differs, Fields
  <2>3. IsSession(x)
    BY <1>2, <2>1, <2>2 DEF IsSession
  <2>4. CASE s.destroyed
    <3>1. Ended(x)
      BY <2>1, <2>4, ActiveIsSettled, EndedStays DEF Inactive, Differs
    <3>2. Destroy(x) = x
      BY <2>2, <2>4 DEF Destroy
    <3> QED
      BY <1>1, <2>1, <3>1, <3>2, EndStep
  <2>5. CASE ~s.destroyed
    BY <1>1, <2>1, <2>2, <2>3, <2>5, DestroyEnds, EndStep
  <2> QED
    BY <2>4, <2>5
<1> QED
  BY <1>3, <1>4, <1>5

\* The engine's aggregate changes.
LEMMA IceChangedOK == Inv /\ IceChanged => Inv'
<1> SUFFICES ASSUME Inv, IceChanged
             PROVE  Inv'
  OBVIOUS
<1>1. PICK x \in Acting : Step(Rebuild(UpdateStatus([x EXCEPT !.iceDown = ~@])), Nothing)
  BY DEF IceChanged
<1>2. plan' \in PlanType /\ link' = link /\ ~Inactive(s)
  BY PlanKept DEF IceChanged
<1>3. /\ Settled(x) /\ x.content = s.content /\ x.reconnectTimer = s.reconnectTimer
      /\ IsSession(x)
  BY <1>2, ActingOK
<1> DEFINE v == [x EXCEPT !.iceDown = ~@]
           w == UpdateStatus(v)
<1>4. DOMAIN v = Fields /\ Differs(x, v, {"iceDown"})
  BY <1>3 DEF IsSession, Differs, Fields
<1>5. Step(Rebuild(w), Nothing)
  BY <1>1
<1> HIDE DEF v
<1>6. Differs(x, v, FarAside) /\ Differs(x, v, Aside)
  BY <1>4 DEF Differs, FarAside, Aside
<1>7. Settled(v) /\ IsSession(v) /\ v.content = x.content /\ v.reconnectTimer = x.reconnectTimer
  BY <1>3, <1>4, <1>6, AsideKeeps
<1>8. /\ IsSession(w) /\ Differs(v, w, {"status", "retryTimer"})
      /\ w.status # "connected" => v.active
  BY <1>7, StatusUpdated
<1> HIDE DEF w
<1>9. Differs(v, w, Aside) /\ w.active = v.active /\ DOMAIN w = Fields
  BY <1>8 DEF Differs, Aside, Fields, IsSession
<1>10. /\ Moving(w) /\ w.content = v.content /\ w.reconnectTimer = v.reconnectTimer
       /\ w.room = v.room /\ w.inRoom = v.inRoom
  BY <1>7, <1>9, AsideKeeps DEF Settled, Ready
<1>11. Ready(w)
  BY <1>7, <1>8, <1>9, <1>10 DEF Settled, Ready, Occupied, Present
<1> QED
  BY <1>2, <1>3, <1>5, <1>7, <1>10, <1>11, ActiveIsSettled, RebuildStep

\* A fetch of the ICE servers is answered.
LEMMA IceServersOK ==
  ASSUME Inv, NEW ok \in BOOLEAN, IceServers(ok)
  PROVE  Inv'
<1> DEFINE done == [s EXCEPT !.fetch = 0]
           again == [s EXCEPT !.fetch = @ + 1]
<1>1. plan' \in PlanType /\ link' = link
  BY PlanKept DEF IceServers
<1>2. ~Inactive(s)
  BY ActiveIsSettled DEF IceServers, Ended, Stopped
<1>3. Step(done, Nothing) \/ Step(again, Nothing) \/ Step(FailWith(s), Nothing)
  BY DEF IceServers
<1>4. /\ DOMAIN done = Fields /\ Differs(s, done, FarAside)
      /\ DOMAIN again = Fields /\ Differs(s, again, FarAside)
  BY ActiveIsSettled DEF IsSession, Differs, FarAside, Aside, Fields
<1>5. Ended(FailWith(s))
  BY ActiveIsSettled, TerminationEnds
<1> HIDE DEF done, again
<1> QED
  BY <1>1, <1>2, <1>3, <1>4, <1>5, AsideStep, EndStep

\* The permission queries are answered, whatever became of the session meanwhile.
LEMMA PermissionsAnsweredOK == Inv /\ PermissionsAnswered => Inv'
<1> SUFFICES ASSUME Inv, PermissionsAnswered
             PROVE  Inv'
  OBVIOUS
<1> DEFINE ask == [s EXCEPT !.permBusy = FALSE, !.phase = "awaitingPermissions"]
           go == [s EXCEPT !.permBusy = FALSE, !.permDone = TRUE, !.capture = "live"]
<1>1. plan' \in PlanType /\ link' = link
  BY PlanKept DEF PermissionsAnswered
<1>2. Step(ask, Nothing) \/ Step(go, Nothing)
  BY DEF PermissionsAnswered
<1>3. /\ DOMAIN ask = Fields /\ Differs(s, ask, {"permBusy", "phase"})
      /\ ask.phase = "awaitingPermissions"
      /\ DOMAIN go = Fields /\ Differs(s, go, {"permBusy", "permDone", "capture"})
  BY ActiveIsSettled DEF IsSession, Differs, Fields
<1> HIDE DEF ask, go
<1>4. CASE Inactive(s)
  <2>1. Ended(ask) /\ Ended(go)
    BY <1>3, <1>4, ActiveIsSettled, EndedStays DEF Differs
  <2> QED
    BY <1>1, <1>2, <2>1, EndStep
<1>5. CASE ~Inactive(s)
  <2>1. Settled(s) /\ (link = "down" => s.reconnectTimer)
    BY <1>5, ActiveIsSettled
  <2>2. /\ ask.room = s.room /\ ask.content = s.content /\ ask.lostTimers = s.lostTimers
        /\ ask.lost = s.lost /\ ask.o = s.o /\ ask.inRoom = s.inRoom
        /\ ask.active = s.active /\ ask.status = s.status /\ ask.lastStatus = s.lastStatus
        /\ ask.destroyed = s.destroyed /\ ask.terminated = s.terminated
    BY <1>3 DEF Differs, Fields
  <2>3. /\ ask.started = s.started /\ ask.pendingJoin = s.pendingJoin
        /\ ask.joinInFlight = s.joinInFlight /\ ask.joinTimer = s.joinTimer
        /\ ask.reconnectTimer = s.reconnectTimer /\ ask.connected = s.connected
        /\ ask.cid = s.cid
    BY <1>3 DEF Differs, Fields
  <2>4. IsSession(ask) /\ Joins(ask)
    BY <1>3, <2>1, <2>2, <2>3 DEF Settled, Ready, Moving, IsSession, Joins
  <2>5. Tracks(ask.o, ask.phase, ask.lastStatus)
    BY <1>3, <2>1, <2>2 DEF Settled, Ready, Moving, Tracks
  <2>6. Moving(ask)
    BY <2>1, <2>2, <2>4, <2>5 DEF Settled, Ready, Moving, Inactive
  <2>7. Settled(ask)
    BY <2>1, <2>2, <2>6 DEF Settled, Ready, Occupied, Present, Suspended
  <2>8. Shows(s, ask, Nothing)
    BY <2>2, ActiveIsSettled DEF Shows, Nothing, IsSession, Contents
  <2>9. CASE Step(ask, Nothing)
    BY <1>1, <2>1, <2>3, <2>7, <2>8, <2>9, ActiveIsSettled, StepOK
  <2>10. Differs(s, go, FarAside)
    BY <1>3 DEF Differs, FarAside, Aside
  <2>11. CASE Step(go, Nothing)
    BY <1>1, <1>3, <1>5, <2>10, <2>11, AsideStep
  <2> QED
    BY <1>2, <2>9, <2>11
<1> QED
  BY <1>4, <1>5

\* The capture starts or fails.
LEMMA CaptureStartedOK ==
  ASSUME Inv, NEW ok \in BOOLEAN, CaptureStarted(ok)
  PROVE  Inv'
<1> DEFINE k == ok /\ s.capture = "live" /\ ~s.destroyed
           kept == [s EXCEPT !.capture = "no", !.stream = k]
           with(a) == [kept EXCEPT !.acts = a]
<1>1. plan' \in PlanType /\ link' = link
  BY PlanKept DEF CaptureStarted
<1>2. \E a : Step(CASE Inactive(s) -> kept
                    [] ~Inactive(s) /\ ok -> Rebuild(with(a))
                    [] OTHER -> FailWith(kept), Nothing)
  BY Zenon DEF CaptureStarted
<1> HIDE DEF k
<1>3. DOMAIN kept = Fields /\ Differs(s, kept, {"capture", "stream"})
  BY ActiveIsSettled DEF IsSession, Differs, Fields
<1>4. \A a : DOMAIN with(a) = Fields /\ Differs(s, with(a), {"capture", "stream", "acts"})
  BY ActiveIsSettled DEF IsSession, Differs, Fields
<1> HIDE DEF kept, with
<1>5. CASE Inactive(s)
  <2>1. Ended(kept)
    BY <1>3, <1>5, ActiveIsSettled, EndedStays DEF Differs
  <2> QED
    BY <1>1, <1>2, <1>5, <2>1, EndStep
<1>6. CASE ~Inactive(s)
  <2>1. PICK a : Step(IF ok THEN Rebuild(with(a)) ELSE FailWith(kept), Nothing)
    BY <1>2, <1>6
  <2>2. Differs(s, with(a), FarAside) /\ Differs(s, with(a), Aside) /\ Differs(s, kept, Aside)
    BY <1>3, <1>4 DEF Differs, FarAside, Aside
  <2>3. /\ Settled(with(a)) /\ with(a).content = s.content
        /\ with(a).reconnectTimer = s.reconnectTimer /\ IsSession(kept)
    BY <1>3, <1>4, <1>6, <2>2, ActiveIsSettled, AsideKeeps
  <2>4. CASE ok
    BY <1>1, <1>6, <2>1, <2>3, <2>4, ActiveIsSettled, RebuildStep DEF Settled
  <2>5. CASE ~ok
    BY <1>1, <2>1, <2>3, <2>5, TerminationEnds, EndStep
  <2> QED
    BY <2>4, <2>5
<1> QED
  BY <1>5, <1>6
\* JOIN_HARD_TIMEOUT finds the session in its room, or asking no more, or fails it.
LEMMA JoinTimeoutOK == Inv /\ JoinTimeout => Inv'
<1> SUFFICES ASSUME Inv, JoinTimeout
             PROVE  Inv'
  OBVIOUS
<1> DEFINE y == [s EXCEPT !.joinTimer = FALSE]
<1>1. plan' \in PlanType /\ link' = link
  BY PlanKept DEF JoinTimeout
<1>2. /\ ~Inactive(s) /\ Settled(s) /\ (link = "down" => s.reconnectTimer)
      /\ IsSession(s) /\ Moving(s) /\ Joins(s)
  BY ActiveIsSettled DEF JoinTimeout, Ended, Stopped, Settled, Ready, Moving
<1>3. Step(IF s.inRoom \/ ~s.pendingJoin THEN y ELSE FailWith(y), Nothing)
  BY <1>2 DEF JoinTimeout
<1>4. DOMAIN y = Fields /\ Differs(s, y, {"joinTimer"})
  BY <1>2 DEF IsSession, Differs, Fields
<1> HIDE DEF y
<1>5. /\ y.room = s.room /\ y.content = s.content /\ y.lostTimers = s.lostTimers
      /\ y.lost = s.lost /\ y.o = s.o /\ y.inRoom = s.inRoom /\ y.phase = s.phase
      /\ y.active = s.active /\ y.status = s.status /\ y.lastStatus = s.lastStatus
      /\ y.destroyed = s.destroyed /\ y.terminated = s.terminated
  BY <1>4 DEF Differs, Fields
<1>6. /\ y.started = s.started /\ y.pendingJoin = s.pendingJoin
      /\ y.joinInFlight = s.joinInFlight
      /\ y.reconnectTimer = s.reconnectTimer /\ y.connected = s.connected /\ y.cid = s.cid
  BY <1>4 DEF Differs, Fields
<1>7. IsSession(y)
  BY <1>2, <1>4, <1>5 DEF IsSession
<1>8. CASE s.inRoom \/ ~s.pendingJoin
  <2>1. Joins(y)
    BY <1>2, <1>5, <1>6, <1>8 DEF Joins
  <2>2. Moving(y)
    BY <1>2, <1>5, <1>7, <2>1 DEF Moving, Inactive
  <2>3. Settled(y)
    BY <1>2, <1>5, <2>2 DEF Settled, Ready, Occupied, Present, Suspended
  <2>4. Shows(s, y, Nothing)
    BY <1>2, <1>5 DEF Shows, Nothing, IsSession, Contents
  <2> QED
    BY <1>1, <1>2, <1>3, <1>6, <1>8, <2>3, <2>4, ActiveIsSettled, StepOK
<1>9. CASE ~(s.inRoom \/ ~s.pendingJoin)
  BY <1>1, <1>3, <1>7, <1>9, TerminationEnds, EndStep
<1> QED
  BY <1>8, <1>9

\* The backoff ends with a connection attempt.
LEMMA ReconnectTimerOK == Inv /\ ReconnectTimer => Inv'
<1> SUFFICES ASSUME Inv, ReconnectTimer
             PROVE  Inv'
  OBVIOUS
<1>1. /\ ~Inactive(s) /\ Settled(s) /\ s.reconnectTimer
      /\ plan' \in PlanType /\ link' # "down"
  BY ActiveIsSettled, PlanKept DEF ReconnectTimer, Ended, Stopped
<1>2. PICK x \in Acting :
        Step(IF Inactive(x) THEN [x EXCEPT !.reconnectTimer = FALSE]
             ELSE Rebuild([x EXCEPT !.reconnectTimer = FALSE, !.pendingJoin = TRUE]), Nothing)
  BY DEF ReconnectTimer
<1>3. /\ Settled(x) /\ x.content = s.content /\ ~Inactive(x) /\ x.reconnectTimer
      /\ IsSession(x) /\ Moving(x) /\ Joins(x)
  BY <1>1, ActingOK DEF Settled, Ready, Moving
<1> DEFINE y == [x EXCEPT !.reconnectTimer = FALSE, !.pendingJoin = TRUE]
<1>4. Step(Rebuild(y), Nothing)
  BY <1>2, <1>3
<1>5. DOMAIN y = Fields /\ Differs(x, y, {"reconnectTimer", "pendingJoin"})
      /\ y.reconnectTimer = FALSE /\ y.pendingJoin = TRUE
  BY <1>3 DEF IsSession, Differs, Fields
<1> HIDE DEF y
<1>6. /\ y.room = x.room /\ y.content = x.content /\ y.lostTimers = x.lostTimers
      /\ y.lost = x.lost /\ y.o = x.o /\ y.inRoom = x.inRoom /\ y.phase = x.phase
      /\ y.active = x.active /\ y.status = x.status /\ y.lastStatus = x.lastStatus
      /\ y.destroyed = x.destroyed /\ y.terminated = x.terminated
  BY <1>5 DEF Differs, Fields
<1>7. /\ y.started = x.started /\ y.joinTimer = x.joinTimer
      /\ y.joinInFlight = x.joinInFlight /\ y.connected = x.connected /\ y.cid = x.cid
  BY <1>5 DEF Differs, Fields
<1>8. IsSession(y) /\ Joins(y)
  BY <1>3, <1>5, <1>6, <1>7 DEF IsSession, Joins
<1>9. Ready(y)
  BY <1>3, <1>6, <1>8 DEF Settled, Ready, Moving, Inactive, Occupied, Present
<1> QED
  BY <1>1, <1>3, <1>4, <1>6, <1>9, RebuildStep

\* The timers that change no more than what is aside.
LEMMA SmallTimersOK ==
  Inv /\ (ResyncTimeout \/ LivenessTick \/ ResumeJoin) => Inv'
<1> SUFFICES ASSUME Inv, ResyncTimeout \/ LivenessTick \/ ResumeJoin
             PROVE  Inv'
  OBVIOUS
<1>1. plan' \in PlanType /\ link' = link /\ ~Inactive(s)
  BY ActiveIsSettled, PlanKept DEF ResyncTimeout, LivenessTick, ResumeJoin, Ended, Stopped
<1>2. PICK y : /\ Step(y, Nothing)
               /\ y \in {Flush(s), [s EXCEPT !.emitting = TRUE],
                         [s EXCEPT !.permDone = TRUE, !.capture = "live"]}
  BY DEF ResyncTimeout, LivenessTick, ResumeJoin
<1>3. DOMAIN y = Fields /\ Differs(s, y, FarAside)
  BY <1>2, ActiveIsSettled DEF Flush, IsSession, Differs, FarAside, Aside, Fields
<1> QED
  BY <1>1, <1>2, <1>3, AsideStep

\* CONNECTION_RETRYING_DELAY, and the sample of the liveness timer.
LEMMA RetryingTimerOK == Inv /\ RetryingTimer => Inv'
<1> SUFFICES ASSUME Inv, RetryingTimer
             PROVE  Inv'
  OBVIOUS
<1>1. ~Inactive(s) /\ plan' \in PlanType /\ link' = link
  BY ActiveIsSettled, PlanKept DEF RetryingTimer, Ended, Stopped
<1>2. PICK x \in Acting :
        Step(Rebuild([x EXCEPT !.retryTimer = FALSE,
                               !.status = IF @ = "recovering" THEN "retrying" ELSE @]), Nothing)
  BY DEF RetryingTimer
<1>3. /\ Settled(x) /\ x.content = s.content /\ x.reconnectTimer = s.reconnectTimer
      /\ IsSession(x) /\ Moving(x) /\ Ready(x)
  BY <1>1, ActingOK DEF Settled, Ready
<1> DEFINE n == IF x.status = "recovering" THEN "retrying" ELSE x.status
           y == [x EXCEPT !.retryTimer = FALSE, !.status = n]
<1>4. n # "connected" => x.active
  BY <1>3 DEF Ready
<1>5. Step(Rebuild(y), Nothing)
  BY <1>2
<1> HIDE DEF n
<1>6. DOMAIN y = Fields /\ Differs(x, y, {"retryTimer", "status"}) /\ y.status = n
  BY <1>3 DEF IsSession, Differs, Fields
<1> HIDE DEF y
<1>7. Differs(x, y, Aside) /\ y.active = x.active
  BY <1>6 DEF Differs, Aside, Fields
<1>8. /\ Moving(y) /\ y.content = x.content /\ y.room = x.room /\ y.inRoom = x.inRoom
      /\ y.reconnectTimer = x.reconnectTimer
  BY <1>3, <1>6, <1>7, AsideKeeps
<1>9. Ready(y)
  BY <1>3, <1>4, <1>6, <1>7, <1>8 DEF Ready, Occupied, Present
<1> QED
  BY <1>1, <1>3, <1>5, <1>8, <1>9, ActiveIsSettled, RebuildStep

\* A liveness sample comes back, also after the end of the session.
LEMMA LivenessSampledOK == Inv /\ LivenessSampled => Inv'
<1> SUFFICES ASSUME Inv, LivenessSampled
             PROVE  Inv'
  OBVIOUS
<1>1. plan' \in PlanType /\ link' = link
  BY PlanKept DEF LivenessSampled
<1>2. PICK x \in Acting : Step(Rebuild([x EXCEPT !.emitting = FALSE]), Nothing)
  BY DEF LivenessSampled
<1> DEFINE y == [x EXCEPT !.emitting = FALSE]
<1>3. IsSession(x) /\ x.content = s.content /\ x.reconnectTimer = s.reconnectTimer
      /\ Inactive(x) = Inactive(s)
  BY ActingOK
<1>4. DOMAIN y = Fields /\ Differs(x, y, {"emitting"})
  BY <1>3 DEF IsSession, Differs, Fields
<1>5. Step(Rebuild(y), Nothing)
  BY <1>2
<1> HIDE DEF y
<1>6. Differs(x, y, FarAside) /\ Differs(x, y, Aside)
  BY <1>4 DEF Differs, FarAside, Aside
<1>7. /\ y.content = x.content /\ y.reconnectTimer = x.reconnectTimer
      /\ Inactive(y) = Inactive(x)
  BY <1>3, <1>4, <1>6, AsideKeeps
<1>8. CASE Inactive(s)
  <2>1. Ended(x)
    BY <1>8, ActingOK
  <2>2. Ended(y)
    BY <1>4, <2>1, EndedStays DEF Differs
  <2> QED
    BY <1>1, <1>5, <2>2, RebuildNot, EndStep DEF Ended
<1>9. CASE ~Inactive(s)
  <2>1. Settled(x)
    BY <1>9, ActingOK
  <2>2. Ready(y)
    BY <1>4, <1>6, <2>1, AsideKeeps DEF Settled
  <2> QED
    BY <1>1, <1>3, <1>5, <1>7, <1>9, <2>2, ActiveIsSettled, RebuildStep
<1> QED
  BY <1>8, <1>9

\* PEER_SUSPENDED_UI_TIMEOUT: who was counted down to is presumed lost.
LEMMA PeerLostOK ==
  ASSUME Inv, NEW r \in Remotes, PeerLost(r)
  PROVE  Inv'
<1>1. ~Inactive(s) /\ plan' \in PlanType /\ link' = link /\ r \in s.lostTimers
  BY ActiveIsSettled, PlanKept DEF PeerLost, Ended, Stopped
<1>2. PICK x \in Acting :
        Step(Rebuild([x EXCEPT !.lostTimers = @ \ {r}, !.lost = @ \cup {r}]), Nothing)
  BY DEF PeerLost
<1>3. /\ Settled(x) /\ x.content = s.content /\ x.reconnectTimer = s.reconnectTimer
      /\ IsSession(x) /\ Moving(x) /\ Ready(x) /\ Joins(x)
  BY <1>1, ActingOK DEF Settled, Ready, Moving
<1> DEFINE y == [x EXCEPT !.lostTimers = @ \ {r}, !.lost = @ \cup {r}]
<1>4. Step(Rebuild(y), Nothing)
  BY <1>2
<1>5. DOMAIN y = Fields /\ Differs(x, y, {"lostTimers", "lost"})
      /\ y.lostTimers = x.lostTimers \ {r} /\ y.lost = x.lost \cup {r}
  BY <1>3 DEF IsSession, Differs, Fields
<1> HIDE DEF y
<1>6. /\ y.room = x.room /\ y.content = x.content /\ y.o = x.o /\ y.inRoom = x.inRoom
      /\ y.phase = x.phase /\ y.lastStatus = x.lastStatus
      /\ y.active = x.active /\ y.status = x.status
      /\ y.destroyed = x.destroyed /\ y.terminated = x.terminated
  BY <1>5 DEF Differs, Fields
<1>7. /\ y.started = x.started /\ y.joinTimer = x.joinTimer /\ y.pendingJoin = x.pendingJoin
      /\ y.joinInFlight = x.joinInFlight /\ y.connected = x.connected /\ y.cid = x.cid
      /\ y.reconnectTimer = x.reconnectTimer
  BY <1>5 DEF Differs, Fields
<1>8. IsSession(y) /\ Joins(y) /\ y.lostTimers \cap y.lost = {}
  BY <1>3, <1>5, <1>6, <1>7 DEF IsSession, Joins, Moving
<1>9. Ready(y)
  BY <1>3, <1>6, <1>8 DEF Ready, Moving, Inactive, Occupied, Present
<1> QED
  BY <1>1, <1>3, <1>4, <1>6, <1>7, <1>9, ActiveIsSettled, RebuildStep

\* The ending screen gives way.
LEMMA EndingTimerOK == Inv /\ EndingTimer => Inv'
<1> SUFFICES ASSUME Inv, EndingTimer
             PROVE  Inv'
  OBVIOUS
<1> DEFINE y == [s EXCEPT !.endingTimer = FALSE, !.phase = "idle"]
<1>1. plan' \in PlanType /\ link' = link /\ Step(y, Nothing)
  BY PlanKept DEF EndingTimer
<1>2. IsSession(s)
  BY ActiveIsSettled
<1>3. DOMAIN y = Fields /\ Differs(s, y, {"endingTimer", "phase"})
      /\ y.endingTimer = FALSE /\ y.phase = "idle"
  BY <1>2 DEF IsSession, Differs, Fields
<1> HIDE DEF y
<1>4. /\ y.room = s.room /\ y.content = s.content /\ y.lostTimers = s.lostTimers
      /\ y.lost = s.lost /\ y.o = s.o /\ y.inRoom = s.inRoom
      /\ y.active = s.active /\ y.status = s.status /\ y.lastStatus = s.lastStatus
      /\ y.destroyed = s.destroyed /\ y.terminated = s.terminated
  BY <1>3 DEF Differs, Fields
<1>5. /\ y.joinTimer = s.joinTimer /\ y.reconnectTimer = s.reconnectTimer
      /\ y.resync = s.resync /\ y.liveness = s.liveness /\ y.retryTimer = s.retryTimer
      /\ y.fetch = s.fetch /\ y.started = s.started /\ y.pendingJoin = s.pendingJoin
      /\ y.joinInFlight = s.joinInFlight /\ y.connected = s.connected /\ y.cid = s.cid
  BY <1>3 DEF Differs, Fields
<1>6. IsSession(y)
  BY <1>2, <1>3, <1>4 DEF IsSession
<1>7. CASE Inactive(s)
  <2>1. Ended(y)
    BY <1>3, <1>4, <1>5, <1>6, <1>7, ActiveIsSettled DEF Ended, Inactive, Stopped
  <2> QED
    BY <1>1, <2>1, EndStep
<1>8. CASE ~Inactive(s)
  <2>1. Settled(s) /\ (link = "down" => s.reconnectTimer)
    BY <1>8, ActiveIsSettled
  <2>2. Joins(y)
    BY <1>4, <1>5, <2>1 DEF Settled, Ready, Moving, Joins
  <2>3. Tracks(y.o, y.phase, y.lastStatus)
    BY <1>3, <1>4, <2>1 DEF Settled, Ready, Moving, Tracks
  <2>4. Moving(y)
    BY <1>4, <1>6, <2>1, <2>2, <2>3 DEF Settled, Ready, Moving, Inactive
  <2>5. Settled(y)
    BY <1>4, <2>1, <2>4 DEF Settled, Ready, Occupied, Present, Suspended
  <2>6. Shows(s, y, Nothing)
    BY <1>2, <1>4 DEF Shows, Nothing, IsSession, Contents
  <2> QED
    BY <1>1, <1>5, <2>1, <2>5, <2>6, ActiveIsSettled, StepOK
<1> QED
  BY <1>7, <1>8

-----------------------------------------------------------------------------
(* The theorems. *)

\* A session that has just been started.
LEMMA InvInitially == Init => Inv
<1> SUFFICES ASSUME Init
             PROVE  Inv
  OBVIOUS
<1>1. plan \in Plans /\ s = Blank /\ link = "connecting"
      /\ delivered = [r \in Remotes |-> {}]
  BY DEF Init
<1>2. plan \in PlanType
  BY <1>1, SessionAssumption DEF PlanType
<1>3. Blank.room = Nobody /\ Blank.content = [r \in Remotes |-> None]
      /\ Blank.lostTimers = {} /\ Blank.lost = {} /\ Blank.o = NoOutages
      /\ Blank.phase = "joining" /\ Blank.active = FALSE
      /\ Blank.status = "connected" /\ Blank.lastStatus = "connected"
      /\ Blank.destroyed = FALSE /\ Blank.terminated = FALSE
  BY DEF Blank
<1>4. /\ Blank.started = TRUE /\ Blank.joinTimer = TRUE /\ Blank.pendingJoin = TRUE
      /\ Blank.reconnectTimer = FALSE /\ Blank.connected = FALSE
  BY DEF Blank
<1>5. DOMAIN Blank = Fields
  BY DEF Blank, Fields
<1>6. DOMAIN NoOutages = OutageFields /\ Tracks(NoOutages, "joining", "connected")
  BY DEF NoOutages, OutageFields, Tracks
<1>7. IsSession(Blank)
  BY <1>3, <1>5, <1>6, EmptyRoster DEF IsSession
<1>8. Joins(Blank)
  BY <1>4 DEF Joins
<1>9. Suspended(Blank) = {}
  BY <1>3 DEF Suspended, Nobody, Out
<1>10. Settled(Blank)
  BY <1>3, <1>6, <1>7, <1>8, <1>9 DEF Settled, Ready, Moving, Inactive
<1>11. Covers(s, delivered)
  BY <1>1 DEF Covers
<1>12. \A r \in Remotes : delivered[r] = {}
  BY <1>1
<1> QED
  BY <1>1, <1>2, <1>7, <1>10, <1>11, <1>12 DEF Inv

\* Every step of the session keeps Inv.
LEMMA InvStep == Inv /\ [Next]_vars => Inv'
<1> SUFFICES ASSUME Inv, [Next]_vars
             PROVE  Inv'
  OBVIOUS
<1>1. CASE UNCHANGED vars
  BY <1>1 DEF vars, Inv, IsSession, Ended, Settled, Ready, Moving, Joins, Inactive, Stopped,
              Occupied, Present, Suspended, Covers, Out
<1>2. CASE Connected \/ Disconnected
  BY <1>2, ConnectedOK, DisconnectedOK
<1>3. CASE Joined \/ RoomStateUpdated
  BY <1>3, RosterOK
<1>4. CASE \E r \in plan.remotes : PeerJoined(r) \/ PeerLeft(r) \/ ContentState(r) \/ PeerLost(r)
  <2>1. plan.remotes \subseteq Remotes
    BY DEF Inv, PlanType
  <2> QED
    BY <1>4, <2>1, PeerOK, ContentStateOK, PeerLostOK
<1>5. CASE RoomEnded \/ ErrorEvent \/ HostLeaves \/ HostDestroys \/ HostCancels
  BY <1>5, EndingOK
<1>6. CASE IceChanged
  BY <1>6, IceChangedOK
<1>7. CASE \E ok \in BOOLEAN : IceServers(ok) \/ CaptureStarted(ok)
  BY <1>7, IceServersOK, CaptureStartedOK
<1>8. CASE PermissionsAnswered
  BY <1>8, PermissionsAnsweredOK
<1>9. CASE ResyncTimeout \/ LivenessTick \/ ResumeJoin
  BY <1>9, SmallTimersOK
<1>10. CASE JoinTimeout \/ ReconnectTimer
  BY <1>10, JoinTimeoutOK, ReconnectTimerOK
<1>11. CASE RetryingTimer \/ EndingTimer \/ LivenessSampled
  BY <1>11, RetryingTimerOK, EndingTimerOK, LivenessSampledOK
<1> QED
  BY <1>1, <1>2, <1>3, <1>4, <1>5, <1>6, <1>7, <1>8, <1>9, <1>10, <1>11 DEF Next

\* Inv holds of every session, in every state.
THEOREM SessionInvariant == Spec => []Inv
BY InvInitially, InvStep, PTL DEF Spec

\* Whatever ends a session, the host in the middle of a callback, an error, the end
\* of the room, or the last retry, its timers are stopped and stay so, although
\* answers to what it had asked still come (SerenadaSession.destroy, cleanupCall,
\* failWithError).
THEOREM TimersTheorem == Spec => []TimersStopped
<1>1. Inv => TimersStopped
  BY ActiveIsSettled DEF TimersStopped, Ended, Stopped
<1> QED
  BY <1>1, SessionInvariant, PTL

\* Every suspended participant is counted down to or presumed lost, never both, and
\* nobody else is (reconcileRemoteSuspensionTimers).
THEOREM SuspicionsTheorem == Spec => []SuspicionsTracked
<1>1. Inv => SuspicionsTracked
  BY ActiveIsSettled DEF SuspicionsTracked, Settled, Ready, Moving, Suspended
<1> QED
  BY <1>1, SessionInvariant, PTL

\* The content shown is the newest delivered, live or in a snapshot, however late
\* either comes, when the provider names no sender sessions, as the hosted one
\* (applyRemoteContentState).
THEOREM ContentTheorem == OneSender => (Spec => []NewestContentShown)
<1> SUFFICES ASSUME OneSender
             PROVE  Spec => []NewestContentShown
  OBVIOUS
<1>1. Inv => NewestContentShown
  BY ActiveIsSettled DEF NewestContentShown, Inv, Covers, Ended
<1> QED
  BY <1>1, SessionInvariant, PTL

\* The tracker has an outage open exactly while the host sees the live call
\* degraded, whichever of the roster, the phase and the status changes first
\* (rebuildState, feedQualityTracker).
THEOREM OutagesTheorem == Spec => []OutagesTracked
<1>1. Inv => OutagesTracked
  BY ActiveIsSettled DEF OutagesTracked, Settled, Ready, Moving, Tracks
<1> QED
  BY <1>1, SessionInvariant, PTL

\* A session that has not got into its room has the hard timeout running or its join
\* answered, and one without a connection will make another
\* (handleConnected, scheduleReconnect).
THEOREM NeverAloneTheorem == Spec => []NeverAlone
<1>1. Inv => NeverAlone
  BY ActiveIsSettled DEF NeverAlone, Settled, Ready, Moving, Joins
<1> QED
  BY <1>1, SessionInvariant, PTL
=============================================================================
