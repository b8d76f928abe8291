------------------------------ MODULE Session ------------------------------
(***************************************************************************)
(* One SerenadaSession (client/packages/core/src/SerenadaSession.ts) on a  *)
(* signaling provider, the hosted one or one written by an application:    *)
(* joining, reconnecting, the roster and what is shown of it, the          *)
(* permission check, the ICE server fetch, the timers, and the ways a      *)
(* session ends.                                                           *)
(*                                                                         *)
(* A handler runs to its end: it is an operator from session to session.   *)
(* Two things run inside a handler.  MediaEngine calls back on every       *)
(* change (rebuildState), and the host is called back with each state and  *)
(* each connection event, where it may leave: `acts` says in which kind of *)
(* callback of this handler it does.  Of the media engine only the status  *)
(* machine and the start of the capture are kept; PeerNegotiation and      *)
(* LocalMedia model the rest.                                              *)
(***************************************************************************)
EXTENDS CallQuality, FiniteSets

CONSTANTS
  Remotes,     \* the other participants
  Sids,        \* sender sessions a provider can name; NoSid when it names none
  Revisions,   \* content revisions a sender reaches: odd ones share, even ones do not
  Plans,       \* what a run may hold: whether the provider is the hosted one, how many
               \* events come and of which kinds, who joins, and in which callbacks
               \* the host leaves
  NoSid, None

\* What is shown of a participant: the newest revision it came with is its gate.
Contents == [sid : Sids \cup {NoSid}, active : BOOLEAN, gate : Nat]

ASSUME SessionAssumption ==
  /\ Revisions \subseteq Nat \ {0}
  /\ None \notin Nat /\ None \notin Contents
  /\ Plans \subseteq [hosted : BOOLEAN, budget : Nat,
                     events : SUBSET {"loss", "ice", "roster", "peers", "content", "end"},
                     remotes : SUBSET Remotes, acts : SUBSET {"state", "event"}]

VARIABLES
  s,           \* the session's fields
  link,        \* the provider's connection: "idle", "connecting", "up" or "down"
  plan,        \* what may still happen
  delivered    \* per remote, the revisions delivered since it is in the room

vars == <<s, link, plan, delivered>>

-----------------------------------------------------------------------------
(* Fields.                                                                 *)

Out == "out"
Nobody == [r \in Remotes |-> [status |-> Out, snap |-> None]]
RetryLimit == 4

Blank == [
  phase |-> "joining", destroyed |-> FALSE, terminated |-> FALSE, started |-> TRUE,
  pendingJoin |-> TRUE, joinInFlight |-> FALSE, recoveryPending |-> FALSE, resync |-> FALSE,
  joinTimer |-> TRUE, reconnectTimer |-> FALSE, endingTimer |-> FALSE,
  liveness |-> FALSE, emitting |-> FALSE, fetch |-> 0,
  connected |-> FALSE, cid |-> FALSE, inRoom |-> FALSE, room |-> Nobody,
  content |-> [r \in Remotes |-> None], lostTimers |-> {}, lost |-> {},
  permDone |-> FALSE, permBusy |-> FALSE, stream |-> FALSE, capture |-> "no",
  active |-> FALSE, iceDown |-> FALSE, status |-> "connected", retryTimer |-> FALSE,
  lastStatus |-> "connected", o |-> NoOutages, acts |-> "none"]

Inactive(x) == x.destroyed \/ x.terminated
Present(x) == {r \in Remotes : x.room[r].status # Out}

-----------------------------------------------------------------------------
(* MediaEngine: the connection status of a call.                           *)

\* updateConnectionStatusValue and the two operations it chooses from.
UpdateStatus(x) ==
  IF x.active /\ (~x.connected \/ x.iceDown)
  THEN [x EXCEPT !.status = IF @ = "connected" THEN "recovering" ELSE @,
                 !.retryTimer = @ \/ x.status # "retrying"]
  ELSE [x EXCEPT !.status = "connected", !.retryTimer = FALSE]

-----------------------------------------------------------------------------
(* The roster as it is shown.                                              *)

\* Mutant: who left the room keeps its timer and the suspicion.
ForgetReturnedOnly(x) ==
  LET suspended == {r \in Remotes : x.room[r].status = "suspended"}
      back == {r \in Remotes : x.room[r].status = "active"}
  IN [x EXCEPT !.lostTimers = (@ \ back) \cup (suspended \ x.lost),
               !.lost = @ \ back]

\* reconcileRemoteSuspensionTimers: a timer for who is newly suspended, none and
\* no suspicion for who is active or gone.
ReconcileSuspensions(x) ==
  LET suspended == {r \in Remotes : x.room[r].status = "suspended"}
  IN [x EXCEPT !.lostTimers = (@ \cap suspended) \cup (suspended \ x.lost),
               !.lost = @ \cap suspended]

\* Mutant: whatever arrives last is shown.
SupersedesAlways(old, new, snapshot) == old = None \/ ~snapshot \/ new.revision # None

\* applyRemoteContentState: within a sender session a revision must rise; another
\* sender session supersedes; without a revision only a live message counts.
Supersedes(old, new, snapshot) ==
  \/ old = None
  \/ IF new.revision = None THEN ~snapshot
     ELSE old.sid # new.sid \/ new.revision > old.gate

ApplyContent(old, new, snapshot) ==
  IF ~Supersedes(old, new, snapshot) THEN old
  ELSE [sid |-> new.sid, active |-> new.active,
        gate |-> IF new.revision # None THEN new.revision
                 ELSE IF old # None /\ old.sid = new.sid THEN old.gate ELSE 0]

\* reconcileRemoteCapabilityStorage: the roster's snapshots are applied again at
\* every rebuild, and nothing is kept of who is not in it.
ReconcileContent(x) ==
  [x EXCEPT !.content = [r \in Remotes |->
     IF x.room[r].status = Out THEN None
     ELSE IF x.room[r].snap = None THEN x.content[r]
     ELSE ApplyContent(x.content[r], x.room[r].snap, TRUE)]]

-----------------------------------------------------------------------------
(* rebuildState.                                                           *)

NextPhase(x) ==
  CASE ~x.inRoom -> x.phase
    [] x.inRoom /\ Present(x) # {} -> "inCall"
    [] OTHER -> "waiting"

\* checkPermissionsAndStartMedia, up to its first await.
CheckPermissions(x) ==
  IF x.inRoom /\ ~x.stream /\ ~x.permDone THEN [x EXCEPT !.permBusy = TRUE] ELSE x

\* The part up to feedQualityTracker, and the tracker.
Derive(x) ==
  LET y == ReconcileContent(ReconcileSuspensions(CheckPermissions(x)))
  IN [y EXCEPT !.o = Feed(y.o, y.phase, NextPhase(x), y.lastStatus, y.status, 0),
               !.lastStatus = y.status]

Publish(x) == [x EXCEPT !.phase = NextPhase(x)]

RebuildUnheard(x) == IF Inactive(x) THEN x ELSE Publish(Derive(x))

-----------------------------------------------------------------------------
(* The ways out.                                                           *)

\* Mutant: the timers of suspended peers survive.
DestroyTicking(x) ==
  IF x.destroyed THEN x
  ELSE [x EXCEPT !.destroyed = TRUE, !.o = Finalize(@, 0), !.fetch = 0,
                 !.reconnectTimer = FALSE, !.endingTimer = FALSE, !.joinTimer = FALSE,
                 !.resync = FALSE, !.liveness = FALSE, !.stream = FALSE]

\* destroy(): everything is stopped once, and the provider is told to go.
Destroy(x) ==
  IF x.destroyed THEN x
  ELSE [x EXCEPT !.destroyed = TRUE, !.o = Finalize(@, 0), !.fetch = 0,
                 !.reconnectTimer = FALSE, !.endingTimer = FALSE, !.joinTimer = FALSE,
                 !.resync = FALSE, !.lostTimers = {}, !.lost = {}, !.liveness = FALSE,
                 !.active = FALSE, !.status = "connected", !.retryTimer = FALSE,
                 !.stream = FALSE, !.capture = IF @ = "live" THEN "stale" ELSE @]

\* leave(): cleanupAllPeers calls back while the room is still there.
Leave(x) ==
  IF Inactive(x) THEN x
  ELSE LET told == [x EXCEPT !.acts = "none", !.o = Finalize(@, 0), !.reconnectTimer = FALSE,
                             !.fetch = 0, !.pendingJoin = FALSE, !.joinInFlight = FALSE,
                             !.iceDown = FALSE, !.status = "connected", !.retryTimer = FALSE]
       IN Destroy([RebuildUnheard(told) EXCEPT
                     !.inRoom = FALSE, !.room = Nobody,
                     !.content = [r \in Remotes |-> None], !.phase = "idle"])

\* resetSessionResources.
Reset(x) ==
  [x EXCEPT !.reconnectTimer = FALSE, !.joinTimer = FALSE, !.endingTimer = FALSE,
            !.resync = FALSE, !.lostTimers = {}, !.lost = {}, !.liveness = FALSE, !.fetch = 0,
            !.started = FALSE, !.connected = FALSE, !.pendingJoin = FALSE,
            !.joinInFlight = FALSE, !.recoveryPending = FALSE, !.inRoom = FALSE,
            !.cid = FALSE, !.room = Nobody, !.content = [r \in Remotes |-> None],
            !.active = FALSE, !.iceDown = FALSE, !.status = "connected", !.retryTimer = FALSE,
            !.stream = FALSE, !.capture = IF @ = "live" THEN "stale" ELSE @]

\* failWithError; what the tracker reports is CallTracker's Fail.
FailWith(x) ==
  [Reset([x EXCEPT !.terminated = TRUE, !.o = Finalize(@, 0)]) EXCEPT !.phase = "error"]

\* cleanupCall: the room ended.
Cleanup(x) ==
  [Reset([x EXCEPT !.terminated = TRUE, !.o = Finalize(@, 0)]) EXCEPT
     !.phase = "ending", !.endingTimer = TRUE]

\* rebuildState with the host listening: it may leave when it hears `reconnected`,
\* before the new state is published, or when it is given the state.
Rebuild(x) ==
  IF Inactive(x) THEN x
  ELSE LET d == Derive(x)
           hears == d.o.recoveries > x.o.recoveries
       IN IF hears /\ x.acts = "event" THEN Leave(d)
          ELSE IF x.acts = "state" THEN Leave(Publish(d)) ELSE Publish(d)

\* media.updateRoomState: the engine's view follows, and it calls back.
UpdateRoom(x) ==
  LET anybody == x.inRoom /\ Present(x) # {}
  IN Rebuild(UpdateStatus([x EXCEPT !.active = anybody, !.iceDown = @ /\ anybody]))

\* maybeStartMediaLivenessTimer.
StartLiveness(x) == IF x.inRoom /\ Present(x) # {} THEN [x EXCEPT !.liveness = TRUE] ELSE x

\* Mutant: only a session that was in a room reconnects.
ScheduleOnlyInRoom(x) ==
  IF Inactive(x) \/ ~x.started \/ ~x.inRoom THEN x
  ELSE [x EXCEPT !.reconnectTimer = TRUE]

\* scheduleReconnect: for a provider that leaves reconnecting to the session.
ScheduleReconnect(x) ==
  IF Inactive(x) \/ ~x.started \/ ~(x.pendingJoin \/ x.inRoom \/ x.cid) THEN x
  ELSE [x EXCEPT !.reconnectTimer = TRUE]

-----------------------------------------------------------------------------
(* The provider's events.                                                  *)

\* handleConnected.
HandleConnected(x) ==
  LET up == UpdateStatus([x EXCEPT !.connected = TRUE, !.reconnectTimer = FALSE])
      asked == CASE up.pendingJoin /\ ~up.joinInFlight -> [up EXCEPT !.joinInFlight = TRUE]
                 [] ~(up.pendingJoin /\ ~up.joinInFlight) /\ plan.hosted /\ ~x.connected
                    /\ up.recoveryPending /\ up.inRoom ->
                      [up EXCEPT !.recoveryPending = FALSE, !.resync = TRUE]
                 [] OTHER -> up
  IN Rebuild(asked)

\* Mutant: the state is not rebuilt, so the tracker does not see the outage begin.
HandleDisconnectedQuietly(x) ==
  LET down == UpdateStatus([x EXCEPT !.connected = FALSE, !.joinInFlight = FALSE])
  IN IF plan.hosted THEN [down EXCEPT !.recoveryPending = x.inRoom]
     ELSE ScheduleReconnect([down EXCEPT !.pendingJoin = TRUE])

\* handleDisconnected.
HandleDisconnected(x) ==
  LET down == UpdateStatus([x EXCEPT !.connected = FALSE, !.joinInFlight = FALSE])
  IN Rebuild(IF plan.hosted THEN [down EXCEPT !.recoveryPending = x.inRoom]
             ELSE ScheduleReconnect([down EXCEPT !.pendingJoin = TRUE]))

\* handleJoined: the roster is replaced, and the ICE servers are fetched anew.
HandleJoined(x, roster) ==
  LET joined == [x EXCEPT !.joinInFlight = FALSE, !.pendingJoin = FALSE,
                          !.recoveryPending = FALSE, !.joinTimer = FALSE, !.cid = TRUE,
                          !.inRoom = TRUE, !.room = roster]
      rebuilt == Rebuild(StartLiveness(UpdateRoom(joined)))
  IN IF rebuilt.destroyed THEN rebuilt ELSE [rebuilt EXCEPT !.fetch = 1]

\* flushPostReconnectResync: the ICE restart is handed to the media engine.
Flush(x) == [x EXCEPT !.resync = FALSE]

\* handleRoomStateUpdated.
HandleRoomState(x, roster) ==
  Rebuild(Flush(StartLiveness(UpdateRoom([x EXCEPT !.inRoom = TRUE, !.room = roster]))))

\* handlePeerJoined: the newcomer's entry carries no snapshot.
HandlePeerJoined(x, r) ==
  Rebuild(StartLiveness(UpdateRoom(
    [x EXCEPT !.inRoom = TRUE, !.room[r] = [status |-> "active", snap |-> None]])))

\* handlePeerLeft.
HandlePeerLeft(x, r) ==
  Rebuild(UpdateRoom([x EXCEPT !.content[r] = None, !.room[r] = [status |-> Out, snap |-> None]]))

\* handleRemoteContentState: the state is rebuilt only if something was accepted.
HandleContent(x, r, new) ==
  IF Supersedes(x.content[r], new, FALSE)
  THEN Rebuild([x EXCEPT !.content[r] = ApplyContent(@, new, FALSE)])
  ELSE x

-----------------------------------------------------------------------------
(* The environment.                                                        *)

Init ==
  /\ plan \in Plans
  /\ s = Blank
  /\ link = "connecting"        \* start() has called connect()
  /\ delivered = [r \in Remotes |-> {}]

\* A step of the session in which the host may act, with what it delivers.
Step(next, more) ==
  /\ s' = [next EXCEPT !.acts = "none"]
  /\ delivered' = [r \in Remotes |-> IF s'.room[r].status = Out THEN {}
                                     ELSE delivered[r] \cup more[r]]

Nothing == [r \in Remotes |-> {}]
Spend(kind) == plan.budget > 0 /\ kind \in plan.events /\ plan' = [plan EXCEPT !.budget = @ - 1]
Acting == {[s EXCEPT !.acts = a] : a \in {"none"} \cup plan.acts}

\* What a snapshot says of a participant: its status, and what it shares.
Snapshots == {None} \cup {[sid |-> NoSid, revision |-> v, active |-> v % 2 = 1] : v \in Revisions}
Entries == {[status |-> Out, snap |-> None]}
           \cup [status : {"active", "suspended"},
                 snap : IF "content" \in plan.events THEN Snapshots ELSE {None}]
Rosters == {roster \in [Remotes -> Entries] :
              \A r \in Remotes \ plan.remotes : roster[r].status = Out}
Said(roster) == [r \in Remotes |-> IF roster[r].snap = None THEN {} ELSE {roster[r].snap.revision}]

Listening == ~s.destroyed
InCallNow == link = "up" /\ s.cid /\ s.connected

Connected ==
  /\ link = "connecting" /\ Listening
  /\ link' = "up"
  /\ \E x \in Acting : Step(IF Inactive(x) THEN x ELSE HandleConnected(x), Nothing)
  /\ UNCHANGED plan

\* The connection is lost, or is not made.  The hosted provider tries again on
\* its own; any other waits for connect().
Disconnected ==
  /\ link \in {"connecting", "up"} /\ Listening
  /\ Spend("loss")
  /\ link' = IF plan.hosted THEN "connecting" ELSE "down"
  /\ \E x \in Acting : Step(IF Inactive(x) THEN x ELSE HandleDisconnected(x), Nothing)

\* The answer to joinRoom, and the hosted provider's own rejoin.
Joined ==
  /\ link = "up" /\ Listening /\ ~Inactive(s)
  /\ s.joinInFlight \/ (plan.hosted /\ s.resync /\ s.cid)
  /\ \E x \in Acting, roster \in Rosters : Step(HandleJoined(x, roster), Said(roster))
  /\ UNCHANGED <<link, plan>>

RoomStateUpdated ==
  /\ InCallNow /\ ~Inactive(s)
  /\ Spend("roster")
  /\ \E x \in Acting, roster \in Rosters : Step(HandleRoomState(x, roster), Said(roster))
  /\ UNCHANGED link

PeerJoined(r) ==
  /\ InCallNow /\ ~Inactive(s) /\ s.inRoom
  /\ Spend("peers")
  /\ \E x \in Acting : Step(HandlePeerJoined(x, r), Nothing)
  /\ UNCHANGED link

PeerLeft(r) ==
  /\ InCallNow /\ ~Inactive(s) /\ s.inRoom
  /\ Spend("peers")
  /\ \E x \in Acting : Step(HandlePeerLeft(x, r), Nothing)
  /\ UNCHANGED link

\* A content_state, however late: any revision, from any session of the sender.
ContentState(r) ==
  /\ InCallNow /\ ~Inactive(s)
  /\ Spend("content")
  /\ \E x \in Acting, sid \in Sids, v \in Revisions \cup {None}, on \in BOOLEAN :
       /\ v # None => on = (v % 2 = 1)
       /\ Step(HandleContent(x, r, [sid |-> sid, revision |-> v, active |-> on]),
               [Nothing EXCEPT ![r] = IF v = None THEN {} ELSE {v}])
  /\ UNCHANGED link

RoomEnded ==
  /\ InCallNow /\ ~Inactive(s)
  /\ Spend("end")
  /\ Step(Cleanup(s), Nothing)
  /\ UNCHANGED link

ErrorEvent ==
  /\ link = "up" /\ Listening /\ ~Inactive(s)
  /\ Spend("end")
  /\ Step(FailWith(s), Nothing)
  /\ UNCHANGED link

\* A peer connection degrades or comes back: the engine's aggregate changes.
IceChanged ==
  /\ s.active /\ ~Inactive(s)
  /\ Spend("ice")
  /\ \E x \in Acting : Step(Rebuild(UpdateStatus([x EXCEPT !.iceDown = ~@])), Nothing)
  /\ UNCHANGED link

\* getIceServers fails once more, or succeeds; after the last try the call fails.
IceServers(ok) ==
  /\ s.fetch > 0
  /\ Step(IF ok THEN [s EXCEPT !.fetch = 0]
          ELSE IF s.fetch < RetryLimit THEN [s EXCEPT !.fetch = @ + 1]
          ELSE FailWith(s), Nothing)
  /\ IF ok THEN UNCHANGED plan ELSE Spend("ice")
  /\ UNCHANGED link

\* The answer to the permission queries.  The code does not ask whether the
\* session is still active.
PermissionsAnswered ==
  /\ s.permBusy
  /\ \/ Step([s EXCEPT !.permBusy = FALSE, !.phase = "awaitingPermissions"], Nothing)
     \/ Step([s EXCEPT !.permBusy = FALSE, !.permDone = TRUE, !.capture = "live"], Nothing)
  /\ UNCHANGED <<link, plan>>

\* resumeJoin.
ResumeJoin ==
  /\ s.phase = "awaitingPermissions" /\ ~Inactive(s) /\ s.capture = "no"
  /\ Step([s EXCEPT !.permDone = TRUE, !.capture = "live"], Nothing)
  /\ UNCHANGED <<link, plan>>

\* startLocalMedia returns.  A start that was cancelled gives its tracks back.
CaptureStarted(ok) ==
  /\ s.capture # "no"
  /\ LET kept == [s EXCEPT !.capture = "no", !.stream = ok /\ s.capture = "live" /\ ~s.destroyed]
     IN \E a \in {"none"} \cup plan.acts :
          Step(CASE Inactive(s) -> kept
                 [] ~Inactive(s) /\ ok -> Rebuild([kept EXCEPT !.acts = a])
                 [] OTHER -> FailWith(kept), Nothing)
  /\ UNCHANGED <<link, plan>>

-----------------------------------------------------------------------------
(* Timers.                                                                 *)

\* JOIN_HARD_TIMEOUT.
JoinTimeout ==
  /\ s.joinTimer
  /\ LET fired == [s EXCEPT !.joinTimer = FALSE]
     IN Step(IF Inactive(s) \/ s.inRoom \/ ~s.pendingJoin THEN fired ELSE FailWith(fired), Nothing)
  /\ UNCHANGED <<link, plan>>

\* The backoff ends: connect() again.
ReconnectTimer ==
  /\ s.reconnectTimer
  /\ \E x \in Acting :
       Step(IF Inactive(x) THEN [x EXCEPT !.reconnectTimer = FALSE]
            ELSE Rebuild([x EXCEPT !.reconnectTimer = FALSE, !.pendingJoin = TRUE]), Nothing)
  /\ link' = IF ~Inactive(s) /\ link = "down" THEN "connecting" ELSE link
  /\ UNCHANGED plan

\* EPOCH_RESYNC_TIMEOUT: no snapshot came after the reconnect.
ResyncTimeout ==
  /\ s.resync
  /\ Step(Flush(s), Nothing)
  /\ UNCHANGED <<link, plan>>

\* CONNECTION_RETRYING_DELAY: "recovering" becomes "retrying".
RetryingTimer ==
  /\ s.retryTimer
  /\ \E x \in Acting :
       Step(Rebuild([x EXCEPT !.retryTimer = FALSE,
                              !.status = IF @ = "recovering" THEN "retrying" ELSE @]), Nothing)
  /\ UNCHANGED <<link, plan>>

\* PEER_SUSPENDED_UI_TIMEOUT.
PeerLost(r) ==
  /\ r \in s.lostTimers
  /\ \E x \in Acting :
       Step(Rebuild([x EXCEPT !.lostTimers = @ \ {r}, !.lost = @ \cup {r}]), Nothing)
  /\ UNCHANGED <<link, plan>>

\* ENDING_SCREEN: the ending screen gives way to idle.
EndingTimer ==
  /\ s.endingTimer
  /\ Step([s EXCEPT !.endingTimer = FALSE, !.phase = "idle"], Nothing)
  /\ UNCHANGED <<link, plan>>

\* emitMediaLiveness: the sample is awaited, the answer rebuilds the state.
LivenessTick ==
  /\ s.liveness /\ ~Inactive(s) /\ ~s.emitting /\ s.connected /\ s.inRoom
  /\ Spend("ice")
  /\ Step([s EXCEPT !.emitting = TRUE], Nothing)
  /\ UNCHANGED link

LivenessSampled ==
  /\ s.emitting
  /\ \E x \in Acting : Step(Rebuild([x EXCEPT !.emitting = FALSE]), Nothing)
  /\ UNCHANGED <<link, plan>>

-----------------------------------------------------------------------------
(* The host.                                                               *)

HostLeaves ==
  /\ ~Inactive(s)
  /\ Spend("end")
  /\ Step(Leave(s), Nothing)
  /\ UNCHANGED link

HostDestroys ==
  /\ ~s.destroyed
  /\ Spend("end")
  /\ Step(Destroy(s), Nothing)
  /\ UNCHANGED link

\* cancelJoin.
HostCancels ==
  /\ s.phase = "awaitingPermissions"
  /\ Spend("end")
  /\ Step(Destroy([s EXCEPT !.permDone = TRUE, !.phase = "idle"]), Nothing)
  /\ UNCHANGED link

Next ==
  \/ Connected \/ Disconnected \/ Joined \/ RoomStateUpdated
  \/ \E r \in plan.remotes : PeerJoined(r) \/ PeerLeft(r) \/ ContentState(r) \/ PeerLost(r)
  \/ RoomEnded \/ ErrorEvent \/ IceChanged
  \/ \E ok \in BOOLEAN : IceServers(ok) \/ CaptureStarted(ok)
  \/ PermissionsAnswered \/ ResumeJoin
  \/ JoinTimeout \/ ReconnectTimer \/ ResyncTimeout \/ RetryingTimer \/ EndingTimer
  \/ LivenessTick \/ LivenessSampled
  \/ HostLeaves \/ HostDestroys \/ HostCancels

Spec == Init /\ [][Next]_vars

-----------------------------------------------------------------------------
(* Properties.                                                             *)

\* A session that is over runs no timer, whichever of its handlers, timers or
\* callbacks ended it: only the ending screen still waits, and not after destroy.
TimersStopped ==
  Inactive(s) =>
    /\ ~s.joinTimer /\ ~s.reconnectTimer /\ ~s.resync /\ ~s.liveness /\ ~s.retryTimer
    /\ s.lostTimers = {} /\ s.fetch = 0
    /\ s.endingTimer => ~s.destroyed

\* Exactly the suspended participants are counted down to, or are, presumed lost:
\* nobody who returned or left is, and nobody suspended is missed.
SuspicionsTracked ==
  ~Inactive(s) =>
    /\ s.lostTimers \cap s.lost = {}
    /\ s.lostTimers \cup s.lost = {r \in Remotes : s.room[r].status = "suspended"}

\* The content shown of a participant is the newest that was ever delivered of its
\* stay, live or in a snapshot, in whatever order: revisions never go back.
NewestContentShown ==
  \A r \in Remotes : ~Inactive(s) /\ delivered[r] # {} =>
    /\ s.content[r] # None
    /\ \A v \in delivered[r] : v <= s.content[r].gate

\* An outage is open in the quality summary exactly while the live call's status,
\* as the host sees it, is degraded.
OutagesTracked ==
  ~Inactive(s) /\ s.o.started # No => (s.o.since # No <=> s.status # "connected")

\* A session that is not in its room is never left alone: while it joins, the hard
\* timeout runs, and when its connection is gone, the provider or the backoff
\* timer will make another one.
NeverAlone ==
  ~Inactive(s) =>
    /\ ~s.inRoom /\ ~s.cid => s.joinTimer
    /\ link = "down" => s.reconnectTimer
    /\ s.pendingJoin /\ s.connected => s.joinInFlight
=============================================================================
