-------------------------- MODULE PeerNegotiation --------------------------
(***************************************************************************)
(* Two MediaEngine.ts instances that negotiate one peer connection: offers *)
(* and answers, ICE candidates, offer timeout, ICE restart, glare, peers   *)
(* recreated for media recovery or a capability that arrives late, and the *)
(* loss of signaling at either end.  A handler runs up to its first await; *)
(* what follows an await is another step.  External: the browser's         *)
(* RTCPeerConnection, whose operations are chained and run one at a time,  *)
(* and the server's relay, which keeps the order of its messages.          *)
(***************************************************************************)
EXTENDS Naturals, Sequences, FiniteSets

CONSTANTS
  Plans,        \* the calls: deferInitialAnswer of both ends; the host when the two
                \* meet, 1, 2 or a third participant 3; and, as a bound, how often
                \* each kind of fault happens
  MaxOffers     \* bound: offers of one engine (high enough never to bind)

Ends == {1, 2}            \* cids; "a < b" is the order of the cids
Other(e) == 3 - e
FaultKinds == {"loss", "ice", "slow", "refuse", "stall", "caps", "denied", "tracks"}

ASSUME PeerAssumption ==
  /\ Plans \subseteq [defer : BOOLEAN, host : 1..3, faults : [FaultKinds -> Nat]]
  /\ Plans # {} /\ MaxOffers \in Nat

VARIABLES
  engine,   \* engine[e]: the MediaEngine of e and its PeerState for Other(e)
  wire,     \* wire[e]: what the server has sent to e, in order
  server,   \* what the server knows: who is attached, dirty pairs, host, caps
  budget    \* faults still to come, by kind

vars == <<engine, wire, server, budget>>

\* A new PeerState and RTCPeerConnection.  sig: signalingState; local, remote:
\* the offer ids of the descriptions being negotiated; agreed: the offer whose
\* answer was applied last; answerable: pc.remoteDescription is not null;
\* ops: the chain of operations; asking: offers that await startLocalMedia;
\* early: pendingRemoteIceByOfferId; buffer: iceBuffer; applied: candidates the
\* connection has; gather: a local description whose candidate is to come;
\* needed: negotiationneeded is to fire; fresh: hasUnnegotiatedLocalTracks;
\* covers: the description being negotiated has all local tracks; cooling: an ICE
\* restart was offered and not answered, so the cooldown puts off the next.
FreshPeer(capable, media, owner) ==
  [sig |-> "stable", local |-> 0, remote |-> 0, agreed |-> 0,
   answerable |-> FALSE, ops |-> <<>>, asking |-> <<>>,
   making |-> FALSE, setting |-> FALSE, offerTimer |-> FALSE,
   restartTimer |-> "none", pendingRestart |-> FALSE, pendingTracks |-> FALSE,
   pending |-> 0, accepted |-> 0, current |-> 0, ignored |-> 0,
   early |-> {}, buffer |-> {}, applied |-> {}, gather |-> 0,
   needed |-> owner, fresh |-> media, covers |-> FALSE, cooling |-> FALSE,
   ice |-> "new", capable |-> capable]

NoPeer == FreshPeer(FALSE, FALSE, FALSE)

\* The engine of e: conn: isSignalingConnected; status, host, crowd, caps: what
\* its room state says of the other end and of the room; media: localStream;
\* defer: deferInitialAnswer; answered: initialAnswerReceivedCids has the other
\* end; seq: offerSequence; out: messages given to sendSignalingMessage.
BlankEngine(e, plan) ==
  [me |-> e, exists |-> FALSE, p |-> NoPeer, conn |-> TRUE, defer |-> plan.defer,
   status |-> "none", host |-> plan.host, crowd |-> plan.host = 3, caps |-> FALSE,
   media |-> "starting", answered |-> FALSE, seq |-> 0, out |-> <<>>]

Init ==
  \E plan \in Plans :
    /\ engine = [e \in Ends |-> BlankEngine(e, plan)]
    /\ server = [attached |-> Ends, dirty |-> {}, host |-> plan.host, caps |-> FALSE]
    /\ wire = [e \in Ends |->
         <<[type |-> "room", status |-> "active", host |-> plan.host, caps |-> FALSE]>>]
    /\ budget = plan.faults

-----------------------------------------------------------------------------
(***************************************************************************)
(* MediaEngine operations, as operators on the record s = engine[e].       *)
(***************************************************************************)

\* shouldIOffer.
ShouldIOffer(s) ==
  IF s.defer /\ ~s.crowd /\ s.host \in Ends
  THEN s.me = s.host ELSE s.me < Other(s.me)

IsParticipantActive(s) == s.status = "active"

\* isDeferringInitialNegotiation.
IsDeferring(s) == s.defer /\ ShouldIOffer(s) /\ ~s.answered

SendSignaling(s, m) == [s EXCEPT !.out = Append(@, m)]
Chain(s, op) == [s EXCEPT !.p.ops = Append(@, op)]

NextOfferId(s) == 2 * s.seq + s.me

IsKnown(s, id) == id \in {s.p.pending, s.p.accepted, s.p.current}

\* currentLocalOfferId: 0 when there is none, which the other end reads as the
\* legacy offer id.
CurrentLocalOfferId(s) ==
  IF s.p.pending # 0 THEN s.p.pending
  ELSE IF s.p.accepted # 0 THEN s.p.accepted ELSE s.p.current

\* scheduleIceRestart; the delays and the cooldown are left to the timer.
ScheduleIceRestart(s, force) ==
  IF ~force /\ IsDeferring(s) THEN s
  ELSE IF ~s.conn \/ ~IsParticipantActive(s)
  THEN [s EXCEPT !.p.pendingRestart = TRUE]
  ELSE IF s.p.restartTimer # "none" THEN s
  ELSE [s EXCEPT !.p.restartTimer = IF force THEN "forced" ELSE "plain"]

\* Mutant: isMakingOffer is not reset.
OfferMadeStuck(s) == s

\* The finally block of createOfferTo.
OfferMade(s) ==
  IF s.p.pendingRestart
  THEN ScheduleIceRestart([s EXCEPT !.p.making = FALSE, !.p.pendingRestart = FALSE], FALSE)
  ELSE [s EXCEPT !.p.making = FALSE]

\* createOfferTo, up to the first await.
CreateOffer(s, restart) ==
  IF s.p.making
  THEN [s EXCEPT !.p.pendingRestart = @ \/ restart]
  ELSE IF ~ShouldIOffer(s) \/ ~IsParticipantActive(s) \/ s.seq = MaxOffers THEN s
  ELSE IF s.p.sig # "stable"
  THEN OfferMade([s EXCEPT !.p.pendingRestart = @ \/ restart])
  ELSE Chain([s EXCEPT !.p.pending = NextOfferId(s), !.p.accepted = 0,
                       !.p.ignored = 0, !.p.making = TRUE, !.seq = @ + 1],
             [op |-> "createOffer", id |-> NextOfferId(s)])

\* requestPeerMediaRecovery.
RequestRecovery(s, reason) ==
  IF s.conn /\ IsParticipantActive(s)
  THEN SendSignaling(s, [type |-> "restart", reason |-> reason]) ELSE s

\* scheduleLocalTrackNegotiation.
ScheduleTracks(s) ==
  IF \/ ~s.conn
     \/ ~ShouldIOffer(s) /\ ~s.p.answerable
     \/ s.p.sig # "stable"
  THEN [s EXCEPT !.p.pendingTracks = TRUE]
  ELSE LET t == [s EXCEPT !.p.pendingTracks = FALSE]
       IN  IF ~s.p.fresh THEN t
           ELSE IF ~ShouldIOffer(s) THEN RequestRecovery(t, "tracks")
           ELSE CreateOffer(t, FALSE)

\* An ICE restart is offered now: lastIceRestartAt is set.
RestartNow(s) ==
  CreateOffer([s EXCEPT !.p.pendingRestart = FALSE, !.p.cooling = TRUE], TRUE)

\* onsignalingstatechange, in state stable.
OnStable(s) ==
  LET t == [s EXCEPT !.p.offerTimer = FALSE]
      u == IF t.p.pendingTracks THEN ScheduleTracks(t) ELSE t
  IN  IF u.p.pendingRestart /\ u.conn /\ ShouldIOffer(u)
      THEN RestartNow(u) ELSE u

\* triggerIceRestart, up to its first await.
TriggerIceRestart(s, force) ==
  IF ~force /\ IsDeferring(s) THEN s
  ELSE IF ~s.conn \/ ~IsParticipantActive(s)
  THEN [s EXCEPT !.p.pendingRestart = TRUE]
  ELSE IF ~ShouldIOffer(s) THEN s
  ELSE IF s.p.making THEN [s EXCEPT !.p.pendingRestart = TRUE]
  ELSE IF s.p.sig = "have-local"
  THEN Chain([s EXCEPT !.p.pendingRestart = TRUE, !.p.pending = 0],
             [op |-> "rollback", why |-> "restart", id |-> 0])
  ELSE IF s.p.sig = "have-remote" THEN [s EXCEPT !.p.pendingRestart = TRUE]
  ELSE RestartNow(s)

\* getOrCreatePeer, and cleanupPeer before it when there is one.
NewPeer(s) ==
  [s EXCEPT !.exists = TRUE, !.p = FreshPeer(s.caps, s.media = "ready", ShouldIOffer(s))]

\* applyRemoteOffer, up to its first await.
ApplyRemoteOffer(s, id, mayReset) ==
  Chain([s EXCEPT !.p.ignored = 0, !.p.pending = 0],
        [op |-> "remoteOffer", id |-> id, mayReset |-> mayReset])

\* The await of startLocalMedia in applyRemoteOffer, then createAnswer.
AnswerWhenReady(s, id) ==
  IF s.media = "ready"
  THEN Chain([s EXCEPT !.p.pendingTracks = @ \/ (s.p.fresh /\ ~s.p.capable)],
             [op |-> "createAnswer", id |-> id])
  ELSE [s EXCEPT !.p.asking = Append(@, id), !.media = "starting"]

-----------------------------------------------------------------------------
(***************************************************************************)
(* Messages.                                                               *)
(***************************************************************************)

\* handleOfferFrom.
HandleOffer(s, m) ==
  LET ready == ~s.p.making /\ (s.p.sig = "stable" \/ s.p.setting)
  IN  IF ~ready /\ ShouldIOffer(s) THEN [s EXCEPT !.p.ignored = m.id]
      ELSE IF ~ready /\ s.p.sig = "have-local"
      THEN Chain([s EXCEPT !.p.pending = 0, !.p.offerTimer = FALSE],
                 [op |-> "rollback", why |-> "glare", id |-> m.id])
      ELSE ApplyRemoteOffer(s, m.id, TRUE)

\* Mutant: an answer is taken whatever offer it names.
HandleAnyAnswer(s, m) ==
  IF s.p.sig # "have-local" THEN s
  ELSE Chain([s EXCEPT !.p.setting = TRUE],
             [op |-> "remoteAnswer", id |-> m.id, for |-> m.for,
              recover |-> ShouldIOffer(s)])

\* handleAnswerFrom, up to its first await.  m.for is the offer the answer was
\* created for, which the connection knows and the message does not say.
HandleAnswer(s, m) ==
  IF s.p.sig # "have-local" \/ s.p.pending # m.id THEN s
  ELSE Chain([s EXCEPT !.p.setting = TRUE],
             [op |-> "remoteAnswer", id |-> m.id, for |-> m.for,
              recover |-> ShouldIOffer(s)])

\* handleIceFrom; the caps of its two buffers are left out.
HandleIce(s, m) ==
  IF s.p.ignored = m.id /\ m.id # 0 THEN s
  ELSE IF m.id # 0 /\ ~IsKnown(s, m.id)
  THEN [s EXCEPT !.p.early = @ \cup {[id |-> m.id, for |-> m.for]}]
  ELSE IF s.p.answerable THEN Chain(s, [op |-> "candidate", for |-> m.for])
  ELSE [s EXCEPT !.p.buffer = @ \cup {m.for}]

\* handleMediaRestartRequest; its cooldown bounds "stall" requests.
HandleRestartRequest(s, m) ==
  IF ~ShouldIOffer(s) \/ ~s.conn \/ ~IsParticipantActive(s) THEN s
  ELSE IF m.reason = "tracks"
  THEN IF s.p.sig # "stable" THEN s ELSE CreateOffer(s, FALSE)
  ELSE IF IsDeferring(s) THEN s
  ELSE CreateOffer(NewPeer(s), FALSE)

\* updateRoomState and syncPeers: the other end stays in the room.
HandleRoom(s, m) ==
  LET t == [s EXCEPT !.status = m.status, !.host = m.host, !.crowd = m.host = 3,
                     !.caps = m.caps]
      becameActive == s.status = "suspended" /\ m.status = "active"
      u == IF t.exists THEN t ELSE NewPeer(t)
  IN  IF t.exists /\ m.caps # t.p.capable
      THEN IF ~IsParticipantActive(t) THEN t
           ELSE IF t.media = "ready" THEN CreateOffer(NewPeer(t), FALSE)
           ELSE NewPeer(t)
      ELSE IF ~ShouldIOffer(u) THEN u
      ELSE IF becameActive THEN ScheduleIceRestart(u, FALSE)
      ELSE IF u.media = "ready" /\ u.p.sig = "stable" /\ ~u.p.answerable
      THEN CreateOffer(u, FALSE)
      ELSE u

\* handleSignalingReconnect and scheduleDirtyPairRestart.
HandleReconnect(s) ==
  IF s.conn /\ ShouldIOffer(s) THEN ScheduleIceRestart(s, FALSE) ELSE s
HandleDirty(s) ==
  IF s.exists /\ ShouldIOffer(s) THEN ScheduleIceRestart(s, FALSE) ELSE s

Handle(s, m) ==
  CASE m.type = "room"      -> HandleRoom(s, m)
    [] m.type = "resync"    -> HandleReconnect(s)
    [] m.type = "dirty"     -> HandleDirty(s)
    [] m.type = "offer"     -> HandleOffer(s, m)
    [] m.type = "answer"    -> HandleAnswer(s, m)
    [] m.type = "ice"       -> HandleIce(s, m)
    [] m.type = "restart"   -> HandleRestartRequest(s, m)

-----------------------------------------------------------------------------
(***************************************************************************)
(* What follows an await: the operation at the head of the chain is done,  *)
(* fires its events, and the handler that waited for it goes on.           *)
(***************************************************************************)

\* The answer of offer id is applied: both descriptions are in force.
Agree(s, id) ==
  LET left == s.p.fresh /\ ~s.p.covers
  IN  [s EXCEPT !.p.sig = "stable", !.p.agreed = id, !.p.local = 0, !.p.remote = 0,
                !.p.fresh = left, !.p.needed = left /\ ShouldIOffer(s),
                !.p.cooling = FALSE, !.p.ice = "new"]

\* createOfferTo after createOffer, and its catch.
AfterCreateOffer(s, op) ==
  IF s.p.sig = "have-remote" THEN OfferMade([s EXCEPT !.p.pending = 0])
  ELSE Chain([s EXCEPT !.p.covers = TRUE], [op |-> "localOffer", id |-> op.id])

\* Mutant: no offer timeout.
AfterLocalOfferUntimed(s, op) ==
  IF s.p.sig = "have-remote" THEN OfferMade([s EXCEPT !.p.pending = 0])
  ELSE OfferMade(
         SendSignaling([s EXCEPT !.p.sig = "have-local", !.p.local = op.id,
                                 !.p.gather = op.id],
                       [type |-> "offer", id |-> op.id]))

\* createOfferTo after setLocalDescription, and its catch.
AfterLocalOffer(s, op) ==
  IF s.p.sig = "have-remote" THEN OfferMade([s EXCEPT !.p.pending = 0])
  ELSE OfferMade(
         SendSignaling([s EXCEPT !.p.sig = "have-local", !.p.local = op.id,
                                 !.p.gather = op.id, !.p.offerTimer = ~IsDeferring(s)],
                       [type |-> "offer", id |-> op.id]))

\* The three rollbacks: of the offer timeout, of triggerIceRestart, and of
\* handleOfferFrom when offers cross.
AfterRollback(s, op) ==
  LET done == s.p.sig # "stable"
      t == IF done THEN OnStable([s EXCEPT !.p.sig = "stable", !.p.local = 0,
                                           !.p.remote = 0, !.p.gather = 0])
           ELSE s
  IN  CASE op.why = "timeout" -> ScheduleIceRestart(t, FALSE)
        [] op.why = "restart" ->
             IF done THEN RestartNow(t) ELSE t
        [] op.why = "glare" -> IF done THEN ApplyRemoteOffer(t, op.id, TRUE) ELSE t

\* applyRemoteOffer after setRemoteDescription, which rolls a local offer back.
AfterRemoteOffer(s, op) ==
  LET known == {c \in s.p.early : c.id = op.id}
  IN  AnswerWhenReady(
        [s EXCEPT !.p.sig = "have-remote", !.p.local = 0, !.p.remote = op.id,
                  !.p.answerable = TRUE, !.p.accepted = op.id, !.p.current = op.id,
                  !.p.offerTimer = FALSE, !.p.early = @ \ known, !.p.buffer = {},
                  !.p.applied = @ \cup s.p.buffer \cup {c.for : c \in known}], op.id)

\* ... and when the browser refuses the offer: replacePeerForRemoteOffer, once.
RemoteOfferRefused(s, op) ==
  IF op.mayReset
  THEN ApplyRemoteOffer(
         [NewPeer(s) EXCEPT !.p.early = {c \in s.p.early : c.id = op.id}], op.id, FALSE)
  ELSE s

\* applyRemoteOffer after createAnswer and after setLocalDescription.
AfterCreateAnswer(s, op) ==
  IF s.p.sig # "have-remote" THEN s
  ELSE Chain([s EXCEPT !.p.covers = s.media = "ready"],
             [op |-> "localAnswer", id |-> op.id, for |-> s.p.remote])
AfterLocalAnswer(s, op) ==
  IF s.p.sig # "have-remote" \/ op.for # s.p.remote THEN s
  ELSE SendSignaling(OnStable([Agree(s, op.for) EXCEPT !.p.gather = op.for]),
                     [type |-> "answer", id |-> op.id, for |-> op.for])

\* handleAnswerFrom after setRemoteDescription, and its catch.  What the event
\* handlers started meanwhile keeps its offer id, timer and restart.
AfterRemoteAnswer(s, op) ==
  IF s.p.sig # "have-local"
  THEN LET t == [s EXCEPT !.p.setting = FALSE]
       IN  IF op.recover THEN ScheduleIceRestart(t, TRUE) ELSE t
  ELSE LET known == {c \in s.p.early : c.id = op.id}
           t == OnStable(Agree([s EXCEPT !.p.answerable = TRUE], op.for))
           u == [t EXCEPT !.p.setting = FALSE, !.answered = TRUE,
                          !.p.early = @ \ known,
                          !.p.applied = @ \cup {c.for : c \in known}]
       IN  IF u.p.pending # op.id THEN u
           ELSE [u EXCEPT !.p.pending = 0, !.p.current = op.id, !.p.ignored = 0,
                          !.p.offerTimer = FALSE, !.p.pendingRestart = FALSE]

After(s, op) ==
  CASE op.op = "createOffer"  -> AfterCreateOffer(s, op)
    [] op.op = "localOffer"   -> AfterLocalOffer(s, op)
    [] op.op = "rollback"     -> AfterRollback(s, op)
    [] op.op = "remoteOffer"  -> AfterRemoteOffer(s, op)
    [] op.op = "createAnswer" -> AfterCreateAnswer(s, op)
    [] op.op = "localAnswer"  -> AfterLocalAnswer(s, op)
    [] op.op = "remoteAnswer" -> AfterRemoteAnswer(s, op)
    [] op.op = "candidate"    -> [s EXCEPT !.p.applied = @ \cup {op.for}]

\* startLocalMediaInternal after getUserMedia: the peer gets the tracks, and
\* the offers that waited are answered.
MediaStarted(s) ==
  LET t == [s EXCEPT !.media = "ready", !.p.fresh = s.exists, !.p.covers = FALSE,
                     !.p.needed = s.exists /\ ShouldIOffer(s)]
      u == IF ~s.p.capable THEN ScheduleTracks(t) ELSE t
      v == IF ShouldIOffer(u) /\ ~u.p.answerable
           THEN IF u.p.sig = "stable" THEN CreateOffer(u, FALSE)
                ELSE [u EXCEPT !.p.pendingTracks = TRUE]
           ELSE IF ~ShouldIOffer(u) /\ u.p.answerable THEN ScheduleTracks(u) ELSE u
  IN  IF s.exists THEN v ELSE t

Answering(s) ==
  [s EXCEPT !.p.asking = <<>>,
            !.p.ops = @ \o [i \in DOMAIN s.p.asking |->
                              [op |-> "createAnswer", id |-> s.p.asking[i]]]]

\* updateSignalingConnected.
SignalingConnected(s) ==
  LET t == [s EXCEPT !.conn = TRUE]
      u == IF t.p.pendingRestart /\ ShouldIOffer(t) /\ t.p.sig = "stable"
           THEN RestartNow(t) ELSE t
  IN  IF ~s.exists THEN t
      ELSE IF u.p.pendingTracks THEN ScheduleTracks(u) ELSE u

-----------------------------------------------------------------------------
(***************************************************************************)
(* Steps.                                                                  *)
(***************************************************************************)

RoomMessage(e, sv) ==
  [type |-> "room", status |-> IF Other(e) \in sv.attached THEN "active" ELSE "suspended",
   host |-> sv.host, caps |-> sv.caps]

\* What the server passes on: a message for an end whose connection is dead is
\* lost, one for a suspended end marks the pair dirty.  w, sv: wire and server.
Step(e, s, w, sv) ==
  LET o == Other(e)
      said == IF s.conn THEN s.out ELSE <<>>
  IN  /\ engine' = [engine EXCEPT ![e] = [s EXCEPT !.out = <<>>]]
      /\ wire' = IF o \in sv.attached /\ engine[o].conn
                 THEN [w EXCEPT ![o] = @ \o said] ELSE w
      /\ server' = [sv EXCEPT !.dirty =
                      IF said # <<>> /\ o \notin sv.attached THEN @ \cup {e} ELSE @]

Spend(kind) == budget[kind] > 0 /\ budget' = [budget EXCEPT ![kind] = @ - 1]

Receive(e) ==
  /\ wire[e] # <<>>
  /\ Step(e, Handle(engine[e], Head(wire[e])), [wire EXCEPT ![e] = Tail(@)], server)
  /\ UNCHANGED budget

Dequeued(e) == [engine[e] EXCEPT !.p.ops = Tail(@)]
OperationDone(e) ==
  /\ engine[e].p.ops # <<>>
  /\ Step(e, After(Dequeued(e), Head(engine[e].p.ops)), wire, server)
  /\ UNCHANGED budget
OfferRefused(e) ==
  /\ engine[e].p.ops # <<>> /\ Head(engine[e].p.ops).op = "remoteOffer"
  /\ Spend("refuse")
  /\ Step(e, RemoteOfferRefused(Dequeued(e), Head(engine[e].p.ops)), wire, server)

\* The session starts local media; the browser grants or refuses it.
StartMedia(e) ==
  /\ engine[e].media = "none"
  /\ Step(e, [engine[e] EXCEPT !.media = "starting"], wire, server)
  /\ UNCHANGED budget
MediaGranted(e) ==
  /\ engine[e].media = "starting"
  /\ Step(e, Answering(MediaStarted(engine[e])), wire, server)
  /\ UNCHANGED budget
MediaDenied(e) ==
  /\ engine[e].media = "starting" /\ Spend("denied")
  /\ Step(e, Answering([engine[e] EXCEPT !.media = "none"]), wire, server)

\* A track that the connection does not send yet is added.
AddTrack(e) ==
  /\ engine[e].exists /\ engine[e].media = "ready" /\ Spend("tracks")
  /\ Step(e, ScheduleTracks([engine[e] EXCEPT !.p.fresh = TRUE, !.p.covers = FALSE,
                                              !.p.needed = ShouldIOffer(engine[e])]), wire, server)

\* onnegotiationneeded.
NegotiationNeeded(e) ==
  LET s == [engine[e] EXCEPT !.p.needed = FALSE]
  IN  /\ engine[e].exists /\ engine[e].p.needed
      /\ s.p.sig = "stable" /\ s.p.ops = <<>>
      /\ Step(e, IF ~ShouldIOffer(s) THEN s
                 ELSE IF s.media # "ready" THEN [s EXCEPT !.p.pendingTracks = TRUE]
                 ELSE CreateOffer(s, FALSE), wire, server)
      /\ UNCHANGED budget

\* onicecandidate.
IceCandidate(e) ==
  /\ engine[e].p.gather # 0
  /\ Step(e, SendSignaling([engine[e] EXCEPT !.p.gather = 0],
               [type |-> "ice", id |-> CurrentLocalOfferId(engine[e]),
                for |-> engine[e].p.gather]), wire, server)
  /\ UNCHANGED budget

\* The connection attempt of the agreed negotiation: it takes the candidate of
\* one end to connect.
Agreed ==
  /\ \A e \in Ends : engine[e].p.sig = "stable"
  /\ engine[1].p.agreed = engine[2].p.agreed /\ engine[1].p.agreed # 0
Reachable == Agreed /\ \E e \in Ends : engine[e].p.agreed \in engine[e].p.applied
IceConnected(e) ==
  /\ Reachable /\ engine[e].p.ice = "new"
  /\ Step(e, [engine[e] EXCEPT !.p.ice = "connected", !.p.restartTimer = "none",
                               !.p.pendingRestart = FALSE], wire, server)
  /\ UNCHANGED budget

\* Nothing that concerns offer, answer or candidates is under way.
NothingComing ==
  \A e \in Ends : /\ engine[e].p.ops = <<>> /\ engine[e].p.asking = <<>>
                  /\ engine[e].p.gather = 0
                  /\ \A i \in DOMAIN wire[e] :
                       wire[e][i].type \notin {"offer", "answer", "ice"}
\* oniceconnectionstatechange and onconnectionstatechange, when the path to the
\* other end is found or lost; "broken" is a loss not noticed yet.
IceFailed(e) ==
  /\ \/ engine[e].p.ice = "broken"
     \/ /\ engine[e].p.ice = "new" /\ engine[e].p.agreed # 0
        /\ engine[e].p.sig = "stable" /\ NothingComing /\ ~Reachable
  /\ Step(e, ScheduleIceRestart([engine[e] EXCEPT !.p.ice = "failed"], FALSE), wire, server)
  /\ UNCHANGED budget
PathLost ==
  /\ \A e \in Ends : engine[e].p.ice = "connected"
  /\ Spend("ice")
  /\ engine' = [e \in Ends |-> [engine[e] EXCEPT !.p.ice = "broken"]]
  /\ UNCHANGED <<wire, server>>

\* OFFER_TIMEOUT_MS is long: it ends before the answer is there, or before a lost
\* connection is back, only when the network is slow.
Unanswered == NothingComing /\ server.attached = Ends /\ \A e \in Ends : engine[e].conn
OfferTimeout(e) ==
  LET s == [engine[e] EXCEPT !.p.offerTimer = FALSE, !.p.pendingRestart = TRUE,
                             !.p.pending = 0]
  IN  /\ engine[e].p.offerTimer
      /\ IF Unanswered THEN UNCHANGED budget ELSE Spend("slow")
      /\ Step(e, IF s.p.sig = "have-local"
                 THEN Chain(s, [op |-> "rollback", why |-> "timeout", id |-> 0])
                 ELSE ScheduleIceRestart(s, FALSE), wire, server)

\* The cooldown is longer than the offer timeout, so a restart it puts off does
\* not overtake an answer either.
IceRestartTimer(e) ==
  /\ engine[e].p.restartTimer # "none"
  /\ IF Unanswered \/ ~engine[e].p.cooling THEN UNCHANGED budget ELSE Spend("slow")
  /\ Step(e, TriggerIceRestart([engine[e] EXCEPT !.p.restartTimer = "none"],
                               engine[e].p.restartTimer = "forced"), wire, server)

\* recoverStalledOutboundMediaForPeer, when media stalls on a connection that
\* looks healthy.
Stalled(e) ==
  LET s == engine[e]
  IN  /\ s.p.ice = "connected" /\ s.p.sig = "stable" /\ s.media = "ready"
      /\ Spend("stall")
      /\ Step(e, IF ~ShouldIOffer(s) THEN RequestRecovery(s, "stall")
                 ELSE IF ~s.conn \/ ~IsParticipantActive(s) THEN s
                 ELSE CreateOffer(NewPeer(s), FALSE), wire, server)

\* The connection of e to the server is lost, the server notices, and e comes
\* back: a fresh joined, then the snapshot its session waits for.
Disconnect(e) ==
  /\ engine[e].conn /\ Spend("loss")
  /\ Step(e, [engine[e] EXCEPT !.conn = FALSE], [wire EXCEPT ![e] = <<>>], server)
Suspend(e) ==
  LET sv == [server EXCEPT !.attached = @ \ {e}]
      o == Other(e)
  IN  /\ ~engine[e].conn /\ e \in server.attached
      /\ server' = sv
      /\ wire' = IF engine[o].conn THEN [wire EXCEPT ![o] = Append(@, RoomMessage(o, sv))]
                 ELSE wire
      /\ UNCHANGED <<engine, budget>>
Reconnect(e) ==
  LET o == Other(e)
      sv == [server EXCEPT !.attached = @ \cup {e}, !.dirty = @ \ {o}]
      told == <<RoomMessage(o, sv)>> \o
              (IF o \in server.dirty THEN <<[type |-> "dirty"]>> ELSE <<>>)
  IN  /\ ~engine[e].conn
      /\ Step(e, SignalingConnected(engine[e]),
              [wire EXCEPT ![e] = <<RoomMessage(e, sv), [type |-> "resync"]>>,
                           ![o] = IF engine[o].conn THEN @ \o told ELSE @], sv)
      /\ UNCHANGED budget

\* A message that is lost on its own: a POST of the SSE transport that fails.
Lose(e) ==
  /\ wire[e] # <<>> /\ Head(wire[e]).type \in {"offer", "answer", "ice", "restart"}
  /\ Spend("loss")
  /\ wire' = [wire EXCEPT ![e] = Tail(@)]
  /\ UNCHANGED <<engine, server>>

Broadcast(sv) ==
  /\ server' = sv
  /\ wire' = [e \in Ends |->
       IF engine[e].conn /\ e \in sv.attached THEN Append(wire[e], RoomMessage(e, sv))
       ELSE wire[e]]
  /\ UNCHANGED engine

\* The third participant, who was the host, leaves.
HostLeaves ==
  /\ server.host = 3
  /\ \E h \in Ends : Broadcast([server EXCEPT !.host = h])
  /\ UNCHANGED budget

\* The capabilities of the two arrive after their peers were created.
CapsArrive ==
  /\ ~server.caps /\ Spend("caps")
  /\ Broadcast([server EXCEPT !.caps = TRUE])

Progress(e) ==
  \/ Receive(e) \/ OperationDone(e) \/ MediaGranted(e) \/ StartMedia(e)
  \/ NegotiationNeeded(e) \/ IceCandidate(e) \/ IceConnected(e) \/ IceFailed(e)
  \/ OfferTimeout(e) \/ IceRestartTimer(e) \/ Reconnect(e)

Next ==
  \/ \E e \in Ends :
       \/ Progress(e) \/ OfferRefused(e) \/ MediaDenied(e) \/ AddTrack(e)
       \/ Stalled(e) \/ Disconnect(e) \/ Suspend(e) \/ Lose(e)
  \/ PathLost \/ HostLeaves \/ CapsArrive

Spec == Init /\ [][Next]_vars

Fair == \A e \in Ends :
  /\ WF_vars(Receive(e)) /\ WF_vars(OperationDone(e)) /\ WF_vars(MediaGranted(e))
  /\ WF_vars(StartMedia(e)) /\ WF_vars(NegotiationNeeded(e)) /\ WF_vars(IceCandidate(e))
  /\ WF_vars(IceConnected(e)) /\ WF_vars(IceFailed(e)) /\ WF_vars(OfferTimeout(e))
  /\ WF_vars(IceRestartTimer(e)) /\ WF_vars(Reconnect(e))

LiveSpec == Spec /\ Fair

-----------------------------------------------------------------------------
(***************************************************************************)
(* Properties.                                                             *)
(***************************************************************************)

\* Nothing is under way between the two ends.
Quiet ==
  /\ NothingComing /\ server.attached = Ends
  /\ \A e \in Ends : /\ wire[e] = <<>> /\ engine[e].conn
                      /\ engine[e].media = "ready" /\ ~engine[e].p.needed

\* When nothing is under way, the two ends agree on the same negotiation or the
\* offer owner still has a timer that will try again: no exchange of crossed,
\* lost, late or refused messages leaves the pair half negotiated for good.
NeverStranded ==
  Quiet =>
    \/ Agreed
    \/ \E e \in Ends : /\ ShouldIOffer(engine[e])
                       /\ engine[e].p.offerTimer \/ engine[e].p.restartTimer # "none"

\* An answer that a connection is about to apply was created for the very offer
\* that connection has pending, also when answers of abandoned offers, answers
\* of a second flow at the other end, or offers of a recreated peer are about;
\* the flags of createOfferTo and handleAnswerFrom that decide it are set exactly
\* while an operation of theirs is under way.  (The bound on offers never binds.)
AnswersMatch ==
  \A e \in Ends :
    LET p == engine[e].p
        Under(kinds) == \E i \in DOMAIN p.ops : p.ops[i].op \in kinds
    IN  /\ (p.ops # <<>> /\ p.sig = "have-local" /\ Head(p.ops).op = "remoteAnswer")
             => Head(p.ops).for = p.local
        /\ p.making = Under({"createOffer", "localOffer"})
        /\ p.setting = Under({"remoteAnswer"})
        /\ engine[e].seq < MaxOffers

\* protocol 4.16: the offer owner answers a request for a negotiation with an
\* offer, so that no track stays unnegotiated.
TracksNegotiated == <>[](\A e \in Ends : ~engine[e].p.fresh)

\* After the last fault the pair is connected again, on one negotiation.
PairConnects == <>[](Agreed /\ \A e \in Ends : engine[e].p.ice = "connected")
=============================================================================
