----------------------------- MODULE LocalMedia -----------------------------
(***************************************************************************)
(* The capture side of one MediaEngine.ts: camera, microphone and display  *)
(* tracks, the local stream they form, and the senders of every peer that  *)
(* carry them.  Every operation is an async function: it runs up to an     *)
(* await (getUserMedia, getDisplayMedia, enumerateDevices, replaceTrack)   *)
(* and goes on from what the engine holds by then, while others may have   *)
(* run.  A call is such a function that has not returned.  External: the   *)
(* browser's devices, and its connections, which apply the replaceTrack    *)
(* calls of one connection in order.                                       *)
(***************************************************************************)
EXTENDS Naturals, Sequences, FiniteSets, FiniteSetsExt

CONSTANTS
  Peers,      \* remote cids
  Able,       \* those that advertise independentContentVideo
  Plans,      \* the tabs: enableIndependentContentVideo, shouldIOffer, and, as a
              \* bound, how many operations and how many faults of each kind
  MaxCalls,   \* bound: calls under way at once
  MaxTracks   \* bound: tracks in use at once

None == 0
Tracks == 1..MaxTracks
Calls == 1..MaxCalls
Budgets == {"toggle", "flip", "share", "unshare", "recover", "route", "leave",
            "join", "part", "stall", "deny", "reject"}

ASSUME LocalMediaAssumption ==
  /\ IsFiniteSet(Peers) /\ Able \subseteq Peers
  /\ Plans # {} /\ Plans \subseteq [independent : BOOLEAN, owner : BOOLEAN,
                                    here : SUBSET Peers, budget : [Budgets -> Nat]]
  /\ MaxCalls \in Nat \ {0} /\ MaxTracks \in Nat \ {0}

VARIABLES tab, budget
vars == <<tab, budget>>

NoTrack == [kind |-> "none", live |-> FALSE, on |-> FALSE]
NoCall == [op |-> "none", at |-> "none", next |-> None, prev |-> None,
           left |-> 0, request |-> 0, viable |-> FALSE]

\* A PeerState: the track of each sender; bound: the role transceivers exist;
\* pending: pendingContentAttach; owed: a renegotiation was forced; missed (history
\* only): a rejection that the code only logs, or a first attach that raced with a swap
\* of the camera; chain: the replaceTrack calls not yet applied.
NoPeer == [here |-> FALSE, bound |-> FALSE, audio |-> None, video |-> None,
           content |-> None, pending |-> FALSE, owed |-> FALSE, missed |-> FALSE, chain |-> <<>>]

\* up, audio, video: localStream; screen: screenShareTrack; content:
\* localContentTrack; restore: screenShareRestoreVideoEnabled; stopping:
\* screenShareStopInFlight; starting: localMediaStartPromise; request:
\* mediaRequestId; cameraBusy, audioBusy: the two recovery flags; wanted: the
\* session's userPreferredVideoEnabled; said: the last content_state sent.
BlankTab(plan) ==
  [independent |-> plan.independent, owner |-> plan.owner,
   track |-> [t \in Tracks |-> NoTrack],
   up |-> FALSE, audio |-> None, video |-> None, screen |-> None, content |-> None,
   sharing |-> FALSE, restore |-> "none", stopping |-> FALSE,
   requesting |-> FALSE, starting |-> 0, request |-> 0,
   cameraBusy |-> FALSE, audioBusy |-> FALSE, destroyed |-> FALSE,
   wanted |-> TRUE, said |-> FALSE,
   peer |-> [p \in Peers |-> [NoPeer EXCEPT !.here = p \in plan.here,
                               !.bound = p \in plan.here /\ plan.owner]],
   call |-> [c \in Calls |-> NoCall]]

Init == \E plan \in Plans : tab = BlankTab(plan) /\ budget = plan.budget

-----------------------------------------------------------------------------
(***************************************************************************)
(* Tracks, senders and the ends of calls, as operators on the tab s.       *)
(***************************************************************************)
Here(s) == {p \in Peers : s.peer[p].here}
Capable(s, p) == s.independent /\ p \in Able
IsLegacyScreenSharing(s) == s.sharing /\ ~s.independent
Live(s, t) == t # None /\ s.track[t].live

Referenced(s) ==
  {s.audio, s.video, s.screen, s.content}
    \cup UNION {{s.call[c].next, s.call[c].prev} : c \in Calls}
    \cup UNION {{s.peer[p].audio, s.peer[p].video, s.peer[p].content}
                  \cup {s.peer[p].chain[i].track : i \in DOMAIN s.peer[p].chain} : p \in Peers}

\* The garbage collector: an ended track nobody holds is forgotten.
Tidy(s) ==
  [s EXCEPT !.track = [t \in Tracks |-> IF s.track[t].live \/ t \in Referenced(s)
                                        THEN s.track[t] ELSE NoTrack]]

Free(s) == {t \in Tracks : s.track[t].kind = "none"}
Fresh(s) == Min(Free(s))
Capture(s, t, kind, on) == [s EXCEPT !.track[t] = [kind |-> kind, live |-> TRUE, on |-> on]]
Stop(s, t) == IF t = None THEN s ELSE [s EXCEPT !.track[t].live = FALSE]

End(s, c) == [s EXCEPT !.call[c] = NoCall, !.starting = IF @ = c THEN 0 ELSE @]
At(s, c, where) == [s EXCEPT !.call[c].at = where]
Announce(s, active) == [s EXCEPT !.said = active]

\* sender.replaceTrack(t) on the slot of every peer of ps, awaited by call c
\* (0 when nobody awaits it).
Replace(s, c, ps, slot, t) ==
  LET chained == [s EXCEPT !.peer = [p \in Peers |->
        IF p \in ps
        THEN [s.peer[p] EXCEPT !.chain = Append(@, [slot |-> slot, track |-> t, call |-> c])]
        ELSE s.peer[p]]]
  IN  IF c = 0 THEN chained
      ELSE [chained EXCEPT !.call[c].left = @ + Cardinality(ps)]

\* The peer pr once replaceTrack(t) was called on its slot and nobody awaits it.
Chained(pr, slot, t) ==
  [pr EXCEPT !.chain = Append(@, [slot |-> slot, track |-> t, call |-> 0])]

\* attachPendingLocalTracks for the peer pr.
PendingAttached(s, pr) ==
  LET a == IF pr.bound /\ Live(s, s.video) /\ pr.video # s.video
           THEN Chained(pr, "video", s.video) ELSE pr
      wants == pr.pending \/ (s.sharing /\ Live(s, s.content))
  IN  IF ~pr.bound \/ s.content = None THEN a
      ELSE IF pr.content = s.content THEN [a EXCEPT !.pending = FALSE]
      ELSE IF wants THEN Chained([a EXCEPT !.pending = FALSE], "content", s.content)
      ELSE a

AttachPending(s, p) == [s EXCEPT !.peer[p] = PendingAttached(s, @)]

\* attachAudioTrackToIndependentPeer for the peer pr.
AudioAttached(s, pr) ==
  IF Live(s, s.audio) /\ pr.audio # s.audio THEN Chained(pr, "audio", s.audio) ELSE pr

\* Mutant: a legacy peer is sent the camera during a share.
ReplaceVideoOnEveryPeer(s, c, t) == Replace(s, c, Here(s), "video", t)

\* replaceVideoTrackOnAllPeers: a legacy peer keeps the shared display.
ReplaceVideoOnAllPeers(s, c, t) ==
  Replace(s, c, {p \in Here(s) : IF Capable(s, p) THEN s.peer[p].bound
                                 ELSE ~(s.independent /\ s.sharing)}, "video", t)

\* What a call does after its last await.
Finish(s, c) ==
  CASE s.call[c].op \in {"reacquire", "recover"} -> End([s EXCEPT !.cameraBusy = FALSE], c)
    [] s.call[c].op = "share" -> End(Announce([s EXCEPT !.sharing = TRUE], TRUE), c)
    [] s.call[c].op = "unshare" ->
         End(Announce([s EXCEPT !.sharing = FALSE, !.restore = "none"], FALSE), c)
    [] OTHER -> End(s, c)

\* swapLocalVideoTrack.
Swap(s, c, next, prev) ==
  IF ~s.up THEN Finish(IF prev # next THEN Stop(s, prev) ELSE s, c)
  ELSE At(ReplaceVideoOnAllPeers(
            [s EXCEPT !.video = next, !.call[c].next = next, !.call[c].prev = prev], c, next),
          c, "swap")

\* releaseLocalContentTrack.
ReleaseContent(s) ==
  [Stop(s, s.content) EXCEPT !.content = None, !.screen = None]

\* The rest of replaceTrack, once applied or rejected.
Settled(s, op) == IF op.call = 0 THEN s ELSE [s EXCEPT !.call[op.call].left = @ - 1]

\* The connection is closed: its pending replaceTrack calls are rejected.
Close(s, p) ==
  LET n(c) == Cardinality({i \in DOMAIN s.peer[p].chain : s.peer[p].chain[i].call = c})
  IN  [s EXCEPT !.peer[p] = NoPeer,
        !.call = [c \in Calls |-> [s.call[c] EXCEPT !.left = @ - n(c),
                    !.at = IF @ = "attach" /\ \A q \in Here(s) \ {p} : Capable(s, q)
                           THEN "attached" ELSE @]]]

\* cleanupAllPeers and stopLocalMedia.
StopLocalMedia(s) ==
  LET a == Stop(Stop(Stop(s, s.content), s.audio), s.video)
      b == [a EXCEPT !.request = @ + 1, !.starting = 0, !.screen = None,
                     !.content = None, !.stopping = FALSE, !.restore = "none",
                     !.up = FALSE, !.audio = None, !.video = None,
                     !.sharing = FALSE, !.requesting = FALSE]
  IN  [b EXCEPT !.peer = [p \in Peers |-> NoPeer],
                !.call = [c \in Calls |-> [b.call[c] EXCEPT !.left = 0]]]

-----------------------------------------------------------------------------
(***************************************************************************)
(* Calls that begin.                                                       *)
(***************************************************************************)
Begin(s, c, op, where) == [s EXCEPT !.call[c] = [NoCall EXCEPT !.op = op, !.at = where]]

\* startLocalMedia; while a start is under way a second caller awaits the first.
StartMedia(s, c) ==
  IF s.up \/ s.starting # 0 THEN s
  ELSE [Begin(s, c, "start", "media") EXCEPT
          !.request = @ + 1, !.call[c].request = s.request + 1,
          !.requesting = TRUE, !.starting = c]

\* releaseVideoTrack.
Release(s, c) ==
  IF IsLegacyScreenSharing(s) \/ s.video = None THEN s
  ELSE Swap(Begin(s, c, "release", "swap"), c, None, s.video)

\* reacquireVideoTrack.
Reacquire(s, c) ==
  IF IsLegacyScreenSharing(s) \/ s.video # None \/ s.cameraBusy \/ s.requesting THEN s
  ELSE [Begin(s, c, "reacquire", "camera") EXCEPT !.cameraBusy = TRUE]

\* setTrackEnabled("video") of the session.
ToggleVideo(s, c) ==
  LET on == ~(IF s.video # None THEN s.track[s.video].on ELSE s.wanted)
      t  == [s EXCEPT !.wanted = on]
  IN  IF ~s.up THEN s ELSE IF on THEN Reacquire(t, c) ELSE Release(t, c)

\* flipCamera, with several cameras.
FlipCamera(s, c) ==
  IF IsLegacyScreenSharing(s) \/ ~s.up THEN s
  ELSE [Begin(s, c, "flip", "camera") EXCEPT !.call[c].prev = s.video]

\* refreshLocalVideoTrack; forced after a long sleep of the tab.
RefreshVideo(s, c, forced) ==
  IF \/ s.video = None \/ IsLegacyScreenSharing(s)
     \/ (~forced /\ Live(s, s.video))
     \/ s.cameraBusy \/ s.requesting
  THEN s
  ELSE [Begin(s, c, "recover", "camera") EXCEPT !.cameraBusy = TRUE, !.call[c].prev = s.video]

\* refreshLocalAudioTrack for a device that is to be preferred, by call c.
RefreshAudio(s, c) ==
  IF ~s.up \/ s.requesting \/ s.audioBusy THEN s
  ELSE [At(s, c, "mic") EXCEPT !.audioBusy = TRUE, !.call[c].request = s.request,
                               !.call[c].prev = s.audio]

\* startScreenShare.
ShareScreen(s, c) ==
  IF s.sharing \/ (~s.independent /\ ~s.up) THEN s
  ELSE Begin(s, c, "share", "display")

\* stopScreenShareLegacy.
UnshareLegacy(s, c) ==
  IF ~s.sharing THEN s
  ELSE IF ~s.up THEN Announce([s EXCEPT !.sharing = FALSE, !.restore = "none"], FALSE)
  ELSE LET b == [Begin(s, c, "unshare", "camera") EXCEPT !.screen = None, !.call[c].prev = s.video]
       IN  IF s.restore = "none" THEN Swap(b, c, None, s.video) ELSE b

\* stopScreenShareIndependent.
UnshareIndependent(s, c) ==
  IF (~s.sharing /\ s.content = None) \/ s.stopping THEN s
  ELSE LET able == {p \in Here(s) : Capable(s, p)}
           b == [Begin(s, c, "unshare", "detach") EXCEPT !.stopping = TRUE,
                   !.peer = [p \in Peers |-> IF p \in able
                               THEN [s.peer[p] EXCEPT !.pending = FALSE] ELSE s.peer[p]]]
       IN  Replace(Replace(b, c, {p \in able : s.peer[p].bound}, "content", None),
                   c, Here(s) \ able, "video", IF Live(s, s.video) THEN s.video ELSE None)

StopShare(s, c) == IF s.independent THEN UnshareIndependent(s, c) ELSE UnshareLegacy(s, c)

-----------------------------------------------------------------------------
(***************************************************************************)
(* Calls that go on.                                                       *)
(***************************************************************************)
\* Past a getUserMedia for the camera: the new track, or the fallback when both
\* attempts were refused.
CameraCome(s, c, t) ==
  LET on == IF s.call[c].op = "unshare" THEN s.restore # "off"
            ELSE s.call[c].prev = None \/ s.track[s.call[c].prev].on
  IN  Swap(Capture(s, t, "camera", on), c, t, s.call[c].prev)

CameraRefused(s, c) ==
  IF s.call[c].op = "unshare" THEN Swap(s, c, None, s.call[c].prev) ELSE Finish(s, c)

\* startLocalMediaInternal past its first getUserMedia.
MediaCome(s, c, t, u) ==
  IF s.destroyed \/ s.request # s.call[c].request THEN End(s, c)
  ELSE At([Capture(Capture(s, t, "mic", TRUE), u, "camera", TRUE) EXCEPT
             !.up = TRUE, !.audio = t, !.video = u], c, "devices")

MediaRefused(s, c) == End([s EXCEPT !.requesting = FALSE], c)

\* The loop over the peers at the end of startLocalMediaInternal: capable peers at
\* once, legacy peers audio first, then video, each awaited.
AttachAble(s, ps) ==
  [s EXCEPT !.peer = [p \in Peers |-> IF p \in ps THEN PendingAttached(s, AudioAttached(s, s.peer[p]))
                                      ELSE s.peer[p]]]

AttachAll(s, c) ==
  IF ~s.up THEN End(s, c)
  ELSE LET a == AttachAble(s, {p \in Here(s) : Capable(s, p)})
       IN  IF \A p \in Here(s) : Capable(s, p) THEN End(a, c)
           ELSE At(Replace([a EXCEPT !.call[c].next = s.video, !.call[c].prev = None], c,
                          {p \in Here(s) : ~Capable(s, p) /\ s.peer[p].audio = None},
                          "audio", s.audio),
                  c, "attach")

AttachVideo(s, c) ==
  LET t  == s.call[c].next
      ps == {p \in Here(s) : ~Capable(s, p) /\ s.peer[p].video = None /\ t # None}
  IN  At(Replace([s EXCEPT !.peer = [p \in Peers |->
                    [s.peer[p] EXCEPT
                       !.missed = @ \/ (p \in ps /\ (t # s.video \/ s.peer[p].chain # <<>>))]]],
                 c, ps, "video", t), c, "attached")

\* Past the enumeration of the devices; rerouted: another input is preferred.
DevicesKnown(s, c, rerouted) ==
  LET a == [s EXCEPT !.requesting = FALSE]
      b == IF rerouted THEN RefreshAudio(a, c) ELSE a
  IN  IF b.call[c].at = "mic" THEN b ELSE AttachAll(b, c)

\* Mutant: the microphone is taken whatever happened during the await.
MicKept(s, c, t) ==
  At(Replace([Capture(s, t, "mic", TRUE) EXCEPT !.audio = t, !.up = TRUE],
             c, Here(s), "audio", t), c, "micswap")

AfterAudio(s, c) ==
  LET a == [s EXCEPT !.audioBusy = FALSE]
  IN  IF s.call[c].op = "start" THEN AttachAll(a, c) ELSE End(a, c)

\* refreshLocalAudioTrack past getUserMedia.
MicCome(s, c, t) ==
  IF s.destroyed \/ ~s.up \/ s.request # s.call[c].request THEN AfterAudio(s, c)
  ELSE At(Replace([Capture(s, t, "mic", TRUE) EXCEPT !.audio = t], c, Here(s), "audio", t),
          c, "micswap")

\* startScreenShareLegacy past getDisplayMedia; when the stream has gone it throws
\* with the display captured.
DisplayComeLegacy(s, c, t) ==
  IF ~s.up THEN End([Capture(s, t, "display", TRUE) EXCEPT !.restore = "none"], c)
  ELSE Swap([Capture(s, t, "display", TRUE) EXCEPT !.screen = t,
               !.restore = IF s.video = None THEN "none"
                           ELSE IF s.track[s.video].on THEN "on" ELSE "off"],
            c, t, s.video)

\* startScreenShareIndependent past getDisplayMedia.
DisplayComeIndependent(s, c, t) ==
  LET able == {p \in Here(s) : Capable(s, p)}
      a == [Capture(s, t, "display", TRUE) EXCEPT
              !.content = t, !.screen = t, !.stopping = FALSE, !.sharing = TRUE,
              !.call[c].at = "share", !.call[c].viable = able # {},
              !.peer = [p \in Peers |-> IF p \in able /\ ~s.peer[p].bound
                          THEN [s.peer[p] EXCEPT !.pending = TRUE] ELSE s.peer[p]]]
  IN  Replace(Replace(a, c, {p \in able : s.peer[p].bound}, "content", t),
              c, Here(s) \ able, "video", t)

DisplayCome(s, c, t) ==
  IF s.independent THEN DisplayComeIndependent(s, c, t) ELSE DisplayComeLegacy(s, c, t)

\* The share could be attached nowhere, or it is announced.
ShareAttached(s, c) ==
  IF ~s.call[c].viable /\ Here(s) # {}
  THEN End([ReleaseContent(s) EXCEPT !.sharing = FALSE], c)
  ELSE End(Announce(s, TRUE), c)

ShareDetached(s, c) ==
  End(ReleaseContent(Announce([s EXCEPT !.sharing = FALSE, !.stopping = FALSE], FALSE)), c)

\* Every replaceTrack the call awaited has been settled.
Resume(s, c) ==
  LET prev == s.call[c].prev
  IN  CASE s.call[c].at = "swap" ->
             Finish(IF prev # s.call[c].next THEN Stop(s, prev) ELSE s, c)
        [] s.call[c].at = "micswap" -> AfterAudio(Stop(s, prev), c)
        [] s.call[c].at = "share" -> ShareAttached(s, c)
        [] s.call[c].at = "detach" -> ShareDetached(s, c)
        [] s.call[c].at = "attach" -> AttachVideo(s, c)
        [] s.call[c].at = "attached" -> End(s, c)

-----------------------------------------------------------------------------
(***************************************************************************)
(* Connections.                                                            *)
(***************************************************************************)
\* getOrCreatePeer: a capable peer of the offer owner has its senders at once, an
\* answerer's after the first offer; a legacy peer is routed the active share.
CreatePeer(s, p) ==
  IF Capable(s, p)
  THEN IF ~s.owner THEN [s EXCEPT !.peer[p] = [NoPeer EXCEPT !.here = TRUE]]
       ELSE AttachPending(
              [s EXCEPT !.peer[p] = [NoPeer EXCEPT !.here = TRUE, !.bound = TRUE, !.audio = s.audio,
                 !.video = IF Live(s, s.video) THEN s.video ELSE None,
                 !.pending = s.content # None]], p)
  ELSE LET a == [s EXCEPT !.peer[p] = [NoPeer EXCEPT !.here = TRUE,
                                         !.audio = s.audio, !.video = s.video]]
       IN  IF s.independent /\ s.sharing /\ Live(s, s.content)
           THEN Replace(a, 0, {p}, "video", s.content)
           ELSE a

\* applyRemoteOffer of a capable answerer: assignRemoteVideoRoles.
BindRoles(s, p) ==
  LET a == IF s.up THEN [s EXCEPT !.peer[p] = AudioAttached(s, @)] ELSE s
  IN  AttachPending([a EXCEPT !.peer[p].bound = TRUE], p)

\* The head of the chain is applied.
Apply(s, p) ==
  LET op == Head(s.peer[p].chain)
      a  == [s EXCEPT !.peer[p].chain = Tail(@)]
      b  == CASE op.slot = "audio" -> [a EXCEPT !.peer[p].audio = op.track]
              [] op.slot = "video" -> [a EXCEPT !.peer[p].video = op.track]
              [] op.slot = "content" -> [a EXCEPT !.peer[p].content = op.track]
      d  == IF op.call # 0 /\ s.call[op.call].at = "share"
            THEN [b EXCEPT !.call[op.call].viable = TRUE] ELSE b
  IN  Settled(d, op)

\* The head of the chain, never replaceTrack(null), is rejected: a role sender is
\* renegotiated, and content is marked to be attached again.
Reject(s, p) ==
  LET op == Head(s.peer[p].chain)
      a  == [s EXCEPT !.peer[p].chain = Tail(@)]
      b  == IF ~Capable(s, p) \/ op.slot = "audio" THEN [a EXCEPT !.peer[p].missed = TRUE]
            ELSE [a EXCEPT !.peer[p].owed = TRUE,
                    !.peer[p].pending = @ \/ (op.slot = "content" /\ op.track # None)]
  IN  Settled(b, op)

\* Mutant: the renegotiation attaches nothing.
RenegotiateOnly(s, p) == [s EXCEPT !.peer[p].owed = FALSE]

\* The forced renegotiation has ended, at either end: pending tracks are attached.
Renegotiated(s, p) == AttachPending([s EXCEPT !.peer[p].owed = FALSE], p)

-----------------------------------------------------------------------------
(***************************************************************************)
(* Steps.                                                                  *)
(***************************************************************************)
Idle(s) == {c \in Calls : s.call[c].op = "none"}
Set(s) == tab' = Tidy(s)
Spend(kind) == budget[kind] > 0 /\ budget' = [budget EXCEPT ![kind] = @ - 1]
Keep == UNCHANGED budget

\* One operation of the user or of a browser event, on the least idle frame.
Operate(kind, Op(_, _)) ==
  /\ Idle(tab) # {} /\ ~tab.destroyed /\ Spend(kind)
  /\ Set(Op(tab, Min(Idle(tab))))

Start ==
  /\ Idle(tab) # {} /\ ~tab.up /\ tab.starting = 0 /\ ~tab.destroyed /\ Keep
  /\ Set(StartMedia(tab, Min(Idle(tab))))
Toggle == Operate("toggle", ToggleVideo)
Flip == Operate("flip", FlipCamera)
Recover == \E forced \in BOOLEAN : Operate("recover", LAMBDA s, c : RefreshVideo(s, c, forced))
DeviceChange ==
  /\ Idle(tab) # {} /\ tab.up /\ Spend("route")
  /\ LET c == Min(Idle(tab)) IN
       /\ ~tab.requesting /\ ~tab.audioBusy
       /\ Set(RefreshAudio(Begin(tab, c, "audio", "mic"), c))
Share == Operate("share", ShareScreen)
Unshare == tab.sharing /\ Operate("unshare", StopShare)

\* The user ends the capture in the browser: onended stops the share.
DisplayEnds ==
  /\ Live(tab, tab.screen) /\ Idle(tab) # {} /\ Spend("unshare")
  /\ Set(StopShare(Stop(tab, tab.screen), Min(Idle(tab))))

\* The camera is unplugged or taken by another program.
DeviceLost ==
  /\ Live(tab, tab.video) /\ tab.track[tab.video].kind = "camera"
  /\ Spend("stall") /\ Set(Stop(tab, tab.video))

\* destroy, from leave or from the host.
Destroy ==
  /\ ~tab.destroyed /\ Spend("leave")
  /\ Set([StopLocalMedia(tab) EXCEPT !.destroyed = TRUE])

\* resetSessionResources, when the call ends or fails.
CallOver == ~tab.destroyed /\ Spend("leave") /\ Set(StopLocalMedia(tab))

Granted(c) ==
  /\ Keep
  /\ \/ /\ tab.call[c].at = "media" /\ Cardinality(Free(tab)) > 1
        /\ Set(MediaCome(tab, c, Fresh(tab), Min(Free(tab) \ {Fresh(tab)})))
     \/ /\ tab.call[c].at = "camera" /\ Free(tab) # {}
        /\ Set(CameraCome(tab, c, Fresh(tab)))
     \/ /\ tab.call[c].at = "mic" /\ Free(tab) # {}
        /\ Set(MicCome(tab, c, Fresh(tab)))
     \/ /\ tab.call[c].at = "display" /\ Free(tab) # {}
        /\ Set(DisplayCome(tab, c, Fresh(tab)))

Denied(c) ==
  /\ Spend("deny")
  /\ \/ tab.call[c].at = "media" /\ Set(MediaRefused(tab, c))
     \/ tab.call[c].at = "camera" /\ Set(CameraRefused(tab, c))
     \/ tab.call[c].at = "mic" /\ Set(AfterAudio(tab, c))
     \/ tab.call[c].at = "display" /\ Set(End([tab EXCEPT !.restore = "none"], c))

Listed(c) ==
  /\ tab.call[c].at = "devices"
  /\ \/ Keep /\ Set(DevicesKnown(tab, c, FALSE))
     \/ Spend("route") /\ Set(DevicesKnown(tab, c, TRUE))

\* What a call awaits has been settled: it goes on before any other event.
Resumable(c) ==
  /\ tab.call[c].at \in {"swap", "micswap", "share", "detach", "attach", "attached"}
  /\ tab.call[c].left = 0
Resumed(c) == Resumable(c) /\ Keep /\ Set(Resume(tab, c))

Joins(p) == ~tab.peer[p].here /\ tab.up /\ Spend("join") /\ Set(CreatePeer(tab, p))
Parts(p) == tab.peer[p].here /\ Spend("part") /\ Set(Close(tab, p))
Bound(p) ==
  /\ tab.peer[p].here /\ Capable(tab, p) /\ ~tab.peer[p].bound /\ tab.up
  /\ Keep /\ Set(BindRoles(tab, p))
Applied(p) == tab.peer[p].chain # <<>> /\ Keep /\ Set(Apply(tab, p))
Rejected(p) ==
  /\ tab.peer[p].chain # <<>> /\ Head(tab.peer[p].chain).track # None
  /\ Spend("reject") /\ Set(Reject(tab, p))
Agreed(p) == tab.peer[p].owed /\ Keep /\ Set(Renegotiated(tab, p))

Event ==
  \/ Start \/ Toggle \/ Flip \/ Recover \/ DeviceChange \/ Share \/ Unshare
  \/ DisplayEnds \/ DeviceLost \/ Destroy \/ CallOver
  \/ \E c \in Calls : Granted(c) \/ Denied(c) \/ Listed(c)
  \/ \E p \in Peers : Joins(p) \/ Parts(p) \/ Bound(p) \/ Applied(p) \/ Rejected(p) \/ Agreed(p)

Next ==
  \/ \E c \in Calls : Resumed(c)
  \/ (\A c \in Calls : ~Resumable(c)) /\ Event

Spec == Init /\ [][Next]_vars

-----------------------------------------------------------------------------
(***************************************************************************)
(* Properties.                                                             *)
(***************************************************************************)
\* No call is under way and no replaceTrack is to be applied.
Quiet ==
  /\ \A c \in Calls : tab.call[c].op = "none"
  /\ \A p \in Peers : tab.peer[p].chain = <<>>

\* A microphone is never left open behind the engine's back: once everything has
\* settled, the only live microphone is the local stream's, whatever was refused,
\* replaced or ended during the awaits (mediaRequestId, audioRecoveryInFlight).
MicHeldOnce ==
  Quiet => \A t \in Tracks :
             tab.track[t].live /\ tab.track[t].kind = "mic" => tab.up /\ t = tab.audio

\* What the others receive is what the local preview shows: once everything has
\* settled, however starts, swaps, flips, refreshes and shares interleaved, a sender
\* carries the local stream's microphone; and, on a connection with a content sender of
\* its own, or in a tab whose single video sender is also that of the share, the local
\* stream's video (or nothing, when that video has ended).  Excepted are senders that a
\* forced renegotiation is still to repair, and what the code does not repair: a rejected
\* replaceTrack of a microphone or of a legacy peer, which it only logs, and the first
\* attach of a legacy peer that awaited its microphone while the camera was swapped.
SendersFollowStream ==
  LET repaired == {p \in Here(tab) : /\ ~tab.peer[p].missed /\ ~tab.peer[p].owed
                                     /\ Capable(tab, p) => tab.peer[p].bound}
      ended == IF Live(tab, tab.video) THEN {} ELSE {None}
  IN  Quiet /\ tab.up => \A p \in repaired :
    /\ tab.peer[p].audio = tab.audio
    /\ Capable(tab, p) \/ ~tab.independent => tab.peer[p].video \in {tab.video} \cup ended

\* A share reaches everyone: once everything has settled, each connection carries
\* the display, also one that joined in the middle or whose replaceTrack was
\* rejected, unless a renegotiation that will attach it is still owed.  Excepted are
\* legacy peers whose replaceTrack was rejected, which the code only logs, and those
\* whose first attach raced with a swap.
ShareReaches ==
  Quiet /\ tab.independent /\ tab.sharing => \A p \in {q \in Here(tab) : ~tab.peer[q].missed} :
    IF Capable(tab, p)
    THEN ~tab.peer[p].bound \/ tab.peer[p].owed \/ tab.peer[p].content = tab.content
    ELSE tab.peer[p].video = tab.content

\* The legacy peers of a tab that shares on a sender of its own, when it shares nothing.
LegacyAtRest ==
  IF Quiet /\ tab.independent /\ ~tab.sharing
  THEN {p \in Here(tab) : ~Capable(tab, p) /\ ~tab.peer[p].missed} ELSE {}

\* "Restore any legacy senders we touched" (MediaEngine.ts:724): no legacy sender is
\* left on a display that is no longer shared.
LegacySendersRestored ==
  \A p \in LegacyAtRest :
    tab.peer[p].video = None \/ tab.track[tab.peer[p].video].kind # "display"

\* "stopScreenShare -> restoreLegacyPeerCameraTrack restores its camera when the share
\* ends, after which camera ops affect it again" (MediaEngine.ts:2260): without a share
\* a legacy peer is sent the camera that is on.
LegacyCameraRestored ==
  tab.up /\ Live(tab, tab.video) => \A p \in LegacyAtRest : tab.peer[p].video = tab.video

\* "Clean up all resources" (SerenadaSession.ts:633): once destroyed and settled,
\* nothing captures.
DestroyStopsCapture ==
  tab.destroyed /\ Quiet => \A t \in Tracks : ~tab.track[t].live

=============================================================================
