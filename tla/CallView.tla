------------------------------ MODULE CallView ------------------------------
(***************************************************************************)
(* The call screen, client/packages/react-ui/src/SerenadaCallFlow.tsx: a   *)
(* React component that turns what its session exposes into tiles, pins,   *)
(* overlays and controls.                                                  *)
(*                                                                         *)
(* call is what the session exposes, view the component's own state.  One  *)
(* step is one change of call, one timer or one gesture, together with the *)
(* renders and effects it causes, up to the render that changes nothing.   *)
(* The effects are written with their dependencies: an effect runs when    *)
(* what it depends on differs between two renders.                         *)
(*                                                                         *)
(* Left out: names, avatars, audio levels, fits, the debug panel, the      *)
(* stats timers, the copied-link flag, the permission prompt, the capture  *)
(* itself, and the aspect ratios that videos report (one per plan).        *)
(***************************************************************************)
EXTENDS ContentScene

CONSTANTS Me, Plans

Stage == INSTANCE StageLayout

ASSUME CallViewAssumption ==
  \A p \in Plans : /\ p.remotes \cap {Me, None} = {} /\ p.capable \subseteq p.remotes
                   /\ {p.independent, p.receives, p.hides} \subseteq BOOLEAN
                   /\ p.width \in Nat \ {0} /\ p.height \in Nat \ {0} /\ p.ratio \in Nat
                   /\ p.kinds \subseteq {"people", "lost", "shares", "flows", "messages", "own",
                                         "pins", "swap", "status", "controls"}

VARIABLES
  plan,       \* the build and the window, and the kinds of events that happen
  call,       \* what the session exposes
  view,       \* the component's state, refs and timers
  began       \* the remotes that present content, by the time they began (history)

screenVars == <<plan, call, view, began>>

Members(c) == {c.roster[i].cid : i \in DOMAIN c.roster}
Has(q, e) == \E i \in DOMAIN q : q[i] = e

\* The map of remote streams without the peer that is cleaned up.
Without(q, e) ==
  LET at == CHOOSE i \in DOMAIN q : q[i] = e
  IN IF Has(q, e) THEN SubSeq(q, 1, at - 1) \o SubSeq(q, at + 1, Len(q)) ELSE q

NoCall == [joined |-> FALSE, status |-> "connected", camera |-> "none", off |-> FALSE,
           sharing |-> FALSE, live |-> FALSE, roster |-> <<>>, streams |-> <<>>]

Phase(c) == CASE ~c.joined -> "joining"
              [] c.joined /\ c.roster = <<>> -> "waiting"
              [] OTHER -> "inCall"
Active(c) == c.joined

-----------------------------------------------------------------------------
(* What a render derives.                                                  *)

Multi(c) == Len(c.streams) > 1

\* Presumed-lost remotes are hidden; their streams are not.
VisibleRemotes(c) == SelectSeq(c.roster, LAMBDA r : ~r.lost)

\* What the content is resolved from.  The local content of a session that shares: its
\* camera mode says so as well unless the build sends the screen as a stream of its own.
SceneInput(c, v) ==
  [self |-> IF c.joined THEN Me ELSE None, media |-> c.joined, camera |-> c.camera,
   content |-> IF c.sharing THEN "screenShare" ELSE "absent", live |-> c.live,
   remotes |-> VisibleRemotes(c), streams |-> Range(c.streams),
   independent |-> plan.independent, receives |-> plan.receives,
   legacy |-> v.legacy, order |-> v.order]

Scene(c, v) == ResolveContentScene(SceneInput(c, v))

\* Every stream a tile of its own, while anybody presents independent content.
StreamKeyed(scene) == \E i \in DOMAIN scene.all : scene.all[i].mode = "independent"

Tiles(c, scene) ==
  IF StreamKeyed(scene) /\ c.joined THEN DeriveStageTiles(c.streams, Me, scene.all) ELSE <<>>

Spotlight(c, v, scene) == PickStageSpotlight(Tiles(c, scene), v.pinnedTile, scene.primary)

ContentOwner(c, scene) == ResolveContentSource(scene.primary, Multi(c))

LayoutScene(participants, local, pinned, content) ==
  [vw |-> plan.width, vh |-> plan.height, local |-> local, pinned |-> pinned,
   content |-> content, swapped |-> FALSE, participants |-> participants]

\* The layout of the stage, None when the screen is not a stage with a large tile.
StreamLayout(c, v, scene) ==
  LET tiles == Tiles(c, scene)
      front == Spotlight(c, v, scene)
      people == [i \in DOMAIN tiles |->
                   [id |-> tiles[i], role |-> IF tiles[i] = front THEN "local" ELSE "remote",
                    ratio |-> IF tiles[i][2] = "camera" /\ tiles[i][1] # Me
                              THEN plan.ratio ELSE Stage!Unknown]]
  IN CASE tiles = <<>> -> None
       [] Len(tiles) = 1 ->
            [mode |-> "focus", pip |-> <<>>,
             tiles |-> << Stage!Tile(front, "participant", 0, 0,
                                     Stage!Px * plan.width, Stage!Px * plan.height) >>]
       [] OTHER -> Stage!Layout(LayoutScene(people, front, front, None))

PeopleLayout(c, v, scene) ==
  LET owner == ContentOwner(c, scene)
      people == [i \in DOMAIN c.streams |->
                   [id |-> c.streams[i], role |-> "remote", ratio |-> plan.ratio]]
                \o << [id |-> Me, role |-> "local", ratio |-> Stage!Unknown] >>
  IN IF v.pinned = None /\ owner = None THEN None
     ELSE Stage!Layout(LayoutScene(people, Me, IF owner # None THEN None ELSE v.pinned, owner))

ComputedLayout(c, v, scene) ==
  LET used == StreamKeyed(scene) \/ Multi(c) \/ ContentOwner(c, scene) # None
  IN CASE ~used \/ ~c.joined -> None
       [] used /\ c.joined /\ StreamKeyed(scene) -> StreamLayout(c, v, scene)
       [] OTHER -> PeopleLayout(c, v, scene)

LargeLocal(c, v) == v.large /\ ~c.off

\* The stream of each tile on screen, the large one first; None where a tile waits for
\* its stream.
Rendered(c, v, scene, layout) ==
  LET stage == ShouldRenderContentStage(Phase(c), Multi(c), layout # None)
      Camera(cid) == <<cid, "camera">>
      remotes == [i \in DOMAIN c.streams |-> Camera(c.streams[i])]
      Of(id) == IF id[2] = "camera" THEN id
                ELSE scene.all[CHOOSE i \in DOMAIN scene.all : scene.all[i].owner = id[1]].stream
      Shown(tile) == IF StreamKeyed(scene) THEN Of(tile.id)
                     ELSE IF tile.type = "contentSource" THEN scene.primary.stream
                     ELSE Camera(tile.id)
      rows == FlattenSeq(Stage!StageRows([i \in DOMAIN remotes |-> Stage!ClampRatio(plan.ratio)],
                                         plan.width, plan.height, 12))
  IN CASE stage /\ layout # None -> [i \in DOMAIN layout.tiles |-> Shown(layout.tiles[i])]
       [] stage /\ layout = None ->
            [i \in DOMAIN rows |-> remotes[rows[i].tile]] \o <<Camera(Me)>>
       [] OTHER -> LET large == IF LargeLocal(c, v) THEN <<Camera(Me)>> ELSE <<>>
                       pip == IF LargeLocal(c, v) THEN <<>> ELSE <<Camera(Me)>>
                   IN large \o (IF Len(remotes) = 1 THEN remotes ELSE <<>>) \o pip

OnScreen(c, v) == Rendered(c, v, Scene(c, v), ComputedLayout(c, v, Scene(c, v)))

\* Whose camera the shutter takes (a remote camera that is off, which has no shutter, is
\* left out).
SnapshotSource(c, v) ==
  LET remotes == VisibleRemotes(c)
      OfPin(cid) == IF (cid = Me /\ ~c.off) \/ (\E i \in DOMAIN remotes : remotes[i].cid = cid)
                    THEN cid ELSE None
  IN CASE v.pinnedTile # None ->
            IF v.pinnedTile[2] = "content" THEN None ELSE OfPin(v.pinnedTile[1])
       [] v.pinnedTile = None /\ Multi(c) -> OfPin(v.pinned)
       [] v.pinnedTile = None /\ ~Multi(c) /\ LargeLocal(c, v) -> Me
       [] OTHER -> IF c.streams = <<>> THEN None ELSE c.streams[1]

-----------------------------------------------------------------------------
(* The effects.                                                            *)

ShowsReconnecting(c, v) == Active(c) /\ c.status # "connected" /\ v.badge.shown

\* 800 ms after the connection was last seen to change for the worse.
BadgeAfter(old, c, v) ==
  IF Phase(old) = Phase(c) /\ old.status = c.status THEN v.badge
  ELSE IF Active(c) /\ c.status # "connected" THEN [v.badge EXCEPT !.timer = TRUE]
  ELSE [shown |-> FALSE, timer |-> FALSE]

\* Mutant: a stream that arrives does not stop the timer.
WaitingTicking(old, was, c, v) ==
  IF Phase(old) = Phase(c) /\ Len(old.streams) = Len(c.streams) /\ was = ShowsReconnecting(c, v)
  THEN v.waiting
  ELSE CASE ~Active(c) -> [shown |-> TRUE, timer |-> FALSE]
         [] Active(c) /\ c.streams # <<>> -> [v.waiting EXCEPT !.shown = FALSE]
         [] OTHER -> [shown |-> ~ShowsReconnecting(c, v), timer |-> ShowsReconnecting(c, v)]

\* The invitation: hidden by a remote stream, and for 8 s by the reconnecting badge.
WaitingAfter(old, was, c, v) ==
  IF Phase(old) = Phase(c) /\ Len(old.streams) = Len(c.streams) /\ was = ShowsReconnecting(c, v)
  THEN v.waiting
  ELSE CASE ~Active(c) -> [shown |-> TRUE, timer |-> FALSE]
         [] Active(c) /\ c.streams # <<>> -> [shown |-> FALSE, timer |-> FALSE]
         [] OTHER -> [shown |-> ~ShowsReconnecting(c, v), timer |-> ShowsReconnecting(c, v)]

\* A new phase brings the controls back, with auto-hide as the host configured it.
ControlsAfter(old, c, controls) ==
  IF Phase(old) = Phase(c) THEN controls
  ELSE IF Active(c)
  THEN [visible |-> TRUE, timer |-> plan.hides, auto |-> plan.hides, byIdle |-> FALSE]
  ELSE [controls EXCEPT !.visible = TRUE, !.timer = FALSE]

\* The world camera is shown large, the selfie camera small, when the mode changes.
LargeAfter(c, v) ==
  IF c.camera = v.mode THEN v.large
  ELSE CASE c.camera = "world" -> TRUE [] c.camera = "selfie" -> FALSE [] OTHER -> v.large

\* The owners of remote content by the time they began: the new ones last.
OrderAfter(order, owners) ==
  SelectSeq(order, LAMBDA o : Has(owners, o)) \o SelectSeq(owners, LAMBDA o : ~Has(order, o))

\* Mutant: a share that comes to the front takes the pin away.
PinUntilShare(c, v, scene) ==
  IF /\ v.pinnedTile # None /\ Has(Tiles(c, scene), v.pinnedTile)
     /\ scene.primary.owner = v.pinnedTile[1]
  THEN v.pinnedTile ELSE None

\* A pin is dropped with its tile.
PinAfter(c, v, scene) ==
  IF v.pinnedTile # None /\ Has(Tiles(c, scene), v.pinnedTile) THEN v.pinnedTile ELSE None

\* The owners of the contents of remotes.
Owners(scene) == [i \in DOMAIN scene.remotes |-> scene.remotes[i].owner]

\* The effects that follow the content.
Followed(c, w, pruned, scene) ==
  [pruned EXCEPT !.order = OrderAfter(w.order, Owners(scene)),
                 !.pinnedTile = PinAfter(c, w, scene)]

\* The component after a change of what it shows or of its own state from v to w.
Settle(old, v, c, w) ==
  LET badged == [w EXCEPT !.badge = BadgeAfter(old, c, w)]
      pruned ==
        [badged EXCEPT
           !.waiting = WaitingAfter(old, ShowsReconnecting(old, v), c, badged),
           !.controls = ControlsAfter(old, c, w.controls),
           !.large = LargeAfter(c, w),
           !.mode = IF c.camera = "none" THEN "selfie" ELSE c.camera,
           !.pinned = IF (w.pinned = Me /\ c.joined) \/ Has(c.streams, w.pinned) THEN w.pinned
                      ELSE None,
           !.legacy = IF w.legacy # None /\ Has(c.streams, w.legacy.cid) THEN w.legacy ELSE None]
  IN Followed(c, w, pruned, Scene(c, pruned))

-----------------------------------------------------------------------------
(* Steps.                                                                  *)

FirstView ==
  [order |-> <<>>, pinnedTile |-> None, pinned |-> None, legacy |-> None, large |-> FALSE,
   mode |-> "selfie", badge |-> [shown |-> FALSE, timer |-> FALSE],
   waiting |-> [shown |-> TRUE, timer |-> FALSE],
   controls |-> [visible |-> TRUE, timer |-> FALSE, auto |-> TRUE, byIdle |-> FALSE]]

ScreenInit == /\ plan \in Plans
        /\ call = NoCall
        /\ view = FirstView
        /\ began = <<>>

\* The history of shares: those that go are forgotten, those that begin come last.
Began(owners) ==
  SelectSeq(began, LAMBDA o : Has(owners, o)) \o SelectSeq(owners, LAMBDA o : ~Has(began, o))

\* The session publishes c and the component's own state becomes w.
Becomes(c, w) ==
  LET after == Settle(call, view, c, w)
  IN /\ call' = c
     /\ view' = after
     /\ began' = Began(Owners(Scene(c, after)))
     /\ UNCHANGED plan

Publish(c) == c # call /\ Becomes(c, view)
Update(w) == Becomes(call, w)
On(kind) == kind \in plan.kinds

Join == ~call.joined /\ Publish([NoCall EXCEPT !.joined = TRUE, !.camera = "selfie"])

End == call.joined /\ Publish(NoCall)

Person(cid) == [cid |-> cid, lost |-> FALSE, content |-> "absent", live |-> FALSE,
                capable |-> cid \in plan.capable]

Enter(cid) ==
  /\ call.joined /\ cid \notin Members(call)
  /\ Publish([call EXCEPT !.roster = Append(@, Person(cid))])

Depart(cid) ==
  /\ cid \in Members(call)
  /\ Publish([call EXCEPT !.roster = SelectSeq(@, LAMBDA r : r.cid # cid),
                          !.streams = Without(@, cid)])

StreamArrives(cid) ==
  /\ cid \in Members(call) /\ ~Has(call.streams, cid)
  /\ Publish([call EXCEPT !.streams = Append(@, cid)])

StreamGone(cid) ==
  /\ Has(call.streams, cid)
  /\ Publish([call EXCEPT !.streams = Without(@, cid)])

Edit(i, r) == Publish([call EXCEPT !.roster[i] = r])

Presume(i, lost) == On("lost") /\ Edit(i, [call.roster[i] EXCEPT !.lost = lost])

\* The content of a remote as the session tracks it, and its stream.
Present(i, content) == On("shares") /\ Edit(i, [call.roster[i] EXCEPT !.content = content])
ContentFlows(i, live) ==
  /\ On("flows") /\ call.roster[i].capable /\ plan.independent
  /\ Edit(i, [call.roster[i] EXCEPT !.live = live])

\* A content_state message: the session follows it when it is fresh, the component always.
ContentState(i, content, fresh) ==
  LET r == call.roster[i]
      c == IF fresh THEN [call EXCEPT !.roster[i].content = content] ELSE call
      legacy == CASE content # "absent" -> [cid |-> r.cid, type |-> content]
                  [] content = "absent" /\ Signalled(r, view.legacy) -> None
                  [] OTHER -> view.legacy
  IN On("messages") /\ Becomes(c, [view EXCEPT !.legacy = legacy])

\* The local share: a mode of the camera in a build without independent content.
Share(on) ==
  /\ On("own") /\ call.joined /\ on # call.sharing
  /\ Publish([call EXCEPT !.sharing = on, !.live = FALSE,
                          !.camera = CASE plan.independent -> @
                                       [] ~plan.independent /\ on -> "screenShare"
                                       [] OTHER -> "selfie"])
ShareFlows(live) ==
  On("flows") /\ call.sharing /\ plan.independent /\ Publish([call EXCEPT !.live = live])

TurnCamera(mode) ==
  /\ On("swap") /\ call.joined /\ call.camera # "screenShare"
  /\ Publish([call EXCEPT !.camera = mode])
CameraOff(off) == On("swap") /\ call.joined /\ Publish([call EXCEPT !.off = off])

ConnectionStatus(status) ==
  On("status") /\ call.joined /\ Publish([call EXCEPT !.status = status])

BadgeDue ==
  view.badge.timer /\ Update([view EXCEPT !.badge = [shown |-> TRUE, timer |-> FALSE]])
WaitingDue ==
  view.waiting.timer /\ Update([view EXCEPT !.waiting = [shown |-> TRUE, timer |-> FALSE]])
IdleDue ==
  /\ view.controls.timer
  /\ Update([view EXCEPT !.controls = [@ EXCEPT !.visible = FALSE, !.timer = FALSE,
                                                !.byIdle = TRUE]])

\* Controls that come back after they hid by themselves stay for the rest of the phase.
Shown(controls) ==
  IF controls.byIdle
  THEN [visible |-> TRUE, timer |-> FALSE, auto |-> FALSE, byIdle |-> FALSE]
  ELSE [controls EXCEPT !.visible = TRUE, !.timer = @ \/ controls.auto]

\* Any use of the controls (handleControlsInteraction).
Touch == /\ On("controls") /\ Active(call)
         /\ Update([view EXCEPT !.controls = Shown(@)])

Hidden(controls) == [controls EXCEPT !.visible = FALSE, !.timer = FALSE, !.byIdle = FALSE]

\* A tap on the screen (handleScreenTap).
Tap == /\ On("controls") /\ Active(call)
       /\ Update([view EXCEPT !.controls =
                    CASE ~plan.hides -> [@ EXCEPT !.visible = TRUE, !.timer = FALSE]
                      [] plan.hides /\ @.visible -> Hidden(@)
                      [] OTHER -> Shown(@)])

LayoutNow == ComputedLayout(call, view, Scene(call, view))
OnStage == ShouldRenderContentStage(Phase(call), Multi(call), LayoutNow # None)

\* A tap on the small picture of a call with one remote stream or none.
Swap == /\ On("swap") /\ Active(call) /\ ~OnStage
        /\ Update([view EXCEPT !.large = ~LargeLocal(call, view), !.controls = Shown(@)])

\* A tap on a tile of the stage: of a stream, of a participant, or in the grid.
PinTile(tile) ==
  /\ On("pins") /\ OnStage /\ StreamKeyed(Scene(call, view))
  /\ Has(Tiles(call, Scene(call, view)), tile)
  /\ Update([view EXCEPT !.pinnedTile = IF @ = tile THEN None ELSE tile])

Offers(layout, cid) ==
  IF layout = None THEN Has(call.streams, cid)
  ELSE \E i \in DOMAIN layout.tiles : layout.tiles[i].id = cid

PinParticipant(cid) ==
  /\ On("pins") /\ OnStage /\ ~StreamKeyed(Scene(call, view)) /\ Offers(LayoutNow, cid)
  /\ Update([view EXCEPT !.pinned = IF LayoutNow # None /\ @ = cid THEN None ELSE cid])

ScreenNext ==
  \/ Join \/ End
  \/ On("people") /\ \E cid \in plan.remotes :
       Enter(cid) \/ Depart(cid) \/ StreamArrives(cid) \/ StreamGone(cid)
  \/ \E i \in DOMAIN call.roster :
       \/ \E flag \in BOOLEAN : Presume(i, flag) \/ ContentFlows(i, flag)
       \/ \E content \in Presented \cup {"absent"} :
            Present(i, content) \/ \E fresh \in BOOLEAN : ContentState(i, content, fresh)
  \/ \E flag \in BOOLEAN : Share(flag) \/ ShareFlows(flag) \/ CameraOff(flag)
  \/ \E mode \in {"selfie", "world"} : TurnCamera(mode)
  \/ \E status \in {"connected", "recovering", "retrying"} : ConnectionStatus(status)
  \/ BadgeDue \/ WaitingDue \/ IdleDue
  \/ Touch \/ Tap \/ Swap
  \/ \E cid \in plan.remotes \cup {Me} :
       PinParticipant(cid) \/ \E kind \in {"camera", "content"} : PinTile(<<cid, kind>>)

ScreenSpec == ScreenInit /\ [][ScreenNext]_screenVars

-----------------------------------------------------------------------------
(* What the screen must be.                                                *)

\* The remotes presumed lost.
Lost == {r.cid : r \in {p \in Range(call.roster) : p.lost}}

OnePerStream(shown) ==
  /\ \A i, j \in DOMAIN shown : (i # j /\ shown[i] # None) => shown[i] # shown[j]
  /\ \A cid \in (Range(call.streams) \cup {Me}) \ Lost : Has(shown, <<cid, "camera">>)

\* Whatever branch renders the call, the camera of everybody whose stream is there, the
\* local one included, is on a tile, and nothing is on two.  Of a remote presumed lost
\* only the second is required.
EveryStreamOnce == Active(call) => OnePerStream(OnScreen(call, view))

\* "Hide presumed-lost remotes from the call grid [...] for the active grid they should be
\* invisible" (SerenadaCallFlow.tsx:371): in a call of several no tile is one of theirs.
LostAreHidden ==
  Active(call) /\ Multi(call) =>
    \A cid \in Lost, kind \in {"camera", "content"} : ~Has(OnScreen(call, view), <<cid, kind>>)

FrontIsLargest(layout) ==
  \A i \in DOMAIN layout.tiles :
    layout.tiles[i].w <= layout.tiles[1].w /\ layout.tiles[i].h <= layout.tiles[1].h

Sound(layout) == Stage!Fits(layout, plan.width, plan.height)

ShownLarge(layout) == layout # None => Sound(layout) /\ FrontIsLargest(layout)

EachOnce(layout) ==
  LET ids == Stage!Shown(layout) IN Sound(layout) /\ Cardinality(Range(ids)) = Len(ids)

\* The layout a host that renders the stage itself asks for.
HostLayout(pinned, owner, swapped) ==
  Stage!Layout(
    [vw |-> plan.width, vh |-> plan.height, local |-> Me, pinned |-> pinned,
     content |-> owner, swapped |-> swapped,
     participants |-> [i \in DOMAIN call.streams |->
                         [id |-> call.streams[i], role |-> "remote", ratio |-> plan.ratio]]
                      \o << [id |-> Me, role |-> "local", ratio |-> Stage!Unknown] >>])

\* A layout from computeLayout puts its tiles on the viewport, apart, none larger than the
\* first: that of the screen, and those of a host for the same people, whoever is pinned,
\* presents or is swapped.
StageFits ==
  /\ ShownLarge(LayoutNow)
  /\ (~call.sharing /\ began = <<>> /\ view.pinned = None /\ view.pinnedTile = None) =>
        \A swapped \in BOOLEAN, pinned, owner \in Range(call.streams) \cup {Me, None} :
          EachOnce(HostLayout(pinned, owner, swapped))

\* Without a pin the share that began last is in front; and the shutter takes the stream
\* that is shown large, unless content is in front of it.
FrontHonest ==
  LET scene == Scene(call, view)
      shares == {i \in DOMAIN scene.remotes : scene.remotes[i].mode = "independent"}
      shown == OnScreen(call, view)
  IN /\ (Active(call) /\ view.pinnedTile = None /\ shares # {}) =>
          \A i, j \in shares :
            Spotlight(call, view, scene) = <<scene.remotes[i].owner, "content">>
              => \E n, m \in DOMAIN began : /\ began[n] = scene.remotes[i].owner
                                           /\ began[m] = scene.remotes[j].owner /\ m <= n
     /\ (Active(call) /\ SnapshotSource(call, view) # None
           /\ (view.pinnedTile # None \/ scene.all = <<>>)) =>
          shown[1] = <<SnapshotSource(call, view), "camera">>

\* A pin lasts until it is touched or its tile is gone, whatever else begins or ends.
PinKept ==
  [][ \/ view.pinnedTile = None \/ view'.pinnedTile = view.pinnedTile
      \/ \E cid \in plan.remotes \cup {Me}, kind \in {"camera", "content"} : PinTile(<<cid, kind>>)
      \/ ~Has(Tiles(call', Scene(call', view')), view.pinnedTile) ]_screenVars

\* No timer or flag of an overlay outlives what it is about: no invitation over a remote
\* stream or behind the reconnecting badge before its time, no badge of an outage that is
\* over, and the controls hide by themselves only while they are visible and may.
OverlaysTruthful ==
  /\ (Active(call) /\ call.streams # <<>>) => ~view.waiting.shown /\ ~view.waiting.timer
  /\ view.waiting.timer => ShowsReconnecting(call, view)
  /\ (Active(call) /\ call.streams = <<>> /\ ~ShowsReconnecting(call, view)) => view.waiting.shown
  /\ (view.badge.shown \/ view.badge.timer) => Active(call) /\ call.status # "connected"
  /\ view.controls.timer => Active(call) /\ view.controls.visible /\ view.controls.auto
  /\ ~Active(call) => view.controls.visible
=============================================================================
