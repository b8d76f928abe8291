---------------------------- MODULE ContentScene ----------------------------
(***************************************************************************)
(* What a call shows as content (a shared screen) and what as camera:      *)
(* client/packages/react-ui/src/utils/contentRendering.ts, pure functions  *)
(* of what the session exposes.                                            *)
(*                                                                         *)
(* An input is a record                                                    *)
(*   self, media            the local participant, whether it has a stream *)
(*   camera, content, live  its camera mode, its content, whether the      *)
(*                          stream of its content is live                  *)
(*   remotes                a sequence of [cid, content, capable, live]    *)
(*   streams                the remote participants with a stream          *)
(*   independent, receives  the build's flag, whether video is received    *)
(*   legacy, order          the last content_state message, the owners of  *)
(*                          content by the time they began                 *)
(* Content is "absent", "idle" (not active), "screenShare" or              *)
(* "worldCamera" (which also stands for compositeCamera).  A stream is     *)
(* <<cid, "camera">> (the single stream of a peer) or <<cid, "content">>.  *)
(***************************************************************************)
EXTENDS Integers, Sequences, FiniteSets, SequencesExt

CONSTANT None

Presented == {"screenShare", "worldCamera"}

LocalContentActive(in) ==
  IF in.content = "absent" THEN in.camera = "screenShare" ELSE in.content \in Presented

LocalContentType(in) == IF in.content = "worldCamera" THEN "worldCamera" ELSE "screenShare"

\* The content_state message counts for a peer without content in its state.
Signalled(r, legacy) == legacy # None /\ legacy.cid = r.cid

RemoteContentActive(r, legacy) ==
  IF r.content = "absent" THEN Signalled(r, legacy) ELSE r.content \in Presented

RemoteContentType(r, legacy) ==
  CASE r.content \in Presented -> r.content
    [] r.content \notin Presented /\ Signalled(r, legacy) -> legacy.type
    [] OTHER -> "screenShare"

Content(owner, type, mode, stream, waiting) ==
  [owner |-> owner, type |-> type, mode |-> mode, stream |-> stream, waiting |-> waiting]

Independent(owner, live, waiting) ==
  Content(owner, "screenShare", "independent", IF live THEN <<owner, "content">> ELSE None, waiting)

Legacy(owner, type, has) ==
  Content(owner, type, "legacy", IF has THEN <<owner, "camera">> ELSE None, FALSE)

ResolveLocalContent(in) ==
  IF in.self = None \/ ~in.receives \/ ~LocalContentActive(in) THEN None
  ELSE IF in.independent /\ in.content = "screenShare"
       THEN Independent(in.self, in.live, in.remotes = <<>>)
       ELSE Legacy(in.self, LocalContentType(in), in.media)

ResolveRemoteContent(in, r) ==
  IF in.independent /\ r.capable /\ r.content = "screenShare"
  THEN Independent(r.cid, r.live, FALSE)
  ELSE Legacy(r.cid, RemoteContentType(r, in.legacy), r.cid \in in.streams)

ResolveRemoteContents(in) ==
  LET sharing == SelectSeq(in.remotes, LAMBDA r : RemoteContentActive(r, in.legacy))
  IN IF in.receives THEN [i \in DOMAIN sharing |-> ResolveRemoteContent(in, sharing[i])] ELSE <<>>

\* Mutant: the content whose owner began first.
LeastRecent(contents, order) ==
  LET Owned(cid) == {i \in DOMAIN contents : contents[i].owner = cid}
      known == SelectInSeq(order, LAMBDA cid : Owned(cid) # {})
  IN IF known = 0 THEN contents[1] ELSE contents[CHOOSE i \in Owned(order[known]) : TRUE]

\* The content whose owner began last; the last of the sequence when the order knows none.
MostRecent(contents, order) ==
  LET Owned(cid) == {i \in DOMAIN contents : contents[i].owner = cid}
      known == SelectLastInSeq(order, LAMBDA cid : Owned(cid) # {})
  IN IF known = 0 THEN contents[Len(contents)]
     ELSE contents[CHOOSE i \in Owned(order[known]) : TRUE]

\* A remote independent share, else the local one; else legacy content, the local first.
PickPrimaryContent(local, remotes, order) ==
  LET shares == SelectSeq(remotes, LAMBDA r : r.mode = "independent")
  IN CASE shares # <<>> -> MostRecent(shares, order)
       [] shares = <<>> /\ local # None -> local
       [] shares = <<>> /\ local = None /\ remotes # <<>> -> MostRecent(remotes, order)
       [] OTHER -> None

ResolveContentScene(in) ==
  LET local == ResolveLocalContent(in)
      remotes == ResolveRemoteContents(in)
  IN [primary |-> PickPrimaryContent(local, remotes, in.order), local |-> local,
      remotes |-> remotes, all |-> remotes \o (IF local = None THEN <<>> ELSE <<local>>)]

\* The content of the layout: with one remote stream only an independent one.
ResolveContentSource(primary, multi) ==
  IF primary = None \/ (~multi /\ primary.mode # "independent") THEN None ELSE primary.owner

ShouldRenderContentStage(phase, multi, layout) ==
  \/ phase = "inCall" /\ (multi \/ layout)
  \/ phase = "waiting" /\ layout

\* Mutant: legacy content has a tile of its own as well.
TilesOfAll(streams, self, all) ==
  [i \in DOMAIN streams |-> <<streams[i], "camera">>] \o << <<self, "camera">> >>
     \o [i \in DOMAIN all |-> <<all[i].owner, "content">>]

\* The tiles of the stage: <<cid, kind>>, the cameras of the remotes, the local one,
\* then the independent contents.
DeriveStageTiles(streams, self, all) ==
  LET kept == SelectSeq(all, LAMBDA c : c.mode = "independent")
  IN [i \in DOMAIN streams |-> <<streams[i], "camera">>] \o << <<self, "camera">> >>
     \o [i \in DOMAIN kept |-> <<kept[i].owner, "content">>]

\* The tile in front: the pin, else the content of the primary, else the first.
PickStageSpotlight(tiles, pinned, primary) ==
  LET content == IF primary = None THEN None ELSE <<primary.owner, "content">>
  IN CASE tiles = <<>> -> None
       [] tiles # <<>> /\ Contains(tiles, pinned) -> pinned
       [] tiles # <<>> /\ ~Contains(tiles, pinned) /\ Contains(tiles, content) -> content
       [] OTHER -> tiles[1]
=============================================================================
