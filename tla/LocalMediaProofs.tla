-------------------------- MODULE LocalMediaProofs --------------------------
(***************************************************************************)
(* Proofs about LocalMedia: however the operations of a tab interleave, no *)
(* microphone is left open that the local stream does not hold, and the    *)
(* state of the tab stays typed.                                           *)
(*                                                                         *)
(* The operations are functions from tab to tab.  Those on tracks, flags   *)
(* and peers give a Quieter tab: no microphone is opened and no call       *)
(* moves.  Those of the camera and the shares Move one call, away from the *)
(* microphone.  Only a start, a refresh of the microphone and the end of   *)
(* everything need the invariant's parts one by one.                       *)
(***************************************************************************)
EXTENDS LocalMedia, FiniteSetTheorems, WellFoundedInduction, TLAPS

\* The types of the tab's fields; 0 is no track, and no call.
TrackIds == 0..MaxTracks
CallIds == 0..MaxCalls
Slots == {"audio", "video", "content"}
Operations == {"none", "start", "release", "reacquire", "flip", "recover", "audio",
               "share", "unshare"}
Places == {"none", "media", "camera", "mic", "display", "devices", "swap", "micswap",
           "share", "detach", "attach", "attached"}

TrackType == [kind : {"none", "mic", "camera", "display"}, live : BOOLEAN, on : BOOLEAN]
ChainType == [slot : Slots, track : TrackIds, call : CallIds]
PeerType ==
  [here : BOOLEAN, bound : BOOLEAN, audio : TrackIds, video : TrackIds, content : TrackIds,
   pending : BOOLEAN, owed : BOOLEAN, missed : BOOLEAN, chain : Seq(ChainType)]
CallType ==
  [op : Operations, at : Places, next : TrackIds, prev : TrackIds, left : Int,
   request : Nat, viable : BOOLEAN]

TabType ==
  [independent : BOOLEAN, owner : BOOLEAN, track : [Tracks -> TrackType],
   up : BOOLEAN, audio : TrackIds, video : TrackIds, screen : TrackIds, content : TrackIds,
   sharing : BOOLEAN, restore : {"none", "on", "off"}, stopping : BOOLEAN,
   requesting : BOOLEAN, starting : CallIds, request : Nat,
   cameraBusy : BOOLEAN, audioBusy : BOOLEAN, destroyed : BOOLEAN,
   wanted : BOOLEAN, said : BOOLEAN, peer : [Peers -> PeerType], call : [Calls -> CallType]]

-----------------------------------------------------------------------------
(***************************************************************************)
(* The inductive invariant.                                                *)
(***************************************************************************)
OpenMic(s, t) == s.track[t].live /\ s.track[t].kind = "mic"
AtMic(s, c) == s.call[c].at \in {"mic", "micswap"}
Swapped(s, c, t) == s.call[c].at = "micswap" /\ s.call[c].prev = t

\* Every open microphone is the stream's, or the one a swap under way will stop.
MicsHeld(s) ==
  \A t \in Tracks : OpenMic(s, t) => (s.up /\ t = s.audio) \/ \E c \in Calls : Swapped(s, c, t)

\* audioRecoveryInFlight lets one call at a time refresh the microphone.
OneRefresh(s) ==
  \A c \in Calls : AtMic(s, c) => s.audioBusy /\ \A d \in Calls : AtMic(s, d) => d = c

\* A refresh whose request is not stale is about to replace the stream's microphone.
RefreshCurrent(s) ==
  \A c \in Calls : s.call[c].at = "mic" /\ s.call[c].request = s.request =>
    s.up /\ s.call[c].prev = s.audio

\* A start whose request is not stale is the only one, and finds no stream.
StartCurrent(s) ==
  \A c \in Calls : s.call[c].at = "media" /\ s.call[c].request = s.request =>
    /\ ~s.up
    /\ \A d \in Calls : s.call[d].at = "media" /\ s.call[d].request = s.request => d = c

RequestsIssued(s) == \A c \in Calls : s.call[c].request <= s.request
IdleNowhere(s) == \A c \in Calls : s.call[c].op = "none" => s.call[c].at = "none"

Good(s) ==
  /\ s \in TabType
  /\ MicsHeld(s) /\ OneRefresh(s) /\ RefreshCurrent(s) /\ StartCurrent(s)
  /\ RequestsIssued(s) /\ IdleNowhere(s)

Inv == Good(tab) /\ budget \in [Budgets -> Nat]

-----------------------------------------------------------------------------
(***************************************************************************)
(* The tab with one of its functions replaced.                             *)
(***************************************************************************)
SameStream(s, r) ==
  /\ (r.up <=> s.up) /\ r.audio = s.audio /\ r.video = s.video /\ r.content = s.content
  /\ r.request = s.request /\ (r.audioBusy <=> s.audioBusy)

SameFlags(s, r) ==
  /\ (r.independent <=> s.independent) /\ (r.owner <=> s.owner) /\ (r.sharing <=> s.sharing)
  /\ (r.stopping <=> s.stopping) /\ (r.requesting <=> s.requesting)
  /\ (r.cameraBusy <=> s.cameraBusy) /\ (r.destroyed <=> s.destroyed)
  /\ r.screen = s.screen /\ r.starting = s.starting

LEMMA WithCall ==
  ASSUME NEW s \in TabType, NEW k \in [Calls -> CallType]
  PROVE  LET r == [s EXCEPT !.call = k]
         IN  /\ r \in TabType /\ r.call = k /\ r.track = s.track /\ r.peer = s.peer
             /\ SameStream(s, r) /\ SameFlags(s, r)
BY DEF TabType, SameStream, SameFlags

LEMMA WithTrack ==
  ASSUME NEW s \in TabType, NEW k \in [Tracks -> TrackType]
  PROVE  LET r == [s EXCEPT !.track = k]
         IN  /\ r \in TabType /\ r.track = k /\ r.call = s.call /\ r.peer = s.peer
             /\ SameStream(s, r) /\ SameFlags(s, r)
BY DEF TabType, SameStream, SameFlags

LEMMA WithPeer ==
  ASSUME NEW s \in TabType, NEW k \in [Peers -> PeerType]
  PROVE  LET r == [s EXCEPT !.peer = k]
         IN  /\ r \in TabType /\ r.peer = k /\ r.call = s.call /\ r.track = s.track
             /\ SameStream(s, r) /\ SameFlags(s, r)
BY DEF TabType, SameStream, SameFlags

-----------------------------------------------------------------------------
(***************************************************************************)
(* The steps the invariant survives.                                       *)
(***************************************************************************)
\* A step that opens no microphone and moves no call.
SameCall(a, b) ==
  /\ a.op = b.op /\ a.prev = b.prev /\ a.request = b.request
  /\ a.at = b.at \/ (a.at = "attach" /\ b.at = "attached")

SameMic(s, r) ==
  /\ r.up <=> s.up
  /\ r.audio = s.audio /\ r.request = s.request

Quieter(s, r) ==
  /\ r \in TabType
  /\ SameMic(s, r) /\ (r.audioBusy <=> s.audioBusy)
  /\ \A t \in Tracks : OpenMic(r, t) => OpenMic(s, t)
  /\ \A c \in Calls : SameCall(s.call[c], r.call[c])

\* A step that opens no microphone and moves the call c, away from the microphone.
Moved(s, r, c) ==
  /\ r \in TabType
  /\ SameMic(s, r)
  /\ (r.audioBusy <=> s.audioBusy) \/ AtMic(s, c)
  /\ \A t \in Tracks : OpenMic(r, t) => OpenMic(s, t) /\ ~Swapped(s, c, t)
  /\ \A d \in Calls \ {c} : SameCall(s.call[d], r.call[d])
  /\ r.call[c].at \notin {"mic", "micswap", "media"}
  /\ r.call[c].op = "none" => r.call[c].at = "none"
  /\ r.call[c].request <= r.request

LEMMA QuieterGood ==
  ASSUME NEW s, Good(s), NEW r, Quieter(s, r)
  PROVE  Good(r)
<1>1. MicsHeld(r)
  BY DEF Good, Quieter, SameMic, SameCall, MicsHeld, Swapped
<1>2. OneRefresh(r)
  BY DEF Good, Quieter, SameMic, SameCall, OneRefresh, AtMic
<1>3. RefreshCurrent(r)
  BY DEF Good, Quieter, SameMic, SameCall, RefreshCurrent
<1>4. StartCurrent(r)
  BY DEF Good, Quieter, SameMic, SameCall, StartCurrent
<1>5. RequestsIssued(r)
  BY DEF Good, Quieter, SameMic, SameCall, RequestsIssued
<1>6. IdleNowhere(r)
  BY DEF Good, Quieter, SameMic, SameCall, IdleNowhere
<1>7. QED
  BY <1>1, <1>2, <1>3, <1>4, <1>5, <1>6 DEF Good, Quieter

LEMMA MovedGood ==
  ASSUME NEW s, Good(s), NEW r, NEW c \in Calls, Moved(s, r, c)
  PROVE  Good(r)
<1>1. MicsHeld(r)
  BY DEF Good, Moved, SameMic, SameCall, MicsHeld, Swapped
<1>2. OneRefresh(r)
  BY DEF Good, Moved, SameMic, SameCall, OneRefresh, AtMic
<1>3. RefreshCurrent(r)
  BY DEF Good, Moved, SameMic, SameCall, RefreshCurrent
<1>4. StartCurrent(r)
  BY DEF Good, Moved, SameMic, SameCall, StartCurrent
<1>5. RequestsIssued(r)
  BY DEF Good, Moved, SameMic, SameCall, RequestsIssued
<1>6. IdleNowhere(r)
  BY DEF Good, Moved, SameMic, SameCall, IdleNowhere
<1>7. QED
  BY <1>1, <1>2, <1>3, <1>4, <1>5, <1>6 DEF Good, Moved

-----------------------------------------------------------------------------
\* Everything but the peers and what the calls await is the same.
SameCalls(s, r) ==
  \A c \in Calls : /\ r.call[c].op = s.call[c].op /\ r.call[c].at = s.call[c].at
                   /\ r.call[c].next = s.call[c].next /\ r.call[c].prev = s.call[c].prev
                   /\ r.call[c].request = s.call[c].request

PeersOnly(s, r) ==
  /\ r \in TabType /\ r.track = s.track
  /\ SameStream(s, r) /\ SameFlags(s, r) /\ SameCalls(s, r)

LEMMA PeersOnlyQuieter ==
  ASSUME NEW s, NEW r, PeersOnly(s, r)
  PROVE  Quieter(s, r)
BY DEF PeersOnly, Quieter, SameMic, SameStream, SameCalls, SameCall, OpenMic

LEMMA PeersOnlyTransitive ==
  ASSUME NEW s, NEW q, NEW r, PeersOnly(s, q), PeersOnly(q, r)
  PROVE  PeersOnly(s, r)
BY DEF PeersOnly, SameStream, SameFlags, SameCalls

LEMMA PeersOnlyReflexive ==
  ASSUME NEW s \in TabType
  PROVE  PeersOnly(s, s)
BY DEF PeersOnly, SameStream, SameFlags, SameCalls

LEMMA PeersChange ==
  ASSUME NEW s \in TabType, NEW k \in [Peers -> PeerType]
  PROVE  PeersOnly(s, [s EXCEPT !.peer = k])
BY WithPeer DEF PeersOnly, SameCalls

LEMMA PeerChange ==
  ASSUME NEW s \in TabType, NEW p \in Peers, NEW pr \in PeerType
  PROVE  PeersOnly(s, [s EXCEPT !.peer[p] = pr])
<1> DEFINE k == [s.peer EXCEPT ![p] = pr]
<1>1. k \in [Peers -> PeerType]
  BY DEF TabType
<1>2. [s EXCEPT !.peer[p] = pr] = [s EXCEPT !.peer = k]
  OBVIOUS
<1> HIDE DEF k
<1>3. QED
  BY <1>1, <1>2, PeersChange

LEMMA LeftChange ==
  ASSUME NEW s \in TabType, NEW c \in Calls, NEW n \in Int
  PROVE  PeersOnly(s, [s EXCEPT !.call[c].left = n])
<1> DEFINE x == [s.call[c] EXCEPT !.left = n]
           k == [s.call EXCEPT ![c] = x]
<1>1. s.call \in [Calls -> CallType]
  BY DEF TabType
<1>2. /\ x \in CallType /\ x.op = s.call[c].op /\ x.at = s.call[c].at
      /\ x.next = s.call[c].next /\ x.prev = s.call[c].prev /\ x.request = s.call[c].request
  BY <1>1 DEF CallType
<1>3. [s EXCEPT !.call[c].left = n] = [s EXCEPT !.call = k]
  OBVIOUS
<1> HIDE DEF x
<1>4. k \in [Calls -> CallType] /\ k[c] = x /\ \A d \in Calls \ {c} : k[d] = s.call[d]
  BY <1>1, <1>2
<1> HIDE DEF k
<1>5. QED
  BY <1>1, <1>2, <1>3, <1>4, WithCall DEF PeersOnly, SameCalls

LEMMA CountType ==
  ASSUME NEW ps, ps \subseteq Peers
  PROVE  Cardinality(ps) \in Nat
BY LocalMediaAssumption, FS_Subset, FS_CardinalityType DEF LocalMediaAssumption

LEMMA ReplacePeers ==
  ASSUME NEW s \in TabType, NEW c \in CallIds, NEW ps, ps \subseteq Peers,
         NEW slot \in Slots, NEW t \in TrackIds
  PROVE  PeersOnly(s, Replace(s, c, ps, slot, t))
<1> DEFINE item == [slot |-> slot, track |-> t, call |-> c]
           k == [p \in Peers |-> IF p \in ps THEN [s.peer[p] EXCEPT !.chain = Append(@, item)]
                                 ELSE s.peer[p]]
           chained == [s EXCEPT !.peer = k]
<1>1. item \in ChainType
  BY DEF ChainType
<1>2. s.peer \in [Peers -> PeerType]
  BY DEF TabType
<1> HIDE DEF item
<1>3. k \in [Peers -> PeerType]
  <2> SUFFICES ASSUME NEW p \in Peers PROVE k[p] \in PeerType
    OBVIOUS
  <2>1. s.peer[p].chain \in Seq(ChainType)
    BY <1>2 DEF PeerType
  <2>2. Append(s.peer[p].chain, item) \in Seq(ChainType)
    BY <1>1, <2>1
  <2>3. QED
    BY <1>2, <2>2 DEF PeerType
<1> HIDE DEF k
<1>4. PeersOnly(s, chained)
  BY <1>3, PeersChange
<1>5. c # 0 => PeersOnly(chained, [chained EXCEPT !.call[c].left = @ + Cardinality(ps)])
  <2> SUFFICES ASSUME c # 0 PROVE PeersOnly(chained, [chained EXCEPT !.call[c].left = @ + Cardinality(ps)])
    OBVIOUS
  <2>1. c \in Calls
    BY DEF Calls, CallIds
  <2>2. chained \in TabType
    BY <1>4 DEF PeersOnly
  <2>3. chained.call[c].left + Cardinality(ps) \in Int
    BY <2>1, <2>2, CountType DEF TabType, CallType
  <2> HIDE DEF chained
  <2>4. QED
    BY <2>1, <2>2, <2>3, LeftChange
<1>6. Replace(s, c, ps, slot, t) =
        IF c = 0 THEN chained ELSE [chained EXCEPT !.call[c].left = @ + Cardinality(ps)]
  BY DEF Replace, item, k
<1> HIDE DEF chained
<1>7. QED
  BY <1>4, <1>5, <1>6, PeersOnlyTransitive

LEMMA StreamType ==
  ASSUME NEW s \in TabType
  PROVE  /\ s.audio \in TrackIds /\ s.video \in TrackIds /\ s.screen \in TrackIds
         /\ s.content \in TrackIds /\ None \in TrackIds /\ 0 \in CallIds
BY LocalMediaAssumption DEF TabType, TrackIds, None, CallIds, LocalMediaAssumption

LEMMA ChainedType ==
  ASSUME NEW pr \in PeerType, NEW slot \in Slots, NEW t \in TrackIds
  PROVE  Chained(pr, slot, t) \in PeerType
<1> DEFINE item == [slot |-> slot, track |-> t, call |-> 0]
<1>1. item \in ChainType
  BY LocalMediaAssumption DEF ChainType, CallIds, LocalMediaAssumption
<1>2. Chained(pr, slot, t) = [pr EXCEPT !.chain = Append(@, item)]
  BY DEF Chained
<1> HIDE DEF item
<1>3. Append(pr.chain, item) \in Seq(ChainType)
  BY <1>1 DEF PeerType
<1>4. QED
  BY <1>2, <1>3 DEF PeerType

LEMMA AudioAttachedType ==
  ASSUME NEW s \in TabType, NEW pr \in PeerType
  PROVE  AudioAttached(s, pr) \in PeerType
BY ChainedType, StreamType DEF AudioAttached, Slots

LEMMA PendingAttachedType ==
  ASSUME NEW s \in TabType, NEW pr \in PeerType
  PROVE  PendingAttached(s, pr) \in PeerType
<1> DEFINE a == IF pr.bound /\ Live(s, s.video) /\ pr.video # s.video
                THEN Chained(pr, "video", s.video) ELSE pr
           b == [a EXCEPT !.pending = FALSE]
           d == Chained(b, "content", s.content)
<1>1. a \in PeerType
  BY ChainedType, StreamType DEF Slots
<1>2. PendingAttached(s, pr) \in {a, b, d}
  BY DEF PendingAttached
<1> HIDE DEF a
<1>3. b \in PeerType
  BY <1>1 DEF PeerType
<1> HIDE DEF b
<1>4. d \in PeerType
  BY <1>3, ChainedType, StreamType DEF Slots
<1>5. QED
  BY <1>1, <1>2, <1>3, <1>4

LEMMA PeerTyped ==
  ASSUME NEW s \in TabType, NEW p \in Peers
  PROVE  s.peer[p] \in PeerType
BY DEF TabType

LEMMA AttachPendingPeers ==
  ASSUME NEW s \in TabType, NEW p \in Peers
  PROVE  PeersOnly(s, AttachPending(s, p))
BY PeerTyped, PendingAttachedType, PeerChange DEF AttachPending

LEMMA AttachAblePeers ==
  ASSUME NEW s \in TabType, NEW ps
  PROVE  PeersOnly(s, AttachAble(s, ps))
<1> DEFINE k == [p \in Peers |-> IF p \in ps THEN PendingAttached(s, AudioAttached(s, s.peer[p]))
                                             ELSE s.peer[p]]
<1>1. k \in [Peers -> PeerType]
  BY PeerTyped, PendingAttachedType, AudioAttachedType
<1>2. AttachAble(s, ps) = [s EXCEPT !.peer = k]
  BY DEF AttachAble
<1> HIDE DEF k
<1>3. QED
  BY <1>1, <1>2, PeersChange

LEMMA ReplaceVideoPeers ==
  ASSUME NEW s \in TabType, NEW c \in CallIds, NEW t \in TrackIds
  PROVE  PeersOnly(s, ReplaceVideoOnAllPeers(s, c, t))
<1> DEFINE ps == {p \in Here(s) : IF Capable(s, p) THEN s.peer[p].bound
                                  ELSE ~(s.independent /\ s.sharing)}
<1>1. ReplaceVideoOnAllPeers(s, c, t) = Replace(s, c, ps, "video", t)
  BY DEF ReplaceVideoOnAllPeers
<1>2. ps \subseteq Peers
  BY DEF Here
<1> HIDE DEF ps
<1>3. QED
  BY <1>1, <1>2, ReplacePeers DEF Slots

LEMMA NoPeerType == NoPeer \in PeerType
BY LocalMediaAssumption DEF NoPeer, PeerType, None, TrackIds, LocalMediaAssumption

LEMMA CreatePeerPeers ==
  ASSUME NEW s \in TabType, NEW p \in Peers
  PROVE  PeersOnly(s, CreatePeer(s, p))
<1> DEFINE x == [NoPeer EXCEPT !.here = TRUE]
           y == [NoPeer EXCEPT !.here = TRUE, !.bound = TRUE, !.audio = s.audio,
                   !.video = IF Live(s, s.video) THEN s.video ELSE None,
                   !.pending = s.content # None]
           z == [NoPeer EXCEPT !.here = TRUE, !.audio = s.audio, !.video = s.video]
<1>1. x \in PeerType
  BY NoPeerType DEF PeerType
<1>2. y \in PeerType
  <2> DEFINE v == IF Live(s, s.video) THEN s.video ELSE None
             n == s.content # None
  <2>1. v \in TrackIds /\ n \in BOOLEAN
    BY StreamType
  <2>2. y = [NoPeer EXCEPT !.here = TRUE, !.bound = TRUE, !.audio = s.audio,
                   !.video = v, !.pending = n]
    OBVIOUS
  <2> HIDE DEF v, n
  <2>3. QED
    BY <2>1, <2>2, NoPeerType, StreamType DEF PeerType
<1>3. z \in PeerType
  BY NoPeerType, StreamType DEF PeerType
<1> DEFINE sx == [s EXCEPT !.peer[p] = x]
           sy == [s EXCEPT !.peer[p] = y]
           sz == [s EXCEPT !.peer[p] = z]
<1>4. CreatePeer(s, p) \in {sx, AttachPending(sy, p), sz, Replace(sz, 0, {p}, "video", s.content)}
  BY DEF CreatePeer
<1> HIDE DEF x, y, z
<1>5. PeersOnly(s, sx) /\ PeersOnly(s, sy) /\ PeersOnly(s, sz)
  BY <1>1, <1>2, <1>3, PeerChange
<1> HIDE DEF sx, sy, sz
<1>6. sy \in TabType /\ sz \in TabType
  BY <1>5 DEF PeersOnly
<1>7. PeersOnly(sy, AttachPending(sy, p))
  BY <1>6, AttachPendingPeers
<1>8. PeersOnly(sz, Replace(sz, 0, {p}, "video", s.content))
  BY <1>6, StreamType, ReplacePeers DEF Slots
<1>9. QED
  BY <1>4, <1>5, <1>7, <1>8, PeersOnlyTransitive

LEMMA BindRolesPeers ==
  ASSUME NEW s \in TabType, NEW p \in Peers
  PROVE  PeersOnly(s, BindRoles(s, p))
<1> DEFINE a == IF s.up THEN [s EXCEPT !.peer[p] = AudioAttached(s, @)] ELSE s
           b == [a EXCEPT !.peer[p].bound = TRUE]
<1>1. PeersOnly(s, a)
  BY PeerTyped, AudioAttachedType, PeerChange, PeersOnlyReflexive
<1>2. BindRoles(s, p) = AttachPending(b, p)
  BY DEF BindRoles
<1> HIDE DEF a
<1>3. a \in TabType
  BY <1>1 DEF PeersOnly
<1>4. [a.peer[p] EXCEPT !.bound = TRUE] \in PeerType
  BY <1>3, PeerTyped DEF PeerType
<1>5. PeersOnly(a, b)
  BY <1>3, <1>4, PeerChange
<1>6. b \in TabType
  BY <1>5 DEF PeersOnly
<1> HIDE DEF b
<1>7. QED
  BY <1>1, <1>2, <1>5, <1>6, AttachPendingPeers, PeersOnlyTransitive

LEMMA ViableChange ==
  ASSUME NEW s \in TabType, NEW c \in Calls
  PROVE  PeersOnly(s, [s EXCEPT !.call[c].viable = TRUE])
<1> DEFINE x == [s.call[c] EXCEPT !.viable = TRUE]
           k == [s.call EXCEPT ![c] = x]
<1>1. s.call \in [Calls -> CallType]
  BY DEF TabType
<1>2. /\ x \in CallType /\ x.op = s.call[c].op /\ x.at = s.call[c].at
      /\ x.next = s.call[c].next /\ x.prev = s.call[c].prev /\ x.request = s.call[c].request
  BY <1>1 DEF CallType
<1>3. [s EXCEPT !.call[c].viable = TRUE] = [s EXCEPT !.call = k]
  OBVIOUS
<1> HIDE DEF x
<1>4. k \in [Calls -> CallType] /\ k[c] = x /\ \A d \in Calls \ {c} : k[d] = s.call[d]
  BY <1>1, <1>2
<1> HIDE DEF k
<1>5. QED
  BY <1>1, <1>2, <1>3, <1>4, WithCall DEF PeersOnly, SameCalls

LEMMA SettledPeers ==
  ASSUME NEW s \in TabType, NEW op \in ChainType
  PROVE  PeersOnly(s, Settled(s, op))
<1>1. CASE op.call = 0
  BY <1>1, PeersOnlyReflexive DEF Settled
<1>2. CASE op.call # 0
  <2> DEFINE c == op.call
  <2>1. c \in Calls
    BY <1>2 DEF ChainType, CallIds, Calls
  <2>2. Settled(s, op) = [s EXCEPT !.call[c].left = @ - 1]
    BY <1>2 DEF Settled
  <2> HIDE DEF c
  <2>3. s.call[c].left - 1 \in Int
    BY <2>1 DEF TabType, CallType
  <2>4. QED
    BY <2>1, <2>2, <2>3, LeftChange
<1>3. QED
  BY <1>1, <1>2

LEMMA HeadType ==
  ASSUME NEW s \in TabType, NEW p \in Peers, s.peer[p].chain # <<>>
  PROVE  /\ Head(s.peer[p].chain) \in ChainType
         /\ [s.peer[p] EXCEPT !.chain = Tail(@)] \in PeerType
<1>1. s.peer[p].chain \in Seq(ChainType)
  BY PeerTyped DEF PeerType
<1>2. Head(s.peer[p].chain) \in ChainType /\ Tail(s.peer[p].chain) \in Seq(ChainType)
  BY <1>1
<1>3. QED
  BY <1>2, PeerTyped DEF PeerType

LEMMA ApplyPeers ==
  ASSUME NEW s \in TabType, NEW p \in Peers, s.peer[p].chain # <<>>
  PROVE  PeersOnly(s, Apply(s, p))
<1> DEFINE op == Head(s.peer[p].chain)
           x == [s.peer[p] EXCEPT !.chain = Tail(@)]
           a == [s EXCEPT !.peer[p] = x]
           b == CASE op.slot = "audio" -> [a EXCEPT !.peer[p].audio = op.track]
                  [] op.slot = "video" -> [a EXCEPT !.peer[p].video = op.track]
                  [] op.slot = "content" -> [a EXCEPT !.peer[p].content = op.track]
           d == IF op.call # 0 /\ s.call[op.call].at = "share"
                THEN [b EXCEPT !.call[op.call].viable = TRUE] ELSE b
<1>1. op \in ChainType /\ x \in PeerType
  BY HeadType
<1>2. Apply(s, p) = Settled(d, op)
  <2>1. [s EXCEPT !.peer[p].chain = Tail(@)] = a
    OBVIOUS
  <2>2. QED
    BY <2>1 DEF Apply
<1> HIDE DEF op, x
<1>3. PeersOnly(s, a)
  BY <1>1, PeerChange
<1> HIDE DEF a
<1>4. a \in TabType
  BY <1>3 DEF PeersOnly
<1>5. PeersOnly(a, b)
  <2>1. a.peer[p] \in PeerType
    BY <1>4, PeerTyped
  <2>2. /\ [a.peer[p] EXCEPT !.audio = op.track] \in PeerType
        /\ [a.peer[p] EXCEPT !.video = op.track] \in PeerType
        /\ [a.peer[p] EXCEPT !.content = op.track] \in PeerType
    BY <1>1, <2>1 DEF PeerType, ChainType
  <2>3. /\ PeersOnly(a, [a EXCEPT !.peer[p].audio = op.track])
        /\ PeersOnly(a, [a EXCEPT !.peer[p].video = op.track])
        /\ PeersOnly(a, [a EXCEPT !.peer[p].content = op.track])
    BY <1>4, <2>2, PeerChange
  <2>4. op.slot \in {"audio", "video", "content"}
    BY <1>1 DEF ChainType, Slots
  <2>5. QED
    BY <2>3, <2>4
<1> HIDE DEF b
<1>6. b \in TabType
  BY <1>5 DEF PeersOnly
<1>7. PeersOnly(b, d)
  <2>1. CASE op.call = 0
    BY <1>6, <2>1, PeersOnlyReflexive
  <2>2. CASE op.call # 0
    <3>1. op.call \in Calls
      BY <1>1, <2>2 DEF ChainType, CallIds, Calls
    <3>2. QED
      BY <1>6, <3>1, ViableChange, PeersOnlyReflexive
  <2>3. QED
    BY <2>1, <2>2
<1> HIDE DEF d
<1>8. d \in TabType
  BY <1>7 DEF PeersOnly
<1>9. PeersOnly(d, Settled(d, op))
  BY <1>1, <1>8, SettledPeers
<1>10. QED
  BY <1>2, <1>3, <1>5, <1>7, <1>9, PeersOnlyTransitive

LEMMA RejectPeers ==
  ASSUME NEW s \in TabType, NEW p \in Peers, s.peer[p].chain # <<>>
  PROVE  PeersOnly(s, Reject(s, p))
<1> DEFINE op == Head(s.peer[p].chain)
           x == [s.peer[p] EXCEPT !.chain = Tail(@)]
           a == [s EXCEPT !.peer[p] = x]
           n == op.slot = "content" /\ op.track # None
           y == [a.peer[p] EXCEPT !.missed = TRUE]
           z == [a.peer[p] EXCEPT !.owed = TRUE, !.pending = @ \/ n]
           b == IF ~Capable(s, p) \/ op.slot = "audio" THEN [a EXCEPT !.peer[p] = y]
                ELSE [a EXCEPT !.peer[p] = z]
<1>1. op \in ChainType /\ x \in PeerType
  BY HeadType
<1>2. PeersOnly(s, a)
  <2> HIDE DEF x
  <2>1. QED
    BY <1>1, PeerChange
<1>3. a \in TabType
  BY <1>2 DEF PeersOnly
<1>4. Reject(s, p) = Settled(b, op)
  <2>1. [s EXCEPT !.peer[p].chain = Tail(@)] = a
    OBVIOUS
  <2> DEFINE w == [a EXCEPT !.peer[p].owed = TRUE,
                    !.peer[p].pending = @ \/ (op.slot = "content" /\ op.track # None)]
  <2>2. Reject(s, p) = Settled(IF ~Capable(s, p) \/ op.slot = "audio"
                               THEN [a EXCEPT !.peer[p].missed = TRUE] ELSE w, op)
    BY <2>1 DEF Reject
  <2>3. [a EXCEPT !.peer[p].missed = TRUE] = [a EXCEPT !.peer[p] = y]
    OBVIOUS
  <2>4. w = [a EXCEPT !.peer[p] = z]
    <3> HIDE DEF a, op
    <3>1. a.peer[p] \in PeerType /\ a.peer \in [Peers -> PeerType]
      BY <1>3 DEF TabType
    <3>2. QED
      BY <1>3, <3>1 DEF TabType, PeerType
  <2>5. QED
    BY <2>2, <2>3, <2>4
<1> HIDE DEF x, a
<1>5. a.peer[p] \in PeerType
  BY <1>3, PeerTyped
<1>6. n \in BOOLEAN
  OBVIOUS
<1> HIDE DEF op, n
<1>7. y \in PeerType /\ z \in PeerType
  BY <1>5, <1>6 DEF PeerType
<1> HIDE DEF y, z
<1>8. PeersOnly(a, b)
  BY <1>3, <1>7, PeerChange
<1> HIDE DEF b
<1>9. b \in TabType
  BY <1>8 DEF PeersOnly
<1>10. PeersOnly(b, Settled(b, op))
  BY <1>1, <1>9, SettledPeers
<1>11. QED
  BY <1>2, <1>4, <1>8, <1>10, PeersOnlyTransitive

LEMMA RenegotiatedPeers ==
  ASSUME NEW s \in TabType, NEW p \in Peers
  PROVE  PeersOnly(s, Renegotiated(s, p))
<1> DEFINE a == [s EXCEPT !.peer[p].owed = FALSE]
<1>1. [s.peer[p] EXCEPT !.owed = FALSE] \in PeerType
  BY PeerTyped DEF PeerType
<1>2. PeersOnly(s, a)
  BY <1>1, PeerChange
<1>3. a \in TabType
  BY <1>2 DEF PeersOnly
<1>4. Renegotiated(s, p) = AttachPending(a, p)
  BY DEF Renegotiated
<1> HIDE DEF a
<1>5. QED
  BY <1>2, <1>3, <1>4, AttachPendingPeers, PeersOnlyTransitive

LEMMA CloseQuieter ==
  ASSUME NEW s \in TabType, NEW p \in Peers
  PROVE  Quieter(s, Close(s, p))
<1> DEFINE n(c) == Cardinality({i \in DOMAIN s.peer[p].chain : s.peer[p].chain[i].call = c})
           at(c) == IF s.call[c].at = "attach" /\ \A q \in Here(s) \ {p} : Capable(s, q)
                    THEN "attached" ELSE s.call[c].at
           k == [c \in Calls |-> [s.call[c] EXCEPT !.left = @ - n(c), !.at = at(c)]]
           a == [s EXCEPT !.peer[p] = NoPeer]
<1>1. Close(s, p) = [a EXCEPT !.call = k]
  BY DEF Close
<1>2. ASSUME NEW c \in Calls PROVE n(c) \in Nat
  <2>1. s.peer[p].chain \in Seq(ChainType)
    BY PeerTyped DEF PeerType
  <2>2. DOMAIN s.peer[p].chain = 1..Len(s.peer[p].chain) /\ Len(s.peer[p].chain) \in Nat
    BY <2>1
  <2>3. IsFiniteSet(DOMAIN s.peer[p].chain)
    BY <2>2, FS_Interval
  <2>4. QED
    BY <2>3, FS_Subset, FS_CardinalityType
<1>3. s.call \in [Calls -> CallType]
  BY DEF TabType
<1>4. ASSUME NEW c \in Calls
      PROVE  /\ at(c) \in Places
             /\ at(c) = s.call[c].at \/ (s.call[c].at = "attach" /\ at(c) = "attached")
  BY <1>3 DEF CallType, Places
<1> HIDE DEF n, at
<1>5. ASSUME NEW c \in Calls
      PROVE  k[c] \in CallType /\ SameCall(s.call[c], k[c])
  <2> DEFINE x == s.call[c]
             m == x.left - n(c)
             w == at(c)
  <2>1. x \in CallType /\ m \in Int /\ w \in Places /\ (w = x.at \/ (x.at = "attach" /\ w = "attached"))
    BY <1>2, <1>3, <1>4 DEF CallType
  <2>2. k[c] = [x EXCEPT !.left = m, !.at = w]
    OBVIOUS
  <2> HIDE DEF x, m, w
  <2>3. [x EXCEPT !.left = m, !.at = w] \in CallType /\ SameCall(x, [x EXCEPT !.left = m, !.at = w])
    BY <2>1 DEF CallType, SameCall
  <2>4. QED
    BY <2>2, <2>3 DEF x
<1>6. k \in [Calls -> CallType]
  BY <1>5
<1>7. \A c \in Calls : SameCall(s.call[c], k[c])
  BY <1>5
<1> HIDE DEF k
<1>8. PeersOnly(s, a)
  BY NoPeerType, PeerChange
<1>9. a \in TabType
  BY <1>8 DEF PeersOnly
<1> HIDE DEF a
<1> DEFINE r == [a EXCEPT !.call = k]
<1>10. r \in TabType /\ r.call = k /\ r.track = a.track /\ SameStream(a, r)
  BY <1>6, <1>9, WithCall
<1> HIDE DEF r
<1>11. Quieter(s, r)
  BY <1>7, <1>8, <1>10 DEF PeersOnly, Quieter, SameMic, SameStream, OpenMic
<1>12. QED
  BY <1>1, <1>11 DEF r

\* Only tracks change, and none of them becomes an open microphone.
TracksOnly(s, r) ==
  /\ r \in TabType /\ r.call = s.call /\ r.peer = s.peer
  /\ SameStream(s, r) /\ SameFlags(s, r)
  /\ \A t \in Tracks : OpenMic(r, t) => OpenMic(s, t)

LEMMA TracksOnlyQuieter ==
  ASSUME NEW s, NEW r, TracksOnly(s, r)
  PROVE  Quieter(s, r)
BY DEF TracksOnly, Quieter, SameMic, SameStream, SameCall

LEMMA TracksChange ==
  ASSUME NEW s \in TabType, NEW k \in [Tracks -> TrackType],
         \A t \in Tracks : k[t].live /\ k[t].kind = "mic" => OpenMic(s, t)
  PROVE  TracksOnly(s, [s EXCEPT !.track = k])
BY WithTrack DEF TracksOnly, OpenMic

LEMMA TrackTyped ==
  ASSUME NEW s \in TabType, NEW t \in Tracks
  PROVE  s.track[t] \in TrackType
BY DEF TabType

LEMMA TidyTracks ==
  ASSUME NEW s \in TabType
  PROVE  TracksOnly(s, Tidy(s))
<1> DEFINE k == [t \in Tracks |-> IF s.track[t].live \/ t \in Referenced(s)
                                  THEN s.track[t] ELSE NoTrack]
<1>1. NoTrack \in TrackType /\ ~NoTrack.live
  BY DEF NoTrack, TrackType
<1>2. k \in [Tracks -> TrackType]
  BY <1>1, TrackTyped
<1>3. \A t \in Tracks : k[t].live /\ k[t].kind = "mic" => OpenMic(s, t)
  BY <1>1 DEF OpenMic
<1>4. Tidy(s) = [s EXCEPT !.track = k]
  BY DEF Tidy
<1> HIDE DEF k
<1>5. QED
  BY <1>2, <1>3, <1>4, TracksChange

LEMMA CaptureTracks ==
  ASSUME NEW s \in TabType, NEW t \in Tracks, NEW kind \in {"camera", "display"},
         NEW on \in BOOLEAN
  PROVE  TracksOnly(s, Capture(s, t, kind, on))
<1> DEFINE x == [kind |-> kind, live |-> TRUE, on |-> on]
           k == [s.track EXCEPT ![t] = x]
<1>1. x \in TrackType /\ x.kind # "mic"
  BY DEF TrackType
<1>2. Capture(s, t, kind, on) = [s EXCEPT !.track = k]
  BY DEF Capture
<1>3. s.track \in [Tracks -> TrackType]
  BY DEF TabType
<1> HIDE DEF x
<1>4. k \in [Tracks -> TrackType] /\ k[t] = x /\ \A u \in Tracks \ {t} : k[u] = s.track[u]
  BY <1>1, <1>3
<1> HIDE DEF k
<1>5. \A u \in Tracks : k[u].live /\ k[u].kind = "mic" => OpenMic(s, u)
  BY <1>1, <1>4 DEF OpenMic
<1>6. QED
  BY <1>2, <1>4, <1>5, TracksChange

LEMMA StopTracks ==
  ASSUME NEW s \in TabType, NEW t \in TrackIds
  PROVE  TracksOnly(s, Stop(s, t)) /\ (t # None => ~Stop(s, t).track[t].live)
<1>1. CASE t = None
  BY <1>1 DEF Stop, TracksOnly, SameStream, SameFlags
<1>2. CASE t # None
  <2>1. t \in Tracks
    BY <1>2 DEF TrackIds, Tracks, None
  <2> DEFINE x == [s.track[t] EXCEPT !.live = FALSE]
             k == [s.track EXCEPT ![t] = x]
  <2>2. Stop(s, t) = [s EXCEPT !.track = k]
    BY <1>2 DEF Stop
  <2>3. s.track \in [Tracks -> TrackType]
    BY DEF TabType
  <2>4. x \in TrackType /\ ~x.live
    BY <2>1, <2>3 DEF TrackType
  <2> HIDE DEF x
  <2>5. k \in [Tracks -> TrackType] /\ k[t] = x /\ \A u \in Tracks \ {t} : k[u] = s.track[u]
    BY <2>1, <2>3, <2>4
  <2> HIDE DEF k
  <2>6. \A u \in Tracks : k[u].live /\ k[u].kind = "mic" => OpenMic(s, u)
    BY <2>4, <2>5 DEF OpenMic
  <2>7. TracksOnly(s, [s EXCEPT !.track = k]) /\ [s EXCEPT !.track = k].track = k
    BY <2>5, <2>6, TracksChange, WithTrack
  <2>8. ~k[t].live
    BY <2>4, <2>5
  <2> DEFINE r == [s EXCEPT !.track = k]
  <2>9. TracksOnly(s, r) /\ ~r.track[t].live
    BY <2>7, <2>8
  <2> HIDE DEF r
  <2>10. Stop(s, t) = r
    BY <2>2 DEF r
  <2>11. QED
    BY <2>9, <2>10
<1>3. QED
  BY <1>1, <1>2

-----------------------------------------------------------------------------
\* A field that is none of the microphone's changes.
Aside(s, r) ==
  /\ r \in TabType
  /\ r.track = s.track /\ r.call = s.call /\ r.peer = s.peer
  /\ SameMic(s, r) /\ (r.audioBusy <=> s.audioBusy)

LEMMA AsideQuieter ==
  ASSUME NEW s, NEW r, Aside(s, r)
  PROVE  Quieter(s, r)
BY DEF Aside, Quieter, SameCall, OpenMic

LEMMA AsideTransitive ==
  ASSUME NEW s, NEW q, NEW r, Aside(s, q), Aside(q, r)
  PROVE  Aside(s, r)
BY DEF Aside, SameMic

LEMMA FlagsAside ==
  ASSUME NEW s \in TabType, NEW b \in BOOLEAN
  PROVE  /\ Aside(s, [s EXCEPT !.sharing = b])
         /\ Aside(s, [s EXCEPT !.stopping = b])
         /\ Aside(s, [s EXCEPT !.requesting = b])
         /\ Aside(s, [s EXCEPT !.cameraBusy = b])
         /\ Aside(s, [s EXCEPT !.destroyed = b])
         /\ Aside(s, [s EXCEPT !.wanted = b])
         /\ Aside(s, [s EXCEPT !.said = b])
<1>1. Aside(s, [s EXCEPT !.sharing = b])
  BY DEF Aside, TabType, SameMic
<1>2. Aside(s, [s EXCEPT !.stopping = b])
  BY DEF Aside, TabType, SameMic
<1>3. Aside(s, [s EXCEPT !.requesting = b])
  BY DEF Aside, TabType, SameMic
<1>4. Aside(s, [s EXCEPT !.cameraBusy = b])
  BY DEF Aside, TabType, SameMic
<1>5. Aside(s, [s EXCEPT !.destroyed = b])
  BY DEF Aside, TabType, SameMic
<1>6. Aside(s, [s EXCEPT !.wanted = b])
  BY DEF Aside, TabType, SameMic
<1>7. Aside(s, [s EXCEPT !.said = b])
  BY DEF Aside, TabType, SameMic
<1>8. QED
  BY <1>1, <1>2, <1>3, <1>4, <1>5, <1>6, <1>7

LEMMA VideoAside ==
  ASSUME NEW s \in TabType, NEW t \in TrackIds
  PROVE  /\ Aside(s, [s EXCEPT !.video = t])
         /\ Aside(s, [s EXCEPT !.screen = t])
         /\ Aside(s, [s EXCEPT !.content = t])
<1>1. Aside(s, [s EXCEPT !.video = t])
  BY DEF Aside, TabType, SameMic
<1>2. Aside(s, [s EXCEPT !.screen = t])
  BY DEF Aside, TabType, SameMic
<1>3. Aside(s, [s EXCEPT !.content = t])
  BY DEF Aside, TabType, SameMic
<1>4. QED
  BY <1>1, <1>2, <1>3

LEMMA RestoreAside ==
  ASSUME NEW s \in TabType, NEW how \in {"none", "on", "off"}
  PROVE  Aside(s, [s EXCEPT !.restore = how])
BY DEF Aside, TabType, SameMic

LEMMA StartingAside ==
  ASSUME NEW s \in TabType, NEW c \in CallIds
  PROVE  Aside(s, [s EXCEPT !.starting = c])
BY DEF Aside, TabType, SameMic

-----------------------------------------------------------------------------
\* A step that touches the call c only: it keeps its operation and its request.
Touches(s, r, c) ==
  /\ r \in TabType
  /\ SameMic(s, r) /\ (r.audioBusy <=> s.audioBusy)
  /\ \A t \in Tracks : OpenMic(r, t) => OpenMic(s, t)
  /\ \A d \in Calls \ {c} : SameCall(s.call[d], r.call[d])
  /\ r.call[c].op = s.call[c].op /\ r.call[c].request = s.call[c].request

\* A step that leaves c somewhere away from the microphone, or ended.
Moves(s, r, c) ==
  /\ r \in TabType
  /\ SameMic(s, r) /\ (r.audioBusy <=> s.audioBusy)
  /\ \A t \in Tracks : OpenMic(r, t) => OpenMic(s, t)
  /\ \A d \in Calls \ {c} : SameCall(s.call[d], r.call[d])
  /\ r.call[c].at \notin {"mic", "micswap", "media"}
  /\ r.call[c].op = "none" => r.call[c].at = "none"
  /\ r.call[c].request \in {0, s.call[c].request}

Clear(s, c) == \A t \in Tracks : Swapped(s, c, t) => ~OpenMic(s, t)

LEMMA QuieterTouches ==
  ASSUME NEW s, NEW r, NEW c \in Calls, Quieter(s, r)
  PROVE  Touches(s, r, c)
BY DEF Quieter, Touches, SameCall

LEMMA TouchesTransitive ==
  ASSUME NEW s, NEW q, NEW r, NEW c \in Calls, Touches(s, q, c), Touches(q, r, c)
  PROVE  Touches(s, r, c)
BY DEF Touches, SameMic, SameCall

LEMMA TouchesMoves ==
  ASSUME NEW s, NEW q, NEW r, NEW c \in Calls, Touches(s, q, c), Moves(q, r, c)
  PROVE  Moves(s, r, c)
BY DEF Touches, Moves, SameMic, SameCall

LEMMA MovesTransitive ==
  ASSUME NEW s, NEW q, NEW r, NEW c \in Calls, Moves(s, q, c), Moves(q, r, c)
  PROVE  Moves(s, r, c)
BY DEF Moves, SameMic, SameCall

LEMMA MovesQuieter ==
  ASSUME NEW s, NEW q, NEW r, NEW c \in Calls, Moves(s, q, c), Quieter(q, r)
  PROVE  Moves(s, r, c)
BY DEF Moves, Quieter, SameMic, SameCall

LEMMA MovesGood ==
  ASSUME NEW s, Good(s), NEW r, NEW c \in Calls, Clear(s, c), Moves(s, r, c)
  PROVE  Good(r)
<1>1. r.call[c].request <= r.request
  <2>1. s.call[c].request <= s.request /\ s.request \in Nat
    BY DEF Good, RequestsIssued, TabType
  <2>2. r.request = s.request /\ r.call[c].request \in {0, s.call[c].request}
    BY DEF Moves, SameMic
  <2>3. QED
    BY <2>1, <2>2
<1>2. Moved(s, r, c)
  BY <1>1 DEF Moves, Moved, Clear
<1>3. QED
  BY <1>2, MovedGood

LEMMA CallTyped ==
  ASSUME NEW s \in TabType, NEW c \in Calls
  PROVE  s.call[c] \in CallType
BY DEF TabType

\* The call c becomes x.
LEMMA CallChange ==
  ASSUME NEW s \in TabType, NEW c \in Calls, NEW x \in CallType
  PROVE  LET r == [s EXCEPT !.call[c] = x]
         IN  /\ r \in TabType /\ r.track = s.track /\ r.peer = s.peer
             /\ SameStream(s, r) /\ SameFlags(s, r)
             /\ r.call[c] = x /\ \A d \in Calls \ {c} : r.call[d] = s.call[d]
<1> DEFINE k == [s.call EXCEPT ![c] = x]
<1>1. [s EXCEPT !.call[c] = x] = [s EXCEPT !.call = k]
  OBVIOUS
<1>2. k \in [Calls -> CallType] /\ k[c] = x /\ \A d \in Calls \ {c} : k[d] = s.call[d]
  BY DEF TabType
<1> HIDE DEF k
<1> DEFINE r == [s EXCEPT !.call = k]
<1>3. /\ r \in TabType /\ r.call = k /\ r.track = s.track /\ r.peer = s.peer
      /\ SameStream(s, r) /\ SameFlags(s, r)
  BY <1>2, WithCall
<1>4. [s EXCEPT !.call[c] = x] = r
  BY <1>1
<1> HIDE DEF r
<1>5. QED
  BY <1>2, <1>3, <1>4

LEMMA CallTouches ==
  ASSUME NEW s \in TabType, NEW c \in Calls, NEW x \in CallType,
         x.op = s.call[c].op, x.request = s.call[c].request
  PROVE  Touches(s, [s EXCEPT !.call[c] = x], c)
<1> DEFINE r == [s EXCEPT !.call[c] = x]
<1>1. /\ r \in TabType /\ r.track = s.track /\ SameStream(s, r)
      /\ r.call[c] = x /\ \A d \in Calls \ {c} : r.call[d] = s.call[d]
  BY CallChange
<1> HIDE DEF r
<1>2. Touches(s, r, c)
  BY <1>1 DEF Touches, SameStream, SameMic, SameCall, OpenMic
<1>3. QED
  BY <1>2 DEF r

LEMMA CallMoves ==
  ASSUME NEW s \in TabType, NEW c \in Calls, NEW x \in CallType,
         x.at \notin {"mic", "micswap", "media"}, x.op = "none" => x.at = "none",
         x.request \in {0, s.call[c].request}
  PROVE  Moves(s, [s EXCEPT !.call[c] = x], c)
<1> DEFINE r == [s EXCEPT !.call[c] = x]
<1>1. /\ r \in TabType /\ r.track = s.track /\ SameStream(s, r)
      /\ r.call[c] = x /\ \A d \in Calls \ {c} : r.call[d] = s.call[d]
  BY CallChange
<1> HIDE DEF r
<1>2. Moves(s, r, c)
  BY <1>1 DEF Moves, SameStream, SameMic, SameCall, OpenMic
<1>3. QED
  BY <1>2 DEF r

LEMMA NoCallType == NoCall \in CallType /\ NoCall.op = "none" /\ NoCall.at = "none"
                    /\ NoCall.request = 0
BY LocalMediaAssumption DEF NoCall, CallType, Operations, Places, TrackIds, None, LocalMediaAssumption

Away == Places \ {"mic", "micswap", "media"}

LEMMA EndMoves ==
  ASSUME NEW s \in TabType, NEW c \in Calls
  PROVE  Moves(s, End(s, c), c) /\ End(s, c).call[c].op = "none"
<1> DEFINE r == [s EXCEPT !.call[c] = NoCall]
           n == IF s.starting = c THEN 0 ELSE s.starting
<1>1. Moves(s, r, c) /\ r.call[c] = NoCall /\ r.starting = s.starting
  BY NoCallType, CallMoves, CallChange DEF SameFlags
<1>2. n \in CallIds
  BY StreamType DEF TabType
<1>3. End(s, c) = [r EXCEPT !.starting = n]
  <2>1. [r EXCEPT !.starting = n] = [r EXCEPT !.starting = IF @ = c THEN 0 ELSE @]
    BY <1>1
  <2>2. QED
    BY <2>1 DEF End
<1> HIDE DEF r, n
<1>4. Aside(r, [r EXCEPT !.starting = n])
  BY <1>1, <1>2, StartingAside DEF Moves
<1>5. Moves(s, [r EXCEPT !.starting = n], c)
  BY <1>1, <1>4, AsideQuieter, MovesQuieter
<1>6. [r EXCEPT !.starting = n].call = r.call
  BY <1>4 DEF Aside
<1>7. QED
  BY <1>1, <1>3, <1>5, <1>6, NoCallType

LEMMA AtMoves ==
  ASSUME NEW s \in TabType, NEW c \in Calls, NEW where \in Away, s.call[c].op # "none"
  PROVE  Moves(s, At(s, c, where), c)
<1> DEFINE x == [s.call[c] EXCEPT !.at = where]
<1>1. /\ x \in CallType /\ x.at = where /\ x.op = s.call[c].op /\ x.request = s.call[c].request
  BY CallTyped DEF CallType, Away
<1>2. At(s, c, where) = [s EXCEPT !.call[c] = x]
  BY DEF At
<1> HIDE DEF x
<1>3. QED
  BY <1>1, <1>2, CallMoves DEF Away

LEMMA BeginMoves ==
  ASSUME NEW s \in TabType, NEW c \in Calls, NEW op \in Operations \ {"none"}, NEW where \in Away
  PROVE  /\ Moves(s, Begin(s, c, op, where), c)
         /\ Begin(s, c, op, where).call[c].op = op
         /\ Begin(s, c, op, where).call[c].at = where
         /\ Begin(s, c, op, where).call[c].request = 0
         /\ Begin(s, c, op, where).peer = s.peer
         /\ SameStream(s, Begin(s, c, op, where)) /\ SameFlags(s, Begin(s, c, op, where))
<1> DEFINE x == [NoCall EXCEPT !.op = op, !.at = where]
           r == [s EXCEPT !.call[c] = x]
<1>1. x \in CallType /\ x.at = where /\ x.op = op /\ x.request = 0
  BY NoCallType DEF CallType, Away
<1>2. Begin(s, c, op, where) = r
  BY DEF Begin
<1> HIDE DEF x
<1>3. Moves(s, r, c) /\ r.call[c] = x /\ SameStream(s, r) /\ SameFlags(s, r) /\ r.peer = s.peer
  <2>1. Moves(s, r, c)
    BY <1>1, CallMoves DEF Away
  <2>2. QED
    BY <1>1, <2>1, CallChange
<1> HIDE DEF r
<1>4. QED
  BY <1>1, <1>2, <1>3

\* The tracks a swap goes to and from.
LEMMA NextTouches ==
  ASSUME NEW s \in TabType, NEW c \in Calls, NEW next \in TrackIds, NEW prev \in TrackIds
  PROVE  Touches(s, [s EXCEPT !.call[c].next = next, !.call[c].prev = prev], c)
<1> DEFINE x == [s.call[c] EXCEPT !.next = next, !.prev = prev]
<1>1. x \in CallType /\ x.op = s.call[c].op /\ x.request = s.call[c].request
  BY CallTyped DEF CallType
<1>2. [s EXCEPT !.call[c].next = next, !.call[c].prev = prev] = [s EXCEPT !.call[c] = x]
  <2>1. s.call \in [Calls -> CallType] /\ s.call[c] \in CallType
    BY DEF TabType
  <2>2. QED
    BY <2>1 DEF TabType, CallType
<1> HIDE DEF x
<1>3. QED
  BY <1>1, <1>2, CallTouches

LEMMA AnnounceAside ==
  ASSUME NEW s \in TabType, NEW b \in BOOLEAN
  PROVE  Aside(s, Announce(s, b))
BY FlagsAside DEF Announce

\* From an Aside step on, an ended call.
LEMMA AsideEnds ==
  ASSUME NEW s \in TabType, NEW q, Aside(s, q), NEW c \in Calls
  PROVE  Moves(s, End(q, c), c)
<1>1. q \in TabType
  BY DEF Aside
<1>2. Moves(q, End(q, c), c)
  BY <1>1, EndMoves
<1>3. QED
  BY <1>2, AsideQuieter, QuieterTouches, TouchesMoves

LEMMA FinishMoves ==
  ASSUME NEW s \in TabType, NEW c \in Calls
  PROVE  Moves(s, Finish(s, c), c)
<1> DEFINE a == [s EXCEPT !.cameraBusy = FALSE]
           b == [s EXCEPT !.sharing = TRUE]
           d == [s EXCEPT !.sharing = FALSE]
           e == [d EXCEPT !.restore = "none"]
<1>1. Aside(s, a) /\ Aside(s, b) /\ Aside(s, d)
  BY FlagsAside
<1>2. Finish(s, c) \in {End(a, c), End(Announce(b, TRUE), c), End(Announce(e, FALSE), c), End(s, c)}
  BY DEF Finish
<1>3. Aside(s, e)
  <2> HIDE DEF d
  <2>1. d \in TabType
    BY <1>1 DEF Aside
  <2>2. Aside(d, e)
    BY <2>1, RestoreAside
  <2>3. QED
    BY <1>1, <2>2, AsideTransitive
<1> HIDE DEF a, b, d, e
<1>4. a \in TabType /\ b \in TabType /\ e \in TabType
  BY <1>1, <1>3 DEF Aside
<1>5. Aside(s, Announce(b, TRUE)) /\ Aside(s, Announce(e, FALSE))
  BY <1>1, <1>3, <1>4, AnnounceAside, AsideTransitive
<1>6. QED
  BY <1>1, <1>2, <1>5, AsideEnds, EndMoves

LEMMA StopTouches ==
  ASSUME NEW s \in TabType, NEW t \in TrackIds
  PROVE  /\ Quieter(s, Stop(s, t)) /\ Stop(s, t) \in TabType /\ Stop(s, t).call = s.call
         /\ Stop(s, t).peer = s.peer /\ SameStream(s, Stop(s, t)) /\ SameFlags(s, Stop(s, t))
BY StopTracks, TracksOnlyQuieter DEF TracksOnly

LEMMA SwapMoves ==
  ASSUME NEW s \in TabType, NEW c \in Calls, NEW next \in TrackIds, NEW prev \in TrackIds,
         s.call[c].op # "none"
  PROVE  Moves(s, Swap(s, c, next, prev), c)
<1>1. CASE ~s.up
  <2> DEFINE q == IF prev # next THEN Stop(s, prev) ELSE s
  <2>1. q \in TabType /\ (q = s \/ Quieter(s, q))
    BY StopTouches
  <2>2. Swap(s, c, next, prev) = Finish(q, c)
    BY <1>1 DEF Swap
  <2> HIDE DEF q
  <2>3. Moves(q, Finish(q, c), c)
    BY <2>1, FinishMoves
  <2>4. QED
    BY <2>1, <2>2, <2>3, QuieterTouches, TouchesMoves
<1>2. CASE s.up
  <2> DEFINE a == [s EXCEPT !.video = next]
             b == [a EXCEPT !.call[c].next = next, !.call[c].prev = prev]
             d == ReplaceVideoOnAllPeers(b, c, next)
  <2>1. Swap(s, c, next, prev) = At(d, c, "swap")
    BY <1>2 DEF Swap
  <2>2. Aside(s, a)
    BY VideoAside
  <2> HIDE DEF a
  <2>3. a \in TabType
    BY <2>2 DEF Aside
  <2>4. Touches(a, b, c)
    BY <2>3, NextTouches
  <2> HIDE DEF b
  <2>5. b \in TabType
    BY <2>4 DEF Touches
  <2>6. PeersOnly(b, d)
    BY <2>5, ReplaceVideoPeers DEF Calls, CallIds
  <2> HIDE DEF d
  <2>7. d \in TabType
    BY <2>6 DEF PeersOnly
  <2>8. Touches(s, d, c)
    BY <2>2, <2>4, <2>6, AsideQuieter, PeersOnlyQuieter, QuieterTouches, TouchesTransitive
  <2>9. d.call[c].op # "none"
    BY <2>8 DEF Touches
  <2>10. Moves(d, At(d, c, "swap"), c)
    BY <2>7, <2>9, AtMoves DEF Away, Places
  <2>11. QED
    BY <2>1, <2>8, <2>10, TouchesMoves
<1>3. QED
  BY <1>1, <1>2

LEMMA ReleaseContentQuieter ==
  ASSUME NEW s \in TabType
  PROVE  Quieter(s, ReleaseContent(s)) /\ ReleaseContent(s).call = s.call
<1> DEFINE a == Stop(s, s.content)
           b == [a EXCEPT !.content = None]
           d == [b EXCEPT !.screen = None]
<1>1. Quieter(s, a) /\ a \in TabType /\ a.call = s.call
  BY StreamType, StopTouches
<1>2. ReleaseContent(s) = d
  BY DEF ReleaseContent
<1> HIDE DEF a
<1>3. Aside(a, b) /\ b \in TabType
  BY <1>1, StreamType, VideoAside DEF Aside
<1> HIDE DEF b
<1>4. Aside(b, d)
  BY <1>3, StreamType, VideoAside
<1> HIDE DEF d
<1>5. Aside(a, d)
  BY <1>3, <1>4, AsideTransitive
<1>6. Quieter(s, d)
  BY <1>1, <1>5 DEF Quieter, Aside, SameMic, OpenMic
<1>7. d.call = s.call
  BY <1>1, <1>5 DEF Aside
<1>8. QED
  BY <1>2, <1>6, <1>7

\* The end of the attach of startLocalMedia.
LEMMA AttachAllMoves ==
  ASSUME NEW s \in TabType, NEW c \in Calls, s.call[c].op # "none"
  PROVE  Moves(s, AttachAll(s, c), c)
<1> DEFINE a == AttachAble(s, {p \in Here(s) : Capable(s, p)})
           b == [a EXCEPT !.call[c].next = s.video, !.call[c].prev = None]
           ps == {p \in Here(s) : ~Capable(s, p) /\ s.peer[p].audio = None}
           d == Replace(b, c, ps, "audio", s.audio)
<1>1. AttachAll(s, c) \in {End(s, c), End(a, c), At(d, c, "attach")}
  BY DEF AttachAll
<1>2. PeersOnly(s, a)
  BY AttachAblePeers
<1>3. ps \subseteq Peers
  BY DEF Here
<1> HIDE DEF a, ps
<1>4. a \in TabType
  BY <1>2 DEF PeersOnly
<1>5. Touches(a, b, c)
  BY <1>4, StreamType, NextTouches
<1> HIDE DEF b
<1>6. b \in TabType
  BY <1>5 DEF Touches
<1>7. PeersOnly(b, d)
  BY <1>3, <1>6, StreamType, ReplacePeers DEF Slots, Calls, CallIds
<1> HIDE DEF d
<1>8. d \in TabType
  BY <1>7 DEF PeersOnly
<1>9. Touches(s, a, c) /\ Touches(s, d, c)
  BY <1>2, <1>5, <1>7, PeersOnlyQuieter, QuieterTouches, TouchesTransitive
<1>10. d.call[c].op # "none"
  BY <1>9 DEF Touches
<1>11. Moves(d, At(d, c, "attach"), c)
  BY <1>8, <1>10, AtMoves DEF Away, Places
<1>12. Moves(a, End(a, c), c) /\ Moves(s, End(s, c), c)
  BY <1>4, EndMoves
<1>13. QED
  BY <1>1, <1>9, <1>11, <1>12, TouchesMoves

LEMMA AttachVideoMoves ==
  ASSUME NEW s \in TabType, NEW c \in Calls, s.call[c].op # "none"
  PROVE  Moves(s, AttachVideo(s, c), c)
<1> DEFINE t == s.call[c].next
           ps == {p \in Here(s) : ~Capable(s, p) /\ s.peer[p].video = None /\ t # None}
           m(p) == s.peer[p].missed \/ (p \in ps /\ (t # s.video \/ s.peer[p].chain # <<>>))
           k == [p \in Peers |-> [s.peer[p] EXCEPT !.missed = m(p)]]
           a == [s EXCEPT !.peer = k]
           d == Replace(a, c, ps, "video", t)
<1>1. AttachVideo(s, c) = At(d, c, "attached")
  BY DEF AttachVideo
<1>2. \A p \in Peers : m(p) \in BOOLEAN
  BY PeerTyped DEF PeerType
<1>3. ps \subseteq Peers
  BY DEF Here
<1>4. t \in TrackIds
  BY CallTyped DEF CallType
<1> HIDE DEF t, ps, m
<1>5. k \in [Peers -> PeerType]
  BY <1>2, PeerTyped DEF PeerType
<1> HIDE DEF k
<1>6. PeersOnly(s, a)
  BY <1>5, PeersChange
<1> HIDE DEF a
<1>7. a \in TabType
  BY <1>6 DEF PeersOnly
<1>8. PeersOnly(a, d)
  BY <1>3, <1>4, <1>7, ReplacePeers DEF Slots, Calls, CallIds
<1> HIDE DEF d
<1>9. d \in TabType
  BY <1>8 DEF PeersOnly
<1>10. Touches(s, d, c)
  BY <1>6, <1>8, PeersOnlyQuieter, QuieterTouches, TouchesTransitive
<1>11. d.call[c].op # "none"
  BY <1>10 DEF Touches
<1>12. Moves(d, At(d, c, "attached"), c)
  BY <1>9, <1>11, AtMoves DEF Away, Places
<1>13. QED
  BY <1>1, <1>10, <1>12, TouchesMoves

LEMMA ShareAttachedMoves ==
  ASSUME NEW s \in TabType, NEW c \in Calls
  PROVE  Moves(s, ShareAttached(s, c), c)
<1> DEFINE q == ReleaseContent(s)
           d == [q EXCEPT !.sharing = FALSE]
<1>1. ShareAttached(s, c) \in {End(d, c), End(Announce(s, TRUE), c)}
  BY DEF ShareAttached
<1>2. Quieter(s, q)
  BY ReleaseContentQuieter
<1> HIDE DEF q
<1>3. q \in TabType
  BY <1>2 DEF Quieter
<1>4. Aside(q, d)
  BY <1>3, FlagsAside
<1> HIDE DEF d
<1>5. Moves(q, End(d, c), c)
  BY <1>3, <1>4, AsideEnds
<1>6. Moves(s, End(Announce(s, TRUE), c), c)
  BY AnnounceAside, AsideEnds
<1>7. QED
  BY <1>1, <1>2, <1>5, <1>6, QuieterTouches, TouchesMoves

LEMMA ShareDetachedMoves ==
  ASSUME NEW s \in TabType, NEW c \in Calls
  PROVE  Moves(s, ShareDetached(s, c), c)
<1> DEFINE a == [s EXCEPT !.sharing = FALSE]
           b == [a EXCEPT !.stopping = FALSE]
           d == Announce(b, FALSE)
           e == ReleaseContent(d)
<1>1. ShareDetached(s, c) = End(e, c)
  BY DEF ShareDetached
<1>2. Aside(s, a)
  BY FlagsAside
<1> HIDE DEF a
<1>3. Aside(a, b)
  BY <1>2, FlagsAside DEF Aside
<1> HIDE DEF b
<1>4. Aside(b, d)
  BY <1>3, AnnounceAside DEF Aside
<1> HIDE DEF d
<1>5. Aside(s, d) /\ d \in TabType
  BY <1>2, <1>3, <1>4, AsideTransitive DEF Aside
<1>6. Quieter(d, e)
  BY <1>5, ReleaseContentQuieter
<1> HIDE DEF e
<1>7. e \in TabType
  BY <1>6 DEF Quieter
<1>8. Moves(e, End(e, c), c)
  BY <1>7, EndMoves
<1>9. QED
  BY <1>1, <1>5, <1>6, <1>8, AsideQuieter, QuieterTouches, TouchesMoves

-----------------------------------------------------------------------------
\* The operations that begin on an idle call, and go on away from the microphone.
LEMMA ReleaseMoves ==
  ASSUME NEW s \in TabType, NEW c \in Calls
  PROVE  Release(s, c) = s \/ Moves(s, Release(s, c), c)
<1> DEFINE a == Begin(s, c, "release", "swap")
<1>1. Release(s, c) \in {s, Swap(a, c, None, s.video)}
  BY DEF Release
<1>2. Moves(s, a, c) /\ a.call[c].op = "release"
  BY BeginMoves DEF Operations, Away, Places
<1> HIDE DEF a
<1>3. a \in TabType
  BY <1>2 DEF Moves
<1>4. Moves(a, Swap(a, c, None, s.video), c)
  BY <1>2, <1>3, StreamType, SwapMoves
<1>5. QED
  BY <1>1, <1>2, <1>4, MovesTransitive

LEMMA ReacquireMoves ==
  ASSUME NEW s \in TabType, NEW c \in Calls
  PROVE  Reacquire(s, c) = s \/ Moves(s, Reacquire(s, c), c)
<1> DEFINE a == Begin(s, c, "reacquire", "camera")
           b == [a EXCEPT !.cameraBusy = TRUE]
<1>1. Reacquire(s, c) \in {s, b}
  BY DEF Reacquire
<1>2. Moves(s, a, c)
  BY BeginMoves DEF Operations, Away, Places
<1> HIDE DEF a
<1>3. Aside(a, b)
  BY <1>2, FlagsAside DEF Moves
<1> HIDE DEF b
<1>4. QED
  BY <1>1, <1>2, <1>3, AsideQuieter, MovesQuieter

LEMMA ToggleVideoMoves ==
  ASSUME NEW s \in TabType, NEW c \in Calls
  PROVE  \/ ToggleVideo(s, c) = s
         \/ Moves(s, ToggleVideo(s, c), c)
         \/ Aside(s, ToggleVideo(s, c))
<1> DEFINE on == ~(IF s.video # None THEN s.track[s.video].on ELSE s.wanted)
           t == [s EXCEPT !.wanted = on]
<1>1. ToggleVideo(s, c) \in {s, Reacquire(t, c), Release(t, c)}
  BY DEF ToggleVideo
<1>2. on \in BOOLEAN
  OBVIOUS
<1> HIDE DEF on
<1>3. Aside(s, t)
  BY <1>2, FlagsAside
<1> HIDE DEF t
<1>4. t \in TabType
  BY <1>3 DEF Aside
<1>5. \/ Reacquire(t, c) = t
      \/ Moves(t, Reacquire(t, c), c)
  BY <1>4, ReacquireMoves
<1>6. \/ Release(t, c) = t
      \/ Moves(t, Release(t, c), c)
  BY <1>4, ReleaseMoves
<1>7. QED
  BY <1>1, <1>3, <1>5, <1>6, AsideQuieter, QuieterTouches, TouchesMoves

\* A call that begins and remembers the track it is to replace.
LEMMA BeginPrevMoves ==
  ASSUME NEW s \in TabType, NEW c \in Calls, NEW op \in Operations \ {"none"},
         NEW where \in Away, NEW prev \in TrackIds
  PROVE  LET b == [Begin(s, c, op, where) EXCEPT !.call[c].prev = prev]
         IN  Moves(s, b, c) /\ b.call[c].op = op /\ b.call[c].at = where
<1> DEFINE x == [NoCall EXCEPT !.op = op, !.at = where]
           y == [x EXCEPT !.prev = prev]
           r == [s EXCEPT !.call[c] = x]
           b == [r EXCEPT !.call[c].prev = prev]
           d == [s EXCEPT !.call[c] = y]
<1>1. b = d
  <2>1. s.call \in [Calls -> CallType]
    BY DEF TabType
  <2> HIDE DEF x
  <2>2. QED
    BY <2>1 DEF TabType
<1>2. x \in CallType /\ x.at = where /\ x.op = op /\ x.request = 0
  BY NoCallType DEF CallType, Away
<1> HIDE DEF x
<1>3. y \in CallType /\ y.at = where /\ y.op = op /\ y.request = 0
  BY <1>2 DEF CallType
<1>4. [Begin(s, c, op, where) EXCEPT !.call[c].prev = prev] = b
  BY DEF Begin, x
<1> HIDE DEF b, y
<1>5. Moves(s, d, c) /\ d.call[c] = y
  <2>1. Moves(s, d, c)
    BY <1>3, CallMoves DEF Away
  <2>2. QED
    BY <1>3, <2>1, CallChange
<1> HIDE DEF d
<1>6. QED
  BY <1>1, <1>3, <1>4, <1>5

LEMMA FlipCameraMoves ==
  ASSUME NEW s \in TabType, NEW c \in Calls
  PROVE  FlipCamera(s, c) = s \/ Moves(s, FlipCamera(s, c), c)
<1>1. FlipCamera(s, c) \in {s, [Begin(s, c, "flip", "camera") EXCEPT !.call[c].prev = s.video]}
  BY DEF FlipCamera
<1>2. Moves(s, [Begin(s, c, "flip", "camera") EXCEPT !.call[c].prev = s.video], c)
  BY StreamType, BeginPrevMoves DEF Operations, Away, Places
<1>3. QED
  BY <1>1, <1>2

LEMMA RefreshVideoMoves ==
  ASSUME NEW s \in TabType, NEW c \in Calls, NEW forced \in BOOLEAN
  PROVE  RefreshVideo(s, c, forced) = s \/ Moves(s, RefreshVideo(s, c, forced), c)
<1> DEFINE a == Begin(s, c, "recover", "camera")
           b == [a EXCEPT !.call[c].prev = s.video]
           d == [b EXCEPT !.cameraBusy = TRUE]
<1>1. RefreshVideo(s, c, forced) \in {s, d}
  <2>1. a \in TabType
    BY BeginMoves DEF Moves, Operations, Away, Places
  <2>2. [a EXCEPT !.cameraBusy = TRUE, !.call[c].prev = s.video] = d
    <3> HIDE DEF a
    <3>1. QED
      BY <2>1 DEF TabType
  <2> HIDE DEF d
  <2>3. QED
    BY <2>2 DEF RefreshVideo
<1>2. Moves(s, b, c)
  BY StreamType, BeginPrevMoves DEF Operations, Away, Places
<1> HIDE DEF b
<1>3. Aside(b, d)
  BY <1>2, FlagsAside DEF Moves
<1> HIDE DEF d
<1>4. QED
  BY <1>1, <1>2, <1>3, AsideQuieter, MovesQuieter

LEMMA ShareScreenMoves ==
  ASSUME NEW s \in TabType, NEW c \in Calls
  PROVE  ShareScreen(s, c) = s \/ Moves(s, ShareScreen(s, c), c)
BY BeginMoves DEF ShareScreen, Operations, Away, Places

LEMMA UnshareLegacyMoves ==
  ASSUME NEW s \in TabType, NEW c \in Calls
  PROVE  \/ UnshareLegacy(s, c) = s
         \/ Moves(s, UnshareLegacy(s, c), c)
         \/ Aside(s, UnshareLegacy(s, c))
<1> DEFINE u == [s EXCEPT !.sharing = FALSE]
           v == [u EXCEPT !.restore = "none"]
           w == Announce(v, FALSE)
           a == [Begin(s, c, "unshare", "camera") EXCEPT !.call[c].prev = s.video]
           b == [a EXCEPT !.screen = None]
           d == Swap(b, c, None, s.video)
<1>1. UnshareLegacy(s, c) \in {s, w, b, d}
  <2> DEFINE e == Begin(s, c, "unshare", "camera")
  <2>1. e \in TabType
    BY BeginMoves DEF Moves, Operations, Away, Places
  <2> HIDE DEF e
  <2>2. [e EXCEPT !.screen = None, !.call[c].prev = s.video]
          = [[e EXCEPT !.call[c].prev = s.video] EXCEPT !.screen = None]
    BY <2>1 DEF TabType
  <2>3. [Begin(s, c, "unshare", "camera") EXCEPT !.screen = None, !.call[c].prev = s.video] = b
    BY <2>2 DEF e
  <2> HIDE DEF w, b
  <2>4. UnshareLegacy(s, c) \in {s, w,
          [Begin(s, c, "unshare", "camera") EXCEPT !.screen = None, !.call[c].prev = s.video],
          Swap([Begin(s, c, "unshare", "camera") EXCEPT !.screen = None, !.call[c].prev = s.video],
               c, None, s.video)}
    BY DEF UnshareLegacy, w
  <2>5. QED
    BY <2>3, <2>4
<1>2. Aside(s, u)
  BY FlagsAside
<1> HIDE DEF u
<1>3. Aside(u, v)
  BY <1>2, RestoreAside DEF Aside
<1> HIDE DEF v
<1>4. Aside(v, w)
  BY <1>3, AnnounceAside DEF Aside
<1> HIDE DEF w
<1>5. Aside(s, w)
  BY <1>2, <1>3, <1>4, AsideTransitive
<1>6. Moves(s, a, c) /\ a.call[c].op = "unshare"
  <2>1. "unshare" \in Operations \ {"none"} /\ "camera" \in Away /\ s.video \in TrackIds
    BY StreamType DEF Operations, Away, Places
  <2>2. QED
    BY <2>1, BeginPrevMoves
<1> HIDE DEF a
<1>7. Aside(a, b)
  BY <1>6, StreamType, VideoAside DEF Moves
<1> HIDE DEF b
<1>8. Moves(s, b, c) /\ b \in TabType /\ b.call[c].op = "unshare"
  BY <1>6, <1>7, AsideQuieter, MovesQuieter DEF Aside
<1>9. Moves(b, d, c)
  BY <1>8, StreamType, SwapMoves
<1> HIDE DEF d
<1>10. QED
  BY <1>1, <1>5, <1>8, <1>9, MovesTransitive

LEMMA UnshareIndependentMoves ==
  ASSUME NEW s \in TabType, NEW c \in Calls
  PROVE  UnshareIndependent(s, c) = s \/ Moves(s, UnshareIndependent(s, c), c)
<1> DEFINE able == {p \in Here(s) : Capable(s, p)}
           a == Begin(s, c, "unshare", "detach")
           k == [p \in Peers |-> IF p \in able THEN [s.peer[p] EXCEPT !.pending = FALSE]
                                 ELSE s.peer[p]]
           b == [a EXCEPT !.stopping = TRUE]
           d == [b EXCEPT !.peer = k]
           bound == {p \in able : s.peer[p].bound}
           old == Here(s) \ able
           e == Replace(d, c, bound, "content", None)
           v == IF Live(s, s.video) THEN s.video ELSE None
           f == Replace(e, c, old, "video", v)
<1>1. UnshareIndependent(s, c) \in {s, f}
  BY DEF UnshareIndependent
<1>2. bound \subseteq Peers /\ old \subseteq Peers /\ v \in TrackIds
  BY StreamType DEF Here
<1>3. k \in [Peers -> PeerType]
  <2> HIDE DEF able
  <2>1. \A p \in Peers : [s.peer[p] EXCEPT !.pending = FALSE] \in PeerType
    BY PeerTyped DEF PeerType
  <2>2. QED
    BY <2>1, PeerTyped
<1> HIDE DEF able, k, bound, old, v
<1>4. Moves(s, a, c)
  BY BeginMoves DEF Operations, Away, Places
<1> HIDE DEF a
<1>5. Aside(a, b)
  BY <1>4, FlagsAside DEF Moves
<1> HIDE DEF b
<1>6. b \in TabType
  BY <1>5 DEF Aside
<1>7. PeersOnly(b, d)
  BY <1>3, <1>6, PeersChange
<1> HIDE DEF d
<1>8. d \in TabType
  BY <1>7 DEF PeersOnly
<1>9. None \in TrackIds /\ c \in CallIds
  BY StreamType DEF Calls, CallIds
<1>10. PeersOnly(d, e)
  BY <1>2, <1>8, <1>9, ReplacePeers DEF Slots
<1> HIDE DEF e
<1>11. e \in TabType
  BY <1>10 DEF PeersOnly
<1>12. PeersOnly(e, f)
  BY <1>2, <1>9, <1>11, ReplacePeers DEF Slots
<1> HIDE DEF f
<1>13. QED
  BY <1>1, <1>4, <1>5, <1>7, <1>10, <1>12, AsideQuieter, PeersOnlyQuieter, MovesQuieter

LEMMA StopShareMoves ==
  ASSUME NEW s \in TabType, NEW c \in Calls
  PROVE  \/ StopShare(s, c) = s
         \/ Moves(s, StopShare(s, c), c)
         \/ Aside(s, StopShare(s, c))
BY UnshareIndependentMoves, UnshareLegacyMoves DEF StopShare

LEMMA CaptureTouches ==
  ASSUME NEW s \in TabType, NEW t \in Tracks, NEW kind \in {"camera", "display"},
         NEW on \in BOOLEAN
  PROVE  LET r == Capture(s, t, kind, on)
         IN  /\ Quieter(s, r) /\ r \in TabType /\ r.call = s.call /\ r.peer = s.peer
             /\ SameStream(s, r) /\ SameFlags(s, r)
BY CaptureTracks, TracksOnlyQuieter DEF TracksOnly

LEMMA CameraComeMoves ==
  ASSUME NEW s \in TabType, NEW c \in Calls, NEW t \in Tracks, s.call[c].op # "none"
  PROVE  Moves(s, CameraCome(s, c, t), c)
<1> DEFINE on == IF s.call[c].op = "unshare" THEN s.restore # "off"
                 ELSE s.call[c].prev = None \/ s.track[s.call[c].prev].on
           a == Capture(s, t, "camera", on)
           prev == s.call[c].prev
<1>1. CameraCome(s, c, t) = Swap(a, c, t, prev)
  BY DEF CameraCome
<1>2. prev \in TrackIds
  BY CallTyped DEF CallType
<1>3. on \in BOOLEAN
  <2>1. CASE prev = None
    BY <2>1
  <2>2. CASE prev # None
    <3>1. prev \in Tracks
      BY <1>2, <2>2 DEF TrackIds, Tracks, None
    <3>2. s.track[prev].on \in BOOLEAN
      BY <3>1, TrackTyped DEF TrackType
    <3>3. QED
      BY <3>2
  <2>3. QED
    BY <2>1, <2>2
<1> HIDE DEF on, prev
<1>4. Quieter(s, a) /\ a \in TabType /\ a.call = s.call
  BY <1>3, CaptureTouches
<1> HIDE DEF a
<1>5. t \in TrackIds
  BY DEF Tracks, TrackIds
<1>6. Moves(a, Swap(a, c, t, prev), c)
  BY <1>2, <1>4, <1>5, SwapMoves
<1>7. QED
  BY <1>1, <1>4, <1>6, QuieterTouches, TouchesMoves

LEMMA CameraRefusedMoves ==
  ASSUME NEW s \in TabType, NEW c \in Calls, s.call[c].op # "none"
  PROVE  Moves(s, CameraRefused(s, c), c)
<1>1. s.call[c].prev \in TrackIds
  BY CallTyped DEF CallType
<1>2. Moves(s, Swap(s, c, None, s.call[c].prev), c) /\ Moves(s, Finish(s, c), c)
  BY <1>1, StreamType, SwapMoves, FinishMoves
<1>3. QED
  BY <1>2 DEF CameraRefused

LEMMA DisplayComeLegacyMoves ==
  ASSUME NEW s \in TabType, NEW c \in Calls, NEW t \in Tracks, s.call[c].op # "none"
  PROVE  Moves(s, DisplayComeLegacy(s, c, t), c)
<1> DEFINE a == Capture(s, t, "display", TRUE)
           b == [a EXCEPT !.restore = "none"]
           how == IF s.video = None THEN "none" ELSE IF s.track[s.video].on THEN "on" ELSE "off"
           d == [a EXCEPT !.screen = t]
           e == [d EXCEPT !.restore = how]
<1>1. DisplayComeLegacy(s, c, t) \in {End(b, c), Swap(e, c, t, s.video)}
  BY DEF DisplayComeLegacy
<1>2. how \in {"none", "on", "off"}
  OBVIOUS
<1> HIDE DEF how
<1>3. Quieter(s, a) /\ a \in TabType /\ a.call = s.call
  BY CaptureTouches
<1> HIDE DEF a
<1>4. Aside(a, b)
  BY <1>3, RestoreAside
<1> HIDE DEF b
<1>5. Moves(a, End(b, c), c)
  BY <1>3, <1>4, AsideEnds
<1>6. t \in TrackIds
  BY DEF Tracks, TrackIds
<1>7. Aside(a, d)
  BY <1>3, <1>6, VideoAside
<1> HIDE DEF d
<1>8. Aside(d, e)
  BY <1>2, <1>7, RestoreAside DEF Aside
<1> HIDE DEF e
<1>9. Aside(a, e) /\ e \in TabType /\ e.call = s.call
  BY <1>3, <1>7, <1>8, AsideTransitive DEF Aside
<1>10. Moves(e, Swap(e, c, t, s.video), c)
  BY <1>6, <1>9, StreamType, SwapMoves
<1>11. QED
  BY <1>1, <1>3, <1>5, <1>9, <1>10, AsideQuieter, QuieterTouches, TouchesMoves

LEMMA DisplayComeIndependentMoves ==
  ASSUME NEW s \in TabType, NEW c \in Calls, NEW t \in Tracks, s.call[c].op # "none"
  PROVE  Moves(s, DisplayComeIndependent(s, c, t), c)
<1> DEFINE able == {p \in Here(s) : Capable(s, p)}
           a1 == Capture(s, t, "display", TRUE)
           a2 == [a1 EXCEPT !.content = t]
           a3 == [a2 EXCEPT !.screen = t]
           a4 == [a3 EXCEPT !.stopping = FALSE]
           a5 == [a4 EXCEPT !.sharing = TRUE]
           v == able # {}
           x == [a5.call[c] EXCEPT !.at = "share", !.viable = v]
           a6 == [a5 EXCEPT !.call[c] = x]
           k == [p \in Peers |-> IF p \in able /\ ~s.peer[p].bound
                                 THEN [s.peer[p] EXCEPT !.pending = TRUE] ELSE s.peer[p]]
           a7 == [a6 EXCEPT !.peer = k]
           bound == {p \in able : s.peer[p].bound}
           old == Here(s) \ able
           d == Replace(a7, c, bound, "content", t)
           e == Replace(d, c, old, "video", t)
<1>1. Quieter(s, a1) /\ a1 \in TabType /\ a1.call = s.call
  BY CaptureTouches
<1>2. t \in TrackIds /\ c \in CallIds /\ bound \subseteq Peers /\ old \subseteq Peers /\ v \in BOOLEAN
  BY DEF Tracks, TrackIds, Calls, CallIds, Here
<1>3. k \in [Peers -> PeerType]
  <2> HIDE DEF able
  <2>1. \A p \in Peers : [s.peer[p] EXCEPT !.pending = TRUE] \in PeerType
    BY PeerTyped DEF PeerType
  <2>2. QED
    BY <2>1, PeerTyped
<1> HIDE DEF bound, old, k
<1>4. DisplayComeIndependent(s, c, t) = e
  <2> DEFINE w == [a1 EXCEPT !.content = t, !.screen = t, !.stopping = FALSE, !.sharing = TRUE,
                    !.call[c].at = "share", !.call[c].viable = v, !.peer = k]
  <2>1. w = a7
    <3> HIDE DEF a1, v
    <3>1. a1.call \in [Calls -> CallType] /\ a1.call[c] \in CallType
      BY <1>1 DEF TabType
    <3>2. a5 \in TabType /\ a5.call = a1.call
      BY <1>1, <1>2 DEF TabType
    <3> HIDE DEF a5
    <3> DEFINE y == [a5.call[c] EXCEPT !.at = "share"]
               z == [a5 EXCEPT !.call[c] = y]
    <3>3. y \in CallType
      BY <3>1, <3>2 DEF CallType, Places
    <3> HIDE DEF y
    <3>4. z.call[c] = y
      BY <3>2 DEF TabType
    <3>5. [z EXCEPT !.call[c].viable = v] = [a5 EXCEPT !.call[c] = [y EXCEPT !.viable = v]]
      BY <3>2, <3>3, <3>4 DEF TabType
    <3>6. [y EXCEPT !.viable = v] = x
      BY <3>1, <3>2 DEF CallType, y
    <3>7. [z EXCEPT !.call[c].viable = v] = a6
      BY <3>5, <3>6
    <3>8. z = [a5 EXCEPT !.call[c].at = "share"]
      BY DEF y
    <3> HIDE DEF z, a6
    <3>9. QED
      BY <3>7, <3>8 DEF a5
  <2> HIDE DEF a7
  <2>2. DisplayComeIndependent(s, c, t) = Replace(Replace(w, c, bound, "content", t), c, old, "video", t)
    BY DEF DisplayComeIndependent, bound, old, k
  <2>3. QED
    BY <2>1, <2>2
<1> HIDE DEF a1, able, v
<1>5. Aside(a1, a2)
  BY <1>1, <1>2, VideoAside
<1> HIDE DEF a2
<1>6. Aside(a2, a3)
  BY <1>2, <1>5, VideoAside DEF Aside
<1> HIDE DEF a3
<1>7. Aside(a3, a4)
  BY <1>6, FlagsAside DEF Aside
<1> HIDE DEF a4
<1>8. Aside(a4, a5)
  BY <1>7, FlagsAside DEF Aside
<1> HIDE DEF a5
<1>9. Aside(a1, a5) /\ a5 \in TabType /\ a5.call = s.call
  BY <1>1, <1>5, <1>6, <1>7, <1>8, AsideTransitive DEF Aside
<1>10. x \in CallType /\ x.at = "share" /\ x.op = s.call[c].op /\ x.request = s.call[c].request
  BY <1>2, <1>9, CallTyped DEF CallType, Places
<1> HIDE DEF x
<1>11. Moves(a5, a6, c)
  BY <1>9, <1>10, CallMoves
<1> HIDE DEF a6
<1>12. a6 \in TabType
  BY <1>11 DEF Moves
<1>13. PeersOnly(a6, a7)
  BY <1>3, <1>12, PeersChange
<1> HIDE DEF a7
<1>14. a7 \in TabType
  BY <1>13 DEF PeersOnly
<1>15. PeersOnly(a7, d)
  BY <1>2, <1>14, ReplacePeers DEF Slots
<1> HIDE DEF d
<1>16. d \in TabType
  BY <1>15 DEF PeersOnly
<1>17. PeersOnly(d, e)
  BY <1>2, <1>16, ReplacePeers DEF Slots
<1> HIDE DEF e
<1>18. Moves(a5, e, c)
  BY <1>11, <1>13, <1>15, <1>17, PeersOnlyQuieter, MovesQuieter
<1>19. QED
  BY <1>1, <1>4, <1>9, <1>18, AsideQuieter, QuieterTouches, TouchesMoves
LEMMA DisplayComeMoves ==
  ASSUME NEW s \in TabType, NEW c \in Calls, NEW t \in Tracks, s.call[c].op # "none"
  PROVE  Moves(s, DisplayCome(s, c, t), c)
BY DisplayComeLegacyMoves, DisplayComeIndependentMoves DEF DisplayCome

-----------------------------------------------------------------------------
\* A refresh of the microphone ends: its swap, if any, has closed the old one.
LEMMA AfterAudioGood ==
  ASSUME NEW s, Good(s), NEW c \in Calls, AtMic(s, c), Clear(s, c)
  PROVE  Good(AfterAudio(s, c))
<1> DEFINE a == [s EXCEPT !.audioBusy = FALSE]
           r == AfterAudio(s, c)
<1>1. s \in TabType /\ s.call[c].op # "none"
  BY DEF Good, IdleNowhere, AtMic
<1>2. a \in TabType /\ a.call = s.call /\ a.track = s.track /\ SameMic(s, a)
  BY <1>1 DEF TabType, SameMic
<1>3. r \in {AttachAll(a, c), End(a, c)}
  BY DEF AfterAudio
<1> HIDE DEF a, r
<1>4. Moves(a, AttachAll(a, c), c) /\ Moves(a, End(a, c), c)
  BY <1>1, <1>2, AttachAllMoves, EndMoves
<1>5. Moves(a, r, c)
  BY <1>3, <1>4
<1>6. r.call[c].request <= r.request
  <2>1. s.call[c].request <= s.request /\ s.request \in Nat
    BY <1>1 DEF Good, RequestsIssued, TabType
  <2>2. r.request = s.request /\ r.call[c].request \in {0, s.call[c].request}
    BY <1>2, <1>5 DEF Moves, SameMic
  <2>3. QED
    BY <2>1, <2>2
<1>7. Moved(s, r, c)
  BY <1>2, <1>5, <1>6 DEF Moves, Moved, Clear, SameMic, OpenMic
<1>8. Good(r)
  BY <1>7, MovedGood
<1>9. QED
  BY <1>8 DEF r

LEMMA ResumeGood ==
  ASSUME NEW s, Good(s), NEW c \in Calls,
         s.call[c].at \in {"swap", "micswap", "share", "detach", "attach", "attached"}
  PROVE  Good(Resume(s, c))
<1> DEFINE prev == s.call[c].prev
<1>1. s \in TabType /\ s.call[c].op # "none"
  BY DEF Good, IdleNowhere
<1>2. prev \in TrackIds
  BY <1>1, CallTyped DEF CallType
<1> HIDE DEF prev
<1>3. CASE s.call[c].at = "micswap"
  <2> DEFINE q == Stop(s, prev)
  <2>1. Quieter(s, q) /\ q.call = s.call
    BY <1>1, <1>2, StopTouches
  <2>2. prev # None => ~q.track[prev].live
    BY <1>1, <1>2, StopTracks
  <2>3. Resume(s, c) = AfterAudio(q, c)
    BY <1>3 DEF Resume, prev
  <2> HIDE DEF q
  <2>4. Good(q)
    BY <2>1, QuieterGood
  <2>5. AtMic(q, c)
    BY <1>3, <2>1 DEF AtMic
  <2>6. Clear(q, c)
    <3> SUFFICES ASSUME NEW t \in Tracks, Swapped(q, c, t) PROVE ~OpenMic(q, t)
      BY DEF Clear
    <3>1. t = prev /\ t # None
      BY <2>1 DEF Swapped, prev, Tracks, None
    <3>2. QED
      BY <2>2, <3>1 DEF OpenMic
  <2>7. QED
    BY <2>3, <2>4, <2>5, <2>6, AfterAudioGood
<1>4. CASE s.call[c].at # "micswap"
  <2> DEFINE q == IF prev # s.call[c].next THEN Stop(s, prev) ELSE s
  <2>1. q \in TabType /\ (q = s \/ Quieter(s, q))
    BY <1>1, <1>2, StopTouches
  <2>2. Resume(s, c) \in {Finish(q, c), ShareAttached(s, c), ShareDetached(s, c),
                          AttachVideo(s, c), End(s, c)}
    BY <1>4 DEF Resume, prev
  <2> HIDE DEF q
  <2>3. Moves(q, Finish(q, c), c)
    BY <2>1, FinishMoves
  <2>4. Moves(s, Finish(q, c), c)
    BY <2>1, <2>3, QuieterTouches, TouchesMoves
  <2>5. /\ Moves(s, ShareAttached(s, c), c) /\ Moves(s, ShareDetached(s, c), c)
        /\ Moves(s, AttachVideo(s, c), c) /\ Moves(s, End(s, c), c)
    BY <1>1, ShareAttachedMoves, ShareDetachedMoves, AttachVideoMoves, EndMoves
  <2>6. Moves(s, Resume(s, c), c)
    BY <2>2, <2>4, <2>5
  <2>7. Clear(s, c)
    BY <1>4 DEF Clear, Swapped
  <2>8. QED
    BY <2>6, <2>7, MovesGood
<1>5. QED
  BY <1>3, <1>4

-----------------------------------------------------------------------------
\* A start takes a new request number: every earlier request is stale.
LEMMA StartMediaGood ==
  ASSUME NEW s, Good(s), NEW c \in Calls, s.call[c].op = "none"
  PROVE  Good(StartMedia(s, c))
<1>1. CASE s.up \/ s.starting # 0
  BY <1>1 DEF StartMedia
<1>2. CASE ~(s.up \/ s.starting # 0)
  <2> DEFINE n == s.request + 1
             y == [NoCall EXCEPT !.op = "start", !.at = "media"]
             x == [y EXCEPT !.request = n]
             k == [s.call EXCEPT ![c] = x]
             r == [s EXCEPT !.call = k, !.request = n, !.requesting = TRUE, !.starting = c]
  <2>1. s \in TabType /\ n \in Nat /\ s.request < n /\ s.call \in [Calls -> CallType]
    BY DEF Good, TabType
  <2>2. StartMedia(s, c) = r
    <3> HIDE DEF y
    <3> DEFINE b == [s EXCEPT !.call[c] = y]
    <3>1. [b EXCEPT !.request = @ + 1, !.call[c].request = n, !.requesting = TRUE, !.starting = c] = r
      BY <2>1 DEF TabType
    <3>2. Begin(s, c, "start", "media") = b
      BY DEF Begin, y
    <3> HIDE DEF b, r
    <3>3. QED
      BY <1>2, <3>1, <3>2 DEF StartMedia
  <2>3. y \in CallType /\ y.op = "start" /\ y.at = "media"
    BY NoCallType DEF CallType, Operations, Places
  <2> HIDE DEF y, n
  <2>4. x \in CallType /\ x.op = "start" /\ x.at = "media" /\ x.request = n
    BY <2>1, <2>3 DEF CallType
  <2> HIDE DEF x
  <2>5. k \in [Calls -> CallType] /\ k[c] = x /\ \A d \in Calls \ {c} : k[d] = s.call[d]
    BY <2>1, <2>4
  <2> HIDE DEF k
  <2>6. /\ r \in TabType /\ r.call = k /\ r.track = s.track /\ r.audio = s.audio
        /\ (r.up <=> s.up) /\ (r.audioBusy <=> s.audioBusy) /\ r.request = n
    <3>1. c \in CallIds
      BY DEF Calls, CallIds
    <3> DEFINE q == [s EXCEPT !.call = k]
    <3>2. /\ q \in TabType /\ q.call = k /\ q.track = s.track
          /\ SameStream(s, q)
      BY <2>1, <2>5, WithCall
    <3>3. r = [q EXCEPT !.request = n, !.requesting = TRUE, !.starting = c]
      OBVIOUS
    <3> HIDE DEF q
    <3>4. /\ r \in TabType /\ r.call = q.call /\ r.track = q.track /\ r.audio = q.audio
          /\ r.up = q.up /\ r.audioBusy = q.audioBusy /\ r.request = n
      BY <2>1, <3>1, <3>2, <3>3 DEF TabType
    <3>5. QED
      BY <3>2, <3>4 DEF SameStream
  <2> HIDE DEF r
  <2>7. s.call[c].at = "none"
    BY DEF Good, IdleNowhere
  <2>8. MicsHeld(r)
    BY <2>5, <2>6, <2>7 DEF Good, MicsHeld, OpenMic, Swapped
  <2>9. OneRefresh(r)
    BY <2>4, <2>5, <2>6 DEF Good, OneRefresh, AtMic
  <2>10. \A d \in Calls \ {c} : r.call[d].request < r.request
    <3> SUFFICES ASSUME NEW d \in Calls \ {c} PROVE r.call[d].request < r.request
      OBVIOUS
    <3>1. s.call[d].request <= s.request /\ s.call[d].request \in Nat /\ s.request \in Nat
      BY <2>1 DEF Good, RequestsIssued, CallType, TabType
    <3>2. r.call[d] = s.call[d] /\ r.request = n
      BY <2>5, <2>6
    <3>3. QED
      BY <2>1, <3>1, <3>2
  <2>11. RefreshCurrent(r)
    BY <2>1, <2>4, <2>5, <2>6, <2>10 DEF RefreshCurrent, CallType
  <2>12. StartCurrent(r)
    BY <1>2, <2>1, <2>4, <2>5, <2>6, <2>10 DEF StartCurrent, CallType
  <2>13. RequestsIssued(r)
    BY <2>1, <2>4, <2>5, <2>6, <2>10 DEF RequestsIssued, CallType
  <2>14. IdleNowhere(r)
    BY <2>4, <2>5, <2>6 DEF Good, IdleNowhere
  <2>15. QED
    BY <2>2, <2>6, <2>8, <2>9, <2>11, <2>12, <2>13, <2>14 DEF Good
<1>3. QED
  BY <1>1, <1>2

-----------------------------------------------------------------------------
\* The call c begins to refresh the stream's microphone.
Listens(s, r, c) ==
  /\ r \in TabType /\ r.track = s.track /\ SameMic(s, r)
  /\ s.up /\ ~s.audioBusy /\ r.audioBusy
  /\ \A d \in Calls \ {c} : r.call[d] = s.call[d]
  /\ r.call[c].op # "none" /\ r.call[c].at = "mic"
  /\ r.call[c].request = s.request /\ r.call[c].prev = s.audio

LEMMA ListensGood ==
  ASSUME NEW s, Good(s), NEW c \in Calls, NEW r, Listens(s, r, c)
  PROVE  Good(r)
<1>1. \A d \in Calls : ~AtMic(s, d)
  BY DEF Good, OneRefresh, Listens
<1>2. MicsHeld(r)
  BY <1>1 DEF Good, MicsHeld, Listens, SameMic, OpenMic, Swapped, AtMic
<1>3. OneRefresh(r)
  BY <1>1 DEF Listens, OneRefresh, AtMic
<1>4. RefreshCurrent(r)
  BY <1>1 DEF Listens, SameMic, RefreshCurrent, AtMic
<1>5. StartCurrent(r)
  BY DEF Good, Listens, SameMic, StartCurrent
<1>6. RequestsIssued(r)
  <2>1. s.request \in Nat /\ r.request = s.request
    BY DEF Good, TabType, Listens, SameMic
  <2>2. QED
    BY <2>1 DEF Good, Listens, RequestsIssued
<1>7. IdleNowhere(r)
  BY DEF Good, Listens, IdleNowhere
<1>8. QED
  BY <1>2, <1>3, <1>4, <1>5, <1>6, <1>7 DEF Good, Listens

LEMMA RefreshAudioListens ==
  ASSUME NEW s \in TabType, NEW c \in Calls, s.call[c].op # "none",
         s.up, ~s.requesting, ~s.audioBusy
  PROVE  Listens(s, RefreshAudio(s, c), c)
<1> DEFINE x == [s.call[c] EXCEPT !.at = "mic", !.request = s.request, !.prev = s.audio]
           q == [s EXCEPT !.call[c] = x]
           r == [q EXCEPT !.audioBusy = TRUE]
<1>1. s.call \in [Calls -> CallType] /\ s.call[c] \in CallType /\ s.request \in Nat
  BY DEF TabType
<1>2. /\ x \in CallType /\ x.op # "none" /\ x.at = "mic" /\ x.request = s.request
      /\ x.prev = s.audio
  BY <1>1, StreamType DEF CallType, Places
<1>3. RefreshAudio(s, c) = r
  <2> DEFINE y == [s.call[c] EXCEPT !.at = "mic"]
             a == [s EXCEPT !.call[c] = y]
  <2>1. x = [y EXCEPT !.request = s.request, !.prev = s.audio]
    OBVIOUS
  <2>2. At(s, c, "mic") = a
    BY DEF At
  <2>3. RefreshAudio(s, c) = [a EXCEPT !.audioBusy = TRUE, !.call[c].request = s.request,
                                       !.call[c].prev = s.audio]
    BY <2>2 DEF RefreshAudio
  <2> HIDE DEF y, x
  <2>4. [a EXCEPT !.audioBusy = TRUE, !.call[c].request = s.request, !.call[c].prev = s.audio]
          = [[s EXCEPT !.call[c] = [y EXCEPT !.request = s.request, !.prev = s.audio]]
               EXCEPT !.audioBusy = TRUE]
    BY <1>1 DEF TabType
  <2>5. QED
    BY <2>1, <2>3, <2>4
<1> HIDE DEF x
<1>4. /\ q \in TabType /\ q.track = s.track /\ SameStream(s, q)
      /\ q.call[c] = x /\ \A d \in Calls \ {c} : q.call[d] = s.call[d]
  BY <1>2, CallChange
<1> HIDE DEF q
<1>5. r \in TabType /\ r.track = q.track /\ r.call = q.call /\ r.audioBusy /\ SameMic(q, r)
  BY <1>4 DEF TabType, SameMic
<1> HIDE DEF r
<1>6. Listens(s, r, c)
  BY <1>2, <1>4, <1>5 DEF Listens, SameStream, SameMic
<1>7. QED
  BY <1>3, <1>6

\* A change of the devices, on an idle call.
LEMMA DeviceChangeGood ==
  ASSUME NEW s, Good(s), NEW c \in Calls, s.up, ~s.requesting, ~s.audioBusy
  PROVE  Good(RefreshAudio(Begin(s, c, "audio", "mic"), c))
<1> DEFINE x == [NoCall EXCEPT !.op = "audio", !.at = "mic"]
           b == [s EXCEPT !.call[c] = x]
           r == RefreshAudio(b, c)
<1>1. s \in TabType
  BY DEF Good
<1>2. x \in CallType /\ x.op = "audio"
  BY NoCallType DEF CallType, Operations, Places
<1>3. Begin(s, c, "audio", "mic") = b
  BY DEF Begin
<1> HIDE DEF x
<1>4. /\ b \in TabType /\ b.track = s.track /\ SameStream(s, b) /\ SameFlags(s, b)
      /\ b.call[c] = x /\ \A d \in Calls \ {c} : b.call[d] = s.call[d]
  BY <1>1, <1>2, CallChange
<1> HIDE DEF b
<1>5. b.call[c].op # "none" /\ b.up /\ ~b.requesting /\ ~b.audioBusy
  BY <1>2, <1>4 DEF SameStream, SameFlags
<1>6. Listens(b, r, c)
  BY <1>4, <1>5, RefreshAudioListens
<1> HIDE DEF r
<1>7. Listens(s, r, c)
  BY <1>4, <1>6 DEF Listens, SameStream, SameMic
<1>8. Good(r)
  BY <1>7, ListensGood
<1>9. QED
  BY <1>3, <1>8 DEF r

LEMMA DevicesKnownGood ==
  ASSUME NEW s, Good(s), NEW c \in Calls, s.call[c].at = "devices", NEW rerouted \in BOOLEAN
  PROVE  Good(DevicesKnown(s, c, rerouted))
<1> DEFINE a == [s EXCEPT !.requesting = FALSE]
<1>1. s \in TabType /\ s.call[c].op # "none"
  BY DEF Good, IdleNowhere
<1>2. Aside(s, a) /\ ~a.requesting
  BY <1>1, FlagsAside DEF TabType
<1>3. DevicesKnown(s, c, rerouted) =
        LET b == IF rerouted THEN RefreshAudio(a, c) ELSE a
        IN  IF b.call[c].at = "mic" THEN b ELSE AttachAll(b, c)
  BY DEF DevicesKnown
<1> HIDE DEF a
<1>4. Good(a) /\ a \in TabType /\ a.call = s.call
  BY <1>2, AsideQuieter, QuieterGood DEF Aside
<1>5. CASE rerouted /\ a.up /\ ~a.audioBusy
  <2>1. Listens(a, RefreshAudio(a, c), c)
    BY <1>1, <1>2, <1>4, <1>5, RefreshAudioListens
  <2>2. DevicesKnown(s, c, rerouted) = RefreshAudio(a, c)
    BY <1>3, <1>5, <2>1 DEF Listens
  <2>3. QED
    BY <1>4, <2>1, <2>2, ListensGood
<1>6. CASE ~(rerouted /\ a.up /\ ~a.audioBusy)
  <2>1. rerouted => RefreshAudio(a, c) = a
    BY <1>6 DEF RefreshAudio
  <2>2. DevicesKnown(s, c, rerouted) = AttachAll(a, c)
    BY <1>3, <1>4, <2>1
  <2>3. Moves(a, AttachAll(a, c), c)
    BY <1>1, <1>4, AttachAllMoves
  <2>4. Clear(a, c)
    BY <1>4 DEF Clear, Swapped
  <2>5. QED
    BY <1>4, <2>2, <2>3, <2>4, MovesGood
<1>7. QED
  BY <1>5, <1>6

\* What getUserMedia gives to a start: a stale one is dropped, and a current one
\* finds no stream, so that nothing is left open.
LEMMA MediaComeGood ==
  ASSUME NEW s, Good(s), NEW c \in Calls, s.call[c].at = "media",
         NEW t \in Tracks, NEW u \in Tracks \ {t}
  PROVE  Good(MediaCome(s, c, t, u))
<1>1. s \in TabType /\ s.call[c].op # "none"
  BY DEF Good, IdleNowhere
<1>2. CASE s.destroyed \/ s.request # s.call[c].request
  <2>1. MediaCome(s, c, t, u) = End(s, c)
    BY <1>2 DEF MediaCome
  <2>2. Clear(s, c)
    BY DEF Clear, Swapped
  <2>3. QED
    BY <1>1, <2>1, <2>2, EndMoves, MovesGood
<1>3. CASE ~s.destroyed /\ s.request = s.call[c].request
  <2> DEFINE mic == [kind |-> "mic", live |-> TRUE, on |-> TRUE]
             camera == [kind |-> "camera", live |-> TRUE, on |-> TRUE]
             k == [[s.track EXCEPT ![t] = mic] EXCEPT ![u] = camera]
             q == [s EXCEPT !.track = k]
             a == [q EXCEPT !.up = TRUE, !.audio = t, !.video = u]
             r == At(a, c, "devices")
  <2>1. s.track \in [Tracks -> TrackType]
    BY <1>1 DEF TabType
  <2>2. mic \in TrackType /\ camera \in TrackType /\ camera.kind # "mic"
    BY DEF TrackType
  <2>3. Capture(Capture(s, t, "mic", TRUE), u, "camera", TRUE) = q
    BY <1>1 DEF Capture, TabType
  <2>4. MediaCome(s, c, t, u) = r
    <3> HIDE DEF q, mic, camera
    <3>1. QED
      BY <1>3, <2>3 DEF MediaCome
  <2> HIDE DEF mic, camera
  <2>5. k \in [Tracks -> TrackType] /\ \A v \in Tracks \ {t} :
          k[v].live /\ k[v].kind = "mic" => OpenMic(s, v)
    BY <2>1, <2>2 DEF OpenMic
  <2> HIDE DEF k
  <2>6. q \in TabType /\ q.track = k /\ q.call = s.call /\ SameStream(s, q)
    BY <1>1, <2>5, WithTrack
  <2> HIDE DEF q
  <2>7. t \in TrackIds /\ u \in TrackIds
    BY DEF Tracks, TrackIds
  <2>8. /\ a \in TabType /\ a.track = q.track /\ a.call = q.call /\ a.request = q.request
        /\ a.up /\ a.audio = t /\ a.audioBusy = q.audioBusy
    BY <2>6, <2>7 DEF TabType
  <2> HIDE DEF a
  <2>9. a.call[c].op # "none" /\ a.call[c].request = s.request
    BY <1>1, <1>3, <2>6, <2>8
  <2>10. Moves(a, r, c)
    BY <2>8, <2>9, AtMoves DEF Away, Places
  <2> HIDE DEF r
  <2>11. ~s.up /\ \A d \in Calls : s.call[d].at = "media" /\ s.call[d].request = s.request => d = c
    BY <1>3 DEF Good, StartCurrent
  <2>12. MicsHeld(r)
    <3> SUFFICES ASSUME NEW v \in Tracks, OpenMic(r, v), v # t
                 PROVE  \E d \in Calls : Swapped(r, d, v)
      BY <2>8, <2>10 DEF MicsHeld, Moves, SameMic
    <3>1. OpenMic(s, v)
      BY <2>5, <2>6, <2>8, <2>10 DEF Moves, OpenMic
    <3>2. PICK d \in Calls : Swapped(s, d, v)
      BY <2>11, <3>1 DEF Good, MicsHeld
    <3>3. d # c
      BY <3>2 DEF Swapped
    <3>4. Swapped(r, d, v)
      BY <2>6, <2>8, <2>10, <3>2, <3>3 DEF Moves, SameCall, Swapped
    <3>5. QED
      BY <3>4
  <2>13. OneRefresh(r)
    BY <2>6, <2>8, <2>10 DEF Good, OneRefresh, AtMic, Moves, SameCall, SameStream
  <2>14. RefreshCurrent(r)
    BY <2>6, <2>8, <2>10, <2>11 DEF Good, RefreshCurrent, Moves, SameCall, SameMic, SameStream
  <2>15. StartCurrent(r)
    BY <2>6, <2>8, <2>10, <2>11 DEF StartCurrent, Moves, SameCall, SameMic, SameStream
  <2>16. RequestsIssued(r)
    <3>1. r.request = s.request /\ s.request \in Nat
      BY <1>1, <2>6, <2>8, <2>10 DEF TabType, Moves, SameMic, SameStream
    <3>2. r.call[c].request <= r.request
      BY <2>9, <2>10, <3>1 DEF Moves
    <3>3. \A d \in Calls \ {c} : r.call[d].request = s.call[d].request
      BY <2>6, <2>8, <2>10 DEF Moves, SameCall
    <3>4. QED
      BY <3>1, <3>2, <3>3 DEF Good, RequestsIssued
  <2>17. IdleNowhere(r)
    BY <2>6, <2>8, <2>10 DEF Good, IdleNowhere, Moves, SameCall
  <2>18. QED
    BY <2>4, <2>10, <2>12, <2>13, <2>14, <2>15, <2>16, <2>17 DEF Good, Moves
<1>4. QED
  BY <1>2, <1>3

\* What getUserMedia gives to a refresh: a current one closes, at the end of its swap,
\* the microphone the stream had when it began, which is the one it still has.
LEMMA MicComeGood ==
  ASSUME NEW s, Good(s), NEW c \in Calls, s.call[c].at = "mic", NEW t \in Tracks
  PROVE  Good(MicCome(s, c, t))
<1>1. s \in TabType /\ s.call[c].op # "none"
  BY DEF Good, IdleNowhere
<1>2. CASE s.destroyed \/ ~s.up \/ s.request # s.call[c].request
  <2>1. MicCome(s, c, t) = AfterAudio(s, c)
    BY <1>2 DEF MicCome
  <2>2. Clear(s, c) /\ AtMic(s, c)
    BY DEF Clear, Swapped, AtMic
  <2>3. QED
    BY <2>1, <2>2, AfterAudioGood
<1>3. CASE ~s.destroyed /\ s.up /\ s.request = s.call[c].request
  <2> DEFINE mic == [kind |-> "mic", live |-> TRUE, on |-> TRUE]
             k == [s.track EXCEPT ![t] = mic]
             q == [s EXCEPT !.track = k]
             a == [q EXCEPT !.audio = t]
             d == Replace(a, c, Here(s), "audio", t)
             x == [d.call[c] EXCEPT !.at = "micswap"]
             r == [d EXCEPT !.call[c] = x]
  <2>1. MicCome(s, c, t) = r
    BY <1>3 DEF MicCome, Capture, At
  <2>2. s.track \in [Tracks -> TrackType] /\ mic \in TrackType
    BY <1>1 DEF TabType, TrackType
  <2> HIDE DEF mic
  <2>3. k \in [Tracks -> TrackType] /\ \A v \in Tracks \ {t} : k[v] = s.track[v]
    BY <2>2
  <2> HIDE DEF k
  <2>4. q \in TabType /\ q.track = k /\ q.call = s.call /\ SameStream(s, q)
    BY <1>1, <2>3, WithTrack
  <2> HIDE DEF q
  <2>5. t \in TrackIds /\ c \in CallIds /\ Here(s) \subseteq Peers
    BY DEF Tracks, TrackIds, Calls, CallIds, Here
  <2>6. /\ a \in TabType /\ a.track = q.track /\ a.call = q.call /\ a.request = q.request
        /\ a.up = q.up /\ a.audio = t /\ a.audioBusy = q.audioBusy
    BY <2>4, <2>5 DEF TabType
  <2> HIDE DEF a
  <2>7. PeersOnly(a, d)
    BY <2>5, <2>6, ReplacePeers DEF Slots
  <2> HIDE DEF d
  <2>8. d \in TabType /\ d.call[c] \in CallType
    BY <2>7, CallTyped DEF PeersOnly
  <2>9. /\ x \in CallType /\ x.at = "micswap" /\ x.op = d.call[c].op
        /\ x.prev = d.call[c].prev /\ x.request = d.call[c].request
    BY <2>8 DEF CallType, Places
  <2> HIDE DEF x
  <2>10. /\ r \in TabType /\ r.track = d.track /\ SameStream(d, r)
         /\ r.call[c] = x /\ \A e \in Calls \ {c} : r.call[e] = d.call[e]
    BY <2>8, <2>9, CallChange
  <2> HIDE DEF r
  <2>11. r.up /\ r.audio = t /\ r.request = s.request /\ (r.audioBusy <=> s.audioBusy)
    BY <1>3, <2>4, <2>6, <2>7, <2>10 DEF PeersOnly, SameStream
  <2>12. \A v \in Tracks \ {t} : OpenMic(r, v) => OpenMic(s, v)
    BY <2>3, <2>4, <2>6, <2>7, <2>10 DEF PeersOnly, OpenMic
  <2>13. /\ \A e \in Calls \ {c} : SameCall(s.call[e], r.call[e])
         /\ r.call[c].op = s.call[c].op /\ r.call[c].prev = s.call[c].prev
         /\ r.call[c].request = s.call[c].request /\ r.call[c].at = "micswap"
    BY <2>4, <2>6, <2>7, <2>9, <2>10 DEF PeersOnly, SameCalls, SameCall
  <2>14. s.call[c].prev = s.audio
    BY <1>3 DEF Good, RefreshCurrent
  <2>15. \A e \in Calls : AtMic(s, e) => e = c
    BY DEF Good, OneRefresh, AtMic
  <2>16. MicsHeld(r)
    <3> SUFFICES ASSUME NEW v \in Tracks, OpenMic(r, v), v # t
                 PROVE  \E e \in Calls : Swapped(r, e, v)
      BY <2>11 DEF MicsHeld
    <3>1. OpenMic(s, v)
      BY <2>12
    <3>2. \A e \in Calls : ~Swapped(s, e, v)
      BY <2>15 DEF AtMic, Swapped
    <3>3. v = s.audio
      BY <3>1, <3>2 DEF Good, MicsHeld
    <3>4. QED
      BY <2>13, <2>14, <3>3 DEF Swapped
  <2>17. OneRefresh(r)
    BY <2>11, <2>13 DEF Good, OneRefresh, AtMic, SameCall
  <2>18. RefreshCurrent(r)
    BY <2>13, <2>15 DEF RefreshCurrent, AtMic, SameCall
  <2>19. StartCurrent(r)
    BY <1>3, <2>11, <2>13 DEF Good, StartCurrent, SameCall
  <2>20. RequestsIssued(r)
    BY <2>11, <2>13 DEF Good, RequestsIssued, SameCall
  <2>21. IdleNowhere(r)
    BY <1>1, <2>13 DEF Good, IdleNowhere, SameCall
  <2>22. QED
    BY <2>1, <2>10, <2>16, <2>17, <2>18, <2>19, <2>20, <2>21 DEF Good
<1>4. QED
  BY <1>2, <1>3

\* Everything stops: the stream's microphone with it, and every request is stale.
LEMMA StopLocalMediaGood ==
  ASSUME NEW s, Good(s)
  PROVE  Good(StopLocalMedia(s)) /\ StopLocalMedia(s) \in TabType
<1> DEFINE a1 == Stop(s, s.content)
           a2 == Stop(a1, s.audio)
           a == Stop(a2, s.video)
           n == a.request + 1
           kp == [p \in Peers |-> NoPeer]
           kc == [c \in Calls |-> [a.call[c] EXCEPT !.left = 0]]
           b == [a EXCEPT !.request = n, !.starting = 0, !.screen = None,
                     !.content = None, !.stopping = FALSE, !.restore = "none",
                     !.up = FALSE, !.audio = None, !.video = None,
                     !.sharing = FALSE, !.requesting = FALSE]
           d == [b EXCEPT !.peer = kp]
           r == [d EXCEPT !.call = kc]
<1>1. s \in TabType /\ s.content \in TrackIds /\ s.audio \in TrackIds /\ s.video \in TrackIds
  BY StreamType DEF Good
<1>2. a1 \in TabType /\ Quieter(s, a1) /\ a1.call = s.call
  BY <1>1, StopTouches
<1> HIDE DEF a1
<1>3. /\ a2 \in TabType /\ Quieter(a1, a2) /\ a2.call = s.call
      /\ s.audio # None => ~a2.track[s.audio].live
  BY <1>1, <1>2, StopTouches, StopTracks
<1> HIDE DEF a2
<1>4. a \in TabType /\ Quieter(a2, a) /\ a.call = s.call
  BY <1>1, <1>3, StopTouches
<1>5. StopLocalMedia(s) = r
  <2>1. [b EXCEPT !.peer = kp, !.call = [c \in Calls |-> [b.call[c] EXCEPT !.left = 0]]] = r
    <3> HIDE DEF a, n
    <3>1. b.call = a.call
      BY <1>4 DEF TabType
    <3>2. d.call = a.call
      BY <1>4 DEF TabType
    <3> HIDE DEF b
    <3>3. QED
      BY <3>1
  <2>2. QED
    <3> HIDE DEF r
    <3>1. StopLocalMedia(s) =
            [b EXCEPT !.peer = kp, !.call = [c \in Calls |-> [b.call[c] EXCEPT !.left = 0]]]
      BY DEF StopLocalMedia, a1, a2
    <3>2. QED
      BY <2>1, <3>1
<1> HIDE DEF a
<1>6. \A v \in Tracks : OpenMic(a, v) => OpenMic(s, v) /\ v # s.audio
  <2> SUFFICES ASSUME NEW v \in Tracks, OpenMic(a, v) PROVE OpenMic(s, v) /\ v # s.audio
    OBVIOUS
  <2>1. OpenMic(a2, v) /\ OpenMic(a1, v) /\ OpenMic(s, v) /\ v # None
    BY <1>2, <1>3, <1>4 DEF Quieter, Tracks, None
  <2>2. QED
    BY <1>3, <2>1 DEF OpenMic
<1>7. a.request = s.request /\ s.request \in Nat /\ (a.audioBusy <=> s.audioBusy)
  BY <1>1, <1>2, <1>3, <1>4 DEF Quieter, SameMic, TabType
<1>8. n \in Nat /\ s.request < n /\ None \in TrackIds /\ 0 \in CallIds
  BY <1>1, <1>7, StreamType
<1> HIDE DEF n
<1>9. /\ b \in TabType /\ b.track = a.track /\ b.request = n /\ ~b.up
      /\ (b.audioBusy <=> s.audioBusy)
  <2>1. /\ b.track = a.track /\ b.request = n /\ b.up = FALSE
        /\ b.audioBusy = a.audioBusy
    BY <1>4 DEF TabType
  <2>2. b \in TabType
    BY <1>4, <1>8 DEF TabType
  <2> HIDE DEF b
  <2>3. QED
    BY <1>7, <2>1, <2>2
<1> HIDE DEF b
<1>10. kp \in [Peers -> PeerType]
  BY NoPeerType
<1>11. kc \in [Calls -> CallType] /\ \A c \in Calls :
         /\ kc[c].op = s.call[c].op /\ kc[c].at = s.call[c].at
         /\ kc[c].prev = s.call[c].prev /\ kc[c].request = s.call[c].request
  BY <1>1, <1>4, CallTyped DEF CallType
<1> HIDE DEF kp, kc
<1>12. d \in TabType /\ d.track = b.track /\ SameStream(b, d)
  BY <1>9, <1>10, WithPeer
<1> HIDE DEF d
<1>13. r \in TabType /\ r.call = kc /\ r.track = d.track /\ SameStream(d, r)
  BY <1>11, <1>12, WithCall
<1> HIDE DEF r
<1>14. ~r.up /\ r.request = n /\ (r.audioBusy <=> s.audioBusy) /\ r.track = a.track
  BY <1>9, <1>12, <1>13 DEF SameStream
<1>15. MicsHeld(r)
  BY <1>6, <1>11, <1>13, <1>14 DEF Good, MicsHeld, OpenMic, Swapped
<1>16. OneRefresh(r)
  BY <1>11, <1>13, <1>14 DEF Good, OneRefresh, AtMic
<1>17. \A c \in Calls : r.call[c].request < r.request
  <2> SUFFICES ASSUME NEW c \in Calls PROVE r.call[c].request < r.request
    OBVIOUS
  <2>1. s.call[c].request <= s.request /\ s.call[c].request \in Nat
    BY <1>1, CallTyped DEF Good, RequestsIssued, CallType
  <2>2. r.call[c].request = s.call[c].request
    BY <1>11, <1>13
  <2>3. QED
    BY <1>7, <1>8, <1>14, <2>1, <2>2
<1>18. r.request \in Nat /\ \A c \in Calls : r.call[c].request \in Nat
  BY <1>13, CallTyped DEF TabType, CallType
<1>19. RefreshCurrent(r) /\ StartCurrent(r) /\ RequestsIssued(r)
  <2>1. \A c \in Calls : r.call[c].request # r.request /\ r.call[c].request <= r.request
    BY <1>17, <1>18
  <2>2. QED
    BY <2>1 DEF RefreshCurrent, StartCurrent, RequestsIssued
<1>20. IdleNowhere(r)
  BY <1>11, <1>13 DEF Good, IdleNowhere
<1>21. QED
  BY <1>5, <1>13, <1>15, <1>16, <1>19, <1>20 DEF Good

-----------------------------------------------------------------------------
\* The numbers below another.
Below == {ss \in Nat \X Nat : ss[1] < ss[2]}

LEMMA BelowWellFounded == IsWellFoundedOn(Below, Nat)
<1>1. Below = OpToRel(<, Nat)
  BY DEF Below, OpToRel
<1>2. QED
  BY <1>1, NatLessThanWellFounded

LEMMA LeastType ==
  ASSUME NEW S, S \subseteq Nat, S # {}
  PROVE  Min(S) \in S
<1>1. PICK x \in S : \A y \in S : <<y, x>> \notin Below
  BY BelowWellFounded, WFMin
<1>2. \A y \in S : x <= y
  <2> SUFFICES ASSUME NEW y \in S, y < x PROVE FALSE
    BY <1>1
  <2>1. <<y, x>> \in Nat \X Nat /\ <<y, x>>[1] < <<y, x>>[2]
    OBVIOUS
  <2>2. QED
    BY <1>1, <2>1 DEF Below
<1>3. QED
  BY <1>2 DEF Min

LEMMA IdleCall ==
  ASSUME NEW s, Good(s), Idle(s) # {}
  PROVE  /\ Min(Idle(s)) \in Calls /\ s.call[Min(Idle(s))].op = "none"
         /\ Clear(s, Min(Idle(s)))
<1>1. Idle(s) \subseteq Nat
  BY LocalMediaAssumption DEF Idle, Calls
<1>2. Min(Idle(s)) \in Idle(s)
  BY <1>1, LeastType
<1>3. QED
  BY <1>2 DEF Idle, Good, IdleNowhere, Clear, Swapped

LEMMA FreshTrack ==
  ASSUME NEW s, Free(s) # {}
  PROVE  Fresh(s) \in Free(s) /\ Fresh(s) \in Tracks
<1>1. Free(s) \subseteq Nat /\ Free(s) \subseteq Tracks
  BY LocalMediaAssumption DEF Free, Tracks
<1>2. QED
  BY <1>1, LeastType DEF Fresh

LEMMA SecondTrack ==
  ASSUME NEW s, Cardinality(Free(s)) > 1
  PROVE  /\ Fresh(s) \in Tracks
         /\ Min(Free(s) \ {Fresh(s)}) \in Tracks \ {Fresh(s)}
<1>1. Free(s) \subseteq Nat /\ Free(s) \subseteq Tracks /\ IsFiniteSet(Free(s))
  <2>1. IsFiniteSet(Tracks)
    BY LocalMediaAssumption, FS_Interval DEF Tracks, LocalMediaAssumption
  <2>2. QED
    BY <2>1, LocalMediaAssumption, FS_Subset DEF Free, Tracks
<1>2. Free(s) # {}
  BY FS_EmptySet
<1>3. Fresh(s) \in Free(s)
  BY <1>2, FreshTrack
<1>4. Free(s) \ {Fresh(s)} # {}
  <2>1. Cardinality({Fresh(s)}) = 1
    BY FS_Singleton
  <2>2. QED
    BY <1>3, <2>1
<1>5. Min(Free(s) \ {Fresh(s)}) \in Free(s) \ {Fresh(s)}
  BY <1>1, <1>4, LeastType
<1>6. QED
  BY <1>1, <1>3, <1>5

-----------------------------------------------------------------------------
\* Every action ends by tidying up a state the invariant holds of.
LEMMA SetGood ==
  ASSUME NEW x, Good(x), Set(x)
  PROVE  Good(tab')
<1>1. Good(Tidy(x))
  BY TidyTracks, TracksOnlyQuieter, QuieterGood DEF Good
<1>2. QED
  BY <1>1 DEF Set

LEMMA BegunGood ==
  ASSUME NEW s, Good(s), NEW c \in Calls, Clear(s, c), NEW r,
         r = s \/ Moves(s, r, c) \/ Aside(s, r)
  PROVE  Good(r)
BY MovesGood, AsideQuieter, QuieterGood

LEMMA OperationGood ==
  ASSUME Good(tab), Toggle \/ Flip \/ Recover \/ Share \/ Unshare
  PROVE  Good(tab')
<1> DEFINE c == Min(Idle(tab))
<1>1. tab \in TabType
  BY DEF Good
<1>2. Idle(tab) # {}
  BY DEF Toggle, Flip, Recover, Share, Unshare, Operate
<1>3. c \in Calls /\ Clear(tab, c)
  BY <1>2, IdleCall
<1>4. CASE Toggle
  <2>1. Set(ToggleVideo(tab, c))
    BY <1>4 DEF Toggle, Operate
  <2> HIDE DEF c
  <2>2. QED
    BY <1>1, <1>3, <2>1, ToggleVideoMoves, BegunGood, SetGood
<1>5. CASE Flip
  <2>1. Set(FlipCamera(tab, c))
    BY <1>5 DEF Flip, Operate
  <2> HIDE DEF c
  <2>2. QED
    BY <1>1, <1>3, <2>1, FlipCameraMoves, BegunGood, SetGood
<1>6. CASE Recover
  <2>1. PICK forced \in BOOLEAN : Set(RefreshVideo(tab, c, forced))
    BY <1>6 DEF Recover, Operate
  <2> HIDE DEF c
  <2>2. QED
    BY <1>1, <1>3, <2>1, RefreshVideoMoves, BegunGood, SetGood
<1>7. CASE Share
  <2>1. Set(ShareScreen(tab, c))
    BY <1>7 DEF Share, Operate
  <2> HIDE DEF c
  <2>2. QED
    BY <1>1, <1>3, <2>1, ShareScreenMoves, BegunGood, SetGood
<1>8. CASE Unshare
  <2>1. Set(StopShare(tab, c))
    BY <1>8 DEF Unshare, Operate
  <2> HIDE DEF c
  <2>2. QED
    BY <1>1, <1>3, <2>1, StopShareMoves, BegunGood, SetGood
<1>9. QED
  BY <1>4, <1>5, <1>6, <1>7, <1>8

LEMMA StopGood ==
  ASSUME NEW s, Good(s), NEW t \in TrackIds
  PROVE  Good(Stop(s, t)) /\ Stop(s, t).call = s.call
BY StopTouches, QuieterGood DEF Good

LEMMA BrowserGood ==
  ASSUME Good(tab), Start \/ DeviceChange \/ DisplayEnds \/ DeviceLost
  PROVE  Good(tab')
<1> DEFINE c == Min(Idle(tab))
<1>1. tab \in TabType /\ tab.screen \in TrackIds /\ tab.video \in TrackIds
  BY StreamType DEF Good
<1>2. CASE Start
  <2>1. Idle(tab) # {} /\ Set(StartMedia(tab, c))
    BY <1>2 DEF Start
  <2>2. c \in Calls /\ tab.call[c].op = "none"
    BY <2>1, IdleCall
  <2> HIDE DEF c
  <2>3. QED
    BY <2>1, <2>2, StartMediaGood, SetGood
<1>3. CASE DeviceChange
  <2>1. /\ Idle(tab) # {} /\ tab.up /\ ~tab.requesting /\ ~tab.audioBusy
        /\ Set(RefreshAudio(Begin(tab, c, "audio", "mic"), c))
    BY <1>3 DEF DeviceChange
  <2>2. c \in Calls
    BY <2>1, IdleCall
  <2> HIDE DEF c
  <2>3. QED
    BY <2>1, <2>2, DeviceChangeGood, SetGood
<1>4. CASE DisplayEnds
  <2> DEFINE q == Stop(tab, tab.screen)
  <2>1. Idle(tab) # {} /\ Set(StopShare(q, c))
    BY <1>4 DEF DisplayEnds
  <2>2. Good(q) /\ q.call = tab.call /\ q \in TabType
    BY <1>1, StopGood DEF Good
  <2> HIDE DEF q
  <2>3. c \in Calls /\ tab.call[c].op = "none"
    BY <2>1, IdleCall
  <2> HIDE DEF c
  <2>4. Clear(q, c)
    BY <2>2, <2>3 DEF Good, IdleNowhere, Clear, Swapped
  <2>5. QED
    BY <2>1, <2>2, <2>3, <2>4, StopShareMoves, BegunGood, SetGood
<1>5. CASE DeviceLost
  BY <1>1, <1>5, StopGood, SetGood DEF DeviceLost
<1>6. QED
  BY <1>2, <1>3, <1>4, <1>5

LEMMA EndingGood ==
  ASSUME Good(tab), Destroy \/ CallOver
  PROVE  Good(tab')
<1> DEFINE q == StopLocalMedia(tab)
           r == [q EXCEPT !.destroyed = TRUE]
<1>1. Set(r) \/ Set(q)
  BY DEF Destroy, CallOver
<1>2. Good(q) /\ q \in TabType
  BY StopLocalMediaGood
<1> HIDE DEF q
<1>3. Good(r)
  BY <1>2, FlagsAside, AsideQuieter, QuieterGood
<1>4. QED
  BY <1>1, <1>2, <1>3, SetGood

LEMMA GrantedGood ==
  ASSUME Good(tab), NEW c \in Calls, Granted(c)
  PROVE  Good(tab')
<1>1. tab \in TabType
  BY DEF Good
<1>2. CASE /\ tab.call[c].at = "media" /\ Cardinality(Free(tab)) > 1
           /\ Set(MediaCome(tab, c, Fresh(tab), Min(Free(tab) \ {Fresh(tab)})))
  BY <1>2, SecondTrack, MediaComeGood, SetGood
<1>3. CASE tab.call[c].at = "mic" /\ Free(tab) # {} /\ Set(MicCome(tab, c, Fresh(tab)))
  BY <1>3, FreshTrack, MicComeGood, SetGood
<1>4. CASE tab.call[c].at = "camera" /\ Free(tab) # {} /\ Set(CameraCome(tab, c, Fresh(tab)))
  <2>1. Clear(tab, c) /\ tab.call[c].op # "none" /\ Fresh(tab) \in Tracks
    BY <1>4, FreshTrack DEF Clear, Swapped, Good, IdleNowhere
  <2>2. QED
    BY <1>1, <1>4, <2>1, CameraComeMoves, MovesGood, SetGood
<1>5. CASE tab.call[c].at = "display" /\ Free(tab) # {} /\ Set(DisplayCome(tab, c, Fresh(tab)))
  <2>1. Clear(tab, c) /\ tab.call[c].op # "none" /\ Fresh(tab) \in Tracks
    BY <1>5, FreshTrack DEF Clear, Swapped, Good, IdleNowhere
  <2>2. QED
    BY <1>1, <1>5, <2>1, DisplayComeMoves, MovesGood, SetGood
<1>6. QED
  BY <1>2, <1>3, <1>4, <1>5 DEF Granted

LEMMA DeniedGood ==
  ASSUME Good(tab), NEW c \in Calls, Denied(c)
  PROVE  Good(tab')
<1> DEFINE a == [tab EXCEPT !.requesting = FALSE]
           b == [tab EXCEPT !.restore = "none"]
<1>1. tab \in TabType
  BY DEF Good
<1>2. Aside(tab, a) /\ Aside(tab, b)
  BY <1>1, FlagsAside, RestoreAside
<1>3. \/ tab.call[c].at = "media" /\ Set(End(a, c))
      \/ tab.call[c].at = "camera" /\ Set(CameraRefused(tab, c))
      \/ tab.call[c].at = "mic" /\ Set(AfterAudio(tab, c))
      \/ tab.call[c].at = "display" /\ Set(End(b, c))
  BY DEF Denied, MediaRefused
<1> HIDE DEF a, b
<1>4. Clear(tab, c) /\ tab.call[c].op # "none"
  BY <1>3 DEF Clear, Swapped, Good, IdleNowhere
<1>5. Good(End(a, c)) /\ Good(End(b, c))
  BY <1>1, <1>2, <1>4, AsideEnds, MovesGood
<1>6. Good(CameraRefused(tab, c))
  BY <1>1, <1>4, CameraRefusedMoves, MovesGood
<1>7. tab.call[c].at = "mic" => Good(AfterAudio(tab, c))
  BY <1>4, AfterAudioGood DEF AtMic
<1>8. QED
  BY <1>3, <1>5, <1>6, <1>7, SetGood

LEMMA PeerGood ==
  ASSUME Good(tab), NEW p \in Peers,
         Joins(p) \/ Parts(p) \/ Bound(p) \/ Applied(p) \/ Rejected(p) \/ Agreed(p)
  PROVE  Good(tab')
<1>1. tab \in TabType
  BY DEF Good
<1>2. ASSUME NEW r, PeersOnly(tab, r) \/ Quieter(tab, r), Set(r)
      PROVE  Good(tab')
  BY <1>2, PeersOnlyQuieter, QuieterGood, SetGood
<1>3. CASE Joins(p)
  BY <1>1, <1>2, <1>3, CreatePeerPeers DEF Joins
<1>4. CASE Parts(p)
  BY <1>1, <1>2, <1>4, CloseQuieter DEF Parts
<1>5. CASE Bound(p)
  BY <1>1, <1>2, <1>5, BindRolesPeers DEF Bound
<1>6. CASE Applied(p)
  BY <1>1, <1>2, <1>6, ApplyPeers DEF Applied
<1>7. CASE Rejected(p)
  BY <1>1, <1>2, <1>7, RejectPeers DEF Rejected
<1>8. CASE Agreed(p)
  BY <1>1, <1>2, <1>8, RenegotiatedPeers DEF Agreed
<1>9. QED
  BY <1>3, <1>4, <1>5, <1>6, <1>7, <1>8

LEMMA NextGood ==
  ASSUME Good(tab), Next
  PROVE  Good(tab')
<1>1. CASE \E c \in Calls : Resumed(c)
  <2>1. PICK c \in Calls : Resumed(c)
    BY <1>1
  <2>2. Good(Resume(tab, c))
    BY <2>1, ResumeGood DEF Resumed, Resumable
  <2>3. QED
    BY <2>1, <2>2, SetGood DEF Resumed
<1>2. CASE Event
  <2>1. CASE \E c \in Calls : Granted(c) \/ Denied(c) \/ Listed(c)
    <3>1. PICK c \in Calls : Granted(c) \/ Denied(c) \/ Listed(c)
      BY <2>1
    <3>2. CASE Listed(c)
      <4>1. tab.call[c].at = "devices" /\ \E rerouted \in BOOLEAN : Set(DevicesKnown(tab, c, rerouted))
        BY <3>2 DEF Listed
      <4>2. QED
        BY <4>1, DevicesKnownGood, SetGood
    <3>3. QED
      BY <3>1, <3>2, GrantedGood, DeniedGood
  <2>2. CASE \E p \in Peers : \/ Joins(p) \/ Parts(p) \/ Bound(p)
                              \/ Applied(p) \/ Rejected(p) \/ Agreed(p)
    BY <2>2, PeerGood
  <2>3. QED
    BY <1>2, <2>1, <2>2, OperationGood, BrowserGood, EndingGood DEF Event
<1>3. QED
  BY <1>1, <1>2 DEF Next

-----------------------------------------------------------------------------
LEMMA NextBudget ==
  ASSUME budget \in [Budgets -> Nat], Next
  PROVE  budget' \in [Budgets -> Nat]
<1>1. ASSUME NEW kind \in Budgets, Spend(kind)
      PROVE  budget' \in [Budgets -> Nat]
  <2>1. budget[kind] \in Nat /\ budget[kind] > 0
    BY <1>1 DEF Spend
  <2>2. budget[kind] - 1 \in Nat
    BY <2>1
  <2>3. budget' = [budget EXCEPT ![kind] = budget[kind] - 1]
    BY <1>1 DEF Spend
  <2>4. QED
    BY <2>2, <2>3
<1>2. Keep \/ \E kind \in Budgets : Spend(kind)
  <2>1. CASE \E c \in Calls : Resumed(c)
    BY <2>1 DEF Resumed
  <2>2. CASE Event
    <3>1. CASE Toggle \/ Flip \/ Recover \/ Share \/ Unshare
      BY <3>1 DEF Toggle, Flip, Recover, Share, Unshare, Operate, Budgets
    <3>2. CASE Start \/ DeviceChange \/ DisplayEnds \/ DeviceLost \/ Destroy \/ CallOver
      BY <3>2 DEF Start, DeviceChange, DisplayEnds, DeviceLost, Destroy, CallOver, Budgets
    <3>3. CASE \E c \in Calls : Granted(c) \/ Denied(c) \/ Listed(c)
      BY <3>3 DEF Granted, Denied, Listed, Budgets
    <3>4. CASE \E p \in Peers : \/ Joins(p) \/ Parts(p) \/ Bound(p)
                                \/ Applied(p) \/ Rejected(p) \/ Agreed(p)
      BY <3>4 DEF Joins, Parts, Bound, Applied, Rejected, Agreed, Budgets
    <3>5. QED
      BY <2>2, <3>1, <3>2, <3>3, <3>4 DEF Event
  <2>3. QED
    BY <2>1, <2>2 DEF Next
<1>3. Keep => budget' \in [Budgets -> Nat]
  BY DEF Keep
<1>4. QED
  BY <1>1, <1>2, <1>3

LEMMA BlankGood ==
  ASSUME NEW plan \in Plans
  PROVE  Good(BlankTab(plan)) /\ plan.budget \in [Budgets -> Nat]
<1> DEFINE r == BlankTab(plan)
           pr(p) == [NoPeer EXCEPT !.here = p \in plan.here,
                                   !.bound = p \in plan.here /\ plan.owner]
           kt == [t \in Tracks |-> NoTrack]
           kp == [p \in Peers |-> pr(p)]
           kc == [c \in Calls |-> NoCall]
<1>1. plan \in [independent : BOOLEAN, owner : BOOLEAN,
                here : SUBSET Peers, budget : [Budgets -> Nat]]
  BY LocalMediaAssumption DEF LocalMediaAssumption
<1>2. kt \in [Tracks -> TrackType]
  BY DEF NoTrack, TrackType
<1>3. kc \in [Calls -> CallType]
  BY NoCallType
<1>4. \A p \in Peers : pr(p) \in PeerType
  <2> SUFFICES ASSUME NEW p \in Peers PROVE pr(p) \in PeerType
    OBVIOUS
  <2> DEFINE h == p \in plan.here
             b == h /\ plan.owner
  <2>1. h \in BOOLEAN /\ b \in BOOLEAN
    OBVIOUS
  <2>2. pr(p) = [NoPeer EXCEPT !.here = h, !.bound = b]
    OBVIOUS
  <2> HIDE DEF h, b, pr
  <2>3. QED
    BY <2>1, <2>2, NoPeerType DEF PeerType
<1> HIDE DEF pr
<1>5. kp \in [Peers -> PeerType]
  BY <1>4
<1>6. None \in TrackIds /\ 0 \in CallIds
  BY LocalMediaAssumption DEF TrackIds, CallIds, None, LocalMediaAssumption
<1>7. /\ r.track = kt /\ r.call = kc /\ r.request = 0
      /\ r \in TabType
  <2> HIDE DEF kt, kp, kc
  <2>1. r = [independent |-> plan.independent, owner |-> plan.owner, track |-> kt,
             up |-> FALSE, audio |-> None, video |-> None, screen |-> None, content |-> None,
             sharing |-> FALSE, restore |-> "none", stopping |-> FALSE,
             requesting |-> FALSE, starting |-> 0, request |-> 0,
             cameraBusy |-> FALSE, audioBusy |-> FALSE, destroyed |-> FALSE,
             wanted |-> TRUE, said |-> FALSE, peer |-> kp, call |-> kc]
    BY DEF BlankTab, kt, kp, kc, pr
  <2> HIDE DEF r
  <2>2. QED
    BY <1>1, <1>2, <1>3, <1>5, <1>6, <2>1 DEF TabType
<1> HIDE DEF r
<1>8. \A c \in Calls : r.call[c].at = "none" /\ r.call[c].request = 0
  BY <1>7, NoCallType
<1>9. MicsHeld(r)
  BY <1>7 DEF MicsHeld, OpenMic, NoTrack
<1>10. OneRefresh(r) /\ RefreshCurrent(r) /\ StartCurrent(r) /\ IdleNowhere(r)
  BY <1>8 DEF OneRefresh, AtMic, RefreshCurrent, StartCurrent, IdleNowhere
<1>11. RequestsIssued(r)
  BY <1>7, <1>8 DEF RequestsIssued
<1>12. QED
  BY <1>1, <1>7, <1>9, <1>10, <1>11 DEF Good, r

-----------------------------------------------------------------------------
(***************************************************************************)
(* The theorems.                                                           *)
(***************************************************************************)
\* The tab stays typed; an open microphone is the stream's or about to be stopped, one
\* refresh runs at a time, and what a stale request brings is not kept
\* (mediaRequestId and audioRecoveryInFlight of MediaEngine.ts).
THEOREM MediaInvariant == Spec => []Inv
<1>1. Init => Inv
  BY BlankGood DEF Init, Inv
<1>2. Inv /\ [Next]_vars => Inv'
  <2> SUFFICES ASSUME Inv, [Next]_vars PROVE Inv'
    OBVIOUS
  <2>1. CASE Next
    <3>1. Good(tab') /\ budget' \in [Budgets -> Nat]
      BY <2>1, NextGood, NextBudget DEF Inv
    <3>2. QED
      BY <3>1 DEF Inv
  <2>2. CASE UNCHANGED vars
    <3>1. tab' = tab /\ budget' = budget
      BY <2>2 DEF vars
    <3>2. Good(tab') /\ budget' \in [Budgets -> Nat]
      BY <3>1 DEF Inv
    <3>3. QED
      BY <3>2 DEF Inv
  <2>3. QED
    BY <2>1, <2>2
<1>3. QED
  BY <1>1, <1>2, PTL DEF Spec

\* Once everything has settled, the only open microphone is the local stream's,
\* whatever was started, refused, replaced, left or destroyed during the awaits, by any
\* number of operations at once and with any peers (startLocalMedia,
\* refreshLocalAudioTrack, stopLocalMedia).
THEOREM MicTheorem == Spec => []MicHeldOnce
<1>1. Inv => MicHeldOnce
  <2> SUFFICES ASSUME Inv, Quiet, NEW t \in Tracks, tab.track[t].live, tab.track[t].kind = "mic"
               PROVE  tab.up /\ t = tab.audio
    BY DEF MicHeldOnce
  <2>1. \A c \in Calls : ~Swapped(tab, c, t)
    BY DEF Inv, Good, IdleNowhere, Quiet, Swapped
  <2>2. QED
    BY <2>1 DEF Inv, Good, MicsHeld, OpenMic
<1>2. QED
  BY <1>1, MediaInvariant, PTL
=============================================================================
