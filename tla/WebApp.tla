------------------------------- MODULE WebApp -------------------------------
(***************************************************************************)
(* The pages of the web application: Home, with its recent calls and saved *)
(* rooms and the occupancy of each, and CallRoom, with the camera preview  *)
(* before the call.  localStorage is shared by all tabs and outlives this  *)
(* one; React runs the cleanups of a page when it is left or its room      *)
(* changes, and none when the tab is reloaded.                             *)
(***************************************************************************)
EXTENDS RoomWatching, SequencesExt, FiniteSets

CONSTANTS
  MaxRecent,   \* MAX_RECENT_CALLS
  MaxSaved,    \* MAX_SAVED_ROOMS
  Stored       \* what localStorage may hold when the application is opened

ASSUME WebAppAssumption ==
  /\ {MaxRecent, MaxSaved} \subseteq Nat \ {0}
  /\ Stored \subseteq [recent : Seq(Rooms), saved : Seq(Rooms)]

VARIABLES
  storage,   \* the call history and the saved rooms of this origin
  page,      \* the page on display and its state
  camera,    \* preview streams that are live, and requests that were cancelled
  creating,  \* createRoomId is awaited by the start-call button
  visits     \* the rooms of the calls that ended here, the last one first

vars == <<watching, storage, page, camera, creating, visits>>

-----------------------------------------------------------------------------
(* callHistory.ts and savedRooms.ts *)

Without(seq, r) == SelectSeq(seq, LAMBDA x : x # r)
Valid(seq) == SelectSeq(seq, LAMBDA x : x \in ValidRooms)
FirstOf(seq, n) == SubSeq(seq, 1, IF Len(seq) < n THEN Len(seq) ELSE n)
ToFront(seq, r, n) == FirstOf(<<r>> \o Without(seq, r), n)

\* Mutant: the earlier call in the room stays in the list.
SaveCallAgain(s, r) ==
  IF r \in ValidRooms THEN [s EXCEPT !.recent = FirstOf(<<r>> \o @, MaxRecent)] ELSE s

SaveCall(s, r) ==
  IF r \in ValidRooms THEN [s EXCEPT !.recent = ToFront(@, r, MaxRecent)] ELSE s

RemoveRecentCall(s, r) == [s EXCEPT !.recent = Without(@, r)]

\* What getRecentCalls and getSavedRooms return they also store.
RecentCalls(s) == Valid(s.recent)
SavedRooms(s) ==
  FirstOf(FoldLeft(LAMBDA kept, r : IF Contains(kept, r) THEN kept ELSE Append(kept, r),
                   <<>>, Valid(s.saved)), MaxSaved)
Cleaned(s) == [recent |-> RecentCalls(s), saved |-> SavedRooms(s)]

SaveRoom(s, r) ==
  IF r \in ValidRooms THEN [s EXCEPT !.saved = ToFront(SavedRooms(s), r, MaxSaved)] ELSE s
RemoveRoom(s, r) == [s EXCEPT !.saved = Without(SavedRooms(s), r)]

\* Times are left out: markRoomJoined only puts the list in order.
MarkRoomJoined(s) == [s EXCEPT !.saved = SavedRooms(s)]

-----------------------------------------------------------------------------
(* The pages. *)

Home(s) == [at |-> "home", recent |-> s.recent, saved |-> s.saved]

\* joined is shouldJoin, and then a session and callStartTimeRef are set.
CallRoom(r, invited) ==
  [at |-> "call", room |-> r, invited |-> invited, joined |-> FALSE,
   preview |-> "asking"]

Listed(home) == Range(home.recent) \cup Range(home.saved)

\* loadData, and the effect that follows it.
Load(w, s) ==
  /\ storage' = Cleaned(s)
  /\ page' = Home(Cleaned(s))
  /\ watcher' = WatchRooms(w, Listed(Home(Cleaned(s))))

\* Mutant: the camera that comes after the preview is over is kept.
CameraKept(c) == [cancelled |-> c.cancelled - 1, live |-> c.live + 1]

\* getUserMedia answers a request whose effect was cleaned up meanwhile.
CameraReturned(c) == [c EXCEPT !.cancelled = @ - 1]

\* The cleanup of the preview effect, and stopPreview.
PreviewOver(c, p) ==
  CASE p.preview = "asking" -> [c EXCEPT !.cancelled = @ + 1]
    [] p.preview = "on"     -> [c EXCEPT !.live = @ - 1]
    [] OTHER                -> c

InCall(p) == p.at = "call" /\ p.joined

\* The cleanup that records a call, and handleDismiss, which leaves nothing for
\* it to record: the room is the one the effect was run for.
Recorded(s, p) == IF InCall(p) THEN MarkRoomJoined(SaveCall(s, p.room)) ELSE s

Ended(v, p) ==
  IF InCall(p) /\ p.room \in ValidRooms THEN <<p.room>> \o Without(v, p.room) ELSE v

\* The page is left: its cleanups run.
Leave ==
  /\ camera' = IF page.at = "call" THEN PreviewOver(camera, page) ELSE camera
  /\ visits' = Ended(visits, page)
  /\ subscribed' = {} /\ overtaken' = {}
  /\ UNCHANGED occupancy

GoHome(s) == Leave /\ Load(NewWatcher, Recorded(s, page))

\* From Home the page is new; from another call the component stays, and with
\* it shouldJoin: the effects run again, for the new room.
GoToCall(r, invited) ==
  /\ Leave
  /\ storage' = Recorded(storage, page)
  /\ watcher' = Stopped
  /\ page' = IF InCall(page)
             THEN [CallRoom(r, invited) EXCEPT !.joined = TRUE, !.preview = "none"]
             ELSE CallRoom(r, invited)

Init ==
  /\ WatchingInit
  /\ storage \in Stored
  /\ page = [at |-> "blank"]
  /\ camera = [cancelled |-> 0, live |-> 0]
  /\ creating = FALSE
  /\ visits = storage.recent

-----------------------------------------------------------------------------
(* What the user does. *)

\* The application is opened, or the tab reloaded: what was in memory is gone,
\* and a call that was under way is not recorded.
Open ==
  /\ Happens
  /\ camera' = [cancelled |-> 0, live |-> 0]
  /\ creating' = FALSE
  /\ subscribed' = {} /\ overtaken' = {}
  /\ \/ Load(NewWatcher, storage)
     \/ \E r \in Rooms, invited \in BOOLEAN :
          page' = CallRoom(r, invited) /\ watcher' = Stopped /\ UNCHANGED storage
  /\ UNCHANGED <<occupancy, visits>>

\* A room of a list, a link, or back and forward between two calls.
OpenCall(r, invited) ==
  /\ Happens
  /\ page.at # "blank"
  /\ page.at = "call" => page.room # r
  /\ GoToCall(r, invited)
  /\ UNCHANGED creating

\* The button of Home: createRoomId is awaited, then navigate runs wherever the
\* user is by then.
StartCall ==
  /\ Happens
  /\ page.at = "home" /\ ~creating
  /\ creating' = TRUE
  /\ UNCHANGED <<watcher, occupancy, subscribed, overtaken, storage, page, camera, visits>>

RoomCreated(r) ==
  /\ creating
  /\ creating' = FALSE
  /\ \/ (page.at = "call" => page.room # r) /\ GoToCall(r, FALSE) /\ UNCHANGED events
     \/ UNCHANGED <<watching, storage, page, camera, visits>>

\* A list of Home is edited: the lists are loaded again.
EditLists(r) ==
  /\ Happens
  /\ page.at = "home"
  /\ \/ /\ r \in Range(page.recent)
        /\ Load(watcher, RemoveRecentCall(storage, r))
        /\ visits' = Without(FirstOf(visits, MaxRecent), r)
     \/ r \in Range(page.saved) /\ Load(watcher, RemoveRoom(storage, r)) /\ UNCHANGED visits
     \/ r \in ValidRooms /\ Load(watcher, SaveRoom(storage, r)) /\ UNCHANGED visits
  /\ UNCHANGED <<occupancy, subscribed, overtaken, camera, creating>>

\* Another tab ends a call, or edits the saved rooms: this one is not told.
OtherTab(r) ==
  /\ Happens
  /\ \/ /\ storage' = MarkRoomJoined(SaveCall(storage, r))
        /\ visits' = Ended(visits, [at |-> "call", joined |-> TRUE, room |-> r])
     \/ storage' \in {SaveRoom(storage, r), RemoveRoom(storage, r)} /\ UNCHANGED visits
  /\ UNCHANGED <<watcher, occupancy, subscribed, overtaken, page, camera, creating>>

-----------------------------------------------------------------------------
(* The call page. *)

\* getUserMedia of the preview.
PreviewComes ==
  /\ page.at = "call" /\ page.preview = "asking"
  /\ \/ page' = [page EXCEPT !.preview = "on"] /\ camera' = [camera EXCEPT !.live = @ + 1]
     \/ page' = [page EXCEPT !.preview = "none"] /\ UNCHANGED camera
  /\ UNCHANGED <<watching, storage, creating, visits>>

LatePreview ==
  /\ camera.cancelled > 0
  /\ camera' = CameraReturned(camera)
  /\ UNCHANGED <<watching, storage, page, creating, visits>>

\* handleJoin: an invitation is saved first, and not joined if it cannot be.
Join ==
  /\ Happens
  /\ page.at = "call" /\ ~page.joined
  /\ page.invited => page.room \in ValidRooms
  /\ storage' = IF page.invited THEN SaveRoom(storage, page.room) ELSE storage
  /\ camera' = PreviewOver(camera, page)
  /\ page' = [page EXCEPT !.joined = TRUE, !.preview = "none"]
  /\ UNCHANGED <<watcher, occupancy, subscribed, overtaken, creating, visits>>

\* The home button, handleSaveOnly, or the end of the call.
BackHome ==
  /\ Happens
  /\ page.at = "call"
  /\ \/ GoHome(storage)
     \/ page.invited /\ ~page.joined /\ page.room \in ValidRooms
        /\ GoHome(SaveRoom(storage, page.room))
  /\ UNCHANGED creating

Next ==
  \/ Open \/ StartCall \/ PreviewComes \/ LatePreview \/ Join \/ BackHome
  \/ \E r \in Rooms, invited \in BOOLEAN : OpenCall(r, invited)
  \/ \E r \in Rooms : EditLists(r)
  \/ \E r \in ValidRooms : RoomCreated(r) \/ OtherTab(r)
  \/ WatchingStep /\ UNCHANGED <<storage, page, camera, creating, visits>>

Spec == Init /\ [][Next]_vars

-----------------------------------------------------------------------------
(* What must hold. *)

\* Once everything is answered, the mark at every room on the page says what
\* the server knows of it, whatever the user added or removed while the
\* connection was being made, lost and made again.  Only a room whose answer
\* was sent after a newer update stays wrong, until its next change.
MarksTrue ==
  page.at = "home" /\ Answered =>
    \A r \in Rooms \ overtaken : r \in Listed(page) =>
      StatusState(CurrentStatus(watcher, r)) = StatusState(occupancy[r])

\* The history is that of the last calls, each room once, the last one first, by
\* whatever path inside the application they ended: a call cut off by a reload of the
\* page is not recorded, and not counted here.
RecentsAreLatest == Valid(storage.recent) = FirstOf(visits, MaxRecent)

\* The camera of the preview is on only while the preview is: also when it was
\* granted after the user had joined, gone to another room, or left.
PreviewReleased ==
  camera.live = IF page.at = "call" /\ page.preview = "on" THEN 1 ELSE 0
=============================================================================
