------------------------------- MODULE Calls -------------------------------
(***************************************************************************)
(* What the server promises the participants of the calls it hosts,        *)
(* whatever its tables, transports and timers: who has a place, who is the *)
(* host, how many places there are, and whom an ended call lets back in    *)
(* (docs/serenada_protocol_v1.md, server/signaling.go).                    *)
(*                                                                         *)
(* A place is lost by leaving, by expiring while its participant is away,  *)
(* or with the call.  A join may first give up the place that its sender   *)
(* had, in any call: the two happen in one step.                           *)
(*                                                                         *)
(* SignalingHub is shown to implement this module.                         *)
(***************************************************************************)
EXTENDS Integers, FiniteSets

CONSTANTS
  RIDs,    \* rooms
  CIDs,    \* identities
  Nil,     \* the host of no call
  Limit    \* places a call may have at most

VARIABLES
  calls,   \* the call in each room
  ended,   \* rooms whose last call was ended, and not long ago
  keys     \* <<room, identity>> pairs the server vouched for

vars == <<calls, ended, keys>>

\* A call nobody has a place in.
NoCall == [here |-> {}, away |-> {}, host |-> Nil, asked |-> 0, places |-> 0]

Participants(call) == call.here \cup call.away

\* The call with other participants.
Seating(call, here, away) ==
  [here |-> here, away |-> away, host |-> call.host,
   asked |-> call.asked, places |-> call.places]

Init ==
  /\ calls = [r \in RIDs |-> NoCall]
  /\ ended = {}
  /\ keys = {}

-----------------------------------------------------------------------------
\* How many places there are is decided when the second participant enters, and
\* never again.
PlacesOf(call) == IF call.places # 0 THEN {call.places} ELSE 2..call.asked

\* What a call may be once some are gone.  The host is replaced only if it
\* goes, and by somebody who is here, if anybody is.
Without(call, gone) ==
  LET here == call.here \ gone
      away == call.away \ gone
      heirs == IF call.host \notin gone THEN {call.host}
               ELSE IF here # {} THEN here ELSE away
  IN  IF Participants(call) \subseteq gone THEN {NoCall}
      ELSE {[Seating(call, here, away) EXCEPT !.host = h] : h \in heirs}

\* Newcomers may enter any call, and those the server knows the call they were
\* in, unless it was ended.
MayEnter(r, p) ==
  \/ \A q \in RIDs : <<q, p>> \notin keys
  \/ <<r, p>> \in keys /\ r \notin ended

-----------------------------------------------------------------------------
(* What may become of the calls s, in one step. *)

\* The call in r becomes new; nobody is let in.
Becomes(s, r, new) ==
  /\ calls' = [s EXCEPT ![r] = new]
  /\ UNCHANGED <<ended, keys>>

Return(s, r, p) ==
  /\ p \in Participants(s[r])
  /\ Becomes(s, r, Seating(s[r], s[r].here \cup {p}, s[r].away \ {p}))

Away(s, r, p) ==
  /\ p \in Participants(s[r])
  /\ Becomes(s, r, Seating(s[r], s[r].here \ {p}, s[r].away \cup {p}))

Expire(s, r, gone) ==
  /\ gone # {} /\ gone \subseteq s[r].away
  /\ \E new \in Without(s[r], gone) : Becomes(s, r, new)

Enter(s, r, p) ==
  /\ Participants(s[r]) # {} /\ p \notin Participants(s[r])
  /\ MayEnter(r, p)
  /\ \E n \in PlacesOf(s[r]) :
       /\ Cardinality(Participants(s[r])) < n
       /\ calls' = [s EXCEPT ![r] =
            [Seating(@, @.here \cup {p}, @.away) EXCEPT !.places = n]]
  /\ keys' = keys \cup {<<r, p>>}
  /\ UNCHANGED ended

Open(s, r, p) ==
  /\ s[r] = NoCall
  /\ MayEnter(r, p)
  /\ \E n \in 2..Limit :
       calls' = [s EXCEPT ![r] =
         [here |-> {p}, away |-> {}, host |-> p, asked |-> n,
          places |-> IF n = 2 THEN 2 ELSE 0]]
  /\ keys' = keys \cup {<<r, p>>}
  /\ ended' = ended \ {r}

\* What a join comes to, once the place it gives up is free.
Join(s) ==
  \/ calls' = s /\ UNCHANGED <<ended, keys>>
  \/ \E r \in RIDs, p \in CIDs :
       \/ Return(s, r, p) \/ Away(s, r, p) \/ Expire(s, r, {p})
       \/ Enter(s, r, p) \/ Open(s, r, p)

-----------------------------------------------------------------------------
Leave(r, p) ==
  /\ p \in Participants(calls[r])
  /\ \E new \in Without(calls[r], {p}) : Becomes(calls, r, new)

Move(r, p) ==
  /\ p \in calls[r].here
  /\ \E new \in Without(calls[r], {p}) : Join([calls EXCEPT ![r] = new])

End(r) ==
  /\ calls[r].host \in calls[r].here
  /\ calls' = [calls EXCEPT ![r] = NoCall]
  /\ ended' = ended \cup {r}
  /\ UNCHANGED keys

\* Nobody came back in time.
Close(r) ==
  /\ calls[r].here = {}
  /\ Becomes(calls, r, NoCall)

Forget(r) ==
  /\ ended' = ended \ {r}
  /\ UNCHANGED <<calls, keys>>

\* The server restarts: what it vouched for is all that lasts.
Restart ==
  /\ calls' = [r \in RIDs |-> NoCall]
  /\ ended' = {}
  /\ UNCHANGED keys

Next ==
  \/ Join(calls)
  \/ \E r \in RIDs :
       \/ End(r) \/ Close(r) \/ Forget(r)
       \/ \E p \in CIDs : Leave(r, p) \/ Move(r, p)
       \/ \E gone \in SUBSET calls[r].away : Expire(calls, r, gone)
  \/ Restart

Spec == Init /\ [][Next]_vars
=============================================================================
