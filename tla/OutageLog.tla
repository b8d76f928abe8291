----------------------------- MODULE OutageLog -----------------------------
(***************************************************************************)
(* What the Web SDK promises a host about the outages of a call, whatever  *)
(* drives it: the ConnectionEvents of `onConnectionEvent` and the counters *)
(* of `callQualitySummary` (client/packages/core/src/types.ts).  A call is *)
(* first not begun, then live, then over.  While it is live an outage may  *)
(* open; it then ends in exactly one way: the link recovers and the host   *)
(* is told, the peer leaves and the outage is forgotten, or the call ends. *)
(* A failure is reported only as the last thing a call does.               *)
(*                                                                         *)
(* CallTracker is shown to implement this module.                          *)
(***************************************************************************)
EXTENDS Naturals

VARIABLES
  stage,       \* "before", "live" or "over"
  open,        \* outages open, none or one
  drops,       \* countDisconnects
  recoveries,  \* countReconnects, the `reconnected` events emitted
  failed       \* a `reconnectFailed` event was emitted

vars == <<stage, open, drops, recoveries, failed>>

Init ==
  /\ stage = "before"
  /\ open = 0
  /\ drops = 0
  /\ recoveries = 0
  /\ failed = FALSE

\* The call becomes live, with its link up or already down.
Begin ==
  /\ stage = "before"
  /\ stage' = "live"
  /\ open' \in {0, 1}
  /\ drops' = drops + open'
  /\ UNCHANGED <<recoveries, failed>>

Drop ==
  /\ stage = "live" /\ open = 0
  /\ open' = 1
  /\ drops' = drops + 1
  /\ UNCHANGED <<stage, recoveries, failed>>

\* The host is told, and may end the call while it is being told.
Recover ==
  /\ stage = "live" /\ open = 1
  /\ open' = 0
  /\ recoveries' = recoveries + 1
  /\ stage' \in {"live", "over"}
  /\ UNCHANGED <<drops, failed>>

Forget ==
  /\ stage = "live" /\ open = 1
  /\ open' = 0
  /\ UNCHANGED <<stage, drops, recoveries, failed>>

Fail ==
  /\ stage = "live"
  /\ stage' = "over"
  /\ open' = 0
  /\ failed' = TRUE
  /\ UNCHANGED <<drops, recoveries>>

Close ==
  /\ stage # "over"
  /\ stage' = "over"
  /\ open' = 0
  /\ UNCHANGED <<drops, recoveries, failed>>

Next == Begin \/ Drop \/ Recover \/ Forget \/ Fail \/ Close

Spec == Init /\ [][Next]_vars

-----------------------------------------------------------------------------

\* Every recovery a host hears of ends an outage it can count, an open outage
\* has not been counted as recovered, nothing is open once the call is over,
\* and a failure is reported only for a call that is over.
Consistent ==
  /\ stage \in {"before", "live", "over"}
  /\ open \in {0, 1}
  /\ failed \in BOOLEAN
  /\ drops \in Nat /\ recoveries \in Nat
  /\ recoveries + open <= drops
  /\ open = 1 => stage = "live"
  /\ failed => stage = "over"
=============================================================================
