--------------------------- MODULE MCCallTracker ---------------------------
(* Values for TLC: gauges below, at and beyond the bend of the rating, in an  *)
(* order that moves both heaps, samples without one gauge, losses up to all   *)
(* packets, and a peer connection replaced between two polls.                 *)
EXTENDS CallTracker

Polls == {
  [rtt |-> 20,  jitter |-> 6,  lost |-> 0, received |-> 3, fresh |-> FALSE],
  [rtt |-> 100, jitter |-> No, lost |-> 2, received |-> 1, fresh |-> FALSE],
  [rtt |-> 276, jitter |-> 40, lost |-> 1, received |-> 0, fresh |-> FALSE],
  [rtt |-> 700, jitter |-> 2,  lost |-> 2, received |-> 1, fresh |-> TRUE],
  [rtt |-> No,  jitter |-> No, lost |-> 0, received |-> 1, fresh |-> TRUE]}
=============================================================================
