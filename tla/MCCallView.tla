----------------------------- MODULE MCCallView -----------------------------
(* Plans for TLC: each mixes the kinds of events that meet in one hazard.    *)
EXTENDS CallView, TLC

CONSTANTS r1, r2, r3

Base == [remotes |-> {r1, r2}, capable |-> {r1, r2}, independent |-> TRUE, receives |-> TRUE,
         hides |-> TRUE, width |-> 640, height |-> 360, ratio |-> 256, kinds |-> {"people"}]

Screens ==
  { [Base EXCEPT !.kinds = @ \cup {"shares", "own", "pins"}],
    [Base EXCEPT !.kinds = @ \cup {"shares", "flows", "pins", "lost"}, !.capable = {r1},
                 !.width = 360, !.height = 640, !.ratio = 81],
    [Base EXCEPT !.kinds = @ \cup {"messages", "own", "pins"}, !.independent = FALSE],
    [Base EXCEPT !.kinds = @ \cup {"messages", "shares", "own"}, !.receives = FALSE],
    [Base EXCEPT !.kinds = @ \cup {"shares", "flows", "own", "pins"}, !.remotes = {r1},
                 !.capable = {r1}, !.width = 1280, !.height = 800],
    [Base EXCEPT !.kinds = @ \cup {"own", "swap"}, !.remotes = {r1}, !.capable = {r1}],
    [Base EXCEPT !.kinds = @ \cup {"pins"}, !.remotes = {r1, r2, r3}, !.width = 800, !.height = 600,
                 !.ratio = 108],
    [Base EXCEPT !.kinds = @ \cup {"status", "controls"}],
    [Base EXCEPT !.kinds = @ \cup {"status", "controls"}, !.hides = FALSE] }

\* Two remotes, of whom some are presumed lost.
Losing == {[Base EXCEPT !.kinds = @ \cup {"lost"}]}
=============================================================================
