----------------------------- MODULE MCHubLocks -----------------------------
(***************************************************************************)
(* Instances of HubLocks for TLC.                                          *)
(***************************************************************************)
EXTENDS HubLocks, TLC

Plan(goroutines, capabilities) ==
  [goroutines |-> goroutines, capabilities |-> capabilities]

\* Every way to leave or to end the call; joins whose capabilities lock, refuse
\* and roll back; joins among lost transports and timers that fire.
Races == {Plan({"leave", "end", "post"}, {2}), Plan({}, {2, 3}),
          Plan({"close", "timer"}, {2})}

Symmetry == Permutations(CIDs) \cup Permutations(Clients) \cup Permutations(Objects)
=============================================================================
