--------------------------- MODULE MCSignalingHub ---------------------------
(* SignalingHub on small instances: the sets of the configurations, and the *)
(* symmetry of transports and identities (safety runs only).                *)
EXTENDS SignalingHub, TLC

Symmetry == Permutations(Clients) \cup Permutations(CIDs)
=============================================================================
