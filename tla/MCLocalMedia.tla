---------------------------- MODULE MCLocalMedia ----------------------------
(* Module LocalMedia for TLC: two legacy peers and a capable one. *)
EXTENDS LocalMedia, TLC

Plan(independent, owner, here, given) ==
  [independent |-> independent, owner |-> owner, here |-> here,
   budget |-> given @@ [b \in Budgets |-> 0]]

\* Tabs without and with independent content; what the user and the browser do.
Tabs ==
  {Plan(FALSE, TRUE, {"old"}, [toggle |-> 2, flip |-> 1, route |-> 1, leave |-> 1, deny |-> 1]),
   Plan(FALSE, TRUE, {}, [share |-> 1, unshare |-> 1, toggle |-> 1, join |-> 1, deny |-> 1, leave |-> 1]),
   Plan(FALSE, TRUE, {"old"}, [recover |-> 2, stall |-> 1, route |-> 2, leave |-> 1]),
   Plan(FALSE, TRUE, {"old", "late"}, [share |-> 2, unshare |-> 2, flip |-> 1]),
   Plan(TRUE, TRUE, {"old", "new"}, [share |-> 1, toggle |-> 1, reject |-> 1, join |-> 1, part |-> 1]),
   Plan(TRUE, TRUE, {"old", "new"}, [share |-> 2, unshare |-> 2, flip |-> 1, join |-> 1]),
   Plan(TRUE, FALSE, {"new"}, [share |-> 2, unshare |-> 2, toggle |-> 1, join |-> 1, reject |-> 1])}

\* A tab whose camera is being turned on again when the session is destroyed.
Leaving == {Plan(FALSE, TRUE, {}, [toggle |-> 2, leave |-> 1])}
\* A share that its only viewer rejects, while another legacy peer joins.
Refused == {Plan(TRUE, TRUE, {"old"}, [share |-> 1, join |-> 1, reject |-> 1])}
\* A share that stops while the camera is flipped.
Flipped == {Plan(TRUE, TRUE, {"old"}, [share |-> 1, unshare |-> 1, flip |-> 1])}
=============================================================================
