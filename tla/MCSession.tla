----------------------------- MODULE MCSession -----------------------------
(* Plans for TLC: each mixes the kinds of events that meet in one hazard.    *)
EXTENDS Session, TLC

CONSTANTS r1, r2

Plan(hosted, budget, events, remotes, acts) ==
  [hosted |-> hosted, budget |-> budget, events |-> events, remotes |-> remotes, acts |-> acts]

Calls == {Plan(hosted, 4, {"loss", "ice", "end"}, {r1}, {"state", "event"}) : hosted \in BOOLEAN}
         \cup {Plan(hosted, 4, {"roster", "peers", "loss"}, {r1, r2}, {"state"}) : hosted \in BOOLEAN}
         \cup {Plan(FALSE, 4, {"content", "roster", "peers"}, {r1}, {})}
=============================================================================
