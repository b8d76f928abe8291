------------------------- MODULE MCPeerNegotiation -------------------------
(* Module PeerNegotiation for TLC: the calls and the faults of each run. *)
EXTENDS PeerNegotiation

Plan(defer, host, kinds) ==
  [defer |-> defer, host |-> host,
   faults |-> [k \in FaultKinds |-> IF k \in kinds THEN 1 ELSE 0]]
Call(kinds) == Plan(FALSE, 1, kinds)

\* Two or three faults of different kinds; a call whose host leaves; a call
\* whose first answer may take its time.
Pairs ==
  {Call({"loss", "ice"}), Call({"loss", "stall"}), Call({"loss", "refuse"}),
   Call({"slow", "denied"}), Call({"slow", "refuse"}), Call({"caps", "refuse", "denied"}),
   Call({"tracks", "ice"}), Plan(FALSE, 3, {"ice"}), Plan(TRUE, 2, {"ice", "refuse"})}

\* One fault of each kind.
Singles ==
  {Call({"loss"}), Call({"slow"}), Call({"caps"}), Call({"stall", "refuse"}),
   Call({"ice", "denied"}), Plan(FALSE, 3, {"ice"}), Plan(TRUE, 2, {"ice", "stall"})}

Tracks == {Call({"tracks"})}
HostGone == {Plan(TRUE, 3, {"ice"})}
=============================================================================
