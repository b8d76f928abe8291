------------------------- MODULE MCSignalingEngine -------------------------
(* Module SignalingEngine for TLC: WebSocket first, SSE as the fallback. *)
EXTENDS SignalingEngine

MCTransports == <<"ws", "sse">>

=============================================================================
