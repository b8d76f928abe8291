---------------------------- MODULE CallTracker ----------------------------
(***************************************************************************)
(* The call-quality tracker of a session, driven as SerenadaSession drives *)
(* it: a phase and status transition per rebuildState, a stats sample per  *)
(* poll, a failure or an ordinary end.  The peers' packet counters, which  *)
(* start again when a peer connection is replaced, are the environment.    *)
(***************************************************************************)
EXTENDS CallQuality, FiniteSets

CONSTANTS
  Readings,    \* what a poll can find: the gauges, the packets since the last
               \* one, and whether the peer connection is a fresh one
  MaxWork      \* bound on the polls, outages and clock ticks of a call together

ASSUME TrackerAssumption ==
  /\ Readings \subseteq [rtt : Nat \cup {No}, jitter : Nat \cup {No},
                         lost : Nat, received : Nat, fresh : BOOLEAN]
  /\ MaxWork \in Nat

VARIABLES
  o, g,        \* the tracker's fields
  phase,       \* the phase of the last rebuild
  status,      \* lastConnectionStatus
  failed,      \* `reconnectFailed` was emitted
  clock,
  link,        \* the packet counters of the current peer connection
  truth,       \* what was really lost and received in the samples' time
  heard,       \* the samples a host would want measured
  dark,        \* the time the live call spent degraded
  samples

tracker == <<o, g, failed>>
vars == <<o, g, failed, phase, status, clock, link, truth, heard, dark, samples>>

Phases == {"joining", "waiting", "inCall"}
Statuses == {"connected", "recovering", "retrying"}
Work == samples + o.drops + clock
Codes == {"CONNECTION_FAILED", "ROOM_FULL"}

Init ==
  /\ o = NoOutages /\ g = NoGauges
  /\ phase = "joining" /\ status = "connected"
  /\ failed = FALSE
  /\ clock = 0
  /\ link = [lost |-> 0, received |-> 0]
  /\ truth = [lost |-> 0, received |-> 0]
  /\ heard = <<>>
  /\ dark = 0
  /\ samples = 0

\* rebuildState, up to feedQualityTracker: the status is degraded only while
\* somebody else is in the call (MediaEngine.updateConnectionStatusValue).  The
\* host may leave in the callback of `reconnected`.
Rebuild(next, nextStatus, leaves) ==
  LET fed == Feed(o, phase, next, status, nextStatus, clock)
  IN /\ ~o.finalized
     /\ next # phase \/ nextStatus # status
     /\ next = "joining" => phase = "joining"
     /\ nextStatus # "connected" => next = "inCall" /\ Work < MaxWork
     /\ leaves => FeedRecovers(o, phase, next, status, nextStatus, clock)
     /\ o' = IF leaves THEN Finalize(fed, clock) ELSE fed
     /\ phase' = next
     /\ status' = nextStatus
     /\ UNCHANGED <<g, failed, clock, link, truth, heard, dark, samples>>

\* The collector's callback, which may still come after the end.
Sample(r) ==
  LET base == IF r.fresh THEN [lost |-> 0, received |-> 0] ELSE link
      next == [lost |-> base.lost + r.lost, received |-> base.received + r.received]
  IN /\ Work < MaxWork
     /\ samples' = samples + 1
     /\ link' = next
     /\ truth' = [lost |-> truth.lost + r.lost, received |-> truth.received + r.received]
     /\ g' = OnStatsSample(g, o, [rtt |-> r.rtt, jitter |-> r.jitter, lost |-> next.lost,
                                  received |-> next.received], clock)
     /\ heard' = IF o.started # No /\ status = "connected" /\ ~o.finalized
                 THEN Append(heard, r) ELSE heard
     /\ UNCHANGED <<o, failed, phase, status, clock, dark>>

\* failWithError: the failure is reported for a call that had begun.
Fail(code) ==
  /\ ~o.finalized
  /\ failed' = (failed \/ (o.started # No /\ GivesUp(code)))
  /\ o' = Finalize(o, clock)
  /\ UNCHANGED <<g, phase, status, clock, link, truth, heard, dark, samples>>

\* leave, end, destroy, or a room that ended.
Close ==
  /\ ~o.finalized
  /\ o' = Finalize(o, clock)
  /\ UNCHANGED <<g, failed, phase, status, clock, link, truth, heard, dark, samples>>

Tick ==
  /\ Work < MaxWork
  /\ clock' = clock + 1
  /\ dark' = IF status # "connected" /\ ~o.finalized THEN dark + 1 ELSE dark
  /\ UNCHANGED <<o, g, failed, phase, status, link, truth, heard, samples>>

Next ==
  \/ \E next \in Phases, nextStatus \in Statuses, leaves \in BOOLEAN :
       Rebuild(next, nextStatus, leaves)
  \/ \E r \in Readings : Sample(r)
  \/ \E code \in Codes : Fail(code)
  \/ Close
  \/ Tick

Spec == Init /\ [][Next]_vars

-----------------------------------------------------------------------------

LifeOf(x) == IF x.finalized THEN "over" ELSE IF x.started # No THEN "live" ELSE "before"

Open(x) == IF x.since = No THEN 0 ELSE 1

Log == INSTANCE OutageLog WITH
  stage <- LifeOf(o),
  open <- Open(o),
  drops <- o.drops,
  recoveries <- o.recoveries

\* The tracker does only what the log of outages allows: whatever the order of
\* phases, statuses and callbacks, each `reconnected` a host hears ends one
\* counted outage, and nothing changes once the summary is final.
KeepsLog == Log!Spec

\* The kth smallest value of a field over the samples that carry it.
Kth(field, k) ==
  LET at == {i \in DOMAIN heard : heard[i][field] # No}
  IN CHOOSE v \in {heard[i][field] : i \in at} :
       /\ Cardinality({i \in at : heard[i][field] < v}) < k
       /\ Cardinality({i \in at : heard[i][field] <= v}) >= k

MiddleOf(field) ==
  LET n == Cardinality({i \in DOMAIN heard : heard[i][field] # No})
  IN CASE n = 0 -> No
       [] n % 2 = 1 -> Kth(field, n \div 2 + 1)
       [] OTHER -> (Kth(field, n \div 2) + Kth(field, n \div 2 + 1) + 1) \div 2

\* The two heaps give the median of a sort over every sample taken while the
\* call was live and its link up, and over no other (streamingMedian.ts:12).
MediansAreMiddle ==
  /\ Median(g.latency) = MiddleOf("rtt")
  /\ Median(g.jitter) = MiddleOf("jitter")

LossNeverInflated ==
  /\ g.lost \in 0..truth.lost
  /\ g.received \in 0..truth.received

DowntimeAccounted ==
  o.downtime + (IF o.since = No THEN 0 ELSE clock - o.since) = dark

WorseNeverScoresHigher ==
  \A r \in Readings, loss \in {0, 4, 20, 40, 60, 100} :
    LET lat == Higher(Median(g.latency), r.rtt)
        jit == Higher(Median(g.jitter), r.jitter)
        lost == Higher(LossPct(g), loss)
    IN Score(g) # No => ComputeMos(lat, jit, lost) \in 100..Score(g)

\* The summary does not flatter the call nor slander it.  Counters that start
\* again with a new peer connection never make it look worse, nor negative: no
\* more is counted than was lost or received.  Its downtime is the time the live
\* call's link was down: no outage is counted twice or dropped, whichever way it
\* ended.  And a worse link never scores higher: not at the end of the rating's
\* range, where the cubic turns, nor where the latency term changes slope.
QualityHonest == LossNeverInflated /\ DowntimeAccounted /\ WorseNeverScoresHigher
=============================================================================
