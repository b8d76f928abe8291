---------------------------- MODULE CallQuality ----------------------------
(***************************************************************************)
(* The operators of client/packages/core/src/media/CallQualityTracker.ts,  *)
(* streamingMedian.ts and mos.ts, and of the two functions that drive the  *)
(* tracker (SerenadaSession.feedQualityTracker, reconnectReason.ts).       *)
(*                                                                         *)
(* The tracker's fields are two records: `o`, the dropout state machine,   *)
(* and `g`, the gauges.  Times are in milliseconds of the session's        *)
(* monotonic clock, `No` stands for null.                                  *)
(***************************************************************************)
EXTENDS Integers, Sequences

No == -1

Higher(a, b) == IF a > b THEN a ELSE b
Lower(a, b) == IF a < b THEN a ELSE b
Clamp(v, lo, hi) == Lower(hi, Higher(lo, v))

-----------------------------------------------------------------------------
(* NumberHeap: an array whose root has the highest priority.  The index 0  *)
(* of the code is the index 1 of the sequence.                             *)

Before(kind, a, b) == IF kind = "max" THEN a > b ELSE a < b

Swapped(d, i, j) == [d EXCEPT ![i] = d[j], ![j] = d[i]]

\* The arrays of n numbers.
Heaps(n) == [1..n -> Int]

\* siftUp and siftDown: where an element goes from the index i.
SiftUp(kind, data) ==
  LET n == Len(data)
      up[i \in 1..n] == [d \in Heaps(n) |->
        LET parent == i \div 2
        IN IF i > 1 /\ Before(kind, d[i], d[parent]) THEN up[parent][Swapped(d, i, parent)] ELSE d]
  IN up[n][data]

SiftDown(kind, data) ==
  LET n == Len(data)
      down[i \in 1..n] == [d \in Heaps(n) |->
        LET left == IF 2 * i <= n /\ Before(kind, d[2 * i], d[i]) THEN 2 * i ELSE i
            best == IF 2 * i + 1 <= n /\ Before(kind, d[2 * i + 1], d[left])
                    THEN 2 * i + 1 ELSE left
        IN IF best = i THEN d ELSE down[best][Swapped(d, i, best)]]
  IN down[1][data]

Push(kind, data, v) == SiftUp(kind, Append(data, v))

\* pop(): the last element takes the root's place and sinks.
Popped(kind, data) ==
  LET n == Len(data)
  IN IF n = 1 THEN <<>> ELSE SiftDown(kind, [SubSeq(data, 1, n - 1) EXCEPT ![1] = data[n]])

-----------------------------------------------------------------------------
(* StreamingMedian: the lower half in a max-heap, the upper in a min-heap.  *)

NoSamples == [lower |-> <<>>, upper |-> <<>>]

\* Mutant: the lower half may hold two more.
RebalanceLate(m) ==
  CASE Len(m.lower) > Len(m.upper) + 2 ->
         [lower |-> Popped("max", m.lower), upper |-> Push("min", m.upper, m.lower[1])]
    [] Len(m.upper) > Len(m.lower) ->
         [lower |-> Push("max", m.lower, m.upper[1]), upper |-> Popped("min", m.upper)]
    [] OTHER -> m

Rebalance(m) ==
  CASE Len(m.lower) > Len(m.upper) + 1 ->
         [lower |-> Popped("max", m.lower), upper |-> Push("min", m.upper, m.lower[1])]
    [] Len(m.upper) > Len(m.lower) ->
         [lower |-> Push("max", m.lower, m.upper[1]), upper |-> Popped("min", m.upper)]
    [] OTHER -> m

AddSample(m, v) ==
  Rebalance(IF m.lower = <<>> \/ v <= m.lower[1]
            THEN [m EXCEPT !.lower = Push("max", @, v)]
            ELSE [m EXCEPT !.upper = Push("min", @, v)])

\* Math.round of a half rounds up; the samples are not negative.
Median(m) ==
  IF m.lower = <<>> THEN No
  ELSE IF Len(m.lower) > Len(m.upper) THEN m.lower[1]
  ELSE (m.lower[1] + m.upper[1] + 1) \div 2

-----------------------------------------------------------------------------
(* computeMos, in whole numbers: the rating R in tenths, the score in       *)
(* hundredths, the loss in percent.  The rating's fractions below a tenth   *)
(* are cut, the score is rounded as the code rounds it.                     *)

\* Mutant: the rating is not kept from going below zero.
RatingUnclamped(rtt, jitter, loss) ==
  LET eff == rtt \div 2 + 2 * jitter + 10
      delay == IF eff < 160 THEN eff \div 4 ELSE eff - 120
  IN 932 - delay - 25 * loss

Rating(rtt, jitter, loss) ==
  LET eff == rtt \div 2 + 2 * jitter + 10
      delay == IF eff < 160 THEN eff \div 4 ELSE eff - 120
  IN Clamp(932 - delay - 25 * loss, 0, 1000)

ComputeMos(rtt, jitter, loss) ==
  LET r == Rating(rtt, jitter, loss)
      cubic == (r * (r - 600) * (1000 - r)) \div 1000
      millionths == 1000000 + 3500 * r + 7 * cubic
  IN Clamp((millionths + 5000) \div 10000, 100, 450)

-----------------------------------------------------------------------------
(* The gauges.                                                              *)

NoGauges == [latency |-> NoSamples, jitter |-> NoSamples, count |-> 0,
             lastLost |-> No, lastReceived |-> No, lost |-> 0, received |-> 0, hasLoss |-> FALSE]

\* The packet counters of a sample: an interval when they did not go back, and
\* always the baseline of the next one.
CountLoss(g, stats) ==
  LET dLost == stats.lost - g.lastLost
      dReceived == stats.received - g.lastReceived
      counted == g.lastLost # No /\ dLost >= 0 /\ dReceived >= 0
  IN [g EXCEPT !.lastLost = stats.lost, !.lastReceived = stats.received,
               !.lost = IF counted THEN @ + dLost ELSE @,
               !.received = IF counted THEN @ + dReceived ELSE @,
               !.hasLoss = @ \/ counted,
               !.count = IF counted /\ stats.rtt = No /\ stats.jitter = No THEN @ + 1 ELSE @]

\* onStatsSample.
OnStatsSample(g, o, stats, now) ==
  IF o.finalized \/ o.started = No \/ now < o.started \/ o.since # No THEN g
  ELSE LET gauged == [g EXCEPT
             !.latency = IF stats.rtt = No THEN @ ELSE AddSample(@, stats.rtt),
             !.jitter = IF stats.jitter = No THEN @ ELSE AddSample(@, stats.jitter),
             !.count = IF stats.rtt = No /\ stats.jitter = No THEN @ ELSE @ + 1]
       IN IF stats.lost = No THEN gauged ELSE CountLoss(gauged, stats)

\* The percentage of recompute(), cut to a whole number.
LossPct(g) ==
  IF ~g.hasLoss THEN No
  ELSE IF g.received + g.lost = 0 THEN 0
  ELSE (100 * g.lost) \div (g.lost + g.received)

\* The score of recompute(): none as long as one of its inputs is missing.
Score(g) ==
  LET latency == Median(g.latency)
      jitter == Median(g.jitter)
      loss == LossPct(g)
  IN IF No \in {latency, jitter, loss} THEN No ELSE ComputeMos(latency, jitter, loss)

-----------------------------------------------------------------------------
(* The dropout state machine; what caused a dropout only labels its event.   *)

NoOutages == [started |-> No, since |-> No, drops |-> 0,
              recoveries |-> 0, downtime |-> 0, finalized |-> FALSE]

CloseSilently(o, now) ==
  IF o.since = No THEN o
  ELSE [o EXCEPT !.downtime = @ + Higher(0, now - o.since), !.since = No]

OpenDropout(o, now) == [o EXCEPT !.since = now, !.drops = @ + 1]

\* Leaving the call closes an open dropout without calling it a recovery.
OnPhaseTransition(o, next, now) ==
  IF o.finalized THEN o
  ELSE IF next # "inCall" THEN CloseSilently(o, now)
  ELSE IF o.started = No THEN [o EXCEPT !.started = now] ELSE o

\* Does this status transition emit `reconnected`?
Recovers(o, next) == ~o.finalized /\ o.started # No /\ next = "connected" /\ o.since # No

\* Mutant: each degraded status counts as one more dropout.
CountEachDegradation(o, next, now) ==
  IF o.finalized \/ o.started = No THEN o
  ELSE IF next # "connected" THEN OpenDropout(o, now)
  ELSE IF Recovers(o, next) THEN [CloseSilently(o, now) EXCEPT !.recoveries = @ + 1] ELSE o

OnConnectionStatusTransition(o, next, now) ==
  IF o.finalized \/ o.started = No THEN o
  ELSE IF next # "connected" THEN (IF o.since = No THEN OpenDropout(o, now) ELSE o)
  ELSE IF Recovers(o, next) THEN [CloseSilently(o, now) EXCEPT !.recoveries = @ + 1] ELSE o

\* finalize: an outage still open counts towards the downtime.
Finalize(o, now) ==
  IF o.finalized THEN o ELSE [CloseSilently(o, now) EXCEPT !.finalized = TRUE]

\* feedQualityTracker: first the phase, then the status, each if it changed.
AfterPhase(o, phase, next, now) ==
  IF next = phase THEN o ELSE OnPhaseTransition(o, next, now)

Feed(o, phase, next, status, nextStatus, now) ==
  LET moved == AfterPhase(o, phase, next, now)
  IN IF nextStatus = status THEN moved
     ELSE OnConnectionStatusTransition(moved, nextStatus, now)

FeedRecovers(o, phase, next, status, nextStatus, now) ==
  nextStatus # status /\ Recovers(AfterPhase(o, phase, next, now), nextStatus)

\* The error codes on which a recovery is given up (reconnectFailedReasonForCode).
GivesUp(code) ==
  code \in {"JOIN_TIMEOUT", "INVALID_RECONNECT_TOKEN", "CONNECTION_FAILED",
            "ICE_SERVER_FETCH_FAILED"}
=============================================================================
