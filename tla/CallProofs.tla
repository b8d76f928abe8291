------------------------- MODULE CallProofs -------------------------
(***************************************************************************)
(* The two components of the web SDK that only observe a call: what its    *)
(* tracker measures, for every set of readings and every bound, and what   *)
(* its screen shows, for every plan.                                       *)
(*                                                                         *)
(* The tracker.                                                            *)
(* Its outages implement OutageLog, and so its counters keep the promises  *)
(* of the log.  Its two heaps hold each sample that was heard once, in two *)
(* ordered halves, and so give the middle of a sort.  The packets it counts *)
(* were lost or received, the downtime is the time the link was down, and   *)
(* its score, a rounded cubic, never rises when the link gets worse.        *)
(*                                                                         *)
(* What the heaps' recursion computes is shown by induction over numbers    *)
(* and intervals, in the form of sets (LeastNat, SetInduction): a set that  *)
(* is not empty has a least number.                                         *)
(*                                                                         *)
(* The screen.  Its overlays and their timers tell of the session as it    *)
(* is, and a pinned tile stays pinned until the user or the tile goes.     *)
(***************************************************************************)
EXTENDS CallTracker, CallView, FiniteSetTheorems, TLAPS

Outages == [started : Nat \cup {No}, since : Nat \cup {No}, drops : Nat,
            recoveries : Nat, downtime : Int, finalized : BOOLEAN]

\* An outage is open only in a call that has begun and is not over, and every
\* recovery was an outage first.
OutagesOk(x) ==
  /\ x \in Outages
  /\ x.since # No => x.started # No /\ ~x.finalized /\ x.recoveries < x.drops
  /\ x.recoveries <= x.drops

\* The inductive invariant: the outages as above, a failure only at the end.
Inv ==
  /\ OutagesOk(o)
  /\ clock \in Nat
  /\ failed \in BOOLEAN
  /\ failed => o.finalized /\ o.started # No

-----------------------------------------------------------------------------
(* The operators on the outages keep them so.                              *)

\* Closing an outage silently keeps the counters.
LEMMA CloseKeeps ==
  ASSUME NEW x, OutagesOk(x), NEW now \in Nat
  PROVE  /\ OutagesOk(CloseSilently(x, now))
         /\ CloseSilently(x, now).since = No
         /\ CloseSilently(x, now).started = x.started
         /\ CloseSilently(x, now).drops = x.drops
         /\ CloseSilently(x, now).recoveries = x.recoveries
         /\ CloseSilently(x, now).finalized = x.finalized
<1>1. CASE x.since = No
  BY <1>1 DEF CloseSilently
<1>2. CASE x.since # No
  <2> DEFINE d == x.downtime + Higher(0, now - x.since)
  <2>1. d \in Int
    BY <1>2 DEF OutagesOk, Outages, Higher, No
  <2>2. CloseSilently(x, now) = [x EXCEPT !.downtime = d, !.since = No]
    BY <1>2 DEF CloseSilently
  <2> HIDE DEF d
  <2> QED BY <2>1, <2>2 DEF OutagesOk, Outages, No
<1> QED BY <1>1, <1>2

\* Finalizing closes the outage and changes no counter.
LEMMA FinalizeKeeps ==
  ASSUME NEW x, OutagesOk(x), NEW now \in Nat
  PROVE  /\ OutagesOk(Finalize(x, now))
         /\ Finalize(x, now).since = No
         /\ Finalize(x, now).started = x.started
         /\ Finalize(x, now).drops = x.drops
         /\ Finalize(x, now).recoveries = x.recoveries
         /\ Finalize(x, now).finalized = TRUE
<1>1. CASE x.finalized
  BY <1>1 DEF OutagesOk, Outages, Finalize, No
<1>2. CASE ~x.finalized
  <2> DEFINE c == CloseSilently(x, now)
  <2>1. Finalize(x, now) = [c EXCEPT !.finalized = TRUE]
    BY <1>2 DEF Finalize
  <2>2. /\ OutagesOk(c) /\ c.since = No /\ c.started = x.started
        /\ c.drops = x.drops /\ c.recoveries = x.recoveries
    BY CloseKeeps
  <2> HIDE DEF c
  <2> QED BY <2>1, <2>2 DEF OutagesOk, Outages
<1> QED BY <1>1, <1>2 DEF OutagesOk, Outages

-----------------------------------------------------------------------------
(* One rebuild is at most one step of the log.                             *)

Quiet(x, y) ==
  /\ y.started = No <=> x.started = No
  /\ y.since = No <=> x.since = No
  /\ y.drops = x.drops /\ y.recoveries = x.recoveries

Begins(x, y) ==
  /\ x.started = No /\ y.started # No
  /\ y.drops = IF y.since # No THEN x.drops + 1 ELSE x.drops
  /\ y.recoveries = x.recoveries

Drops(x, y) ==
  /\ x.started # No /\ y.started # No
  /\ x.since = No /\ y.since # No
  /\ y.drops = x.drops + 1 /\ y.recoveries = x.recoveries

Recovered(x, y) ==
  /\ x.started # No /\ y.started # No
  /\ x.since # No /\ y.since = No
  /\ y.drops = x.drops /\ y.recoveries = x.recoveries + 1

Forgets(x, y) ==
  /\ x.started # No /\ y.started # No
  /\ x.since # No /\ y.since = No
  /\ y.drops = x.drops /\ y.recoveries = x.recoveries

\* A phase transition begins the call, forgets an outage, or does nothing.
LEMMA PhaseSteps ==
  ASSUME NEW x, OutagesOk(x), ~x.finalized, NEW now \in Nat, NEW next, NEW ph,
         NEW y, y = AfterPhase(x, ph, next, now)
  PROVE  /\ OutagesOk(y) /\ ~y.finalized
         /\ \/ y = x
            \/ next = "inCall" /\ Begins(x, y) /\ y.since = No
            \/ next # "inCall" /\ Forgets(x, y)
<1>1. CASE next = ph
  BY <1>1 DEF AfterPhase
<1>2. CASE next # ph /\ next = "inCall" /\ x.started = No
  <2>1. y = [x EXCEPT !.started = now]
    BY <1>2 DEF AfterPhase, OnPhaseTransition, OutagesOk, Outages
  <2> QED BY <1>2, <2>1 DEF OutagesOk, Outages, Begins, No
<1>3. CASE next # ph /\ next = "inCall" /\ x.started # No
  <2>1. y = x
    BY <1>3 DEF AfterPhase, OnPhaseTransition, OutagesOk, Outages
  <2> QED BY <2>1
<1>4. CASE next # ph /\ next # "inCall"
  <2>1. y = CloseSilently(x, now)
    BY <1>4 DEF AfterPhase, OnPhaseTransition
  <2>2. CASE x.since = No
    BY <2>1, <2>2 DEF CloseSilently
  <2>3. CASE x.since # No
    <3>1. x.started # No
      BY <2>3 DEF OutagesOk
    <3> QED BY <1>4, <2>1, <2>3, <3>1, CloseKeeps DEF Forgets
  <2> QED BY <2>2, <2>3
<1> QED BY <1>1, <1>2, <1>3, <1>4

\* A status transition opens an outage, ends one as a recovery, or does
\* nothing; it never begins a call.
LEMMA StatusSteps ==
  ASSUME NEW x, OutagesOk(x), ~x.finalized, NEW now \in Nat, NEW next,
         NEW y, y = OnConnectionStatusTransition(x, next, now)
  PROVE  /\ OutagesOk(y) /\ ~y.finalized
         /\ \/ y = x /\ ~Recovers(x, next)
            \/ next # "connected" /\ Drops(x, y) /\ ~Recovers(x, next)
            \/ next = "connected" /\ Recovered(x, y)
<1>1. CASE x.started = No
  BY <1>1 DEF OnConnectionStatusTransition, Recovers
<1>2. CASE x.started # No /\ next # "connected" /\ x.since = No
  <2>1. y = OpenDropout(x, now)
    BY <1>2 DEF OnConnectionStatusTransition
  <2> DEFINE d == x.drops + 1
  <2>2. y = [x EXCEPT !.since = now, !.drops = d]
    BY <2>1 DEF OpenDropout
  <2>3. d \in Nat /\ d = x.drops + 1
    BY DEF OutagesOk, Outages
  <2> HIDE DEF d
  <2>4. /\ y \in Outages /\ y.since = now /\ y.drops = d
        /\ y.started = x.started /\ y.recoveries = x.recoveries /\ y.finalized = x.finalized
    BY <2>2, <2>3 DEF OutagesOk, Outages
  <2>5. ~Recovers(x, next)
    BY <1>2 DEF Recovers
  <2>6. now # No /\ x.recoveries < d
    BY <2>3 DEF OutagesOk, Outages, No
  <2>7. OutagesOk(y) /\ Drops(x, y) /\ ~y.finalized
    BY <1>2, <2>3, <2>4, <2>6 DEF OutagesOk, Outages, Drops
  <2> QED BY <1>2, <2>5, <2>7
<1>3. CASE Recovers(x, next)
  <2> DEFINE c == CloseSilently(x, now)
  <2>1. y = [c EXCEPT !.recoveries = @ + 1]
    BY <1>3 DEF OnConnectionStatusTransition, Recovers
  <2>2. /\ OutagesOk(c) /\ c.since = No /\ c.started = x.started /\ c.finalized = x.finalized
        /\ c.drops = x.drops /\ c.recoveries = x.recoveries
    BY CloseKeeps
  <2>3. x.started # No /\ x.since # No /\ x.recoveries < x.drops /\ next = "connected"
    BY <1>3 DEF Recovers, OutagesOk
  <2> HIDE DEF c
  <2> QED BY <2>1, <2>2, <2>3 DEF OutagesOk, Outages, Recovered
<1>4. CASE x.started # No /\ ~Recovers(x, next) /\ ~(next # "connected" /\ x.since = No)
  BY <1>4 DEF OnConnectionStatusTransition
<1> QED BY <1>1, <1>2, <1>3, <1>4

\* feedQualityTracker as a whole.
LEMMA FeedSteps ==
  ASSUME NEW x, OutagesOk(x), ~x.finalized, NEW now \in Nat,
         NEW ph, NEW next, NEW st, NEW nst, nst # "connected" => next = "inCall",
         NEW y, y = Feed(x, ph, next, st, nst, now)
  PROVE  /\ OutagesOk(y) /\ ~y.finalized
         /\ Quiet(x, y) \/ Begins(x, y) \/ Drops(x, y) \/ Recovered(x, y) \/ Forgets(x, y)
         /\ FeedRecovers(x, ph, next, st, nst, now) => Recovered(x, y)
<1> DEFINE m == AfterPhase(x, ph, next, now)
           z == OnConnectionStatusTransition(m, nst, now)
<1>1. /\ OutagesOk(m) /\ ~m.finalized
      /\ \/ m = x
         \/ next = "inCall" /\ Begins(x, m) /\ m.since = No
         \/ next # "inCall" /\ Forgets(x, m)
  BY PhaseSteps
<1>2. y = IF nst = st THEN m ELSE z
  BY DEF Feed
<1>3. FeedRecovers(x, ph, next, st, nst, now) = (nst # st /\ Recovers(m, nst))
  BY DEF FeedRecovers
<1> HIDE DEF m
<1>4. /\ OutagesOk(z) /\ ~z.finalized
      /\ \/ z = m /\ ~Recovers(m, nst)
         \/ nst # "connected" /\ Drops(m, z) /\ ~Recovers(m, nst)
         \/ nst = "connected" /\ Recovered(m, z)
  BY <1>1, StatusSteps
<1> HIDE DEF z
<1>5. CASE nst = st
  BY <1>1, <1>2, <1>3, <1>5 DEF Quiet
<1>6. CASE nst # st /\ m = x
  BY <1>1, <1>2, <1>3, <1>4, <1>6 DEF Quiet
<1>7. CASE nst # st /\ Begins(x, m) /\ m.since = No
  <2>1. ~Recovered(m, z)
    BY <1>7 DEF Recovered
  <2>2. CASE z = m
    BY <1>1, <1>2, <1>3, <1>4, <1>7, <2>1, <2>2
  <2>3. CASE Drops(m, z) /\ ~Recovers(m, nst)
    BY <1>1, <1>2, <1>3, <1>4, <1>7, <2>3 DEF Begins, Drops
  <2> QED BY <1>4, <2>1, <2>2, <2>3
<1>8. CASE nst # st /\ next # "inCall" /\ Forgets(x, m)
  <2>1. nst = "connected" /\ ~Recovered(m, z)
    BY <1>8 DEF Recovered, Forgets
  <2> QED BY <1>1, <1>2, <1>3, <1>4, <1>8, <2>1
<1> QED BY <1>1, <1>5, <1>6, <1>7, <1>8

-----------------------------------------------------------------------------
(* The invariant and the refinement, step by step.                         *)

\* The initial state is the log's.
LEMMA InitOk == Init => Inv /\ Log!Init
<1> SUFFICES ASSUME Init PROVE Inv /\ Log!Init
  OBVIOUS
<1>1. /\ o.started = No /\ o.since = No /\ o.drops = 0 /\ o.recoveries = 0
      /\ ~o.finalized /\ o \in Outages
  BY DEF Init, NoOutages, Outages, No
<1>2. clock = 0 /\ failed = FALSE
  BY DEF Init
<1>3. LifeOf(o) = "before" /\ Open(o) = 0
  BY <1>1 DEF LifeOf, Open
<1>4. OutagesOk(o)
  BY <1>1 DEF OutagesOk
<1>5. Inv
  BY <1>2, <1>4 DEF Inv
<1> QED BY <1>1, <1>2, <1>3, <1>5 DEF Log!Init

\* A call that ends without a failure closes the log.
LEMMA CloseStep ==
  ASSUME Inv, ~o.finalized, o' = Finalize(o, clock), UNCHANGED <<clock, failed>>
  PROVE  Inv' /\ Log!Close
<1>1. /\ OutagesOk(o') /\ o'.since = No /\ o'.drops = o.drops
      /\ o'.recoveries = o.recoveries /\ o'.finalized = TRUE
  BY FinalizeKeeps DEF Inv
<1>2. LifeOf(o) # "over" /\ LifeOf(o') = "over"
  BY <1>1 DEF LifeOf, Open
<1>3. clock' = clock /\ failed' = failed /\ ~failed
  BY DEF Inv
<1>4. Inv'
  BY <1>1, <1>3 DEF Inv
<1> QED BY <1>1, <1>2, <1>3, <1>4 DEF Log!Close, Open

\* A call that had begun may end with a failure.
LEMMA FailStep ==
  ASSUME Inv, ~o.finalized, o.started # No, o' = Finalize(o, clock), UNCHANGED clock, failed' = TRUE
  PROVE  Inv' /\ Log!Fail
<1>1. /\ OutagesOk(o') /\ o'.since = No /\ o'.drops = o.drops /\ o'.started = o.started
      /\ o'.recoveries = o.recoveries /\ o'.finalized = TRUE
  BY FinalizeKeeps DEF Inv
<1>2. LifeOf(o) = "live" /\ LifeOf(o') = "over"
  BY <1>1 DEF LifeOf, Open
<1>3. Inv'
  BY <1>1 DEF Inv
<1> QED BY <1>1, <1>2, <1>3 DEF Log!Fail, Open

\* A rebuild is one step of the log or none, and with a host that leaves in the
\* callback it is the recovery that ends the call.
LEMMA RebuildStep ==
  ASSUME Inv, NEW next, NEW nextStatus, NEW leaves \in BOOLEAN, Rebuild(next, nextStatus, leaves)
  PROVE  Inv' /\ [Log!Next]_Log!vars
<1> DEFINE fed == Feed(o, phase, next, status, nextStatus, clock)
<1>1. /\ ~o.finalized
      /\ nextStatus # "connected" => next = "inCall"
      /\ leaves => FeedRecovers(o, phase, next, status, nextStatus, clock)
      /\ o' = IF leaves THEN Finalize(fed, clock) ELSE fed
      /\ clock' = clock /\ failed' = failed /\ ~failed
  BY DEF Rebuild, Inv
<1>2. /\ OutagesOk(fed) /\ ~fed.finalized
      /\ Quiet(o, fed) \/ Begins(o, fed) \/ Drops(o, fed) \/ Recovered(o, fed) \/ Forgets(o, fed)
      /\ FeedRecovers(o, phase, next, status, nextStatus, clock) => Recovered(o, fed)
  BY <1>1, FeedSteps DEF Inv
<1> HIDE DEF fed
<1>3. CASE leaves
  <2>1. Recovered(o, fed)
    BY <1>1, <1>2, <1>3
  <2>2. /\ OutagesOk(o') /\ o'.since = No /\ o'.drops = fed.drops
        /\ o'.recoveries = fed.recoveries /\ o'.finalized = TRUE
    BY <1>1, <1>2, <1>3, FinalizeKeeps DEF Inv
  <2>3. LifeOf(o) = "live" /\ LifeOf(o') = "over"
    BY <1>1, <2>1, <2>2 DEF LifeOf, Open, Recovered
  <2>4. Inv'
    BY <1>1, <2>2 DEF Inv
  <2> QED BY <1>1, <2>1, <2>2, <2>3, <2>4 DEF Recovered, Log!Next, Log!Recover, Open
<1>4. CASE ~leaves
  <2>1. o' = fed
    BY <1>1, <1>4
  <2>2. Inv'
    BY <1>1, <1>2, <2>1 DEF Inv
  <2>3. /\ ~o.finalized /\ ~o'.finalized
        /\ Quiet(o, o') \/ Begins(o, o') \/ Drops(o, o') \/ Recovered(o, o') \/ Forgets(o, o')
    BY <1>1, <1>2, <2>1
  <2>4. CASE Quiet(o, o')
    <3>1. LifeOf(o') = LifeOf(o) /\ Open(o') = Open(o)
      BY <2>3, <2>4 DEF Quiet, LifeOf, Open
    <3> QED BY <1>1, <2>2, <2>4, <3>1 DEF Quiet, Log!vars
  <2>5. CASE Begins(o, o')
    <3>1. o.since = No
      BY <2>5 DEF Begins, Inv, OutagesOk
    <3>2. LifeOf(o) = "before" /\ LifeOf(o') = "live" /\ Open(o') \in {0, 1}
      BY <2>3, <2>5 DEF Begins, LifeOf, Open
    <3>3. o'.drops = o.drops + Open(o')
      BY <2>5 DEF Begins, Open, Inv, OutagesOk, Outages
    <3> QED BY <1>1, <2>2, <2>5, <3>2, <3>3 DEF Begins, Log!Next, Log!Begin
  <2>6. CASE Drops(o, o')
    <3>1. LifeOf(o) = "live" /\ LifeOf(o') = "live" /\ Open(o) = 0 /\ Open(o') = 1
      BY <2>3, <2>6 DEF Drops, LifeOf, Open
    <3> QED BY <1>1, <2>2, <2>6, <3>1 DEF Drops, Log!Next, Log!Drop
  <2>7. CASE Recovered(o, o')
    <3>1. LifeOf(o) = "live" /\ LifeOf(o') = "live" /\ Open(o) = 1 /\ Open(o') = 0
      BY <2>3, <2>7 DEF Recovered, LifeOf, Open
    <3> QED BY <1>1, <2>2, <2>7, <3>1 DEF Recovered, Log!Next, Log!Recover
  <2>8. CASE Forgets(o, o')
    <3>1. LifeOf(o) = "live" /\ LifeOf(o') = "live" /\ Open(o) = 1 /\ Open(o') = 0
      BY <2>3, <2>8 DEF Forgets, LifeOf, Open
    <3> QED BY <1>1, <2>2, <2>8, <3>1 DEF Forgets, Log!Next, Log!Forget
  <2> QED BY <2>3, <2>4, <2>5, <2>6, <2>7, <2>8
<1> QED BY <1>3, <1>4

\* Every step of the tracker is a step of the log or a stutter.
LEMMA NextStep == Inv /\ [Next]_vars => Inv' /\ [Log!Next]_Log!vars
<1> SUFFICES ASSUME Inv, [Next]_vars PROVE Inv' /\ [Log!Next]_Log!vars
  OBVIOUS
<1>1. ASSUME NEW next \in Phases, NEW nextStatus \in Statuses, NEW leaves \in BOOLEAN,
             Rebuild(next, nextStatus, leaves)
      PROVE  Inv' /\ [Log!Next]_Log!vars
  BY <1>1, RebuildStep
<1>2. ASSUME UNCHANGED <<o, failed>>, clock' \in Nat
      PROVE  Inv' /\ [Log!Next]_Log!vars
  BY <1>2 DEF Inv, Log!vars
<1>3. ASSUME NEW r \in Readings, Sample(r)
      PROVE  Inv' /\ [Log!Next]_Log!vars
  <2>1. UNCHANGED <<o, failed>> /\ clock' \in Nat
    BY <1>3 DEF Sample, Inv
  <2> QED BY <1>2, <2>1
<1>4. CASE Tick
  <2>1. UNCHANGED <<o, failed>> /\ clock' \in Nat
    BY <1>4 DEF Tick, Inv
  <2> QED BY <1>2, <2>1
<1>5. CASE UNCHANGED vars
  <2>1. UNCHANGED <<o, failed>> /\ clock' \in Nat
    BY <1>5 DEF vars, Inv
  <2> QED BY <1>2, <2>1
<1>6. CASE Close
  BY <1>6, CloseStep DEF Close, Log!Next
<1>7. ASSUME NEW code \in Codes, Fail(code)
      PROVE  Inv' /\ [Log!Next]_Log!vars
  <2>1. /\ ~o.finalized /\ o' = Finalize(o, clock) /\ UNCHANGED clock
        /\ failed' = (failed \/ (o.started # No /\ GivesUp(code)))
    BY <1>7 DEF Fail
  <2>2. ~failed
    BY <2>1 DEF Inv
  <2>3. CASE o.started # No /\ GivesUp(code)
    BY <2>1, <2>3, FailStep DEF Log!Next
  <2>4. CASE ~(o.started # No /\ GivesUp(code))
    <3>1. UNCHANGED <<clock, failed>>
      BY <2>1, <2>2, <2>4 DEF Inv
    <3> QED BY <2>1, <3>1, CloseStep DEF Log!Next
  <2> QED BY <2>3, <2>4
<1> QED BY <1>1, <1>3, <1>4, <1>5, <1>6, <1>7 DEF Next

\* The tracker implements the log of outages, for any readings and any number
\* of polls, outages and callbacks (CallQualityTracker, feedQualityTracker).
THEOREM TrackerKeepsLog == Spec => KeepsLog
<1>1. Init => Inv /\ Log!Init
  BY InitOk
<1>2. Inv /\ [Next]_vars => Inv' /\ [Log!Next]_Log!vars
  BY NextStep
<1> QED BY <1>1, <1>2, PTL DEF Spec, KeepsLog, Log!Spec

\* What a host reads from the log holds of the tracker: a recovery per outage at
\* most, nothing open once the call is over, a failure only at the end.
THEOREM TrackerConsistent == Spec => []Log!Consistent
<1>1. Inv => Log!Consistent
  BY DEF Inv, OutagesOk, Outages, Log!Consistent, LifeOf, Open, No
<1> QED BY <1>1, InitOk, NextStep, PTL DEF Spec

-----------------------------------------------------------------------------
(* The downtime of the summary.                                            *)

\* Once the call has begun, an outage is open while the link is down, up to the end.
DowntimeInv ==
  /\ Inv
  /\ dark \in Nat
  /\ ~o.finalized =>
       /\ o.since # No <=> status # "connected"
       /\ phase = "inCall" => o.started # No
       /\ status # "connected" => phase = "inCall"
  /\ o.since # No => o.since <= clock
  /\ DowntimeAccounted

\* What closing and finalizing do to the downtime.
LEMMA CloseCounts ==
  ASSUME NEW x, OutagesOk(x), NEW now \in Nat, x.since # No => x.since <= now
  PROVE  CloseSilently(x, now).downtime =
           x.downtime + (IF x.since = No THEN 0 ELSE now - x.since)
<1>1. CASE x.since = No
  BY <1>1 DEF CloseSilently, OutagesOk, Outages
<1>2. CASE x.since # No
  <2>1. x.since \in Nat /\ x.downtime \in Int /\ Higher(0, now - x.since) = now - x.since
    BY <1>2 DEF OutagesOk, Outages, Higher, No
  <2> QED BY <1>2, <2>1 DEF CloseSilently, OutagesOk, Outages
<1> QED BY <1>1, <1>2

\* The end counts the outage that is still open.
LEMMA FinalizeCounts ==
  ASSUME NEW x, OutagesOk(x), ~x.finalized, NEW now \in Nat, x.since # No => x.since <= now
  PROVE  Finalize(x, now).downtime =
           x.downtime + (IF x.since = No THEN 0 ELSE now - x.since)
<1> DEFINE c == CloseSilently(x, now)
<1>1. Finalize(x, now) = [c EXCEPT !.finalized = TRUE]
  BY DEF Finalize
<1>2. c \in Outages
  BY CloseKeeps DEF OutagesOk
<1>3. c.downtime = x.downtime + (IF x.since = No THEN 0 ELSE now - x.since)
  BY CloseCounts
<1> HIDE DEF c
<1> QED BY <1>1, <1>2, <1>3 DEF Outages

\* A phase keeps the downtime counted, and closes the outage when it ends the call.
LEMMA PhaseCounts ==
  ASSUME NEW x, OutagesOk(x), ~x.finalized, NEW now \in Nat, x.since # No => x.since <= now,
         NEW ph, NEW next, ph = "inCall" => x.started # No,
         NEW y, y = AfterPhase(x, ph, next, now)
  PROVE  /\ next = "inCall" => /\ y.started # No /\ y.since = x.since
                               /\ y.downtime = x.downtime
         /\ next # "inCall" /\ next # ph =>
              /\ y.since = No
              /\ y.downtime = x.downtime + (IF x.since = No THEN 0 ELSE now - x.since)
         /\ next = ph => y = x
<1>1. CASE next = ph
  BY <1>1 DEF AfterPhase
<1>2. CASE next # ph /\ next = "inCall"
  <2>1. y = IF x.started = No THEN [x EXCEPT !.started = now] ELSE x
    BY <1>2 DEF AfterPhase, OnPhaseTransition
  <2>2. now # No
    BY DEF No
  <2> QED BY <1>2, <2>1, <2>2 DEF OutagesOk, Outages
<1>3. CASE next # ph /\ next # "inCall"
  <2>1. y = CloseSilently(x, now)
    BY <1>3 DEF AfterPhase, OnPhaseTransition
  <2> QED BY <1>3, <2>1, CloseKeeps, CloseCounts
<1> QED BY <1>1, <1>2, <1>3

\* A status of a call that has begun keeps the downtime counted.
LEMMA StatusCounts ==
  ASSUME NEW x, OutagesOk(x), ~x.finalized, x.started # No,
         NEW now \in Nat, x.since # No => x.since <= now, NEW next,
         NEW y, y = OnConnectionStatusTransition(x, next, now)
  PROVE  /\ y.since # No <=> next # "connected"
         /\ y.since # No => y.since <= now
         /\ y.downtime + (IF y.since = No THEN 0 ELSE now - y.since)
              = x.downtime + (IF x.since = No THEN 0 ELSE now - x.since)
<1>1. x.downtime \in Int /\ now # No
  BY DEF OutagesOk, Outages, No
<1>2. CASE next # "connected" /\ x.since = No
  <2>1. y = OpenDropout(x, now)
    BY <1>2 DEF OnConnectionStatusTransition
  <2>2. y.since = now /\ y.downtime = x.downtime
    BY <2>1 DEF OpenDropout, OutagesOk, Outages
  <2> QED BY <1>1, <1>2, <2>2
<1>3. CASE next # "connected" /\ x.since # No
  BY <1>3 DEF OnConnectionStatusTransition
<1>4. CASE next = "connected" /\ x.since # No
  <2> DEFINE c == CloseSilently(x, now)
  <2>1. y = [c EXCEPT !.recoveries = @ + 1]
    BY <1>4 DEF OnConnectionStatusTransition, Recovers
  <2>2. c \in Outages /\ c.since = No
        /\ c.downtime = x.downtime + (IF x.since = No THEN 0 ELSE now - x.since)
    BY CloseKeeps, CloseCounts DEF OutagesOk
  <2> HIDE DEF c
  <2>3. y.since = No /\ y.downtime = c.downtime /\ c.downtime \in Int
    BY <2>1, <2>2 DEF Outages
  <2> QED BY <1>4, <2>2, <2>3
<1>5. CASE next = "connected" /\ x.since = No
  BY <1>5 DEF OnConnectionStatusTransition, Recovers
<1> QED BY <1>2, <1>3, <1>4, <1>5

\* The downtime so far: what was closed and what is open.
Down(x, now) == x.downtime + (IF x.since = No THEN 0 ELSE now - x.since)

\* feedQualityTracker keeps the downtime counted, and an outage open exactly while the
\* link is down.
LEMMA FeedCounts ==
  ASSUME DowntimeInv, NEW next, NEW nextStatus, ~o.finalized,
         nextStatus # "connected" => next = "inCall",
         NEW y, y = Feed(o, phase, next, status, nextStatus, clock)
  PROVE  /\ OutagesOk(y) /\ ~y.finalized
         /\ y.since # No <=> nextStatus # "connected"
         /\ next = "inCall" => y.started # No
         /\ y.since # No => y.since <= clock
         /\ Down(y, clock) = Down(o, clock)
<1> DEFINE m == AfterPhase(o, phase, next, clock)
           z == OnConnectionStatusTransition(m, nextStatus, clock)
<1>1. /\ OutagesOk(o) /\ clock \in Nat /\ o.downtime \in Int
      /\ o.since # No => o.since <= clock
      /\ phase = "inCall" => o.started # No
      /\ o.since # No <=> status # "connected"
      /\ status # "connected" => phase = "inCall"
  BY DEF DowntimeInv, Inv, OutagesOk, Outages
<1>2. OutagesOk(m) /\ ~m.finalized
  BY <1>1, PhaseSteps
<1>3. /\ next = "inCall" => m.started # No /\ m.since = o.since /\ m.downtime = o.downtime
      /\ next # "inCall" /\ next # phase => m.since = No /\ m.downtime = Down(o, clock)
      /\ next = phase => m = o
  BY <1>1, PhaseCounts DEF Down
<1>4. y = IF nextStatus = status THEN m ELSE z
  BY DEF Feed
<1>5. OutagesOk(y) /\ ~y.finalized
  BY <1>1, FeedSteps
<1> HIDE DEF m
<1>6. /\ m.since # No => m.since <= clock
      /\ Down(m, clock) = Down(o, clock)
      /\ m.since # No <=> (status # "connected" /\ next = "inCall")
  <2>1. CASE next = "inCall"
    BY <1>1, <1>3, <2>1 DEF Down
  <2>2. CASE next # "inCall" /\ next # phase
    <3>1. Down(o, clock) \in Int
      BY <1>1 DEF Down, OutagesOk, Outages
    <3> QED BY <1>3, <2>2, <3>1 DEF Down
  <2>3. CASE next # "inCall" /\ next = phase
    BY <1>1, <1>3, <2>3
  <2> QED BY <2>1, <2>2, <2>3
<1>7. CASE nextStatus = status
  BY <1>1, <1>3, <1>4, <1>5, <1>6, <1>7
<1>8. CASE nextStatus # status /\ next = "inCall"
  <2>1. /\ z.since # No <=> nextStatus # "connected"
        /\ z.since # No => z.since <= clock
        /\ Down(z, clock) = Down(m, clock)
    BY <1>1, <1>2, <1>3, <1>6, <1>8, StatusCounts DEF Down
  <2>2. z.started = m.started
    <3>1. \/ z = m \/ Drops(m, z) \/ Recovered(m, z)
      BY <1>1, <1>2, StatusSteps
    <3> QED BY <1>3, <1>8, <3>1, CloseKeeps, <1>2, <1>1
          DEF OnConnectionStatusTransition, OpenDropout, OutagesOk, Outages
  <2> HIDE DEF z
  <2> QED BY <1>3, <1>4, <1>5, <1>6, <1>8, <2>1, <2>2
<1>9. CASE nextStatus # status /\ next # "inCall"
  <2>1. nextStatus = "connected" /\ m.since = No
    BY <1>6, <1>9
  <2>2. z = m
    BY <2>1 DEF OnConnectionStatusTransition, Recovers
  <2> QED BY <1>4, <1>5, <1>6, <1>9, <2>1, <2>2
<1> QED BY <1>7, <1>8, <1>9

\* Nothing is counted yet.
LEMMA DowntimeInit == Init => DowntimeInv
<1> SUFFICES ASSUME Init PROVE DowntimeInv
  OBVIOUS
<1>1. /\ o.since = No /\ o.downtime = 0 /\ status = "connected" /\ phase = "joining"
      /\ dark = 0 /\ clock = 0
  BY DEF Init, NoOutages
<1> QED BY <1>1, InitOk DEF DowntimeInv, DowntimeAccounted

\* The end: what was open is counted.
LEMMA EndCounts ==
  ASSUME DowntimeInv, ~o.finalized, o' = Finalize(o, clock), Inv',
         UNCHANGED <<phase, status, clock, dark>>
  PROVE  DowntimeInv'
<1>1. /\ OutagesOk(o) /\ clock \in Nat /\ (o.since # No => o.since <= clock)
      /\ Down(o, clock) = dark
  BY DEF DowntimeInv, Inv, DowntimeAccounted, Down
<1>2. o'.since = No /\ o'.finalized = TRUE /\ o'.downtime = Down(o, clock)
  BY <1>1, FinalizeKeeps, FinalizeCounts DEF Down
<1> QED BY <1>1, <1>2 DEF DowntimeInv, DowntimeAccounted

\* Every step keeps the downtime counted.
LEMMA DowntimeNext == DowntimeInv /\ [Next]_vars => DowntimeInv'
<1> SUFFICES ASSUME DowntimeInv, [Next]_vars PROVE DowntimeInv'
  OBVIOUS
<1>1. Inv /\ Inv'
  BY NextStep DEF DowntimeInv
<1>2. /\ OutagesOk(o) /\ OutagesOk(o') /\ clock \in Nat /\ dark \in Nat
      /\ o.downtime \in Int /\ Down(o, clock) = dark
  BY <1>1 DEF DowntimeInv, Inv, DowntimeAccounted, Down, OutagesOk, Outages
<1>3. ASSUME UNCHANGED <<o, phase, status, clock, dark>>
      PROVE  DowntimeInv'
  BY <1>1, <1>3 DEF DowntimeInv, DowntimeAccounted
<1>4. ASSUME NEW next, NEW nextStatus, NEW leaves \in BOOLEAN,
             Rebuild(next, nextStatus, leaves)
      PROVE  DowntimeInv'
  <2> DEFINE fed == Feed(o, phase, next, status, nextStatus, clock)
  <2>1. /\ ~o.finalized /\ (nextStatus # "connected" => next = "inCall")
        /\ o' = IF leaves THEN Finalize(fed, clock) ELSE fed
        /\ phase' = next /\ status' = nextStatus /\ clock' = clock /\ dark' = dark
    BY <1>4 DEF Rebuild
  <2>2. /\ OutagesOk(fed) /\ ~fed.finalized
        /\ fed.since # No <=> nextStatus # "connected"
        /\ next = "inCall" => fed.started # No
        /\ fed.since # No => fed.since <= clock
        /\ Down(fed, clock) = dark
    BY <1>2, <2>1, FeedCounts
  <2> HIDE DEF fed
  <2>3. CASE ~leaves
    BY <1>1, <1>2, <2>1, <2>2, <2>3 DEF DowntimeInv, DowntimeAccounted, Down
  <2>4. CASE leaves
    <3>1. o'.since = No /\ o'.finalized = TRUE /\ o'.downtime = dark
      BY <1>2, <2>1, <2>2, <2>4, FinalizeKeeps, FinalizeCounts DEF Down
    <3> QED BY <1>1, <1>2, <2>1, <3>1 DEF DowntimeInv, DowntimeAccounted
  <2> QED BY <2>3, <2>4
<1>5. CASE Tick
  <2>1. /\ clock' = clock + 1 /\ o' = o /\ phase' = phase /\ status' = status
        /\ dark' = IF status # "connected" /\ ~o.finalized THEN dark + 1 ELSE dark
    BY <1>5 DEF Tick
  <2>2. o.finalized => o.since = No
    BY <1>2 DEF OutagesOk
  <2> QED BY <1>1, <1>2, <2>1, <2>2
        DEF DowntimeInv, DowntimeAccounted, Down, OutagesOk, Outages
<1>6. ASSUME NEW r, Sample(r)
      PROVE  DowntimeInv'
  BY <1>3, <1>6 DEF Sample
<1>7. CASE Close
  BY <1>1, <1>7, EndCounts DEF Close
<1>8. ASSUME NEW code, Fail(code)
      PROVE  DowntimeInv'
  BY <1>1, <1>8, EndCounts DEF Fail
<1>9. CASE UNCHANGED vars
  BY <1>3, <1>9 DEF vars
<1> QED BY <1>4, <1>5, <1>6, <1>7, <1>8, <1>9 DEF Next

\* The downtime a host reads is the time the live call's link was down, over any number
\* of outages and whichever way the call ended.
THEOREM DowntimeTheorem == Spec => []DowntimeAccounted
<1>1. DowntimeInv => DowntimeAccounted
  BY DEF DowntimeInv
<1> QED BY <1>1, DowntimeInit, DowntimeNext, PTL DEF Spec

-----------------------------------------------------------------------------
(* The packets of the summary.                                             *)

\* What a gauge has counted and what it would count now from its baseline, if that is not
\* negative, is at most what was so.
Covered(counted, last, now, real) ==
  /\ counted \in Nat /\ now \in Nat /\ real \in Nat /\ last \in Nat \cup {No}
  /\ counted <= real
  /\ last # No => counted + now - last <= real

Gauges(x) ==
  /\ {"latency", "jitter", "count", "lastLost", "lastReceived", "lost", "received", "hasLoss"}
       \subseteq DOMAIN x
  /\ x.lastLost = No <=> x.lastReceived = No

LossInv ==
  /\ Gauges(g)
  /\ Covered(g.lost, g.lastLost, link.lost, truth.lost)
  /\ Covered(g.received, g.lastReceived, link.received, truth.received)

\* A sample of n more packets on the same connection, or the first n of a fresh one.
LEMMA CoveredOn ==
  ASSUME NEW counted, NEW last, NEW now, NEW real, Covered(counted, last, now, real),
         NEW n \in Nat, NEW next \in {n, now + n}
  PROVE  /\ Covered(counted, last, next, real + n)
         /\ Covered(counted, next, next, real + n)
         /\ last # No /\ next - last >= 0 =>
              Covered(counted + (next - last), next, next, real + n)
BY DEF Covered, No

\* A sample may count its packets, and always leaves their baseline, or is not heard.
LEMMA GaugeSteps ==
  ASSUME NEW x, Gauges(x), NEW out, NEW stats, NEW now,
         stats.lost \in Nat, stats.received \in Nat,
         NEW y, y = OnStatsSample(x, out, stats, now)
  PROVE  /\ DOMAIN y = DOMAIN x
         /\ \/ /\ y.lost = x.lost /\ y.received = x.received
               /\ y.lastLost = x.lastLost /\ y.lastReceived = x.lastReceived
            \/ /\ y.lost = x.lost /\ y.received = x.received
               /\ y.lastLost = stats.lost /\ y.lastReceived = stats.received
            \/ /\ x.lastLost # No
               /\ stats.lost - x.lastLost >= 0 /\ stats.received - x.lastReceived >= 0
               /\ y.lost = x.lost + (stats.lost - x.lastLost)
               /\ y.received = x.received + (stats.received - x.lastReceived)
               /\ y.lastLost = stats.lost /\ y.lastReceived = stats.received
<1>1. CASE y = x
  BY <1>1
<1>2. CASE y # x
  <2>1. PICK a, b, n : y = CountLoss([x EXCEPT !.latency = a, !.jitter = b, !.count = n], stats)
    <3>1. stats.lost # No
      BY DEF No
    <3> QED BY <1>2, <3>1 DEF OnStatsSample
  <2> DEFINE z == [x EXCEPT !.latency = a, !.jitter = b, !.count = n]
  <2>2. /\ DOMAIN z = DOMAIN x /\ z.lost = x.lost /\ z.received = x.received
        /\ z.lastLost = x.lastLost /\ z.lastReceived = x.lastReceived
    BY DEF Gauges
  <2>3. y = CountLoss(z, stats)
    BY <2>1
  <2> HIDE DEF z
  <2> DEFINE counted == /\ z.lastLost # No /\ stats.lost - z.lastLost >= 0
                        /\ stats.received - z.lastReceived >= 0
  <2>4. /\ DOMAIN y = DOMAIN z
        /\ y.lastLost = stats.lost /\ y.lastReceived = stats.received
        /\ y.lost = IF counted THEN z.lost + (stats.lost - z.lastLost) ELSE z.lost
        /\ y.received = IF counted THEN z.received + (stats.received - z.lastReceived)
                        ELSE z.received
    BY <2>2, <2>3 DEF CountLoss, Gauges
  <2> QED BY <2>2, <2>4
<1> QED BY <1>1, <1>2

\* Nothing is counted yet.
LEMMA LossInit == Init => LossInv
BY DEF Init, NoGauges, No, LossInv, Gauges, Covered

\* A sample keeps what is counted below what was so, whether the connection is fresh or not.
LEMMA SampleCovered ==
  ASSUME LossInv, NEW r \in Readings, Sample(r)
  PROVE  LossInv'
<1> DEFINE base == IF r.fresh THEN [lost |-> 0, received |-> 0] ELSE link
           next == [lost |-> base.lost + r.lost, received |-> base.received + r.received]
           stats == [rtt |-> r.rtt, jitter |-> r.jitter, lost |-> next.lost, received |-> next.received]
<1>1. r.lost \in Nat /\ r.received \in Nat
  BY TrackerAssumption
<1>2. /\ link' = next
      /\ truth' = [lost |-> truth.lost + r.lost, received |-> truth.received + r.received]
      /\ g' = OnStatsSample(g, o, stats, clock)
  BY DEF Sample
<1>3. link.lost \in Nat /\ link.received \in Nat
  BY DEF LossInv, Covered
<1>4. /\ next.lost \in {r.lost, link.lost + r.lost} /\ next.lost \in Nat
      /\ next.received \in {r.received, link.received + r.received} /\ next.received \in Nat
  BY <1>1, <1>3
<1>5. stats.lost = next.lost /\ stats.received = next.received
  OBVIOUS
<1>6. /\ truth'.lost = truth.lost + r.lost /\ truth'.received = truth.received + r.received
      /\ link'.lost = next.lost /\ link'.received = next.received
  BY <1>2
<1> HIDE DEF next
<1> HIDE DEF stats
<1>7. Gauges(g) /\ Covered(g.lost, g.lastLost, link.lost, truth.lost)
      /\ Covered(g.received, g.lastReceived, link.received, truth.received)
  BY DEF LossInv
<1>8. /\ DOMAIN g' = DOMAIN g
      /\ \/ /\ g'.lost = g.lost /\ g'.received = g.received
            /\ g'.lastLost = g.lastLost /\ g'.lastReceived = g.lastReceived
         \/ /\ g'.lost = g.lost /\ g'.received = g.received
            /\ g'.lastLost = next.lost /\ g'.lastReceived = next.received
         \/ /\ g.lastLost # No
            /\ next.lost - g.lastLost >= 0 /\ next.received - g.lastReceived >= 0
            /\ g'.lost = g.lost + (next.lost - g.lastLost)
            /\ g'.received = g.received + (next.received - g.lastReceived)
            /\ g'.lastLost = next.lost /\ g'.lastReceived = next.received
  BY <1>2, <1>4, <1>5, <1>7, GaugeSteps
<1>9. Covered(g'.lost, g'.lastLost, next.lost, truth.lost + r.lost)
  BY <1>1, <1>4, <1>7, <1>8, CoveredOn
<1>10. g.lastLost # No => g.lastReceived # No
  BY <1>7 DEF Gauges
<1>11. Covered(g'.received, g'.lastReceived, next.received, truth.received + r.received)
  BY <1>1, <1>4, <1>7, <1>8, <1>10, CoveredOn
<1>12. Gauges(g')
  <2>1. next.lost # No /\ next.received # No
    BY <1>4 DEF No
  <2> QED BY <1>7, <1>8, <2>1 DEF Gauges
<1> QED BY <1>6, <1>9, <1>11, <1>12 DEF LossInv

\* Every step does.
LEMMA LossNext == LossInv /\ [Next]_vars => LossInv'
<1> SUFFICES ASSUME LossInv, [Next]_vars PROVE LossInv'
  OBVIOUS
<1>1. ASSUME UNCHANGED <<g, link, truth>> PROVE LossInv'
  BY <1>1 DEF LossInv
<1>2. ASSUME NEW r \in Readings, Sample(r) PROVE LossInv'
  BY <1>2, SampleCovered
<1>3. ASSUME NEW next, NEW nextStatus, NEW leaves, Rebuild(next, nextStatus, leaves)
      PROVE  LossInv'
  BY <1>1, <1>3 DEF Rebuild
<1>4. ASSUME NEW code, Fail(code) PROVE LossInv'
  BY <1>1, <1>4 DEF Fail
<1>5. CASE Close \/ Tick \/ UNCHANGED vars
  BY <1>1, <1>5 DEF Close, Tick, vars
<1> QED BY <1>2, <1>3, <1>4, <1>5 DEF Next

\* No more packets are counted than were lost or received, however often the peer
\* connection, and its counters with it, is replaced.
THEOREM LossTheorem ==
  Spec => []LossNeverInflated
<1>1. LossInv => LossNeverInflated
  BY DEF LossInv, Covered, LossNeverInflated
<1> QED BY <1>1, LossInit, LossNext, PTL DEF Spec

-----------------------------------------------------------------------------
(* The score, computeMos: a rounded cubic that is clamped twice.          *)

\* The polynomial of the score, of a rating r in tenths.
Millionths(r) == 1000000 + 3500 * r + 7 * ((r * (r - 600) * (1000 - r)) \div 1000)

Million == 1000000
Rated == 0..1000
High == 50..1000
Growth(a, b) == 11200 * (a + b) - 7 * (a * a + a * b + b * b)

\* The cubic grows, past its turn, by more than is lost in rounding.
LEMMA Slope ==
  ASSUME NEW a \in High, NEW b \in High
  PROVE  Growth(a, b) >= Million
<1> USE DEF High
<1> DEFINE x == a - 50
           y == b - 50
<1>1. x \in 0..950 /\ y \in 0..950 /\ a = x + 50 /\ b = y + 50
  BY SMT
<1> HIDE DEF x
<1> HIDE DEF y
<1>2. x * x <= 950 * x /\ y * y <= 950 * y
  BY SMT, <1>1
<1>3. x * y <= 950 * x /\ x * y <= 950 * y
  BY SMT, <1>1
<1>4. /\ a * a = x * x + 100 * x + 2500
      /\ b * b = y * y + 100 * y + 2500
      /\ a * b = x * y + 50 * x + 50 * y + 2500
  BY SMT, <1>1
<1> DEFINE p == x * x
           q == x * y
           r == y * y
<1>5. p \in Int /\ q \in Int /\ r \in Int
  BY SMT, <1>1
<1>6. p <= 950 * x /\ r <= 950 * y /\ q <= 950 * x /\ q <= 950 * y
  BY SMT, <1>2, <1>3
<1>7. a * a = p + 100 * x + 2500 /\ b * b = r + 100 * y + 2500 /\ a * b = q + 50 * x + 50 * y + 2500
  BY SMT, <1>4
<1>8. a * a + a * b + b * b = p + q + r + 150 * x + 150 * y + 7500
  BY SMT, <1>1, <1>5, <1>7
<1> HIDE DEF p
<1> HIDE DEF q
<1> HIDE DEF r
<1>9. 11200 * (a + b) = 11200 * x + 11200 * y + 1120000
  BY SMT, <1>1
<1> QED BY SMT, <1>1, <1>5, <1>6, <1>8, <1>9 DEF Growth, Million

\* The product of the code, expanded.
LEMMA Expanded ==
  ASSUME NEW r \in 0..1000
  PROVE  /\ r * (r - 600) * (1000 - r) \in Int
         /\ 3500000 * r + 7 * (r * (r - 600) * (1000 - r)) =
              11200 * (r * r) - 7 * (r * (r * r)) - 700000 * r
<1> DEFINE s == r * r
<1>1. s \in Int /\ r * s \in Int
  BY SMT
<1>2. r * (r - 600) = s - 600 * r
  BY SMT
<1>3. (s - 600 * r) * (1000 - r) = 1000 * s - r * s - 600000 * r + 600 * s
  <2>1. (s - 600 * r) * (1000 - r) = 1000 * (s - 600 * r) - r * (s - 600 * r)
    BY SMT, <1>1
  <2>2. r * (s - 600 * r) = r * s - 600 * s
    BY SMT, <1>1
  <2> HIDE DEF s
  <2> QED BY SMT, <1>1, <2>1, <2>2
<1> HIDE DEF s
<1>4. r * (r - 600) * (1000 - r) = 1600 * s - r * s - 600000 * r
  BY SMT, <1>1, <1>2, <1>3
<1> QED BY SMT, <1>1, <1>4 DEF s

\* A thousandth of a cube is cut by less than one.
LEMMA Thousandth ==
  ASSUME NEW c \in Int
  PROVE  c \div 1000 \in Int /\ 1000 * (c \div 1000) <= c /\ c < 1000 * (c \div 1000) + 1000
BY SMT

\* Below the turn of the cubic the score is at its floor.
LEMMA LowRating ==
  ASSUME NEW r \in 0..49
  PROVE  Millionths(r) \in Int /\ Millionths(r) <= 1000000
<1> DEFINE c == r * (r - 600) * (1000 - r)
<1>1. c \in Int /\ 3500000 * r + 7 * c = 11200 * (r * r) - 7 * (r * (r * r)) - 700000 * r
  BY SMT, Expanded
<1>2. r * r \in Nat /\ r * r <= 49 * r
  BY SMT
<1>3. r * (r * r) \in Nat
  BY SMT, <1>2
<1>4. 1000 * (c \div 1000) <= c /\ c \div 1000 \in Int
  BY SMT, <1>1, Thousandth
<1> HIDE DEF c
<1>5. 3500000 * r + 7 * c <= 0
  <2> DEFINE s == r * r
             t == r * s
  <2>1. s \in Nat /\ s <= 49 * r /\ t \in Nat
    BY SMT, <1>2, <1>3
  <2>2. 3500000 * r + 7 * c = 11200 * s - 7 * t - 700000 * r
    BY SMT, <1>1
  <2> HIDE DEF t
  <2> HIDE DEF s
  <2> QED BY SMT, <2>1, <2>2
<1>6. 3500 * r + 7 * (c \div 1000) <= 0
  BY SMT, <1>1, <1>4, <1>5
<1> QED BY SMT, <1>4, <1>6 DEF Millionths, c

\* Above it the polynomial grows.
LEMMA HighRatings ==
  ASSUME NEW a \in High, NEW b \in High, a < b
  PROVE  /\ Millionths(a) \in Int /\ Millionths(b) \in Int
         /\ Millionths(a) <= Millionths(b)
<1>0. Growth(a, b) >= Million
  BY Slope
<1> USE DEF High
<1> DEFINE ca == a * (a - 600) * (1000 - a)
           cb == b * (b - 600) * (1000 - b)
           k == 11200 * (a + b) - 7 * (a * a + a * b + b * b) - 700000
<1>1. /\ ca \in Int /\ 3500000 * a + 7 * ca = 11200 * (a * a) - 7 * (a * (a * a)) - 700000 * a
      /\ cb \in Int /\ 3500000 * b + 7 * cb = 11200 * (b * b) - 7 * (b * (b * b)) - 700000 * b
  BY SMT, Expanded
<1>2. k \in Int /\ k >= 300000
  <2> DEFINE p == 11200 * (a + b)
             q == 7 * (a * a + a * b + b * b)
  <2>1. p \in Int /\ q \in Int /\ p - q = Growth(a, b)
    BY SMT DEF Growth
  <2>2. k = p - q - 700000
    OBVIOUS
  <2> HIDE DEF p
  <2> HIDE DEF q
  <2> HIDE DEF k
  <2> QED BY SMT, <1>0, <2>1, <2>2 DEF Million
<1>3. (b - a) * k = (11200 * (b * b) - 7 * (b * (b * b)) - 700000 * b)
                    - (11200 * (a * a) - 7 * (a * (a * a)) - 700000 * a)
  <2>1. (b - a) * (a + b) = b * b - a * a
    BY SMT
  <2>2. (b - a) * (a * a + a * b + b * b) = b * (b * b) - a * (a * a)
    <3>1. b * (a * a + a * b + b * b) = b * (a * a) + b * (a * b) + b * (b * b)
      BY SMT
    <3>2. a * (a * a + a * b + b * b) = a * (a * a) + a * (a * b) + a * (b * b)
      BY SMT
    <3>3. b * (a * a) = a * (a * b) /\ b * (a * b) = a * (b * b)
      BY SMT
    <3> QED BY SMT, <3>1, <3>2, <3>3
  <2> DEFINE p == a + b
             q == a * a + a * b + b * b
  <2>3. p \in Int /\ q \in Int
    BY SMT
  <2>4. (b - a) * k = 11200 * ((b - a) * p) - 7 * ((b - a) * q) - 700000 * (b - a)
    <3> HIDE DEF p
    <3> HIDE DEF q
    <3>1. k = 11200 * p - 7 * q - 700000
      BY SMT DEF p, q
    <3> HIDE DEF k
    <3> QED BY SMT, <2>3, <3>1
  <2> HIDE DEF k
  <2> QED BY SMT, <2>1, <2>2, <2>4
<1>4. (b - a) * k >= 300000
  <2> DEFINE n == b - a
  <2> HIDE DEF k
  <2>1. n \in Nat /\ n >= 1
    BY SMT
  <2> HIDE DEF n
  <2>2. n * k >= k
    <3>1. n * k = k + (n - 1) * k
      BY SMT, <1>2, <2>1
    <3>2. (n - 1) * k >= 0
      BY SMT, <1>2, <2>1
    <3> QED BY SMT, <1>2, <2>1, <3>1, <3>2
  <2>3. n * k >= 300000
    BY SMT, <1>2, <2>2, <2>1
  <2> QED BY SMT, <2>3 DEF n
<1>5. /\ ca \div 1000 \in Int /\ 1000 * (ca \div 1000) <= ca
      /\ cb \div 1000 \in Int /\ cb < 1000 * (cb \div 1000) + 1000
  BY SMT, <1>1, Thousandth
<1>6. (3500000 * b + 7 * cb) - (3500000 * a + 7 * ca) >= 300000
  BY SMT, <1>1, <1>3, <1>4
<1>7. Millionths(a) = 1000000 + 3500 * a + 7 * (ca \div 1000)
      /\ Millionths(b) = 1000000 + 3500 * b + 7 * (cb \div 1000)
  BY SMT DEF Millionths
<1> HIDE DEF ca
<1> HIDE DEF cb
<1> QED BY SMT, <1>1, <1>5, <1>6, <1>7

Scored(v) == Clamp(v, 100, 450)
Points(r) == Scored((Millionths(r) + 5000) \div 10000)

\* The score is between 1 and 4.5.
LEMMA ScoredOk ==
  ASSUME NEW v \in Int
  PROVE  Scored(v) \in Int /\ Scored(v) >= 100
BY DEF Scored, Clamp, Lower, Higher

\* It is 1 where the polynomial is no more than one million.
LEMMA ScoredLow ==
  ASSUME NEW v \in Int, v <= 100
  PROVE  Scored(v) = 100
BY DEF Scored, Clamp, Lower, Higher

\* It rises with the polynomial.
LEMMA ScoredRises ==
  ASSUME NEW v \in Int, NEW w \in Int, v <= w
  PROVE  Scored(v) <= Scored(w)
BY DEF Scored, Clamp, Lower, Higher

\* The polynomial is a number.
LEMMA MillionthsInt ==
  ASSUME NEW r \in Rated
  PROVE  Millionths(r) \in Int
<1> USE DEF Rated
<1> DEFINE c == r * (r - 600) * (1000 - r)
<1>1. c \in Int
  BY SMT, Expanded
<1>2. c \div 1000 \in Int
  BY SMT, <1>1, Thousandth
<1> QED BY SMT, <1>2 DEF Millionths

\* A higher rating never scores lower.
LEMMA PointsRise ==
  ASSUME NEW a \in Rated, NEW b \in Rated, a <= b
  PROVE  Points(a) \in Int /\ Points(b) \in Int /\ 100 <= Points(a) /\ Points(a) <= Points(b)
<1> DEFINE s == (Millionths(a) + 5000) \div 10000
           t == (Millionths(b) + 5000) \div 10000
<1>1. Millionths(a) \in Int /\ Millionths(b) \in Int
  BY MillionthsInt
<1> USE DEF Rated
<1>2. s \in Int /\ t \in Int
  BY SMT, <1>1
<1>3. a < 50 => s <= 100
  BY SMT, <1>1, LowRating
<1>4. a >= 50 => s <= t
  <2>1. CASE a = b
    BY SMT, <1>2, <2>1
  <2>2. CASE a >= 50 /\ a < b
    <3>1. a \in High /\ b \in High
      BY <2>2 DEF High
    <3>2. Millionths(a) <= Millionths(b)
      BY <2>2, <3>1, HighRatings
    <3> QED BY SMT, <1>1, <3>2
  <2> QED BY SMT, <2>1, <2>2
<1> HIDE DEF s
<1> HIDE DEF t
<1>5. Scored(s) \in Int /\ Scored(t) \in Int /\ Scored(s) >= 100 /\ Scored(t) >= 100
  BY <1>2, ScoredOk
<1>6. CASE s <= 100
  <2>1. Scored(s) = 100
    BY <1>2, <1>6, ScoredLow
  <2> QED BY <1>5, <2>1 DEF Points, s, t
<1>7. CASE s <= t
  <2>1. Scored(s) <= Scored(t)
    BY <1>2, <1>7, ScoredRises
  <2> QED BY <1>5, <2>1 DEF Points, s, t
<1> QED BY <1>2, <1>3, <1>4, <1>6, <1>7

\* A worse link is never rated higher.
LEMMA RatingFalls ==
  ASSUME NEW rtt \in Nat, NEW jitter \in Nat, NEW loss \in Nat,
         NEW rtt2 \in Nat, NEW jitter2 \in Nat, NEW loss2 \in Nat,
         rtt <= rtt2, jitter <= jitter2, loss <= loss2
  PROVE  /\ Rating(rtt, jitter, loss) \in Rated
         /\ Rating(rtt2, jitter2, loss2) \in Rated
         /\ Rating(rtt2, jitter2, loss2) <= Rating(rtt, jitter, loss)
<1> DEFINE e == rtt \div 2 + 2 * jitter + 10
           f == rtt2 \div 2 + 2 * jitter2 + 10
           d(x) == IF x < 160 THEN x \div 4 ELSE x - 120
<1>1. e \in Nat /\ f \in Nat /\ e <= f
  BY SMT
<1>2. d(e) \in Int /\ d(f) \in Int /\ d(e) <= d(f)
  <2> HIDE DEF e
  <2> HIDE DEF f
  <2> QED BY SMT, <1>1
<1>3. /\ Rating(rtt, jitter, loss) = Clamp(932 - d(e) - 25 * loss, 0, 1000)
      /\ Rating(rtt2, jitter2, loss2) = Clamp(932 - d(f) - 25 * loss2, 0, 1000)
  BY SMT DEF Rating
<1> HIDE DEF d
<1> HIDE DEF e
<1> HIDE DEF f
<1>4. 932 - d(f) - 25 * loss2 <= 932 - d(e) - 25 * loss
  BY SMT, <1>2
<1>5. 932 - d(e) - 25 * loss \in Int /\ 932 - d(f) - 25 * loss2 \in Int
  BY <1>2
<1> QED BY <1>3, <1>4, <1>5 DEF Rated, Clamp, Lower, Higher

\* computeMos is the score of the rating.
LEMMA MosPoints ==
  ASSUME NEW rtt, NEW jitter, NEW loss
  PROVE  ComputeMos(rtt, jitter, loss) = Points(Rating(rtt, jitter, loss))
BY SMT DEF ComputeMos, Points, Millionths, Scored

\* A link that is worse in every way never scores higher.
LEMMA MosFalls ==
  ASSUME NEW rtt \in Nat, NEW jitter \in Nat, NEW loss \in Nat,
         NEW rtt2 \in Nat, NEW jitter2 \in Nat, NEW loss2 \in Nat,
         rtt <= rtt2, jitter <= jitter2, loss <= loss2
  PROVE  ComputeMos(rtt2, jitter2, loss2) \in 100..ComputeMos(rtt, jitter, loss)
<1> DEFINE a == Rating(rtt2, jitter2, loss2)
           b == Rating(rtt, jitter, loss)
<1>1. a \in Rated /\ b \in Rated /\ a <= b
  BY RatingFalls
<1>2. ComputeMos(rtt2, jitter2, loss2) = Points(a) /\ ComputeMos(rtt, jitter, loss) = Points(b)
  BY MosPoints
<1> HIDE DEF a
<1> HIDE DEF b
<1>3. Points(a) \in Int /\ Points(b) \in Int /\ 100 <= Points(a) /\ Points(a) <= Points(b)
  BY <1>1, PointsRise
<1> QED BY <1>2, <1>3

-----------------------------------------------------------------------------
(* Induction over numbers, in the form of sets.                           *)

\* Every set of numbers has a least one, by the well-foundedness of the inclusion of the
\* intervals that end at them.
LEMMA LeastNat ==
  ASSUME NEW T \in SUBSET Nat, T # {}
  PROVE  \E x \in T : \A y \in T : x <= y
<1> DEFINE W == {0..x : x \in T}
<1>1. W # {} /\ W \in SUBSET FiniteSubsetsOf(Nat)
  <2>1. ASSUME NEW x \in T PROVE 0..x \in FiniteSubsetsOf(Nat)
    BY FS_Interval DEF FiniteSubsetsOf
  <2> QED BY <2>1
<1>2. IsWellFoundedOn(StrictSubsetOrdering(Nat), FiniteSubsetsOf(Nat))
  BY FS_StrictSubsetOrderingWellFounded
<1> HIDE DEF W
<1>3. PICK w \in W : \A v \in W : ~ (<<v, w>> \in StrictSubsetOrdering(Nat))
  BY <1>1, <1>2, WFMin
<1>4. PICK x \in T : w = 0..x
  BY DEF W
<1>5. ASSUME NEW y \in T, ~ (x <= y) PROVE FALSE
  <2>1. 0..y \in W /\ y < x
    BY <1>5 DEF W
  <2>2. 0..y \subseteq w /\ 0..y # w /\ 0..y \subseteq Nat /\ w \subseteq Nat
    <3>1. x \in w /\ x \notin 0..y
      BY <1>4, <2>1
    <3> QED BY <1>4, <2>1, <3>1
  <2>3. <<0..y, w>> \in StrictSubsetOrdering(Nat)
    BY <2>2 DEF StrictSubsetOrdering
  <2> QED BY <1>3, <2>1, <2>3
<1> QED BY <1>5

\* A set that holds zero and the successor of each of its elements holds every number.
LEMMA SetInduction ==
  ASSUME NEW S, 0 \in S, \A n \in Nat : n \in S => n + 1 \in S
  PROVE  Nat \subseteq S
<1> DEFINE T == Nat \ S
<1> SUFFICES ASSUME T # {} PROVE FALSE
  OBVIOUS
<1>1. PICK x \in T : \A y \in T : x <= y
  BY LeastNat
<1>2. x # 0 /\ x \in Nat
  BY <1>1
<1>3. x - 1 \in Nat /\ x - 1 \notin T
  BY <1>1, <1>2
<1>4. (x - 1) + 1 \in S
  BY <1>3
<1> QED BY <1>1, <1>2, <1>4

-----------------------------------------------------------------------------
(* The walks of siftUp and siftDown.                                      *)

\* A walk over an array: at an index it stops, or it changes the array and goes on
\* elsewhere.
Walk(f, N, D, stop, go, to) ==
  f = [i \in 1..N |-> [d \in D |-> IF stop[i][d] THEN d ELSE f[go[i][d]][to[i][d]]]]

\* Every step gets nearer to the end.
Nearer(N, D, stop, go, to, rank) ==
  /\ rank \in [1..N -> 0..N]
  /\ \A i \in 1..N, d \in D : ~stop[i][d] =>
       go[i][d] \in 1..N /\ to[i][d] \in D /\ rank[go[i][d]] < rank[i]

\* From a good place it stops where it may, or gets to a good place.
SoundMove(N, D, stop, go, to, Good, Final) ==
  \A i \in 1..N, d \in D : <<i, d>> \in Good =>
    IF stop[i][d] THEN d \in Final ELSE <<go[i][d], to[i][d]>> \in Good

\* So there is a function that walks.
LEMMA WalkExists ==
  ASSUME NEW N \in Nat, NEW D, NEW stop, NEW go, NEW to, NEW rank,
         Nearer(N, D, stop, go, to, rank)
  PROVE  \E f : Walk(f, N, D, stop, go, to)
<1> DEFINE Near(f, k) ==
             \A i \in 1..N : rank[i] < k =>
               f[i] = [d \in D |-> IF stop[i][d] THEN d ELSE f[go[i][d]][to[i][d]]]
           S == {k \in Nat : \E f : Near(f, k)}
<1>1. 0 \in S
  <2>1. ASSUME NEW i \in 1..N PROVE ~(rank[i] < 0)
    BY DEF Nearer
  <2> QED BY <2>1
<1>2. ASSUME NEW k \in Nat, k \in S PROVE k + 1 \in S
  <2>1. PICK f : Near(f, k)
    BY <1>2
  <2> DEFINE Step(i) == [d \in D |-> IF stop[i][d] THEN d ELSE f[go[i][d]][to[i][d]]]
             h == [i \in 1..N |-> IF rank[i] < k THEN f[i] ELSE Step(i)]
  <2>2. ASSUME NEW i \in 1..N, rank[i] < k + 1
        PROVE  h[i] = [d \in D |-> IF stop[i][d] THEN d ELSE h[go[i][d]][to[i][d]]]
    <3>1. h[i] = Step(i)
      BY <2>1
    <3>2. ASSUME NEW d \in D, ~stop[i][d]
          PROVE  h[go[i][d]] = f[go[i][d]]
      <4>1. go[i][d] \in 1..N /\ rank[go[i][d]] < rank[i] /\ rank[go[i][d]] \in Nat /\ rank[i] \in Nat
        BY <3>2 DEF Nearer
      <4>2. rank[go[i][d]] < k
        BY <2>2, <4>1
      <4> QED BY <4>1, <4>2
    <3> HIDE DEF h
    <3> QED BY <3>1, <3>2
  <2>3. Near(h, k + 1)
    <3> HIDE DEF h
    <3> QED BY <2>2
  <2> HIDE DEF h
  <2> HIDE DEF Near
  <2> QED BY <2>3
<1>3. Nat \subseteq S
  <2> HIDE DEF S
  <2> QED BY <1>1, <1>2, SetInduction
<1>4. PICK f : Near(f, N + 1)
  <2>1. N + 1 \in S
    <3> HIDE DEF S
    <3> QED BY <1>3
  <2> HIDE DEF Near
  <2> QED BY <2>1
<1>5. ASSUME NEW i \in 1..N PROVE rank[i] < N + 1
  BY DEF Nearer
<1> DEFINE h == [i \in 1..N |-> f[i]]
<1>6. ASSUME NEW i \in 1..N
      PROVE  h[i] = [d \in D |-> IF stop[i][d] THEN d ELSE h[go[i][d]][to[i][d]]]
  <2>1. f[i] = [d \in D |-> IF stop[i][d] THEN d ELSE f[go[i][d]][to[i][d]]]
    BY <1>4, <1>5
  <2>2. ASSUME NEW d \in D, ~stop[i][d] PROVE h[go[i][d]] = f[go[i][d]]
    BY <2>2 DEF Nearer
  <2>3. h[i] = f[i]
    OBVIOUS
  <2> HIDE DEF h
  <2> QED BY <2>1, <2>2, <2>3
<1>7. h = [i \in 1..N |-> h[i]]
  OBVIOUS
<1> HIDE DEF h
<1>8. Walk(h, N, D, stop, go, to)
  BY <1>6, <1>7 DEF Walk
<1> QED BY <1>8

\* From a good place, by good steps, a walk ends where it may.
LEMMA WalkEnds ==
  ASSUME NEW N \in Nat, NEW D, NEW stop, NEW go, NEW to, NEW rank,
         Nearer(N, D, stop, go, to, rank), NEW f, Walk(f, N, D, stop, go, to),
         NEW Good, NEW Final, SoundMove(N, D, stop, go, to, Good, Final)
  PROVE  \A i \in 1..N, d \in D : <<i, d>> \in Good => f[i][d] \in Final
<1> DEFINE Bad == {i \in 1..N : \E d \in D : <<i, d>> \in Good /\ f[i][d] \notin Final}
           T == {rank[i] : i \in Bad}
<1> SUFFICES ASSUME Bad # {} PROVE FALSE
  OBVIOUS
<1>1. T # {} /\ T \in SUBSET Nat
  <2>1. rank \in [1..N -> 0..N] /\ Bad \subseteq 1..N
    BY DEF Nearer
  <2> HIDE DEF Bad
  <2>2. ASSUME NEW i \in Bad PROVE rank[i] \in Nat
    BY <2>1
  <2> QED BY <2>2
<1>2. PICK x \in T : \A y \in T : x <= y
  <2> HIDE DEF T
  <2> QED BY <1>1, LeastNat
<1>3. PICK i \in Bad : x = rank[i]
  BY <1>2
<1>4. PICK d \in D : <<i, d>> \in Good /\ f[i][d] \notin Final
  BY <1>3
<1>5. f[i][d] = IF stop[i][d] THEN d ELSE f[go[i][d]][to[i][d]]
  <2>1. f[i] = [e \in D |-> IF stop[i][e] THEN e ELSE f[go[i][e]][to[i][e]]]
    BY DEF Walk
  <2> QED BY <2>1
<1>6. ~stop[i][d] /\ <<go[i][d], to[i][d]>> \in Good
  BY <1>4, <1>5 DEF SoundMove
<1>7. go[i][d] \in 1..N /\ to[i][d] \in D /\ rank[go[i][d]] < rank[i]
  BY <1>6 DEF Nearer
<1>8. go[i][d] \in Bad
  BY <1>4, <1>5, <1>6, <1>7
<1>9. x <= rank[go[i][d]]
  BY <1>2, <1>8
<1>10. rank[i] \in Nat /\ rank[go[i][d]] \in Nat
  <2>1. i \in 1..N
    OBVIOUS
  <2> HIDE DEF Bad
  <2>2. rank \in [1..N -> 0..N]
    BY DEF Nearer
  <2> QED BY <1>7, <2>1, <2>2
<1> HIDE DEF T
<1> HIDE DEF Bad
<1> QED BY <1>3, <1>7, <1>9, <1>10

-----------------------------------------------------------------------------
(* The array of a heap.                                                   *)

\* No element comes before its parent.
Heap(kind, d) == \A k \in DOMAIN d : k > 1 => ~Before(kind, d[k], d[k \div 2])

Values(d) == {d[i] : i \in DOMAIN d}
Upto(d, v) == {i \in DOMAIN d : d[i] <= v}
Count(d, v) == Cardinality(Upto(d, v))

\* The same elements, each as often.
Same(d, e) ==
  /\ DOMAIN d = DOMAIN e /\ Values(d) = Values(e)
  /\ \A v \in Int : Count(d, v) = Count(e, v)

\* Swapping two elements keeps the elements.
LEMMA SwapSame ==
  ASSUME NEW n \in Nat, NEW d \in Heaps(n), NEW i \in 1..n, NEW j \in 1..n
  PROVE  Swapped(d, i, j) \in Heaps(n) /\ Same(Swapped(d, i, j), d)
<1> DEFINE e == Swapped(d, i, j)
           p(k) == IF k = i THEN j ELSE IF k = j THEN i ELSE k
<1>1. e \in Heaps(n) /\ DOMAIN e = 1..n /\ DOMAIN d = 1..n
  BY DEF Swapped, Heaps
<1>2. ASSUME NEW k \in 1..n PROVE e[k] = d[p(k)] /\ p(k) \in 1..n /\ p(p(k)) = k
  BY DEF Swapped, Heaps
<1> HIDE DEF e
<1>3. Values(e) = Values(d)
  <2>1. ASSUME NEW x \in Values(e) PROVE x \in Values(d)
    BY <1>1, <1>2 DEF Values
  <2>2. ASSUME NEW x \in Values(d) PROVE x \in Values(e)
    <3>1. PICK k \in 1..n : x = d[k]
      BY <1>1 DEF Values
    <3>2. e[p(k)] = d[p(p(k))] /\ p(p(k)) = k /\ p(k) \in 1..n
      BY <1>2
    <3> QED BY <1>1, <3>1, <3>2 DEF Values
  <2> QED BY <2>1, <2>2
<1>4. ASSUME NEW v \in Int PROVE Count(e, v) = Count(d, v)
  <2> DEFINE S == Upto(e, v)
             T == Upto(d, v)
             b == [k \in S |-> p(k)]
  <2>1. S \subseteq 1..n /\ T \subseteq 1..n /\ IsFiniteSet(S)
    <3>1. S \subseteq 1..n /\ T \subseteq 1..n
      BY <1>1 DEF Upto
    <3> QED BY <3>1, FS_Interval, FS_Subset
  <2>2. ASSUME NEW k \in 1..n PROVE k \in S <=> p(k) \in T
    BY <1>1, <1>2 DEF Upto
  <2> HIDE DEF S
  <2> HIDE DEF T
  <2>3. b \in Bijection(S, T)
    <3>1. b \in [S -> T]
      BY <2>1, <2>2
    <3>2. \A k, l \in S : b[k] = b[l] => k = l
      BY <2>1
    <3>3. \A l \in T : \E k \in S : b[k] = l
      <4>1. ASSUME NEW l \in T PROVE p(l) \in S /\ p(p(l)) = l
        BY <1>2, <2>1, <2>2
      <4> QED BY <4>1
    <3> QED BY <3>1, <3>2, <3>3 DEF Bijection, Injection, Surjection, IsInjective
  <2>4. ExistsBijection(S, T)
    BY <2>3 DEF ExistsBijection
  <2>5. Cardinality(T) = Cardinality(S)
    BY <2>1, <2>4, FS_Bijection
  <2> QED BY <2>5 DEF Count, S, T
<1> QED BY <1>1, <1>3, <1>4 DEF Same, e

-----------------------------------------------------------------------------
(* Sifting up.                                                             *)

UpStop(kind, n) ==
  [i \in 1..n |-> [d \in Heaps(n) |-> ~(i > 1 /\ Before(kind, d[i], d[i \div 2]))]]
UpGo(n) == [i \in 1..n |-> [d \in Heaps(n) |-> i \div 2]]
UpTo(n) == [i \in 1..n |-> [d \in Heaps(n) |-> Swapped(d, i, i \div 2)]]

\* Every step up gets nearer to the root.
LEMMA UpNearer ==
  ASSUME NEW kind, NEW n \in Nat
  PROVE  Nearer(n, Heaps(n), UpStop(kind, n), UpGo(n), UpTo(n), [i \in 1..n |-> i])
<1>1. ASSUME NEW i \in 1..n, NEW d \in Heaps(n), ~UpStop(kind, n)[i][d]
      PROVE  /\ UpGo(n)[i][d] \in 1..n /\ UpTo(n)[i][d] \in Heaps(n)
             /\ UpGo(n)[i][d] < i
  <2>1. i > 1
    BY <1>1 DEF UpStop
  <2>2. UpGo(n)[i][d] = i \div 2 /\ UpTo(n)[i][d] = Swapped(d, i, i \div 2)
    BY DEF UpGo, UpTo
  <2>3. i \div 2 \in 1..n /\ i \div 2 < i
    BY <2>1
  <2> QED BY <2>2, <2>3, SwapSame
<1> QED BY <1>1 DEF Nearer

\* siftUp is such a walk.
LEMMA SiftUpWalks ==
  ASSUME NEW kind, NEW data, NEW n \in Nat, n = Len(data)
  PROVE  \E f : /\ Walk(f, n, Heaps(n), UpStop(kind, n), UpGo(n), UpTo(n))
                /\ SiftUp(kind, data) = f[n][data]
<1> DEFINE Body(f) ==
      [i \in 1..n |-> [d \in Heaps(n) |->
         IF i > 1 /\ Before(kind, d[i], d[i \div 2])
         THEN f[i \div 2][Swapped(d, i, i \div 2)] ELSE d]]
           Step(f) ==
      [i \in 1..n |-> [d \in Heaps(n) |->
         IF UpStop(kind, n)[i][d] THEN d ELSE f[UpGo(n)[i][d]][UpTo(n)[i][d]]]]
<1>1. ASSUME NEW f PROVE Body(f) = Step(f)
  <2>1. ASSUME NEW i \in 1..n, NEW d \in Heaps(n)
        PROVE  (IF i > 1 /\ Before(kind, d[i], d[i \div 2])
                THEN f[i \div 2][Swapped(d, i, i \div 2)] ELSE d)
               = (IF UpStop(kind, n)[i][d] THEN d ELSE f[UpGo(n)[i][d]][UpTo(n)[i][d]])
    BY DEF UpStop, UpGo, UpTo
  <2> QED BY <2>1
<1> DEFINE up == CHOOSE f : f = Body(f)
<1>2. \E f : f = Step(f)
  <2>1. PICK f : Walk(f, n, Heaps(n), UpStop(kind, n), UpGo(n), UpTo(n))
    BY UpNearer, WalkExists
  <2>2. f = Step(f)
    BY <2>1 DEF Walk
  <2> HIDE DEF Step
  <2> QED BY <2>2
<1>3. \E f : f = Body(f)
  <2> HIDE DEF Body
  <2> HIDE DEF Step
  <2> QED BY <1>1, <1>2
<1>4. up = Body(up)
  <2> HIDE DEF Body
  <2> QED BY <1>3
<1>5. SiftUp(kind, data) = up[n][data]
  BY DEF SiftUp
<1>6. up = Step(up)
  <2> HIDE DEF Body
  <2> HIDE DEF Step
  <2> HIDE DEF up
  <2> QED BY <1>1, <1>4
<1> HIDE DEF up
<1> QED BY <1>5, <1>6 DEF Walk

UpGood(kind, n) ==
  {x \in (1..n) \X Heaps(n) :
     /\ \A k \in 2..n : k # x[1] => ~Before(kind, x[2][k], x[2][k \div 2])
     /\ \A k \in 2..n : x[1] > 1 /\ k \div 2 = x[1] =>
          ~Before(kind, x[2][k], x[2][x[1] \div 2])}

\* One step up.
LEMMA UpStep ==
  ASSUME NEW kind, NEW n \in Nat, NEW i \in 1..n, NEW d \in Heaps(n), <<i, d>> \in UpGood(kind, n)
  PROVE  IF UpStop(kind, n)[i][d] THEN Heap(kind, d)
         ELSE <<UpGo(n)[i][d], UpTo(n)[i][d]>> \in UpGood(kind, n)
<1>1. /\ UpStop(kind, n)[i][d] = ~(i > 1 /\ Before(kind, d[i], d[i \div 2]))
      /\ UpGo(n)[i][d] = i \div 2 /\ UpTo(n)[i][d] = Swapped(d, i, i \div 2)
  BY DEF UpStop, UpGo, UpTo
<1>2. /\ \A k \in 2..n : k # i => ~Before(kind, d[k], d[k \div 2])
      /\ \A k \in 2..n : i > 1 /\ k \div 2 = i => ~Before(kind, d[k], d[i \div 2])
      /\ DOMAIN d = 1..n /\ \A k \in 1..n : d[k] \in Int
  BY DEF UpGood, Heaps
<1>3. CASE ~(i > 1 /\ Before(kind, d[i], d[i \div 2]))
  <2>1. ASSUME NEW k \in DOMAIN d, k > 1 PROVE ~Before(kind, d[k], d[k \div 2])
    <3>1. k \in 2..n
      BY <1>2, <2>1
    <3>2. CASE k # i
      BY <1>2, <3>1, <3>2
    <3>3. CASE k = i
      BY <1>3, <2>1, <3>3
    <3> QED BY <3>2, <3>3
  <2> QED BY <1>1, <1>3, <2>1 DEF Heap
<1>4. CASE i > 1 /\ Before(kind, d[i], d[i \div 2])
  <2> DEFINE p == i \div 2
             e == Swapped(d, i, p)
  <2>1. p \in 1..n /\ p < i /\ p \div 2 < p
    BY <1>4
  <2>2. e \in Heaps(n) /\ e[i] = d[p] /\ e[p] = d[i]
        /\ \A k \in 1..n : k # i /\ k # p => e[k] = d[k]
    BY <2>1 DEF Swapped, Heaps
  <2>3. Before(kind, d[i], d[p])
    BY <1>4
  <2>6. \A k \in 2..n : k \div 2 \in 1..n /\ k \div 2 < k
    OBVIOUS
  <2> HIDE DEF e
  <2>4. ASSUME NEW k \in 2..n, k # p PROVE ~Before(kind, e[k], e[k \div 2])
    <3>1. k \div 2 \in 1..n /\ k \div 2 < k
      OBVIOUS
    <3> DEFINE q == k \div 2
    <3>2. CASE k = i
      BY <1>2, <2>1, <2>2, <2>3, <3>2 DEF Before
    <3>3. CASE k # i /\ q = i
      <4>1. ~Before(kind, d[k], d[p]) /\ e[k] = d[k] /\ e[q] = d[p]
        BY <1>2, <1>4, <2>2, <2>4, <3>3
      <4> QED BY <4>1
    <3>4. CASE k # i /\ q = p
      <4>1. ~Before(kind, d[k], d[p]) /\ e[k] = d[k] /\ e[q] = d[i]
        BY <1>2, <2>2, <2>4, <3>4
      <4> QED BY <1>2, <2>1, <2>3, <4>1 DEF Before
    <3>5. CASE k # i /\ q # i /\ q # p
      <4>1. ~Before(kind, d[k], d[q])
        BY <1>2, <3>5
      <4>2. e[k] = d[k] /\ e[q] = d[q]
        <5>1. q \in 1..n /\ k \in 1..n
          BY <3>1
        <5> HIDE DEF q
        <5> QED BY <2>2, <2>4, <3>5, <5>1
      <4> QED BY <4>1, <4>2
    <3> QED BY <3>2, <3>3, <3>4, <3>5
  <2>5. ASSUME NEW k \in 2..n, p > 1, k \div 2 = p PROVE ~Before(kind, e[k], e[p \div 2])
    <3>1. p \div 2 \in 1..n /\ p \div 2 # i /\ p \div 2 # p /\ p \in 2..n /\ k # p
      BY <2>1, <2>5
    <3>2. ~Before(kind, d[p], d[p \div 2]) /\ e[p \div 2] = d[p \div 2]
      BY <1>2, <2>1, <2>2, <3>1
    <3>3. CASE k = i
      BY <2>2, <3>2, <3>3
    <3>4. CASE k # i
      <4>1. ~Before(kind, d[k], d[p]) /\ e[k] = d[k]
        BY <1>2, <2>2, <2>5, <3>1, <3>4
      <4>2. d[k] \in Int /\ d[p] \in Int /\ d[p \div 2] \in Int
        BY <1>2, <2>1, <3>1
      <4> QED BY <3>2, <4>1, <4>2 DEF Before
    <3> QED BY <3>3, <3>4
  <2> HIDE DEF p
  <2> QED BY <1>1, <1>4, <2>1, <2>2, <2>4, <2>5 DEF UpGood, e, p
<1> QED BY <1>3, <1>4

\* An array that is a heap but for its last element becomes one of the same elements.
LEMMA SiftUpOk ==
  ASSUME NEW kind, NEW n \in Nat \ {0}, NEW data \in Heaps(n), Len(data) = n,
         <<n, data>> \in UpGood(kind, n)
  PROVE  /\ SiftUp(kind, data) \in Heaps(n)
         /\ Heap(kind, SiftUp(kind, data))
         /\ Same(SiftUp(kind, data), data)
<1> DEFINE Good == {x \in UpGood(kind, n) : Same(x[2], data)}
           Final == {d \in Heaps(n) : Heap(kind, d) /\ Same(d, data)}
<1>1. PICK f : /\ Walk(f, n, Heaps(n), UpStop(kind, n), UpGo(n), UpTo(n))
               /\ SiftUp(kind, data) = f[n][data]
  BY SiftUpWalks
<1>2. ASSUME NEW i \in 1..n, NEW d \in Heaps(n), <<i, d>> \in Good
      PROVE  IF UpStop(kind, n)[i][d] THEN d \in Final
             ELSE <<UpGo(n)[i][d], UpTo(n)[i][d]>> \in Good
  <2>1. <<i, d>> \in UpGood(kind, n) /\ Same(d, data)
    BY <1>2
  <2>2. CASE UpStop(kind, n)[i][d]
    BY <2>1, <2>2, UpStep
  <2>3. CASE ~UpStop(kind, n)[i][d]
    <3>1. <<UpGo(n)[i][d], UpTo(n)[i][d]>> \in UpGood(kind, n)
      BY <2>1, <2>3, UpStep
    <3>2. UpTo(n)[i][d] = Swapped(d, i, i \div 2) /\ i > 1
      BY <2>3 DEF UpTo, UpStop
    <3>3. Same(UpTo(n)[i][d], d)
      BY <3>2, SwapSame
    <3>4. Same(UpTo(n)[i][d], data)
      BY <2>1, <3>3 DEF Same
    <3> QED BY <2>3, <3>1, <3>4
  <2> QED BY <2>2, <2>3
<1>3. SoundMove(n, Heaps(n), UpStop(kind, n), UpGo(n), UpTo(n), Good, Final)
  BY <1>2 DEF SoundMove
<1>4. <<n, data>> \in Good /\ n \in 1..n
  BY DEF Same
<1> HIDE DEF Good
<1> HIDE DEF Final
<1>5. f[n][data] \in Final
  <2>1. Nearer(n, Heaps(n), UpStop(kind, n), UpGo(n), UpTo(n), [i \in 1..n |-> i])
    BY UpNearer
  <2>2. \A i \in 1..n, d \in Heaps(n) : <<i, d>> \in Good => f[i][d] \in Final
    BY <1>1, <1>3, <2>1, WalkEnds
  <2> QED BY <1>4, <2>2
<1> QED BY <1>1, <1>5 DEF Final

-----------------------------------------------------------------------------
(* Sifting down.                                                           *)

Left(kind, n, i, d) == IF 2 * i <= n /\ Before(kind, d[2 * i], d[i]) THEN 2 * i ELSE i
Best(kind, n, i, d) ==
  IF 2 * i + 1 <= n /\ Before(kind, d[2 * i + 1], d[Left(kind, n, i, d)]) THEN 2 * i + 1
  ELSE Left(kind, n, i, d)

DownStop(kind, n) == [i \in 1..n |-> [d \in Heaps(n) |-> Best(kind, n, i, d) = i]]
DownGo(kind, n) == [i \in 1..n |-> [d \in Heaps(n) |-> Best(kind, n, i, d)]]
DownTo(kind, n) == [i \in 1..n |-> [d \in Heaps(n) |-> Swapped(d, i, Best(kind, n, i, d))]]

\* The best of an element and its children.
LEMMA BestOk ==
  ASSUME NEW kind, NEW n \in Nat, NEW i \in 1..n, NEW d \in Heaps(n),
         NEW b, b = Best(kind, n, i, d)
  PROVE  /\ b \in {i, 2 * i, 2 * i + 1} /\ b \in 1..n
         /\ b # i => Before(kind, d[b], d[i])
         /\ \A k \in {2 * i, 2 * i + 1} : k <= n => ~Before(kind, d[k], d[b])
<1> DEFINE l == Left(kind, n, i, d)
<1>1. /\ \A k \in 1..n : d[k] \in Int
      /\ 2 * i > i /\ 2 * i + 1 > i /\ 2 * i >= 1
  BY DEF Heaps
<1>2. /\ l \in {i, 2 * i} /\ l \in 1..n
      /\ l # i => Before(kind, d[l], d[i])
      /\ 2 * i <= n => ~Before(kind, d[2 * i], d[l])
  <2>1. CASE 2 * i <= n /\ Before(kind, d[2 * i], d[i])
    <3>1. l = 2 * i /\ 2 * i \in 1..n
      BY <2>1 DEF Left
    <3>2. d[2 * i] \in Int
      BY <1>1, <3>1
    <3>3. ~Before(kind, d[2 * i], d[2 * i])
      BY <3>2 DEF Before
    <3> QED BY <2>1, <3>1, <3>3
  <2>2. CASE ~(2 * i <= n /\ Before(kind, d[2 * i], d[i]))
    BY <2>2 DEF Left
  <2> QED BY <2>1, <2>2
<1>3. CASE 2 * i + 1 <= n /\ Before(kind, d[2 * i + 1], d[l])
  <2>1. b = 2 * i + 1 /\ b \in 1..n
    BY <1>3 DEF Best
  <2> HIDE DEF l
  <2>2. d[b] \in Int /\ d[l] \in Int /\ d[i] \in Int /\ (2 * i \in 1..n => d[2 * i] \in Int)
    BY <1>1, <1>2, <2>1
  <2>3. Before(kind, d[b], d[l])
    BY <1>3, <2>1
  <2>4. Before(kind, d[b], d[i])
    BY <1>2, <2>2, <2>3 DEF Before
  <2>5. ~Before(kind, d[b], d[b])
    BY <2>2 DEF Before
  <2>6. 2 * i <= n => ~Before(kind, d[2 * i], d[b])
    BY <1>2, <2>2, <2>3 DEF Before
  <2> QED BY <2>1, <2>4, <2>5, <2>6
<1>4. CASE ~(2 * i + 1 <= n /\ Before(kind, d[2 * i + 1], d[l]))
  <2>1. b = l
    BY <1>4 DEF Best
  <2> QED BY <1>2, <1>4, <2>1
<1> QED BY <1>3, <1>4

\* Every step down gets nearer to the end.
LEMMA DownNearer ==
  ASSUME NEW kind, NEW n \in Nat
  PROVE  Nearer(n, Heaps(n), DownStop(kind, n), DownGo(kind, n), DownTo(kind, n),
                [i \in 1..n |-> n - i])
<1>1. ASSUME NEW i \in 1..n, NEW d \in Heaps(n), ~DownStop(kind, n)[i][d]
      PROVE  /\ DownGo(kind, n)[i][d] \in 1..n /\ DownTo(kind, n)[i][d] \in Heaps(n)
             /\ n - DownGo(kind, n)[i][d] < n - i
  <2> DEFINE b == Best(kind, n, i, d)
  <2>1. /\ DownGo(kind, n)[i][d] = b /\ DownTo(kind, n)[i][d] = Swapped(d, i, b) /\ b # i
    BY <1>1 DEF DownGo, DownTo, DownStop
  <2>2. b \in {i, 2 * i, 2 * i + 1} /\ b \in 1..n
    BY BestOk
  <2> HIDE DEF b
  <2>3. b > i
    BY <2>1, <2>2
  <2> QED BY <2>1, <2>2, <2>3, SwapSame
<1> QED BY <1>1 DEF Nearer

\* siftDown is such a walk.
LEMMA SiftDownWalks ==
  ASSUME NEW kind, NEW data, NEW n \in Nat, n = Len(data)
  PROVE  \E f : /\ Walk(f, n, Heaps(n), DownStop(kind, n), DownGo(kind, n), DownTo(kind, n))
                /\ SiftDown(kind, data) = f[1][data]
<1> DEFINE Body(f) ==
      [i \in 1..n |-> [d \in Heaps(n) |->
         LET left == IF 2 * i <= n /\ Before(kind, d[2 * i], d[i]) THEN 2 * i ELSE i
             best == IF 2 * i + 1 <= n /\ Before(kind, d[2 * i + 1], d[left])
                     THEN 2 * i + 1 ELSE left
         IN IF best = i THEN d ELSE f[best][Swapped(d, i, best)]]]
           Step(f) ==
      [i \in 1..n |-> [d \in Heaps(n) |->
         IF DownStop(kind, n)[i][d] THEN d ELSE f[DownGo(kind, n)[i][d]][DownTo(kind, n)[i][d]]]]
<1>1. ASSUME NEW f PROVE Body(f) = Step(f)
  <2>1. ASSUME NEW i \in 1..n, NEW d \in Heaps(n)
        PROVE  (IF Best(kind, n, i, d) = i THEN d
                ELSE f[Best(kind, n, i, d)][Swapped(d, i, Best(kind, n, i, d))])
               = (IF DownStop(kind, n)[i][d] THEN d
                  ELSE f[DownGo(kind, n)[i][d]][DownTo(kind, n)[i][d]])
    BY DEF DownStop, DownGo, DownTo
  <2>2. Body(f) = [i \in 1..n |-> [d \in Heaps(n) |->
                     IF Best(kind, n, i, d) = i THEN d
                     ELSE f[Best(kind, n, i, d)][Swapped(d, i, Best(kind, n, i, d))]]]
    BY DEF Best, Left
  <2> HIDE DEF Body
  <2> QED BY <2>1, <2>2
<1> DEFINE down == CHOOSE f : f = Body(f)
<1>2. \E f : f = Step(f)
  <2>1. PICK f : Walk(f, n, Heaps(n), DownStop(kind, n), DownGo(kind, n), DownTo(kind, n))
    BY DownNearer, WalkExists
  <2>2. f = Step(f)
    BY <2>1 DEF Walk
  <2> HIDE DEF Step
  <2> QED BY <2>2
<1>3. \E f : f = Body(f)
  <2> HIDE DEF Body
  <2> HIDE DEF Step
  <2> QED BY <1>1, <1>2
<1>4. down = Body(down)
  <2> HIDE DEF Body
  <2> QED BY <1>3
<1>5. SiftDown(kind, data) = down[1][data]
  BY DEF SiftDown
<1>6. down = Step(down)
  <2> HIDE DEF Body
  <2> HIDE DEF Step
  <2> HIDE DEF down
  <2> QED BY <1>1, <1>4
<1> HIDE DEF down
<1> QED BY <1>5, <1>6 DEF Walk

DownGood(kind, n) ==
  {x \in (1..n) \X Heaps(n) :
     /\ \A k \in 2..n : k \div 2 # x[1] => ~Before(kind, x[2][k], x[2][k \div 2])
     /\ \A k \in 2..n : x[1] > 1 /\ k \div 2 = x[1] =>
          ~Before(kind, x[2][k], x[2][x[1] \div 2])}

\* One step down.
LEMMA DownStep ==
  ASSUME NEW kind, NEW n \in Nat, NEW i \in 1..n, NEW d \in Heaps(n), <<i, d>> \in DownGood(kind, n)
  PROVE  IF DownStop(kind, n)[i][d] THEN Heap(kind, d)
         ELSE <<DownGo(kind, n)[i][d], DownTo(kind, n)[i][d]>> \in DownGood(kind, n)
<1> DEFINE b == Best(kind, n, i, d)
<1>1. /\ DownStop(kind, n)[i][d] = (b = i)
      /\ DownGo(kind, n)[i][d] = b /\ DownTo(kind, n)[i][d] = Swapped(d, i, b)
  BY DEF DownStop, DownGo, DownTo
<1>2. /\ \A k \in 2..n : k \div 2 # i => ~Before(kind, d[k], d[k \div 2])
      /\ \A k \in 2..n : i > 1 /\ k \div 2 = i => ~Before(kind, d[k], d[i \div 2])
      /\ DOMAIN d = 1..n /\ \A k \in 1..n : d[k] \in Int
  BY DEF DownGood, Heaps
<1>3. /\ b \in {i, 2 * i, 2 * i + 1} /\ b \in 1..n
      /\ b # i => Before(kind, d[b], d[i])
      /\ \A k \in {2 * i, 2 * i + 1} : k <= n => ~Before(kind, d[k], d[b])
  BY BestOk
<1> HIDE DEF b
<1>4. \A k \in 2..n : k \div 2 = i => ~Before(kind, d[k], d[b])
  <2>1. ASSUME NEW k \in 2..n, k \div 2 = i PROVE k \in {2 * i, 2 * i + 1} /\ k <= n
    BY <2>1
  <2> QED BY <1>3, <2>1
<1>5. CASE b = i
  <2>1. ASSUME NEW k \in DOMAIN d, k > 1 PROVE ~Before(kind, d[k], d[k \div 2])
    <3>1. k \in 2..n
      BY <1>2, <2>1
    <3>2. CASE k \div 2 = i
      BY <1>4, <1>5, <3>1, <3>2
    <3> QED BY <1>2, <3>1, <3>2
  <2> QED BY <1>1, <1>5, <2>1 DEF Heap
<1>6. CASE b # i
  <2> DEFINE e == Swapped(d, i, b)
  <2>1. b \div 2 = i /\ b > i /\ b \in 2..n
    BY <1>3, <1>6
  <2>2. e \in Heaps(n) /\ e[i] = d[b] /\ e[b] = d[i]
        /\ \A k \in 1..n : k # i /\ k # b => e[k] = d[k]
    BY <1>3, <2>1 DEF Swapped, Heaps
  <2>3. Before(kind, d[b], d[i])
    BY <1>3, <1>6
  <2> HIDE DEF e
  <2>4. ASSUME NEW k \in 2..n, k \div 2 # b PROVE ~Before(kind, e[k], e[k \div 2])
    <3>1. k \div 2 \in 1..n /\ k \div 2 < k
      OBVIOUS
    <3> DEFINE q == k \div 2
    <3>2. CASE k = i
      <4>1. e[q] = d[q] /\ q # i /\ q # b
        <5>1. q # i /\ q # b /\ q \in 1..n
          BY <2>1, <2>4, <3>1, <3>2
        <5> HIDE DEF q
        <5> QED BY <2>2, <5>1
      <4>2. i > 1 /\ b \div 2 = i /\ q = i \div 2
        BY <2>1, <3>2
      <4>3. ~Before(kind, d[b], d[i \div 2])
        BY <1>2, <2>1, <4>2
      <4> QED BY <2>2, <3>2, <4>1, <4>2, <4>3
    <3>3. CASE k = b
      <4>1. e[k] = d[i] /\ e[q] = d[b]
        BY <2>1, <2>2, <3>3
      <4>2. d[i] \in Int /\ d[b] \in Int
        BY <1>2, <1>3
      <4>3. ~Before(kind, d[i], d[b])
        BY <2>3, <4>2 DEF Before
      <4> QED BY <4>1, <4>3
    <3>4. CASE k # i /\ k # b /\ q = i
      <4>1. ~Before(kind, d[k], d[b]) /\ e[k] = d[k] /\ e[q] = d[b]
        BY <1>4, <2>2, <2>4, <3>4
      <4> QED BY <4>1
    <3>5. CASE k # i /\ k # b /\ q # i
      <4>1. ~Before(kind, d[k], d[q])
        BY <1>2, <3>5
      <4>2. e[k] = d[k] /\ e[q] = d[q]
        <5>1. q \in 1..n /\ k \in 1..n /\ q # b
          BY <2>4, <3>1
        <5> HIDE DEF q
        <5> QED BY <2>2, <2>4, <3>5, <5>1
      <4> QED BY <4>1, <4>2
    <3> QED BY <3>2, <3>3, <3>4, <3>5
  <2>5. ASSUME NEW k \in 2..n, k \div 2 = b PROVE ~Before(kind, e[k], e[b \div 2])
    <3>1. k # b /\ k # i
      BY <2>1, <2>5
    <3>2. ~Before(kind, d[k], d[b])
      BY <1>2, <1>6, <2>5
    <3>3. e[k] = d[k] /\ e[b \div 2] = d[b]
      BY <2>1, <2>2, <3>1
    <3> QED BY <3>2, <3>3
  <2> QED BY <1>1, <1>3, <1>6, <2>2, <2>4, <2>5 DEF DownGood, e
<1> QED BY <1>5, <1>6

\* An array that is a heap but for its first element becomes one of the same elements.
LEMMA SiftDownOk ==
  ASSUME NEW kind, NEW n \in Nat \ {0}, NEW data \in Heaps(n), Len(data) = n,
         <<1, data>> \in DownGood(kind, n)
  PROVE  /\ SiftDown(kind, data) \in Heaps(n)
         /\ Heap(kind, SiftDown(kind, data))
         /\ Same(SiftDown(kind, data), data)
<1> DEFINE Good == {x \in DownGood(kind, n) : Same(x[2], data)}
           Final == {d \in Heaps(n) : Heap(kind, d) /\ Same(d, data)}
<1>1. PICK f : /\ Walk(f, n, Heaps(n), DownStop(kind, n), DownGo(kind, n), DownTo(kind, n))
               /\ SiftDown(kind, data) = f[1][data]
  BY SiftDownWalks
<1>2. ASSUME NEW i \in 1..n, NEW d \in Heaps(n), <<i, d>> \in Good
      PROVE  IF DownStop(kind, n)[i][d] THEN d \in Final
             ELSE <<DownGo(kind, n)[i][d], DownTo(kind, n)[i][d]>> \in Good
  <2>1. <<i, d>> \in DownGood(kind, n) /\ Same(d, data)
    BY <1>2
  <2>2. CASE DownStop(kind, n)[i][d]
    BY <2>1, <2>2, DownStep
  <2>3. CASE ~DownStop(kind, n)[i][d]
    <3>1. <<DownGo(kind, n)[i][d], DownTo(kind, n)[i][d]>> \in DownGood(kind, n)
      BY <2>1, <2>3, DownStep
    <3>2. DownTo(kind, n)[i][d] = Swapped(d, i, Best(kind, n, i, d)) /\ Best(kind, n, i, d) \in 1..n
      BY BestOk DEF DownTo
    <3>3. Same(DownTo(kind, n)[i][d], d)
      BY <3>2, SwapSame
    <3>4. Same(DownTo(kind, n)[i][d], data)
      BY <2>1, <3>3 DEF Same
    <3> QED BY <2>3, <3>1, <3>4
  <2> QED BY <2>2, <2>3
<1>3. SoundMove(n, Heaps(n), DownStop(kind, n), DownGo(kind, n), DownTo(kind, n), Good, Final)
  BY <1>2 DEF SoundMove
<1>4. <<1, data>> \in Good /\ 1 \in 1..n
  BY DEF Same
<1> HIDE DEF Good
<1> HIDE DEF Final
<1>5. f[1][data] \in Final
  <2>1. Nearer(n, Heaps(n), DownStop(kind, n), DownGo(kind, n), DownTo(kind, n),
               [i \in 1..n |-> n - i])
    BY DownNearer
  <2>2. \A i \in 1..n, d \in Heaps(n) : <<i, d>> \in Good => f[i][d] \in Final
    BY <1>1, <1>3, <2>1, WalkEnds
  <2> QED BY <1>4, <2>2
<1> QED BY <1>1, <1>5 DEF Final

-----------------------------------------------------------------------------
(* Pushing and popping.                                                    *)

\* The root of a heap comes first.
LEMMA RootFirst ==
  ASSUME NEW kind, NEW n \in Nat, NEW d \in Heaps(n), Heap(kind, d)
  PROVE  \A k \in 1..n : ~Before(kind, d[k], d[1])
<1> DEFINE T == {k \in 1..n : Before(kind, d[k], d[1])}
<1> SUFFICES ASSUME T # {} PROVE FALSE
  OBVIOUS
<1>1. PICK k \in T : \A l \in T : k <= l
  <2>1. T \in SUBSET Nat
    OBVIOUS
  <2> HIDE DEF T
  <2> QED BY <2>1, LeastNat
<1>2. k \in 1..n /\ Before(kind, d[k], d[1]) /\ \A l \in 1..n : d[l] \in Int
  BY DEF Heaps
<1>3. k # 1
  BY <1>2 DEF Before
<1>4. k \div 2 \in 1..n /\ k \div 2 < k
  BY <1>2, <1>3
<1>5. ~Before(kind, d[k], d[k \div 2])
  BY <1>2, <1>3 DEF Heap, Heaps
<1>6. Before(kind, d[k \div 2], d[1])
  <2>1. d[k] \in Int /\ d[k \div 2] \in Int /\ d[1] \in Int
    BY <1>2, <1>4
  <2> QED BY <1>2, <1>5, <2>1 DEF Before
<1>7. k \div 2 \in T
  BY <1>4, <1>6
<1> QED BY <1>1, <1>2, <1>4, <1>7

\* A sequence of numbers is an array of them.
LEMMA SeqHeaps ==
  ASSUME NEW q
  PROVE  /\ q \in Seq(Int) => Len(q) \in Nat /\ q \in Heaps(Len(q)) /\ DOMAIN q = 1..Len(q)
         /\ \A n \in Nat : q \in Heaps(n) => q \in Seq(Int) /\ Len(q) = n
BY DEF Heaps

One(b) == IF b THEN 1 ELSE 0

\* There are finitely many elements up to v, no more than there are elements.
LEMMA UptoFinite ==
  ASSUME NEW n \in Nat, NEW d \in Heaps(n), NEW v
  PROVE  IsFiniteSet(Upto(d, v)) /\ Upto(d, v) \subseteq 1..n /\ Count(d, v) \in 0..n
<1>1. Upto(d, v) \subseteq 1..n
  BY DEF Upto, Heaps
<1>2. IsFiniteSet(1..n) /\ Cardinality(1..n) = n
  BY FS_Interval
<1>3. IsFiniteSet(Upto(d, v)) /\ Cardinality(Upto(d, v)) <= n
  BY <1>1, <1>2, FS_Subset
<1> QED BY <1>1, <1>3, FS_CardinalityType DEF Count

\* One element more at the end counts once.
LEMMA CountLast ==
  ASSUME NEW n \in Nat, NEW d \in Heaps(n), NEW e \in Heaps(n + 1),
         \A k \in 1..n : e[k] = d[k]
  PROVE  /\ Values(e) = Values(d) \cup {e[n + 1]}
         /\ \A v \in Int : Count(e, v) = Count(d, v) + One(e[n + 1] <= v)
<1>1. DOMAIN d = 1..n /\ DOMAIN e = 1..(n + 1) /\ e[n + 1] \in Int
      /\ 1..(n + 1) = (1..n) \cup {n + 1}
  BY DEF Heaps
<1>2. Values(e) = Values(d) \cup {e[n + 1]}
  BY <1>1 DEF Values
<1>3. ASSUME NEW v \in Int PROVE Count(e, v) = Count(d, v) + One(e[n + 1] <= v)
  <2>1. IsFiniteSet(Upto(d, v)) /\ n + 1 \notin Upto(d, v) /\ Count(d, v) \in Nat
    BY UptoFinite
  <2>2. CASE e[n + 1] <= v
    <3>1. Upto(e, v) = Upto(d, v) \cup {n + 1}
      BY <1>1, <2>2 DEF Upto
    <3> QED BY <2>1, <2>2, <3>1, FS_AddElement DEF Count, One
  <2>3. CASE ~(e[n + 1] <= v)
    <3>1. Upto(e, v) = Upto(d, v)
      BY <1>1, <2>3 DEF Upto
    <3> QED BY <2>1, <2>3, <3>1 DEF Count, One
  <2> QED BY <2>2, <2>3
<1> QED BY <1>2, <1>3

\* The heap r is the heap d and one element v more.
Extends(kind, r, d, v) ==
  /\ r \in Seq(Int) /\ Len(r) = Len(d) + 1 /\ Heap(kind, r)
  /\ Values(r) = Values(d) \cup {v}
  /\ \A w \in Int : Count(r, w) = Count(d, w) + One(v <= w)

\* push keeps the heap and adds its element.
LEMMA PushOk ==
  ASSUME NEW kind, NEW d \in Seq(Int), Heap(kind, d), NEW v \in Int,
         NEW r, r = Push(kind, d, v)
  PROVE  Extends(kind, r, d, v)
<1> DEFINE n == Len(d)
           e == Append(d, v)
<1>1. n \in Nat /\ d \in Heaps(n) /\ DOMAIN d = 1..n
  BY SeqHeaps
<1>2. e \in Seq(Int) /\ Len(e) = n + 1 /\ e[n + 1] = v /\ \A k \in 1..n : e[k] = d[k]
  OBVIOUS
<1> HIDE DEF e
<1> HIDE DEF n
<1>3. e \in Heaps(n + 1)
  BY <1>1, <1>2, SeqHeaps
<1>4. <<n + 1, e>> \in UpGood(kind, n + 1)
  <2>1. ASSUME NEW k \in 2..(n + 1), k # n + 1 PROVE ~Before(kind, e[k], e[k \div 2])
    <3>1. k \in 1..n /\ k \div 2 \in 1..n /\ k > 1
      BY <1>1, <2>1
    <3>2. ~Before(kind, d[k], d[k \div 2])
      BY <1>1, <3>1 DEF Heap
    <3> QED BY <1>2, <3>1, <3>2
  <2>2. ASSUME NEW k \in 2..(n + 1), k \div 2 = n + 1 PROVE FALSE
    BY <1>1, <2>2
  <2> QED BY <1>1, <1>3, <2>1, <2>2 DEF UpGood
<1>5. r = SiftUp(kind, e)
  BY DEF Push, e
<1>6. r \in Heaps(n + 1) /\ Heap(kind, r) /\ Same(r, e)
  BY <1>1, <1>2, <1>3, <1>4, <1>5, SiftUpOk
<1>7. /\ Values(e) = Values(d) \cup {v}
      /\ \A w \in Int : Count(e, w) = Count(d, w) + One(v <= w)
  BY <1>1, <1>2, <1>3, CountLast
<1>8. r \in Seq(Int) /\ Len(r) = n + 1
  BY <1>1, <1>6, SeqHeaps
<1> QED BY <1>6, <1>7, <1>8 DEF Same, n, Extends

\* The heap r is the heap d without its root.
Shortens(kind, r, d) ==
  /\ r \in Seq(Int) /\ Len(r) = Len(d) - 1 /\ Heap(kind, r)
  /\ Values(r) \subseteq Values(d)
  /\ \A w \in Int : Count(d, w) = Count(r, w) + One(d[1] <= w)

\* pop keeps the heap and takes its root away.
LEMMA PoppedOk ==
  ASSUME NEW kind, NEW d \in Seq(Int), d # <<>>, Heap(kind, d), NEW r, r = Popped(kind, d)
  PROVE  Shortens(kind, r, d)
<1> DEFINE n == Len(d)
           m == n - 1
           e == [SubSeq(d, 1, m) EXCEPT ![1] = d[n]]
           s == Swapped(d, 1, n)
<1>1. n \in Nat /\ n >= 1 /\ d \in Heaps(n) /\ DOMAIN d = 1..n /\ m \in Nat /\ m + 1 = n
  BY SeqHeaps
<1> HIDE DEF n
<1>2. s \in Heaps(n) /\ Same(s, d)
  BY <1>1, SwapSame
<1>3. s[n] = d[1] /\ \A k \in 1..n : k # 1 /\ k # n => s[k] = d[k]
  BY <1>1 DEF Swapped, Heaps
<1>4. n > 1 => s[1] = d[n]
  BY <1>1 DEF Swapped, Heaps
<1> HIDE DEF s
<1>5. CASE n = 1
  <2>1. r = <<>>
    BY <1>5 DEF Popped, n
  <2>2. r \in Heaps(0) /\ r \in Seq(Int) /\ Len(r) = 0 /\ Heap(kind, r) /\ Values(r) = {}
    BY <2>1 DEF Heaps, Heap, Values
  <2>3. \A w \in Int : Count(s, w) = Count(r, w) + One(s[n] <= w)
    <3>1. s \in Heaps(0 + 1)
      BY <1>2, <1>5
    <3> QED BY <1>5, <2>2, <3>1, CountLast
  <2> QED BY <1>2, <1>3, <1>5, <2>2, <2>3 DEF Same, n, Shortens
<1>6. CASE n > 1
  <2>1. e \in Heaps(m) /\ e[1] = d[n] /\ \A k \in 1..m : k # 1 => e[k] = d[k]
    <3>1. SubSeq(d, 1, m) \in Heaps(m) /\ \A k \in 1..m : SubSeq(d, 1, m)[k] = d[k]
      <4>1. m \in Nat /\ m <= Len(d)
        BY <1>1 DEF n
      <4> HIDE DEF m
      <4>2. SubSeq(d, 1, m) \in Seq(Int) /\ Len(SubSeq(d, 1, m)) = m
            /\ \A k \in 1..m : SubSeq(d, 1, m)[k] = d[k]
        BY <4>1
      <4> QED BY <4>1, <4>2, SeqHeaps
    <3>2. d[n] \in Int /\ 1 \in 1..m
      BY <1>1, <1>6 DEF Heaps
    <3> HIDE DEF m
    <3> QED BY <3>1, <3>2 DEF Heaps
  <2>2. r = SiftDown(kind, e)
    BY <1>6 DEF Popped, n
  <2> HIDE DEF e
  <2>3. <<1, e>> \in DownGood(kind, m)
    <3>1. ASSUME NEW k \in 2..m, k \div 2 # 1 PROVE ~Before(kind, e[k], e[k \div 2])
      <4>1. k \in 1..n /\ k > 1 /\ k \div 2 \in 1..m /\ k \in 1..m
        BY <1>1, <3>1
      <4>2. ~Before(kind, d[k], d[k \div 2])
        BY <1>1, <4>1 DEF Heap
      <4> QED BY <2>1, <3>1, <4>1, <4>2
    <3> QED BY <1>1, <1>6, <2>1, <3>1 DEF DownGood
  <2>4. m \in Nat \ {0} /\ Len(e) = m
    BY <1>1, <1>6, <2>1, SeqHeaps
  <2>5. r \in Heaps(m) /\ Heap(kind, r) /\ Same(r, e)
    BY <2>1, <2>2, <2>3, <2>4, SiftDownOk
  <2>6. r \in Seq(Int) /\ Len(r) = m
    BY <2>4, <2>5, SeqHeaps
  <2>7. /\ Values(s) = Values(e) \cup {s[n]}
        /\ \A w \in Int : Count(s, w) = Count(e, w) + One(s[n] <= w)
    <3>1. \A k \in 1..m : s[k] = e[k]
      BY <1>1, <1>3, <1>4, <1>6, <2>1
    <3>2. s \in Heaps(m + 1) /\ s[m + 1] = s[n]
      BY <1>1, <1>2
    <3> HIDE DEF m
    <3> QED BY <2>1, <2>4, <3>1, <3>2, CountLast
  <2> QED BY <1>1, <1>2, <1>3, <2>5, <2>6, <2>7 DEF Same, n, Shortens
<1> QED BY <1>1, <1>5, <1>6

-----------------------------------------------------------------------------
(* The two halves.                                                         *)

Halves == [lower : Seq(Int), upper : Seq(Int)]

\* The lower half in a max-heap, the upper in a min-heap.
Ordered(l, u) ==
  /\ Heap("max", l) /\ Heap("min", u)
  /\ \A x \in Values(l), y \in Values(u) : x <= y

\* The lower half is at most one longer.
HalvesOk(m) ==
  /\ m \in Halves /\ Ordered(m.lower, m.upper)
  /\ Len(m.lower) = Len(m.upper) \/ Len(m.lower) = Len(m.upper) + 1

Total(m, v) == Count(m.lower, v) + Count(m.upper, v)

\* The heads of the halves bound them.
LEMMA HeadsOk ==
  ASSUME NEW d \in Seq(Int), d # <<>>
  PROVE  /\ d[1] \in Values(d) /\ d[1] \in Int /\ Len(d) >= 1
         /\ Heap("max", d) => \A x \in Values(d) : x <= d[1]
         /\ Heap("min", d) => \A x \in Values(d) : d[1] <= x
<1>1. Len(d) \in Nat /\ d \in Heaps(Len(d)) /\ DOMAIN d = 1..Len(d) /\ Len(d) >= 1
  BY SeqHeaps
<1>2. \A k \in 1..Len(d) : d[k] \in Int
  BY <1>1 DEF Heaps
<1>3. Heap("max", d) => \A k \in 1..Len(d) : ~(d[k] > d[1])
  BY <1>1, RootFirst DEF Before
<1>4. Heap("min", d) => \A k \in 1..Len(d) : ~(d[k] < d[1])
  BY <1>1, RootFirst DEF Before
<1> QED BY <1>1, <1>2, <1>3, <1>4 DEF Values

\* What the halves look like before they are balanced again: one of them may be one longer.
Nearly(m) ==
  /\ m \in Halves /\ Ordered(m.lower, m.upper)
  /\ Len(m.lower) \in (Len(m.upper) - 1)..(Len(m.upper) + 2)

\* A count is a number, and so is what one element adds to it.
LEMMA CountInt ==
  ASSUME NEW d \in Seq(Int), NEW v \in Int
  PROVE  Count(d, v) \in Int
<1>1. Len(d) \in Nat /\ d \in Heaps(Len(d))
  BY SeqHeaps
<1>2. Count(d, v) \in 0..Len(d)
  BY <1>1, UptoFinite
<1> QED BY <1>1, <1>2

\* One element adds nothing or one.
LEMMA OneInt == ASSUME NEW b PROVE One(b) \in Int
BY DEF One

\* The halves l and u hold what a and b hold.
Moved(l, u, a, b) ==
  /\ l \in Seq(Int) /\ u \in Seq(Int) /\ Ordered(l, u)
  /\ \A w \in Int : Count(l, w) + Count(u, w) = Count(a, w) + Count(b, w)

\* The elements of a heap are numbers.
LEMMA ValuesInt ==
  ASSUME NEW d \in Seq(Int)
  PROVE  Values(d) \subseteq Int
BY DEF Values

\* Moving the largest of the lower half, or the smallest of the upper.
LEMMA MoveUp ==
  ASSUME NEW a \in Seq(Int), NEW b \in Seq(Int), Ordered(a, b), a # <<>>,
         NEW l, l = Popped("max", a), NEW u, u = Push("min", b, a[1])
  PROVE  Moved(l, u, a, b) /\ Len(l) = Len(a) - 1 /\ Len(u) = Len(b) + 1
<1>1. /\ a[1] \in Values(a) /\ a[1] \in Int /\ Heap("max", a) /\ Heap("min", b)
      /\ \A x \in Values(a) : x <= a[1]
  BY HeadsOk DEF Ordered
<1>2. Shortens("max", l, a) /\ Extends("min", u, b, a[1])
  BY <1>1, PoppedOk, PushOk
<1>3. Ordered(l, u)
  BY <1>1, <1>2 DEF Ordered, Shortens, Extends
<1>4. l \in Seq(Int) /\ u \in Seq(Int)
  BY <1>2 DEF Shortens, Extends
<1>5. ASSUME NEW w \in Int PROVE Count(l, w) + Count(u, w) = Count(a, w) + Count(b, w)
  <2>1. Count(a, w) = Count(l, w) + One(a[1] <= w) /\ Count(u, w) = Count(b, w) + One(a[1] <= w)
    BY <1>2 DEF Shortens, Extends
  <2>2. Count(l, w) \in Int /\ Count(b, w) \in Int /\ One(a[1] <= w) \in Int
    BY <1>4, CountInt, OneInt
  <2> QED BY <2>1, <2>2
<1> QED BY <1>2, <1>3, <1>4, <1>5 DEF Shortens, Extends, Moved

\* Moving the smallest of the upper half.
LEMMA MoveDown ==
  ASSUME NEW a \in Seq(Int), NEW b \in Seq(Int), Ordered(a, b), b # <<>>,
         NEW l, l = Push("max", a, b[1]), NEW u, u = Popped("min", b)
  PROVE  Moved(l, u, a, b) /\ Len(l) = Len(a) + 1 /\ Len(u) = Len(b) - 1
<1>1. /\ b[1] \in Values(b) /\ b[1] \in Int /\ Heap("max", a) /\ Heap("min", b)
      /\ \A x \in Values(b) : b[1] <= x
  BY HeadsOk DEF Ordered
<1>2. Shortens("min", u, b) /\ Extends("max", l, a, b[1])
  BY <1>1, PoppedOk, PushOk
<1>3. Ordered(l, u)
  BY <1>1, <1>2 DEF Ordered, Shortens, Extends
<1>4. l \in Seq(Int) /\ u \in Seq(Int)
  BY <1>2 DEF Shortens, Extends
<1>5. ASSUME NEW w \in Int PROVE Count(l, w) + Count(u, w) = Count(a, w) + Count(b, w)
  <2>1. Count(b, w) = Count(u, w) + One(b[1] <= w) /\ Count(l, w) = Count(a, w) + One(b[1] <= w)
    BY <1>2 DEF Shortens, Extends
  <2>2. Count(a, w) \in Int /\ Count(u, w) \in Int /\ One(b[1] <= w) \in Int
    BY <1>4, CountInt, OneInt
  <2> QED BY <2>1, <2>2
<1> QED BY <1>2, <1>3, <1>4, <1>5 DEF Shortens, Extends, Moved

\* Two lengths that differ by no more than the halves' do.
LEMMA Lengths ==
  ASSUME NEW x \in Nat, NEW y \in Nat
  PROVE  /\ x = y \/ x = y + 1 => x + 1 \in (y - 1)..(y + 2) /\ x \in (y + 1 - 1)..(y + 1 + 2)
         /\ x \in (y - 1)..(y + 2) /\ ~(x > y + 1) /\ ~(y > x) => x = y \/ x = y + 1
OBVIOUS

\* rebalance keeps the samples and the order of the halves, and evens their sizes.
LEMMA RebalanceOk ==
  ASSUME NEW m, Nearly(m), NEW r, r = Rebalance(m)
  PROVE  /\ HalvesOk(r)
         /\ Len(r.lower) + Len(r.upper) = Len(m.lower) + Len(m.upper)
         /\ \A w \in Int : Total(r, w) = Total(m, w)
<1> DEFINE a == m.lower
           b == m.upper
<1>1. /\ a \in Seq(Int) /\ b \in Seq(Int) /\ Ordered(a, b)
      /\ Len(a) \in Nat /\ Len(b) \in Nat /\ Len(a) \in (Len(b) - 1)..(Len(b) + 2)
  BY DEF Nearly, Halves
<1>2. \A l, u : r = [lower |-> l, upper |-> u] => r.lower = l /\ r.upper = u
                 /\ (l \in Seq(Int) /\ u \in Seq(Int) => r \in Halves)
  BY DEF Halves
<1>3. ASSUME NEW l, NEW u, Moved(l, u, a, b), r = [lower |-> l, upper |-> u]
      PROVE  /\ r.lower = l /\ r.upper = u /\ r \in Halves /\ Ordered(l, u)
             /\ \A w \in Int : Total(r, w) = Total(m, w)
  <2>1. r.lower = l /\ r.upper = u /\ r \in Halves /\ Ordered(l, u)
    BY <1>2, <1>3 DEF Moved
  <2>2. ASSUME NEW w \in Int PROVE Total(r, w) = Total(m, w)
    <3>1. Count(l, w) + Count(u, w) = Count(a, w) + Count(b, w)
      BY <1>3 DEF Moved
    <3> QED BY <2>1, <3>1 DEF Total
  <2> QED BY <2>1, <2>2
<1>4. CASE Len(a) > Len(b) + 1
  <2> DEFINE l == Popped("max", a)
             u == Push("min", b, a[1])
  <2>1. r = [lower |-> l, upper |-> u]
    BY <1>1, <1>4 DEF Rebalance
  <2>2. a # <<>>
    BY <1>1, <1>4
  <2>3. Moved(l, u, a, b) /\ Len(l) = Len(a) - 1 /\ Len(u) = Len(b) + 1
    BY <1>1, <2>2, MoveUp
  <2> HIDE DEF l
  <2> HIDE DEF u
  <2>4. /\ r.lower = l /\ r.upper = u /\ r \in Halves /\ Ordered(l, u)
        /\ \A w \in Int : Total(r, w) = Total(m, w)
    BY <1>3, <2>1, <2>3
  <2>5. Len(r.lower) = Len(a) - 1 /\ Len(r.upper) = Len(b) + 1
    BY <2>3, <2>4
  <2>6. /\ Len(r.lower) + Len(r.upper) = Len(a) + Len(b)
        /\ Len(r.lower) = Len(r.upper) \/ Len(r.lower) = Len(r.upper) + 1
    <3> DEFINE x == Len(a)
               y == Len(b)
               z == Len(r.lower)
               t == Len(r.upper)
    <3>1. /\ x \in Nat /\ y \in Nat /\ z = x - 1 /\ t = y + 1
          /\ x \in (y - 1)..(y + 2) /\ x > y + 1
      BY <1>1, <1>4, <2>5
    <3> HIDE DEF x
    <3> HIDE DEF y
    <3> HIDE DEF z
    <3> HIDE DEF t
    <3>2. z + t = x + y /\ (z = t \/ z = t + 1)
      BY <3>1
    <3> QED BY <3>2 DEF x, y, z, t
  <2> QED BY <2>4, <2>6 DEF HalvesOk
<1>5. CASE Len(b) > Len(a)
  <2> DEFINE l == Push("max", a, b[1])
             u == Popped("min", b)
  <2>1. r = [lower |-> l, upper |-> u]
    BY <1>1, <1>5 DEF Rebalance
  <2>2. b # <<>>
    BY <1>1, <1>5
  <2>3. Moved(l, u, a, b) /\ Len(l) = Len(a) + 1 /\ Len(u) = Len(b) - 1
    BY <1>1, <2>2, MoveDown
  <2> HIDE DEF l
  <2> HIDE DEF u
  <2>4. /\ r.lower = l /\ r.upper = u /\ r \in Halves /\ Ordered(l, u)
        /\ \A w \in Int : Total(r, w) = Total(m, w)
    BY <1>3, <2>1, <2>3
  <2>5. Len(r.lower) = Len(a) + 1 /\ Len(r.upper) = Len(b) - 1
    BY <2>3, <2>4
  <2>6. /\ Len(r.lower) + Len(r.upper) = Len(a) + Len(b)
        /\ Len(r.lower) = Len(r.upper) \/ Len(r.lower) = Len(r.upper) + 1
    <3> DEFINE x == Len(a)
               y == Len(b)
               z == Len(r.lower)
               t == Len(r.upper)
    <3>1. /\ x \in Nat /\ y \in Nat /\ z = x + 1 /\ t = y - 1
          /\ x \in (y - 1)..(y + 2) /\ y > x
      BY <1>1, <1>5, <2>5
    <3> HIDE DEF x
    <3> HIDE DEF y
    <3> HIDE DEF z
    <3> HIDE DEF t
    <3>2. z + t = x + y /\ (z = t \/ z = t + 1)
      BY <3>1
    <3> QED BY <3>2 DEF x, y, z, t
  <2> QED BY <2>4, <2>6 DEF HalvesOk
<1>6. CASE ~(Len(a) > Len(b) + 1) /\ ~(Len(b) > Len(a))
  <2>1. r = m
    BY <1>6 DEF Rebalance
  <2>2. Len(a) = Len(b) \/ Len(a) = Len(b) + 1
    BY <1>1, <1>6, Lengths
  <2> QED BY <2>1, <2>2 DEF HalvesOk, Nearly
<1> QED BY <1>4, <1>5, <1>6

\* A half that took the sample v, before the halves are balanced.
Taken(n, m, v) ==
  /\ Nearly(n)
  /\ Len(n.lower) + Len(n.upper) = Len(m.lower) + Len(m.upper) + 1
  /\ \A w \in Int : Total(n, w) = Total(m, w) + One(v <= w)

\* A sample no greater than the head of the lower half goes there.
LEMMA TakenLower ==
  ASSUME NEW m, HalvesOk(m), NEW v \in Int, m.lower = <<>> \/ v <= m.lower[1],
         NEW l, l = Push("max", m.lower, v), NEW n, n = [lower |-> l, upper |-> m.upper]
  PROVE  Taken(n, m, v)
<1> DEFINE a == m.lower
           b == m.upper
<1>1. /\ a \in Seq(Int) /\ b \in Seq(Int) /\ Ordered(a, b)
      /\ Len(a) \in Nat /\ Len(b) \in Nat /\ (Len(a) = Len(b) \/ Len(a) = Len(b) + 1)
  BY DEF HalvesOk, Halves
<1>2. Extends("max", l, a, v)
  BY <1>1, PushOk DEF Ordered
<1>3. l \in Seq(Int) /\ Len(l) = Len(a) + 1 /\ n.lower = l /\ n.upper = b /\ n \in Halves
  BY <1>1, <1>2 DEF Extends, Halves
<1>4. \A y \in Values(b) : v <= y
  <2>1. CASE a = <<>>
    <3>1. b = <<>>
      BY <1>1, <2>1
    <3> QED BY <3>1 DEF Values
  <2>2. CASE a # <<>> /\ v <= a[1]
    <3>1. a[1] \in Values(a) /\ a[1] \in Int /\ Values(b) \subseteq Int
      BY <1>1, <2>2, HeadsOk, ValuesInt
    <3> QED BY <1>1, <2>2, <3>1 DEF Ordered
  <2> QED BY <2>1, <2>2
<1>5. Ordered(l, b)
  BY <1>1, <1>2, <1>4 DEF Ordered, Extends
<1>6. Nearly(n)
  <2>1. Len(a) + 1 \in (Len(b) - 1)..(Len(b) + 2)
    BY <1>1, Lengths
  <2>2. Len(l) \in (Len(b) - 1)..(Len(b) + 2)
    BY <1>3, <2>1
  <2> QED BY <1>3, <1>5, <2>2 DEF Nearly
<1>7. ASSUME NEW w \in Int PROVE Total(n, w) = Total(m, w) + One(v <= w)
  <2>1. Count(l, w) = Count(a, w) + One(v <= w)
    BY <1>2 DEF Extends
  <2>2. Total(n, w) = Count(l, w) + Count(b, w) /\ Total(m, w) = Count(a, w) + Count(b, w)
    BY <1>3 DEF Total
  <2>3. Count(a, w) \in Int /\ Count(b, w) \in Int /\ One(v <= w) \in Int
    BY <1>1, CountInt, OneInt
  <2> QED BY <2>1, <2>2, <2>3
<1>8. Len(n.lower) + Len(n.upper) = Len(a) + Len(b) + 1
  <2>1. \A x \in Nat, y \in Nat : x + (y + 1) = x + y + 1 /\ (x + 1) + y = x + y + 1
    OBVIOUS
  <2> HIDE DEF a
  <2> HIDE DEF b
  <2> QED BY ONLY <1>1, <1>3, <2>1
<1> QED BY <1>6, <1>7, <1>8 DEF Taken

\* A greater one goes to the upper half.
LEMMA TakenUpper ==
  ASSUME NEW m, HalvesOk(m), NEW v \in Int, ~(m.lower = <<>> \/ v <= m.lower[1]),
         NEW u, u = Push("min", m.upper, v), NEW n, n = [lower |-> m.lower, upper |-> u]
  PROVE  Taken(n, m, v)
<1> DEFINE a == m.lower
           b == m.upper
<1>1. /\ a \in Seq(Int) /\ b \in Seq(Int) /\ Ordered(a, b) /\ Values(a) \subseteq Int
      /\ Len(a) \in Nat /\ Len(b) \in Nat /\ (Len(a) = Len(b) \/ Len(a) = Len(b) + 1)
  BY ValuesInt DEF HalvesOk, Halves
<1>2. Extends("min", u, b, v)
  BY <1>1, PushOk DEF Ordered
<1>3. u \in Seq(Int) /\ Len(u) = Len(b) + 1 /\ n.lower = a /\ n.upper = u /\ n \in Halves
  BY <1>1, <1>2 DEF Extends, Halves
<1>4. \A x \in Values(a) : x <= v
  <2>1. a[1] \in Int /\ \A x \in Values(a) : x <= a[1]
    BY <1>1, HeadsOk DEF Ordered
  <2> QED BY <1>1, <2>1
<1>5. Ordered(a, u)
  BY <1>1, <1>2, <1>4 DEF Ordered, Extends
<1>6. Nearly(n)
  <2>1. Len(a) \in (Len(b) + 1 - 1)..(Len(b) + 1 + 2)
    BY <1>1, Lengths
  <2>2. Len(a) \in (Len(u) - 1)..(Len(u) + 2)
    BY <1>3, <2>1
  <2> QED BY <1>3, <1>5, <2>2 DEF Nearly
<1>7. ASSUME NEW w \in Int PROVE Total(n, w) = Total(m, w) + One(v <= w)
  <2>1. Count(u, w) = Count(b, w) + One(v <= w)
    BY <1>2 DEF Extends
  <2>2. Total(n, w) = Count(a, w) + Count(u, w) /\ Total(m, w) = Count(a, w) + Count(b, w)
    BY <1>3 DEF Total
  <2>3. Count(a, w) \in Int /\ Count(b, w) \in Int /\ One(v <= w) \in Int
    BY <1>1, CountInt, OneInt
  <2> QED BY <2>1, <2>2, <2>3
<1>8. Len(n.lower) + Len(n.upper) = Len(a) + Len(b) + 1
  <2>1. \A x \in Nat, y \in Nat : x + (y + 1) = x + y + 1 /\ (x + 1) + y = x + y + 1
    OBVIOUS
  <2> HIDE DEF a
  <2> HIDE DEF b
  <2> QED BY ONLY <1>1, <1>3, <2>1
<1> QED BY <1>6, <1>7, <1>8 DEF Taken

\* A sample is counted once, and the halves stay halves.
LEMMA AddSampleOk ==
  ASSUME NEW m, HalvesOk(m), NEW v \in Int, NEW r, r = AddSample(m, v)
  PROVE  /\ HalvesOk(r)
         /\ Len(r.lower) + Len(r.upper) = Len(m.lower) + Len(m.upper) + 1
         /\ \A w \in Int : Total(r, w) = Total(m, w) + One(v <= w)
<1>1. \A x, y : [m EXCEPT !.lower = x] = [lower |-> x, upper |-> m.upper]
                /\ [m EXCEPT !.upper = y] = [lower |-> m.lower, upper |-> y]
  BY DEF HalvesOk, Halves
<1>2. PICK n : Taken(n, m, v) /\ r = Rebalance(n)
  <2>1. CASE m.lower = <<>> \/ v <= m.lower[1]
    <3> DEFINE n == [lower |-> Push("max", m.lower, v), upper |-> m.upper]
    <3>1. r = Rebalance(n)
      BY <1>1, <2>1 DEF AddSample
    <3>2. Taken(n, m, v)
      BY <2>1, TakenLower
    <3> QED BY <3>1, <3>2
  <2>2. CASE ~(m.lower = <<>> \/ v <= m.lower[1])
    <3> DEFINE n == [lower |-> m.lower, upper |-> Push("min", m.upper, v)]
    <3>1. r = Rebalance(n)
      BY <1>1, <2>2 DEF AddSample
    <3>2. Taken(n, m, v)
      BY <2>2, TakenUpper
    <3> QED BY <3>1, <3>2
  <2> QED BY <2>1, <2>2
<1>3. /\ HalvesOk(r)
      /\ Len(r.lower) + Len(r.upper) = Len(n.lower) + Len(n.upper)
      /\ \A w \in Int : Total(r, w) = Total(n, w)
  BY <1>2, RebalanceOk DEF Taken
<1> QED BY <1>2, <1>3 DEF Taken

-----------------------------------------------------------------------------
(* The middle of a sort.                                                   *)

\* The samples that carry a field, and those of them up to v.
At(h, field) == {i \in DOMAIN h : h[i][field] # No}
AtMost(h, field, v) == {i \in At(h, field) : h[i][field] <= v}

Fields == {"rtt", "jitter"}

\* What a reading's gauges are.
LEMMA ReadingOk ==
  ASSUME NEW r \in Readings, NEW field \in Fields
  PROVE  r[field] \in Int /\ (r[field] # No => r[field] \in Nat)
<1>1. r \in [rtt : Nat \cup {No}, jitter : Nat \cup {No}, lost : Nat, received : Nat,
             fresh : BOOLEAN]
  BY TrackerAssumption
<1> QED BY <1>1 DEF Fields, No

\* What is heard are readings.
LEMMA HeardOk ==
  ASSUME NEW h \in Seq(Readings), NEW field \in Fields
  PROVE  /\ Len(h) \in Nat /\ DOMAIN h = 1..Len(h)
         /\ \A i \in DOMAIN h : h[i] \in Readings /\ h[i][field] \in Int
         /\ \A i \in At(h, field) : i \in DOMAIN h /\ h[i][field] \in Nat
<1>1. Len(h) \in Nat /\ DOMAIN h = 1..Len(h) /\ \A i \in DOMAIN h : h[i] \in Readings
  OBVIOUS
<1> QED BY <1>1, ReadingOk DEF At

\* There are finitely many of them.
LEMMA AtFinite ==
  ASSUME NEW h \in Seq(Readings), NEW field \in Fields, NEW S, S \subseteq At(h, field)
  PROVE  IsFiniteSet(S) /\ Cardinality(S) \in Nat
<1>1. S \subseteq 1..Len(h) /\ Len(h) \in Nat
  BY HeardOk DEF At
<1>2. IsFiniteSet(1..Len(h))
  BY <1>1, FS_Interval
<1> QED BY <1>1, <1>2, FS_Subset, FS_CardinalityType

\* The halves m hold each sample of a field once.
Holds(m, h, field) ==
  /\ HalvesOk(m)
  /\ Len(m.lower) + Len(m.upper) = Cardinality(At(h, field))
  /\ \A w \in Int : Total(m, w) = Cardinality(AtMost(h, field, w))

\* And still do when one more sample is heard.
LEMMA HoldsMore ==
  ASSUME NEW h \in Seq(Readings), NEW field \in Fields, NEW m, Holds(m, h, field),
         NEW r \in Readings, NEW y, y = IF r[field] = No THEN m ELSE AddSample(m, r[field])
  PROVE  Holds(y, Append(h, r), field)
<1> DEFINE k == Append(h, r)
           n == Len(h) + 1
<1>1. /\ k \in Seq(Readings) /\ DOMAIN k = DOMAIN h \cup {n} /\ n \notin DOMAIN h
      /\ k[n] = r /\ \A i \in DOMAIN h : k[i] = h[i]
  <2>1. /\ k \in Seq(Readings) /\ Len(k) = n /\ DOMAIN k = 1..n /\ DOMAIN h = 1..Len(h)
        /\ Len(h) \in Nat /\ k[n] = r /\ \A i \in 1..Len(h) : k[i] = h[i]
    OBVIOUS
  <2>2. \A l \in Nat : 1..(l + 1) = (1..l) \cup {l + 1} /\ l + 1 \notin 1..l
    OBVIOUS
  <2> HIDE DEF k
  <2> QED BY <2>1, <2>2
<1> HIDE DEF k
<1> HIDE DEF n
<1>2. n \notin At(h, field) /\ \A w : AtMost(h, field, w) \subseteq At(h, field)
  BY <1>1 DEF At, AtMost
<1>3. CASE r[field] = No
  <2>1. At(k, field) = At(h, field)
    BY <1>1, <1>3 DEF At
  <2>2. \A w \in Int : AtMost(k, field, w) = AtMost(h, field, w)
    BY <1>1, <2>1 DEF At, AtMost
  <2> QED BY <1>3, <2>1, <2>2 DEF Holds, k
<1>4. CASE r[field] # No
  <2> DEFINE v == r[field]
  <2>1. v \in Int
    BY ReadingOk
  <2>2. At(k, field) = At(h, field) \cup {n}
    BY <1>1, <1>4 DEF At
  <2>3. \A w \in Int : AtMost(k, field, w) = IF v <= w THEN AtMost(h, field, w) \cup {n}
                                             ELSE AtMost(h, field, w)
    BY <1>1, <2>2 DEF At, AtMost
  <2>4. IsFiniteSet(At(h, field)) /\ Cardinality(At(k, field)) = Cardinality(At(h, field)) + 1
    <3>1. IsFiniteSet(At(h, field))
      BY AtFinite
    <3>2. n \notin At(h, field)
      BY <1>2
    <3>3. Cardinality(At(h, field) \cup {n}) = Cardinality(At(h, field)) + 1
      BY <3>1, <3>2, FS_AddElement
    <3> QED BY <2>2, <3>1, <3>3
  <2>5. ASSUME NEW w \in Int
        PROVE  Cardinality(AtMost(k, field, w)) = Cardinality(AtMost(h, field, w)) + One(v <= w)
    <3>1. /\ IsFiniteSet(AtMost(h, field, w)) /\ n \notin AtMost(h, field, w)
          /\ Cardinality(AtMost(h, field, w)) \in Nat
      BY <1>2, AtFinite
    <3>2. CASE v <= w
      BY <2>3, <3>1, <3>2, FS_AddElement DEF One
    <3>3. CASE ~(v <= w)
      BY <2>3, <3>1, <3>3 DEF One
    <3> QED BY <3>2, <3>3
  <2>6. y = AddSample(m, v) /\ HalvesOk(m)
    BY <1>4 DEF Holds
  <2> HIDE DEF v
  <2>7. /\ HalvesOk(y)
        /\ Len(y.lower) + Len(y.upper) = Len(m.lower) + Len(m.upper) + 1
        /\ \A w \in Int : Total(y, w) = Total(m, w) + One(v <= w)
    BY <2>1, <2>6, AddSampleOk
  <2> QED BY <2>4, <2>5, <2>7 DEF Holds, k
<1> QED BY <1>3, <1>4

\* Empty halves hold no sample.
LEMMA HoldsNone ==
  ASSUME NEW field \in Fields
  PROVE  Holds(NoSamples, <<>>, field)
<1> DEFINE e == <<>>
<1>1. e \in Seq(Int) /\ Len(e) = 0 /\ DOMAIN e = {}
  OBVIOUS
<1>2. NoSamples = [lower |-> e, upper |-> e]
  BY DEF NoSamples
<1> HIDE DEF e
<1>3. /\ NoSamples.lower = e /\ NoSamples.upper = e /\ NoSamples \in Halves
      /\ Heap("max", e) /\ Heap("min", e) /\ Values(e) = {} /\ \A w : Upto(e, w) = {}
      /\ At(e, field) = {} /\ \A w : AtMost(e, field, w) = {}
  BY <1>1, <1>2 DEF Halves, Heap, Values, Upto, At, AtMost
<1>4. Cardinality({}) = 0
  BY FS_EmptySet
<1>5. HalvesOk(NoSamples)
  BY <1>1, <1>3 DEF HalvesOk, Ordered
<1>6. \A w \in Int : Total(NoSamples, w) = 0 /\ Cardinality(AtMost(e, field, w)) = 0
  BY <1>3, <1>4 DEF Total, Count
<1>7. Len(NoSamples.lower) + Len(NoSamples.upper) = Cardinality(At(e, field))
  BY <1>1, <1>3, <1>4
<1> QED BY <1>5, <1>6, <1>7 DEF Holds, e

\* The value that fewer than k samples are below and k are not above is the kth smallest.
LEMMA KthIs ==
  ASSUME heard \in Seq(Readings), NEW field \in Fields, NEW k \in Int, NEW v \in Int,
         Cardinality(AtMost(heard, field, v)) >= k,
         Cardinality(AtMost(heard, field, v - 1)) < k
  PROVE  Kth(field, k) = v /\ v \in Nat
<1> DEFINE at == At(heard, field)
           S == {heard[i][field] : i \in at}
           P(w) == /\ Cardinality({i \in at : heard[i][field] < w}) < k
                   /\ Cardinality({i \in at : heard[i][field] <= w}) >= k
<1>1. Kth(field, k) = CHOOSE w \in S : P(w)
  BY DEF Kth, At
<1>2. \A i \in at : heard[i][field] \in Nat
  BY HeardOk
<1>3. \A w \in Int : AtMost(heard, field, w) \subseteq at
                     /\ {i \in at : heard[i][field] <= w} = AtMost(heard, field, w)
                     /\ {i \in at : heard[i][field] < w} = AtMost(heard, field, w - 1)
  BY <1>2 DEF AtMost
<1>4. \A w, x \in Int : w <= x =>
        Cardinality(AtMost(heard, field, w)) <= Cardinality(AtMost(heard, field, x))
  <2>1. ASSUME NEW w \in Int, NEW x \in Int, w <= x
        PROVE  Cardinality(AtMost(heard, field, w)) <= Cardinality(AtMost(heard, field, x))
    <3>1. AtMost(heard, field, w) \subseteq AtMost(heard, field, x)
      BY <1>2, <2>1 DEF AtMost
    <3>2. IsFiniteSet(AtMost(heard, field, x))
      BY <1>3, AtFinite
    <3> QED BY <3>1, <3>2, FS_Subset
  <2> QED BY <2>1
<1>5. \A w \in Int : Cardinality(AtMost(heard, field, w)) \in Nat
  BY <1>3, AtFinite
<1>6. v \in S
  <2> SUFFICES ASSUME v \notin S PROVE FALSE
    OBVIOUS
  <2>1. AtMost(heard, field, v) = AtMost(heard, field, v - 1)
    BY <1>2 DEF AtMost
  <2> QED BY <1>5, <2>1
<1>7. P(v)
  BY <1>3
<1>8. S \subseteq Nat
  BY <1>2
<1>9. \A w \in Int : P(w) => /\ Cardinality(AtMost(heard, field, w - 1)) < k
                             /\ Cardinality(AtMost(heard, field, w)) >= k
  BY <1>3
<1> HIDE DEF S
<1> HIDE DEF P
<1>10. ASSUME NEW w \in S, P(w) PROVE w = v
  <2>1. w \in Int /\ w - 1 \in Int /\ v - 1 \in Int
    BY <1>8
  <2>2. ~(w <= v - 1)
    BY <1>4, <1>5, <1>9, <1>10, <2>1
  <2>3. ~(v <= w - 1)
    BY <1>4, <1>5, <1>9, <1>10, <2>1
  <2> QED BY <2>1, <2>2, <2>3
<1>11. (CHOOSE w \in S : P(w)) = v
  BY <1>6, <1>7, <1>10
<1> QED BY <1>1, <1>6, <1>8, <1>11

\* How many of a half its head bounds.
LEMMA AllUpto ==
  ASSUME NEW d \in Seq(Int), NEW v \in Int, \A x \in Values(d) : x <= v
  PROVE  Count(d, v) = Len(d)
<1>1. Len(d) \in Nat /\ DOMAIN d = 1..Len(d)
  BY SeqHeaps
<1>2. Upto(d, v) = 1..Len(d)
  BY <1>1 DEF Upto, Values
<1>3. ASSUME NEW n \in Nat PROVE Cardinality(1..n) = n
  BY <1>3, FS_Interval
<1> QED BY <1>1, <1>2, <1>3 DEF Count

\* Nothing in a half is below all of it.
LEMMA NoneUpto ==
  ASSUME NEW d \in Seq(Int), NEW v \in Int, \A x \in Values(d) : v < x
  PROVE  Count(d, v) = 0
<1>1. \A x \in Values(d) : x \in Int
  BY ValuesInt
<1>2. \A i \in DOMAIN d : d[i] \in Values(d)
  BY DEF Values
<1>3. \A i \in DOMAIN d : ~(d[i] <= v)
  BY <1>1, <1>2
<1>4. Upto(d, v) = {}
  BY <1>3 DEF Upto
<1> QED BY <1>4, FS_EmptySet DEF Count

\* Its head is not below itself.
LEMMA NotAll ==
  ASSUME NEW d \in Seq(Int), NEW v \in Int, d # <<>>, ~(d[1] <= v)
  PROVE  Count(d, v) <= Len(d) - 1
<1>1. Len(d) \in Nat /\ DOMAIN d = 1..Len(d) /\ 1 \in 1..Len(d)
  BY SeqHeaps
<1>2. Upto(d, v) \subseteq (1..Len(d)) \ {1}
  BY <1>1 DEF Upto
<1>3. IsFiniteSet(1..Len(d)) /\ Cardinality(1..Len(d)) = Len(d)
  BY <1>1, FS_Interval
<1>4. /\ IsFiniteSet((1..Len(d)) \ {1})
      /\ Cardinality((1..Len(d)) \ {1}) = Len(d) - 1
  <2> DEFINE N == 1..Len(d)
  <2>1. IsFiniteSet(N) /\ 1 \in N /\ Cardinality(N) = Len(d)
    BY <1>1, <1>3
  <2> HIDE DEF N
  <2>2. IsFiniteSet(N \ {1}) /\ Cardinality(N \ {1}) = Cardinality(N) - 1
    BY <2>1, FS_RemoveElement
  <2> QED BY <2>1, <2>2 DEF N
<1> QED BY <1>2, <1>4, FS_Subset DEF Count

\* And is not above itself.
LEMMA OneUpto ==
  ASSUME NEW d \in Seq(Int), NEW v \in Int, d # <<>>, d[1] <= v
  PROVE  Count(d, v) >= 1
<1>1. Len(d) \in Nat /\ d \in Heaps(Len(d)) /\ DOMAIN d = 1..Len(d) /\ 1 \in 1..Len(d)
  BY SeqHeaps
<1>2. IsFiniteSet(Upto(d, v)) /\ 1 \in Upto(d, v)
  BY <1>1, UptoFinite DEF Upto
<1>3. Cardinality(Upto(d, v)) \in Nat /\ Cardinality(Upto(d, v)) # 0
  BY <1>2, FS_CardinalityType, FS_EmptySet
<1> QED BY <1>3 DEF Count

\* The head of the lower half, with its length as the rank.
LEMMA LowerHead ==
  ASSUME heard \in Seq(Readings), NEW field \in Fields, NEW m, Holds(m, heard, field),
         m.lower # <<>>
  PROVE  Kth(field, Len(m.lower)) = m.lower[1] /\ m.lower[1] \in Nat
<1> DEFINE a == m.lower
           b == m.upper
           v == a[1]
<1>1. a \in Seq(Int) /\ b \in Seq(Int) /\ Heap("max", a) /\ \A x \in Values(a), y \in Values(b) : x <= y
  BY DEF Holds, HalvesOk, Halves, Ordered
<1>2. v \in Values(a) /\ v \in Int /\ (\A x \in Values(a) : x <= v) /\ Len(a) \in Nat
  BY <1>1, HeadsOk
<1>3. \A y \in Values(b) : y \in Int /\ v - 1 < y
  <2>1. \A y \in Values(b) : y \in Int /\ v <= y
    BY <1>1, <1>2, ValuesInt
  <2> HIDE DEF v
  <2> QED BY <1>2, <2>1
<1>4. /\ Total(m, v) = Count(a, v) + Count(b, v)
      /\ Total(m, v - 1) = Count(a, v - 1) + Count(b, v - 1)
  BY DEF Total
<1>5. /\ Cardinality(AtMost(heard, field, v)) = Total(m, v)
      /\ Cardinality(AtMost(heard, field, v - 1)) = Total(m, v - 1)
  BY <1>2 DEF Holds
<1>6. Count(a, v) = Len(a)
  BY <1>1, <1>2, AllUpto
<1>7. Count(b, v) >= 0 /\ Count(b, v) \in Int
  <2>1. Len(b) \in Nat /\ b \in Heaps(Len(b))
    BY <1>1, SeqHeaps
  <2>2. Count(b, v) \in 0..Len(b)
    BY <2>1, UptoFinite
  <2> QED BY <2>1, <2>2
<1>8. Count(a, v - 1) <= Len(a) - 1 /\ Count(a, v - 1) \in Int
  <2>1. v - 1 \in Int /\ ~(v <= v - 1)
    BY <1>2
  <2> QED BY <1>1, <2>1, NotAll, CountInt
<1>9. Count(b, v - 1) = 0
  <2>1. v - 1 \in Int
    BY <1>2
  <2> QED BY <1>1, <1>3, <2>1, NoneUpto
<1>10. /\ Cardinality(AtMost(heard, field, v)) >= Len(a)
       /\ Cardinality(AtMost(heard, field, v - 1)) < Len(a)
  BY <1>2, <1>4, <1>5, <1>6, <1>7, <1>8, <1>9
<1> QED BY <1>2, <1>10, KthIs

\* And the head of the upper half.
LEMMA UpperHead ==
  ASSUME heard \in Seq(Readings), NEW field \in Fields, NEW m, Holds(m, heard, field),
         m.upper # <<>>
  PROVE  Kth(field, Len(m.lower) + 1) = m.upper[1] /\ m.upper[1] \in Nat
<1> DEFINE a == m.lower
           b == m.upper
           v == b[1]
<1>1. a \in Seq(Int) /\ b \in Seq(Int) /\ Heap("min", b) /\ \A x \in Values(a), y \in Values(b) : x <= y
  BY DEF Holds, HalvesOk, Halves, Ordered
<1>2. v \in Values(b) /\ v \in Int /\ (\A y \in Values(b) : v <= y) /\ Len(a) \in Nat
  BY <1>1, HeadsOk, SeqHeaps
<1>3. (\A y \in Values(b) : v - 1 < y) /\ \A x \in Values(a) : x <= v
  <2>1. \A y \in Values(b) : y \in Int /\ v <= y
    BY <1>1, <1>2, ValuesInt
  <2>2. \A x \in Values(a) : x <= v
    BY <1>1, <1>2
  <2>3. v \in Int
    BY <1>2
  <2> HIDE DEF v
  <2>4. \A y \in Values(b) : v - 1 < y
    BY <2>1, <2>3
  <2> QED BY <2>2, <2>4
<1>4. /\ Total(m, v) = Count(a, v) + Count(b, v)
      /\ Total(m, v - 1) = Count(a, v - 1) + Count(b, v - 1)
  BY DEF Total
<1>5. /\ Cardinality(AtMost(heard, field, v)) = Total(m, v)
      /\ Cardinality(AtMost(heard, field, v - 1)) = Total(m, v - 1)
  BY <1>2 DEF Holds
<1>6. Count(a, v) = Len(a)
  BY <1>1, <1>2, <1>3, AllUpto
<1>7. Count(b, v) >= 1 /\ Count(b, v) \in Int
  <2>1. v <= v
    BY <1>2
  <2> QED BY <1>1, <1>2, <2>1, OneUpto, CountInt
<1>8. Count(a, v - 1) <= Len(a) /\ Count(a, v - 1) \in Int
  <2>1. Len(a) \in Nat /\ a \in Heaps(Len(a)) /\ v - 1 \in Int
    BY <1>1, <1>2, SeqHeaps
  <2>2. Count(a, v - 1) \in 0..Len(a)
    BY <2>1, UptoFinite
  <2> QED BY <2>1, <2>2
<1>9. Count(b, v - 1) = 0
  <2>1. v - 1 \in Int
    BY <1>2
  <2> QED BY <1>1, <1>3, <2>1, NoneUpto
<1>10. /\ Cardinality(AtMost(heard, field, v)) >= Len(a) + 1
       /\ Cardinality(AtMost(heard, field, v - 1)) < Len(a) + 1
  BY <1>2, <1>4, <1>5, <1>6, <1>7, <1>8, <1>9
<1>11. Len(a) + 1 \in Int
  BY <1>2
<1> QED BY <1>2, <1>10, <1>11, KthIs

\* So the median is the middle, and a number as soon as there is one sample.
LEMMA MedianMiddle ==
  ASSUME heard \in Seq(Readings), NEW field \in Fields, NEW m, Holds(m, heard, field)
  PROVE  Median(m) = MiddleOf(field) /\ Median(m) \in Nat \cup {No}
<1> DEFINE a == m.lower
           b == m.upper
           n == Cardinality({i \in DOMAIN heard : heard[i][field] # No})
           la == Len(a)
           lb == Len(b)
<1>1. a \in Seq(Int) /\ b \in Seq(Int) /\ la \in Nat /\ lb \in Nat /\ n = la + lb
      /\ (la = lb \/ la = lb + 1)
  BY DEF Holds, HalvesOk, Halves, At
<1>2. (a = <<>> <=> la = 0) /\ (b = <<>> <=> lb = 0)
  BY <1>1
<1>3. /\ a # <<>> => Kth(field, la) = a[1] /\ a[1] \in Nat
      /\ b # <<>> => Kth(field, la + 1) = b[1] /\ b[1] \in Nat
  BY LowerHead, UpperHead
<1>4. /\ Median(m) = IF a = <<>> THEN No
                     ELSE IF la > lb THEN a[1] ELSE (a[1] + b[1] + 1) \div 2
      /\ MiddleOf(field) = CASE n = 0 -> No
                             [] n % 2 = 1 -> Kth(field, n \div 2 + 1)
                             [] OTHER -> (Kth(field, n \div 2) + Kth(field, n \div 2 + 1) + 1) \div 2
  BY DEF Median, MiddleOf
<1> HIDE DEF a
<1> HIDE DEF b
<1> HIDE DEF n
<1> HIDE DEF la
<1> HIDE DEF lb
<1>5. CASE la = 0
  <2>1. n = 0
    BY <1>1, <1>5
  <2> QED BY <1>2, <1>4, <1>5, <2>1
<1>6. CASE la # 0 /\ la > lb
  <2>1. n # 0 /\ n % 2 = 1 /\ n \div 2 + 1 = la
    BY <1>1, <1>6
  <2>2. MiddleOf(field) = Kth(field, la)
    BY <1>4, <2>1
  <2> QED BY <1>2, <1>3, <1>4, <1>6, <2>2
<1>7. CASE la # 0 /\ la = lb
  <2>1. n # 0 /\ n % 2 # 1 /\ n \div 2 = la
    BY <1>1, <1>7
  <2>2. MiddleOf(field) = (Kth(field, la) + Kth(field, la + 1) + 1) \div 2
    BY <1>4, <2>1
  <2>3. a[1] \in Nat /\ b[1] \in Nat /\ Kth(field, la) = a[1] /\ Kth(field, la + 1) = b[1]
    BY <1>2, <1>3, <1>7
  <2>4. (a[1] + b[1] + 1) \div 2 \in Nat
    BY <2>3
  <2>5. Median(m) = (a[1] + b[1] + 1) \div 2
    BY <1>1, <1>2, <1>4, <1>7
  <2> QED BY <2>2, <2>3, <2>4, <2>5
<1> QED BY <1>1, <1>5, <1>6, <1>7

-----------------------------------------------------------------------------
(* The medians of a call.                                                  *)

\* feedQualityTracker sets the start of a call to now, or leaves it.
LEMMA FeedStarts ==
  ASSUME NEW x, OutagesOk(x), ~x.finalized, NEW now \in Nat,
         NEW ph, NEW next, NEW st, NEW nst, NEW y, y = Feed(x, ph, next, st, nst, now)
  PROVE  y.started \in {x.started, now}
<1> DEFINE m == AfterPhase(x, ph, next, now)
           z == OnConnectionStatusTransition(m, nst, now)
<1>1. OutagesOk(m) /\ ~m.finalized
  BY PhaseSteps
<1>2. m.started \in {x.started, now}
  <2>1. \/ m = x \/ m = [x EXCEPT !.started = now] \/ m = CloseSilently(x, now)
    BY DEF AfterPhase, OnPhaseTransition
  <2>2. CloseSilently(x, now).started = x.started
    BY CloseKeeps
  <2>3. [x EXCEPT !.started = now].started = now
    BY DEF OutagesOk, Outages
  <2> QED BY <2>1, <2>2, <2>3
<1>3. y = IF nst = st THEN m ELSE z
  BY DEF Feed
<1> HIDE DEF m
<1>4. z.started = m.started
  <2> DEFINE c == CloseSilently(m, now)
             d == m.drops + 1
  <2>1. \/ z = m \/ z = [m EXCEPT !.since = now, !.drops = d]
        \/ z = [c EXCEPT !.recoveries = @ + 1]
    BY DEF OnConnectionStatusTransition, OpenDropout
  <2>2. c.started = m.started /\ c \in Outages
    BY <1>1, CloseKeeps DEF OutagesOk
  <2> HIDE DEF c
  <2> HIDE DEF d
  <2>3. [c EXCEPT !.recoveries = @ + 1].started = c.started
    BY <2>2 DEF Outages
  <2>4. [m EXCEPT !.since = now, !.drops = d].started = m.started
    BY <1>1 DEF OutagesOk, Outages
  <2> QED BY <2>1, <2>2, <2>3, <2>4
<1> QED BY <1>2, <1>3, <1>4

\* A sample of a call that has begun, is not over and whose link is up is measured; no
\* other is.
LEMMA GaugesMeasure ==
  ASSUME NEW x, Gauges(x), NEW out, NEW stats, NEW now, stats.lost # No,
         NEW y, y = OnStatsSample(x, out, stats, now)
  PROVE  IF out.finalized \/ out.started = No \/ now < out.started \/ out.since # No
         THEN y = x
         ELSE /\ y.latency = IF stats.rtt = No THEN x.latency ELSE AddSample(x.latency, stats.rtt)
              /\ y.jitter = IF stats.jitter = No THEN x.jitter
                            ELSE AddSample(x.jitter, stats.jitter)
<1>1. CASE out.finalized \/ out.started = No \/ now < out.started \/ out.since # No
  BY <1>1 DEF OnStatsSample
<1>2. CASE ~(out.finalized \/ out.started = No \/ now < out.started \/ out.since # No)
  <2> DEFINE a == IF stats.rtt = No THEN x.latency ELSE AddSample(x.latency, stats.rtt)
             b == IF stats.jitter = No THEN x.jitter ELSE AddSample(x.jitter, stats.jitter)
             n == IF stats.rtt = No /\ stats.jitter = No THEN x.count ELSE x.count + 1
             z == [x EXCEPT !.latency = a, !.jitter = b, !.count = n]
  <2>1. y = CountLoss(z, stats)
    BY <1>2 DEF OnStatsSample
  <2> HIDE DEF a
  <2> HIDE DEF b
  <2> HIDE DEF n
  <2>2. z.latency = a /\ z.jitter = b
    BY DEF Gauges
  <2> HIDE DEF z
  <2>3. y.latency = z.latency /\ y.jitter = z.jitter
    BY <2>1 DEF CountLoss
  <2> QED BY <1>2, <2>2, <2>3 DEF a, b
<1> QED BY <1>1, <1>2

\* The inductive invariant: the halves hold what was heard.
MediansInv ==
  /\ DowntimeInv /\ LossInv
  /\ o.started # No => o.started <= clock
  /\ heard \in Seq(Readings)
  /\ Holds(g.latency, heard, "rtt") /\ Holds(g.jitter, heard, "jitter")

\* No sample is heard before the call.
LEMMA MediansInit == Init => MediansInv
<1> SUFFICES ASSUME Init PROVE MediansInv
  OBVIOUS
<1>1. DowntimeInv /\ LossInv
  BY DowntimeInit, LossInit
<1>2. o.started = No /\ heard = <<>> /\ g.latency = NoSamples /\ g.jitter = NoSamples
  BY DEF Init, NoOutages, NoGauges
<1>3. Holds(NoSamples, <<>>, "rtt") /\ Holds(NoSamples, <<>>, "jitter")
  BY HoldsNone DEF Fields
<1> QED BY <1>1, <1>2, <1>3 DEF MediansInv

\* A sample is measured exactly when it is heard.
LEMMA SampleMeasures ==
  ASSUME MediansInv, NEW r \in Readings, Sample(r)
  PROVE  /\ heard' \in Seq(Readings)
         /\ Holds(g'.latency, heard', "rtt") /\ Holds(g'.jitter, heard', "jitter")
<1> DEFINE base == IF r.fresh THEN [lost |-> 0, received |-> 0] ELSE link
           next == [lost |-> base.lost + r.lost, received |-> base.received + r.received]
           stats == [rtt |-> r.rtt, jitter |-> r.jitter, lost |-> next.lost,
                     received |-> next.received]
<1>1. /\ g' = OnStatsSample(g, o, stats, clock)
      /\ heard' = IF o.started # No /\ status = "connected" /\ ~o.finalized
                  THEN Append(heard, r) ELSE heard
  BY DEF Sample
<1>2. stats.rtt = r.rtt /\ stats.jitter = r.jitter /\ stats.lost # No
  <2>1. r.lost \in Nat
    BY TrackerAssumption
  <2>2. link.lost \in Nat
    BY DEF MediansInv, LossInv, Covered
  <2>3. next.lost = base.lost + r.lost /\ base.lost \in {0, link.lost}
    OBVIOUS
  <2> QED BY <2>1, <2>2, <2>3 DEF No
<1> HIDE DEF stats
<1>3. Gauges(g) /\ DowntimeInv
  BY DEF MediansInv, LossInv
<1>4. /\ clock \in Nat /\ (o.started # No => o.started \in Nat /\ o.started <= clock)
      /\ o.finalized \in BOOLEAN
  BY <1>3 DEF DowntimeInv, MediansInv, Inv, OutagesOk, Outages
<1>5. ~o.finalized => (o.since # No <=> status # "connected")
  BY <1>3 DEF DowntimeInv
<1> DEFINE deaf == o.finalized \/ o.started = No \/ clock < o.started \/ o.since # No
<1>6. IF deaf THEN g' = g
      ELSE /\ g'.latency = IF r.rtt = No THEN g.latency ELSE AddSample(g.latency, r.rtt)
           /\ g'.jitter = IF r.jitter = No THEN g.jitter ELSE AddSample(g.jitter, r.jitter)
  BY <1>1, <1>2, <1>3, GaugesMeasure
<1>7. heard' = IF deaf THEN heard ELSE Append(heard, r)
  BY <1>1, <1>4, <1>5
<1>8. /\ heard \in Seq(Readings)
      /\ Holds(g.latency, heard, "rtt") /\ Holds(g.jitter, heard, "jitter")
  BY DEF MediansInv
<1>9. CASE deaf
  BY <1>6, <1>7, <1>8, <1>9
<1>10. CASE ~deaf
  <2>1. "rtt" \in Fields /\ "jitter" \in Fields
    BY DEF Fields
  <2>2. /\ g'.latency = IF r["rtt"] = No THEN g.latency ELSE AddSample(g.latency, r["rtt"])
        /\ g'.jitter = IF r["jitter"] = No THEN g.jitter ELSE AddSample(g.jitter, r["jitter"])
    BY <1>6, <1>10
  <2>3. heard' = Append(heard, r)
    BY <1>7, <1>10
  <2>4. Holds(g'.latency, Append(heard, r), "rtt") /\ Holds(g'.jitter, Append(heard, r), "jitter")
    BY <1>8, <2>1, <2>2, HoldsMore
  <2>5. Append(heard, r) \in Seq(Readings)
    BY <1>8
  <2> QED BY <2>3, <2>4, <2>5
<1> QED BY <1>9, <1>10

\* Every step keeps the halves the samples that were heard.
LEMMA MediansNext == MediansInv /\ [Next]_vars => MediansInv'
<1> SUFFICES ASSUME MediansInv, [Next]_vars PROVE MediansInv'
  OBVIOUS
<1>1. DowntimeInv' /\ LossInv'
  BY DowntimeNext, LossNext DEF MediansInv
<1>2. /\ OutagesOk(o) /\ clock \in Nat /\ (o.started # No => o.started <= clock)
      /\ DowntimeInv
  BY DEF MediansInv, DowntimeInv, Inv
<1>3. ASSUME UNCHANGED <<g, heard>>, o'.started # No => o'.started <= clock'
      PROVE  MediansInv'
  BY <1>1, <1>3 DEF MediansInv
<1>4. ASSUME NEW next, NEW nextStatus, NEW leaves \in BOOLEAN, Rebuild(next, nextStatus, leaves)
      PROVE  MediansInv'
  <2> DEFINE fed == Feed(o, phase, next, status, nextStatus, clock)
  <2>1. /\ ~o.finalized /\ (nextStatus # "connected" => next = "inCall")
        /\ o' = IF leaves THEN Finalize(fed, clock) ELSE fed
        /\ clock' = clock /\ UNCHANGED <<g, heard>>
    BY <1>4 DEF Rebuild
  <2>2. OutagesOk(fed) /\ fed.started \in {o.started, clock}
    BY <1>2, <2>1, FeedSteps, FeedStarts
  <2> HIDE DEF fed
  <2>3. o'.started = fed.started
    BY <1>2, <2>1, <2>2, FinalizeKeeps
  <2> QED BY <1>2, <1>3, <2>1, <2>2, <2>3
<1>5. ASSUME NEW r \in Readings, Sample(r) PROVE MediansInv'
  <2>1. o' = o /\ clock' = clock
    BY <1>5 DEF Sample
  <2>2. /\ heard' \in Seq(Readings)
        /\ Holds(g'.latency, heard', "rtt") /\ Holds(g'.jitter, heard', "jitter")
    BY <1>5, SampleMeasures
  <2> QED BY <1>1, <1>2, <2>1, <2>2 DEF MediansInv
<1>6. ASSUME UNCHANGED <<g, heard, clock>>, o' = Finalize(o, clock) PROVE MediansInv'
  <2>1. o'.started = o.started
    BY <1>2, <1>6, FinalizeKeeps
  <2> QED BY <1>2, <1>3, <1>6, <2>1
<1>7. CASE Close
  BY <1>6, <1>7 DEF Close
<1>8. ASSUME NEW code, Fail(code) PROVE MediansInv'
  BY <1>6, <1>8 DEF Fail
<1>9. CASE Tick
  <2>1. o' = o /\ clock' = clock + 1 /\ UNCHANGED <<g, heard>>
    BY <1>9 DEF Tick
  <2>2. o.started # No => o.started \in Nat
    BY <1>2 DEF OutagesOk, Outages
  <2> QED BY <1>2, <1>3, <2>1, <2>2
<1>10. CASE UNCHANGED vars
  BY <1>2, <1>3, <1>10 DEF vars
<1> QED BY <1>4, <1>5, <1>7, <1>8, <1>9, <1>10 DEF Next

\* Then the medians are the middles, and numbers.
LEMMA MediansHold ==
  ASSUME MediansInv
  PROVE  /\ MediansAreMiddle
         /\ Median(g.latency) \in Nat \cup {No} /\ Median(g.jitter) \in Nat \cup {No}
<1>1. /\ heard \in Seq(Readings) /\ "rtt" \in Fields /\ "jitter" \in Fields
      /\ Holds(g.latency, heard, "rtt") /\ Holds(g.jitter, heard, "jitter")
  BY DEF MediansInv, Fields
<1> QED BY <1>1, MedianMiddle DEF MediansAreMiddle

\* The two heaps give the median of a sort over every sample taken while the call was live
\* and its link up, and over no other, for any number of samples.
THEOREM MediansTheorem == Spec => []MediansAreMiddle
<1>1. MediansInv => MediansAreMiddle
  BY MediansHold
<1> QED BY <1>1, MediansInit, MediansNext, PTL DEF Spec

\* A loss percentage is a number.
LEMMA LossPctOk ==
  ASSUME LossInv
  PROVE  LossPct(g) \in Nat \cup {No}
<1>1. g.lost \in Nat /\ g.received \in Nat
  BY DEF LossInv, Covered
<1>2. ASSUME NEW l \in Nat, NEW r \in Nat, r + l # 0 PROVE (100 * l) \div (l + r) \in Nat
  <2> DEFINE n == 100 * l
             d == l + r
  <2>1. n \in Nat /\ d \in Nat /\ d > 0
    BY <1>2
  <2> HIDE DEF n
  <2> HIDE DEF d
  <2>2. n \div d \in Nat
    BY <2>1
  <2> QED BY <2>2 DEF n, d
<1> QED BY <1>1, <1>2 DEF LossPct

\* And the score falls with each of its inputs.
LEMMA ScoresHold ==
  ASSUME MediansInv
  PROVE  WorseNeverScoresHigher
<1> DEFINE latency == Median(g.latency)
           jitter == Median(g.jitter)
           loss == LossPct(g)
<1>1. latency \in Nat \cup {No} /\ jitter \in Nat \cup {No} /\ loss \in Nat \cup {No}
  BY MediansHold, LossPctOk DEF MediansInv
<1>2. Score(g) = IF No \in {latency, jitter, loss} THEN No ELSE ComputeMos(latency, jitter, loss)
  BY DEF Score
<1> HIDE DEF latency
<1> HIDE DEF jitter
<1> HIDE DEF loss
<1>3. ASSUME NEW r \in Readings, NEW l \in {0, 4, 20, 40, 60, 100}, Score(g) # No
      PROVE  ComputeMos(Higher(latency, r.rtt), Higher(jitter, r.jitter), Higher(loss, l))
               \in 100..Score(g)
  <2>1. latency \in Nat /\ jitter \in Nat /\ loss \in Nat /\ Score(g) = ComputeMos(latency, jitter, loss)
    BY <1>1, <1>2, <1>3
  <2>2. r["rtt"] \in Int /\ r["jitter"] \in Int
    BY ReadingOk DEF Fields
  <2> DEFINE lat == Higher(latency, r.rtt)
             jit == Higher(jitter, r.jitter)
             worse == Higher(loss, l)
  <2>3. /\ lat \in Nat /\ latency <= lat /\ jit \in Nat /\ jitter <= jit
        /\ worse \in Nat /\ loss <= worse
    BY <2>1, <2>2 DEF Higher
  <2> HIDE DEF lat
  <2> HIDE DEF jit
  <2> HIDE DEF worse
  <2>4. ComputeMos(lat, jit, worse) \in 100..ComputeMos(latency, jitter, loss)
    BY <2>1, <2>3, MosFalls
  <2> QED BY <2>1, <2>4 DEF lat, jit, worse
<1> QED BY <1>3 DEF WorseNeverScoresHigher, latency, jitter, loss

\* The summary neither flatters the call nor slanders it: no more packets are counted than
\* were lost or received, the downtime is the time the link was down, and a worse link
\* never scores higher.
THEOREM QualityTheorem == Spec => []QualityHonest
<1>1. MediansInv => QualityHonest
  <2> SUFFICES ASSUME MediansInv PROVE QualityHonest
    OBVIOUS
  <2>1. LossNeverInflated
    BY DEF MediansInv, LossInv, Covered, LossNeverInflated
  <2>2. DowntimeAccounted
    BY DEF MediansInv, DowntimeInv
  <2> QED BY <2>1, <2>2, ScoresHold DEF QualityHonest
<1> QED BY <1>1, MediansInit, MediansNext, PTL DEF Spec

-----------------------------------------------------------------------------
(* The screen of a call.                                                   *)

Switch == [shown : BOOLEAN, timer : BOOLEAN]
Panel == [visible : BOOLEAN, timer : BOOLEAN, auto : BOOLEAN, byIdle : BOOLEAN]

\* A session whose streams are a sequence, and that has none before it is joined.
CallOk(c) ==
  /\ {"joined", "status", "camera", "off", "sharing", "live", "roster", "streams"} \subseteq DOMAIN c
  /\ c.joined \in BOOLEAN
  /\ c.streams \in Seq(plan.remotes)

ViewOk(v) ==
  /\ {"order", "pinnedTile", "pinned", "legacy", "large", "mode", "badge", "waiting", "controls"}
       \subseteq DOMAIN v
  /\ v.badge \in Switch /\ v.waiting \in Switch /\ v.controls \in Panel

\* The badge and its timer are those of an outage.
BadgeOk(c, v) == (v.badge.shown \/ v.badge.timer) => Active(c) /\ c.status # "connected"

\* The invitation and its timer.
WaitingOk(c, v) ==
  /\ (Active(c) /\ c.streams # <<>>) => ~v.waiting.shown /\ ~v.waiting.timer
  /\ v.waiting.timer => ShowsReconnecting(c, v)
  /\ (Active(c) /\ c.streams = <<>> /\ ~ShowsReconnecting(c, v)) => v.waiting.shown

\* The controls are hidden only in a call, and by themselves only when they may.
ControlsOk(c, controls) ==
  /\ controls.timer => Active(c) /\ controls.visible /\ controls.auto
  /\ ~Active(c) => controls.visible

ScreenInv ==
  /\ plan \in Plans
  /\ CallOk(call) /\ ViewOk(view)
  /\ BadgeOk(call, view) /\ WaitingOk(call, view) /\ ControlsOk(call, view.controls)

\* A change of the session to c and of the component's own state to w: at most one of its
\* timers fires, or its controls change.
Change(c, w) ==
  /\ CallOk(c) /\ ViewOk(w)
  /\ \/ w.badge = view.badge
     \/ c = call /\ view.badge.timer
  /\ \/ w.waiting = view.waiting
     \/ /\ c = call /\ w.badge = view.badge /\ view.waiting.timer
        /\ w.waiting = [shown |-> TRUE, timer |-> FALSE]
  /\ ControlsOk(call, w.controls)

\* A step that pins no tile and unpins none.
Keeps == \E c, w : Change(c, w) /\ w.pinnedTile = view.pinnedTile /\ Becomes(c, w)

-----------------------------------------------------------------------------
\* What is content does not depend on the order in which it began.
LEMMA RemotesSame ==
  ASSUME NEW in, NEW on, in.remotes = on.remotes, in.legacy = on.legacy, in.streams = on.streams,
         in.independent = on.independent, in.receives = on.receives
  PROVE  ResolveRemoteContents(in) = ResolveRemoteContents(on)
<1> DEFINE sharing == SelectSeq(in.remotes, LAMBDA r : RemoteContentActive(r, in.legacy))
<1>1. SelectSeq(on.remotes, LAMBDA r : RemoteContentActive(r, on.legacy)) = sharing
  OBVIOUS
<1>2. ASSUME NEW r PROVE ResolveRemoteContent(in, r) = ResolveRemoteContent(on, r)
  BY DEF ResolveRemoteContent
<1>3. /\ ResolveRemoteContents(in) =
            IF in.receives THEN [i \in DOMAIN sharing |-> ResolveRemoteContent(in, sharing[i])]
            ELSE <<>>
      /\ ResolveRemoteContents(on) =
            IF in.receives THEN [i \in DOMAIN sharing |-> ResolveRemoteContent(on, sharing[i])]
            ELSE <<>>
  BY <1>1 DEF ResolveRemoteContents
<1> HIDE DEF sharing
<1> QED BY <1>2, <1>3

\* Of the state of the component, the contents of a scene depend on the legacy content alone.
LEMMA SceneAll ==
  ASSUME NEW c, NEW v, NEW t, v.legacy = t.legacy
  PROVE  Scene(c, v).all = Scene(c, t).all
<1>1. ResolveRemoteContents(SceneInput(c, v)) = ResolveRemoteContents(SceneInput(c, t))
  BY RemotesSame DEF SceneInput
<1>2. ResolveLocalContent(SceneInput(c, v)) = ResolveLocalContent(SceneInput(c, t))
  BY DEF SceneInput, ResolveLocalContent, LocalContentActive, LocalContentType
<1> QED BY <1>1, <1>2 DEF Scene, ResolveContentScene

\* And so do the tiles.
LEMMA TilesSame ==
  ASSUME NEW c, NEW v, NEW t, v.legacy = t.legacy
  PROVE  Tiles(c, Scene(c, v)) = Tiles(c, Scene(c, t))
BY SceneAll DEF Tiles, StreamKeyed

\* The state of the component after a change, field by field.
LEMMA Settled ==
  ASSUME NEW old, NEW v, NEW c, NEW w, ViewOk(w), NEW s, s = Settle(old, v, c, w)
  PROVE  /\ DOMAIN s = DOMAIN w
         /\ s.badge = BadgeAfter(old, c, w)
         /\ s.waiting = WaitingAfter(old, ShowsReconnecting(old, v), c,
                                     [w EXCEPT !.badge = BadgeAfter(old, c, w)])
         /\ s.controls = ControlsAfter(old, c, w.controls)
         /\ \/ w.pinnedTile = None
            \/ s.pinnedTile = w.pinnedTile
            \/ ~Has(Tiles(c, Scene(c, s)), w.pinnedTile)
<1> DEFINE badged == [w EXCEPT !.badge = BadgeAfter(old, c, w)]
           pruned ==
        [badged EXCEPT
           !.waiting = WaitingAfter(old, ShowsReconnecting(old, v), c, badged),
           !.controls = ControlsAfter(old, c, w.controls),
           !.large = LargeAfter(c, w),
           !.mode = IF c.camera = "none" THEN "selfie" ELSE c.camera,
           !.pinned = IF (w.pinned = Me /\ c.joined) \/ Has(c.streams, w.pinned) THEN w.pinned
                      ELSE None,
           !.legacy = IF w.legacy # None /\ Has(c.streams, w.legacy.cid) THEN w.legacy ELSE None]
<1>1. s = Followed(c, w, pruned, Scene(c, pruned))
  BY DEF Settle
<1>2. DOMAIN badged = DOMAIN w /\ badged.badge = BadgeAfter(old, c, w)
  BY DEF ViewOk
<1>3. /\ DOMAIN pruned = DOMAIN w
      /\ pruned.badge = BadgeAfter(old, c, w)
      /\ pruned.waiting = WaitingAfter(old, ShowsReconnecting(old, v), c, badged)
      /\ pruned.controls = ControlsAfter(old, c, w.controls)
  <2> HIDE DEF badged
  <2> QED BY <1>2 DEF ViewOk
<1> HIDE DEF pruned
<1>4. /\ DOMAIN s = DOMAIN w
      /\ s.badge = pruned.badge /\ s.waiting = pruned.waiting /\ s.controls = pruned.controls
      /\ s.pinnedTile = PinAfter(c, w, Scene(c, pruned)) /\ s.legacy = pruned.legacy
  BY <1>1, <1>3 DEF Followed, ViewOk
<1>5. Tiles(c, Scene(c, pruned)) = Tiles(c, Scene(c, s))
  BY <1>4, TilesSame
<1>6. \/ w.pinnedTile = None
      \/ s.pinnedTile = w.pinnedTile
      \/ ~Has(Tiles(c, Scene(c, s)), w.pinnedTile)
  BY <1>4, <1>5 DEF PinAfter
<1> QED BY <1>3, <1>4, <1>6

\* What depends on the phase and on the badge of the old state.
LEMMA PhaseActive ==
  ASSUME NEW c, NEW d, CallOk(c), CallOk(d), Phase(c) = Phase(d)
  PROVE  Active(c) = Active(d)
BY DEF Phase, Active, CallOk

\* As many streams are none exactly when the others are none.
LEMMA NoStreams ==
  ASSUME NEW c, NEW d, CallOk(c), CallOk(d), Len(c.streams) = Len(d.streams)
  PROVE  c.streams = <<>> <=> d.streams = <<>>
BY DEF CallOk

\* A change of the session or of an overlay leaves the overlays truthful.
LEMMA SettleOk ==
  ASSUME ScreenInv, plan.hides \in BOOLEAN, NEW c, NEW w, Change(c, w),
         NEW s, s = Settle(call, view, c, w)
  PROVE  /\ ViewOk(s) /\ BadgeOk(c, s) /\ WaitingOk(c, s) /\ ControlsOk(c, s.controls)
<1> USE DEF Change
<1> DEFINE b == BadgeAfter(call, c, w)
           u == [w EXCEPT !.badge = b]
<1>1. /\ DOMAIN s = DOMAIN w /\ s.badge = b
      /\ s.waiting = WaitingAfter(call, ShowsReconnecting(call, view), c, u)
      /\ s.controls = ControlsAfter(call, c, w.controls)
  BY Settled
<1>2. CallOk(call) /\ ViewOk(view) /\ BadgeOk(call, view) /\ WaitingOk(call, view)
  BY DEF ScreenInv
<1>3. b \in Switch /\ ((b.shown \/ b.timer) => Active(c) /\ c.status # "connected")
  <2>1. CASE Phase(call) = Phase(c) /\ call.status = c.status
    <3>1. b = w.badge /\ Active(call) = Active(c)
      BY <1>2, <2>1, PhaseActive DEF BadgeAfter
    <3> QED BY <1>2, <2>1, <3>1 DEF BadgeOk, ViewOk, Switch
  <2>2. CASE ~(Phase(call) = Phase(c) /\ call.status = c.status)
    BY <2>2 DEF BadgeAfter, Switch, ViewOk
  <2> QED BY <2>1, <2>2
<1>4. u.badge = b /\ u.waiting = w.waiting
  BY DEF ViewOk
<1> HIDE DEF b
<1> HIDE DEF u
<1>5. ShowsReconnecting(c, s) = ShowsReconnecting(c, u)
  BY <1>1, <1>4 DEF ShowsReconnecting
<1>6. s.waiting \in Switch /\ WaitingOk(c, s)
  <2>1. CASE /\ Phase(call) = Phase(c) /\ Len(call.streams) = Len(c.streams)
             /\ ShowsReconnecting(call, view) = ShowsReconnecting(c, u)
    <3>1. s.waiting = w.waiting
      BY <1>1, <1>4, <2>1 DEF WaitingAfter
    <3>2. Active(call) = Active(c) /\ (call.streams = <<>> <=> c.streams = <<>>)
      BY <1>2, <2>1, PhaseActive, NoStreams
    <3>3. CASE w.waiting = view.waiting
      BY <1>2, <1>5, <2>1, <3>1, <3>2, <3>3 DEF WaitingOk, ViewOk
    <3>4. CASE view.waiting.timer /\ w.waiting = [shown |-> TRUE, timer |-> FALSE]
      <4>1. Active(call) /\ call.streams = <<>>
        BY <1>2, <3>4 DEF WaitingOk, ShowsReconnecting
      <4> QED BY <1>5, <3>1, <3>2, <3>4, <4>1 DEF WaitingOk, Switch
    <3> QED BY <3>3, <3>4
  <2>2. CASE ~(/\ Phase(call) = Phase(c) /\ Len(call.streams) = Len(c.streams)
               /\ ShowsReconnecting(call, view) = ShowsReconnecting(c, u))
    <3>1. s.waiting = IF ~Active(c) THEN [shown |-> TRUE, timer |-> FALSE]
                      ELSE IF c.streams # <<>> THEN [shown |-> FALSE, timer |-> FALSE]
                      ELSE [shown |-> ~ShowsReconnecting(c, u), timer |-> ShowsReconnecting(c, u)]
      BY <1>1, <2>2 DEF WaitingAfter
    <3>2. ShowsReconnecting(c, u) \in BOOLEAN
      BY DEF ShowsReconnecting
    <3> DEFINE r == ShowsReconnecting(c, u)
    <3>3. ShowsReconnecting(c, s) = r
      BY <1>5
    <3> HIDE DEF r
    <3>4. CASE ~Active(c)
      BY <3>1, <3>4 DEF WaitingOk, Switch
    <3>5. CASE Active(c) /\ c.streams # <<>>
      BY <3>1, <3>5 DEF WaitingOk, Switch
    <3>6. CASE Active(c) /\ c.streams = <<>>
      <4>1. s.waiting = [shown |-> ~r, timer |-> r]
        BY <3>1, <3>6 DEF r
      <4>2. s.waiting.shown = ~r /\ s.waiting.timer = r /\ s.waiting \in Switch
        BY <4>1, <3>2 DEF Switch, r
      <4> QED BY <3>3, <3>6, <4>2 DEF WaitingOk
    <3> QED BY <3>4, <3>5, <3>6
  <2> QED BY <2>1, <2>2
<1>7. s.controls \in Panel /\ ControlsOk(c, s.controls)
  <2>1. CASE Phase(call) = Phase(c)
    BY <1>1, <1>2, <2>1, PhaseActive DEF ControlsAfter, ControlsOk, ViewOk
  <2>2. CASE Phase(call) # Phase(c)
    <3>1. CASE Active(c)
      <4>1. s.controls = [visible |-> TRUE, timer |-> plan.hides, auto |-> plan.hides,
                          byIdle |-> FALSE]
        BY <1>1, <2>2, <3>1 DEF ControlsAfter
      <4> QED BY <3>1, <4>1 DEF ControlsOk, Panel
    <3>2. CASE ~Active(c)
      <4>1. s.controls = [w.controls EXCEPT !.visible = TRUE, !.timer = FALSE]
        BY <1>1, <2>2, <3>2 DEF ControlsAfter
      <4>2. w.controls \in Panel
        BY DEF ViewOk
      <4> QED BY <3>2, <4>1, <4>2 DEF ControlsOk, Panel
    <3> QED BY <3>1, <3>2
  <2> QED BY <2>1, <2>2
<1> QED BY <1>1, <1>3, <1>6, <1>7 DEF ViewOk, BadgeOk

-----------------------------------------------------------------------------
\* Taking an element away leaves a sequence.
LEMMA WithoutSeq ==
  ASSUME NEW S, NEW q \in Seq(S), NEW e
  PROVE  Without(q, e) \in Seq(S)
<1> DEFINE at == CHOOSE i \in DOMAIN q : q[i] = e
<1>1. CASE Has(q, e)
  <2>1. at \in 1 .. Len(q)
    BY <1>1 DEF Has
  <2> HIDE DEF at
  <2>2. SubSeq(q, 1, at - 1) \in Seq(S) /\ SubSeq(q, at + 1, Len(q)) \in Seq(S)
    BY <2>1
  <2>3. Without(q, e) = SubSeq(q, 1, at - 1) \o SubSeq(q, at + 1, Len(q))
    BY <1>1 DEF Without, at
  <2> QED BY <2>2, <2>3
<1>2. CASE ~Has(q, e)
  BY <1>2 DEF Without
<1> QED BY <1>1, <1>2

\* So every such change keeps the invariant.
LEMMA BecomesOk ==
  ASSUME ScreenInv, NEW c, NEW w, Change(c, w), Becomes(c, w)
  PROVE  ScreenInv'
<1>1. plan.hides \in BOOLEAN
  BY CallViewAssumption DEF ScreenInv
<1>2. call' = c /\ view' = Settle(call, view, c, w) /\ plan' = plan
  BY DEF Becomes
<1>4. ViewOk(view') /\ BadgeOk(c, view') /\ WaitingOk(c, view') /\ ControlsOk(c, view'.controls)
  BY <1>1, <1>2, SettleOk
<1> QED BY <1>2, <1>4 DEF Change, ScreenInv, CallOk, ViewOk, BadgeOk, WaitingOk, ControlsOk,
                         ShowsReconnecting, Active

\* A change of the session alone.
LEMMA PublishOk ==
  ASSUME ScreenInv, NEW c, CallOk(c), Publish(c)
  PROVE  Keeps
<1>1. Change(c, view)
  BY DEF ScreenInv, Change
<1> QED BY <1>1 DEF Publish, Keeps

\* Steps of the session: each leaves the call well formed.
LEMMA EditOk ==
  ASSUME ScreenInv, NEW i, NEW r, Edit(i, r)
  PROVE  Keeps
<1>1. CallOk([call EXCEPT !.roster[i] = r])
  BY DEF ScreenInv, CallOk
<1> QED BY <1>1, PublishOk DEF Edit

\* Somebody comes or goes, or a stream does.
LEMMA PeopleOk ==
  ASSUME ScreenInv, NEW cid \in plan.remotes,
         Enter(cid) \/ Depart(cid) \/ StreamArrives(cid) \/ StreamGone(cid)
  PROVE  Keeps
<1> USE DEF CallOk
<1>1. CallOk(call)
  BY DEF ScreenInv
<1>2. CASE Enter(cid)
  <2>1. CallOk([call EXCEPT !.roster = Append(@, Person(cid))])
    BY <1>1
  <2> QED BY <1>2, <2>1, PublishOk DEF Enter
<1>3. Without(call.streams, cid) \in Seq(plan.remotes)
  BY <1>1, WithoutSeq
<1>4. CASE Depart(cid)
  <2> DEFINE c == [call EXCEPT !.roster = SelectSeq(@, LAMBDA r : r.cid # cid),
                               !.streams = Without(@, cid)]
  <2>1. CallOk(c)
    BY <1>1, <1>3
  <2>2. Publish(c)
    BY <1>4 DEF Depart
  <2> QED BY <2>1, <2>2, PublishOk
<1>5. CASE StreamArrives(cid)
  <2>1. CallOk([call EXCEPT !.streams = Append(@, cid)])
    BY <1>1
  <2> QED BY <1>5, <2>1, PublishOk DEF StreamArrives
<1>6. CASE StreamGone(cid)
  <2>1. CallOk([call EXCEPT !.streams = Without(@, cid)])
    BY <1>1, <1>3
  <2> QED BY <1>6, <2>1, PublishOk DEF StreamGone
<1> QED BY <1>2, <1>4, <1>5, <1>6

\* The session before and after a call.
LEMMA NoCallOk ==
  /\ CallOk(NoCall)
  /\ CallOk([NoCall EXCEPT !.joined = TRUE, !.camera = "selfie"])
BY DEF CallOk, NoCall

\* What the user shares or turns off.
LEMMA OwnOk ==
  ASSUME ScreenInv, NEW flag \in BOOLEAN, Share(flag) \/ ShareFlows(flag) \/ CameraOff(flag)
  PROVE  Keeps
<1> DEFINE mode   == CASE plan.independent -> call.camera
                       [] ~plan.independent /\ flag -> "screenShare"
                       [] OTHER -> "selfie"
<1>1. /\ CallOk([call EXCEPT !.sharing = flag, !.live = FALSE, !.camera = mode])
      /\ CallOk([call EXCEPT !.live = flag]) /\ CallOk([call EXCEPT !.off = flag])
  <2> HIDE DEF mode
  <2> QED BY DEF ScreenInv, CallOk
<1>2. CASE Share(flag)
  <2>1. Publish([call EXCEPT !.sharing = flag, !.live = FALSE, !.camera = mode])
    BY <1>2 DEF Share
  <2> QED BY <1>1, <2>1, PublishOk
<1> QED BY <1>1, <1>2, PublishOk DEF ShareFlows, CameraOff

\* The camera mode and the connection status.
LEMMA ModeOk ==
  ASSUME ScreenInv, NEW m, TurnCamera(m) \/ ConnectionStatus(m)
  PROVE  Keeps
<1>1. CallOk([call EXCEPT !.camera = m]) /\ CallOk([call EXCEPT !.status = m])
  BY DEF ScreenInv, CallOk
<1> QED BY <1>1, PublishOk DEF TurnCamera, ConnectionStatus

\* A message changes at most the content of its sender and what is remembered of it.
LEMMA MessageOk ==
  ASSUME ScreenInv, NEW i, NEW content, NEW fresh \in BOOLEAN, ContentState(i, content, fresh)
  PROVE  Keeps
<1>1. PICK c, legacy : /\ c = IF fresh THEN [call EXCEPT !.roster[i].content = content] ELSE call
                       /\ Becomes(c, [view EXCEPT !.legacy = legacy])
  BY DEF ContentState
<1>2. CallOk(c)
  BY <1>1 DEF ScreenInv, CallOk
<1> DEFINE w == [view EXCEPT !.legacy = legacy]
<1>3. /\ ViewOk(w) /\ w.badge = view.badge /\ w.waiting = view.waiting
      /\ w.controls = view.controls /\ w.pinnedTile = view.pinnedTile
  BY DEF ScreenInv, ViewOk
<1> HIDE DEF w
<1>4. Becomes(c, w)
  BY <1>1 DEF w
<1> QED BY <1>2, <1>3, <1>4 DEF ScreenInv, Change, Keeps

-----------------------------------------------------------------------------
\* Steps of the component itself.

\* A change of the controls alone.
LEMMA ControlsStep ==
  ASSUME ScreenInv, NEW w, ViewOk(w), w.badge = view.badge, w.waiting = view.waiting,
         w.pinnedTile = view.pinnedTile, ControlsOk(call, w.controls), Update(w)
  PROVE  Keeps
BY DEF ScreenInv, Update, Change, Keeps

\* What a gesture may do to the controls.
LEMMA ShownOk ==
  ASSUME NEW c, Active(c), NEW k \in Panel, ControlsOk(c, k)
  PROVE  Shown(k) \in Panel /\ ControlsOk(c, Shown(k))
<1>1. CASE k.byIdle
  BY <1>1 DEF Shown, Panel, ControlsOk
<1>2. CASE ~k.byIdle
  <2>1. Shown(k) = [k EXCEPT !.visible = TRUE, !.timer = k.timer \/ k.auto]
    BY <1>2 DEF Shown
  <2>2. Shown(k) \in Panel /\ Shown(k).visible = TRUE /\ Shown(k).auto = k.auto
        /\ Shown(k).timer = (k.timer \/ k.auto)
    BY <2>1 DEF Panel
  <2> QED BY <2>2 DEF ControlsOk
<1> QED BY <1>1, <1>2

\* The three timers of the overlays.
LEMMA TimersOk ==
  ASSUME ScreenInv, BadgeDue \/ WaitingDue \/ IdleDue
  PROVE  Keeps
<1>1. ViewOk(view) /\ CallOk(call) /\ ControlsOk(call, view.controls)
  BY DEF ScreenInv
<1>2. CASE BadgeDue
  <2> DEFINE w == [view EXCEPT !.badge = [shown |-> TRUE, timer |-> FALSE]]
  <2>1. ViewOk(w) /\ w.waiting = view.waiting /\ w.controls = view.controls
        /\ w.pinnedTile = view.pinnedTile
    BY <1>1 DEF ViewOk, Switch
  <2>2. view.badge.timer /\ Becomes(call, w)
    BY <1>2 DEF BadgeDue, Update
  <2> HIDE DEF w
  <2> QED BY <1>1, <2>1, <2>2 DEF Change, Keeps
<1>3. CASE WaitingDue
  <2> DEFINE w == [view EXCEPT !.waiting = [shown |-> TRUE, timer |-> FALSE]]
  <2>1. /\ ViewOk(w) /\ w.badge = view.badge /\ w.controls = view.controls
        /\ w.waiting = [shown |-> TRUE, timer |-> FALSE] /\ w.pinnedTile = view.pinnedTile
    BY <1>1 DEF ViewOk, Switch
  <2>2. view.waiting.timer /\ Becomes(call, w)
    BY <1>3 DEF WaitingDue, Update
  <2> HIDE DEF w
  <2> QED BY <1>1, <2>1, <2>2 DEF Change, Keeps
<1>4. CASE IdleDue
  <2> DEFINE k == [view.controls EXCEPT !.visible = FALSE, !.timer = FALSE, !.byIdle = TRUE]
             w == [view EXCEPT !.controls = k]
  <2>1. view.controls.timer /\ Update(w)
    BY <1>4 DEF IdleDue
  <2>2. k \in Panel /\ ControlsOk(call, k)
    BY <1>1, <2>1 DEF ViewOk, Panel, ControlsOk
  <2> HIDE DEF k
  <2>3. ViewOk(w) /\ w.badge = view.badge /\ w.waiting = view.waiting /\ w.controls = k
        /\ w.pinnedTile = view.pinnedTile
    BY <1>1, <2>2 DEF ViewOk
  <2> HIDE DEF w
  <2> QED BY <2>1, <2>2, <2>3, ControlsStep
<1> QED BY <1>2, <1>3, <1>4

\* Taps, touches, swaps and the pointer that leaves.
LEMMA GesturesOk ==
  ASSUME ScreenInv, Touch \/ Tap \/ Swap
  PROVE  Keeps
<1>1. ViewOk(view) /\ CallOk(call) /\ ControlsOk(call, view.controls)
  BY DEF ScreenInv
<1>2. Active(call) /\ view.controls \in Panel
  BY <1>1 DEF Touch, Tap, Swap, ViewOk
<1>3. Shown(view.controls) \in Panel /\ ControlsOk(call, Shown(view.controls))
  BY <1>1, <1>2, ShownOk
<1>4. ASSUME NEW k \in Panel, ControlsOk(call, k), Update([view EXCEPT !.controls = k])
      PROVE  Keeps
  <2> DEFINE w == [view EXCEPT !.controls = k]
  <2>1. ViewOk(w) /\ w.badge = view.badge /\ w.waiting = view.waiting /\ w.controls = k
        /\ w.pinnedTile = view.pinnedTile
    BY <1>1 DEF ViewOk
  <2> HIDE DEF w
  <2>2. Update(w)
    BY <1>4 DEF w
  <2> QED BY <1>4, <2>1, <2>2, ControlsStep
<1>5. CASE Touch
  BY <1>3, <1>4, <1>5 DEF Touch
<1>6. CASE Tap
  <2> DEFINE open == [view.controls EXCEPT !.visible = TRUE, !.timer = FALSE]
  <2>1. open \in Panel /\ ControlsOk(call, open)
    BY <1>2 DEF Panel, ControlsOk
  <2>2. Hidden(view.controls) \in Panel /\ ControlsOk(call, Hidden(view.controls))
    BY <1>2 DEF Hidden, Panel, ControlsOk
  <2>3. \E k \in {open, Hidden(view.controls), Shown(view.controls)} :
          Update([view EXCEPT !.controls = k])
    BY <1>6 DEF Tap
  <2> HIDE DEF open
  <2> QED BY <1>3, <1>4, <2>1, <2>2, <2>3
<1>7. CASE Swap
  <2> DEFINE large == ~LargeLocal(call, view)
             w == [view EXCEPT !.large = large, !.controls = Shown(@)]
  <2>1. Update(w)
    BY <1>7 DEF Swap
  <2> HIDE DEF large
  <2>2. /\ ViewOk(w) /\ w.badge = view.badge /\ w.waiting = view.waiting
        /\ w.controls = Shown(view.controls) /\ w.pinnedTile = view.pinnedTile
    BY <1>1, <1>3 DEF ViewOk
  <2> HIDE DEF w
  <2> QED BY <1>3, <2>1, <2>2, ControlsStep
<1> QED BY <1>5, <1>6, <1>7

\* A participant is pinned.
LEMMA PinParticipantOk ==
  ASSUME ScreenInv, NEW x, PinParticipant(x)
  PROVE  Keeps
<1>1. ViewOk(view) /\ ControlsOk(call, view.controls)
  BY DEF ScreenInv
<1>2. PICK y : Update([view EXCEPT !.pinned = y])
  BY DEF PinParticipant
<1> DEFINE w == [view EXCEPT !.pinned = y]
<1>3. ViewOk(w) /\ w.badge = view.badge /\ w.waiting = view.waiting /\ w.controls = view.controls
      /\ w.pinnedTile = view.pinnedTile
  BY <1>1 DEF ViewOk
<1> QED BY <1>1, <1>2, <1>3, ControlsStep

\* A tile is pinned or let go.
LEMMA PinTileOk ==
  ASSUME ScreenInv, NEW x, PinTile(x)
  PROVE  ScreenInv'
<1>1. ViewOk(view) /\ ControlsOk(call, view.controls) /\ CallOk(call)
  BY DEF ScreenInv
<1>2. PICK y : Update([view EXCEPT !.pinnedTile = y])
  BY DEF PinTile
<1> DEFINE w == [view EXCEPT !.pinnedTile = y]
<1>3. ViewOk(w) /\ w.badge = view.badge /\ w.waiting = view.waiting /\ w.controls = view.controls
  BY <1>1 DEF ViewOk
<1> HIDE DEF w
<1>4. Change(call, w) /\ Becomes(call, w)
  BY <1>1, <1>2, <1>3 DEF Change, Update, w
<1> QED BY <1>4, BecomesOk

\* The screen before the call.
LEMMA ScreenStarts == ScreenInit => ScreenInv
<1> SUFFICES ASSUME ScreenInit PROVE ScreenInv
  OBVIOUS
<1>1. plan \in Plans /\ call = NoCall /\ view = FirstView
  BY DEF ScreenInit
<1>2. CallOk(call)
  BY <1>1, NoCallOk
<1>3. /\ ViewOk(view) /\ ~view.badge.shown /\ ~view.badge.timer
      /\ ~view.waiting.timer /\ ~view.controls.timer /\ view.controls.visible
  BY <1>1 DEF FirstView, ViewOk, Switch, Panel
<1>4. ~Active(call)
  BY <1>1 DEF NoCall, Active
<1> QED BY <1>1, <1>2, <1>3, <1>4 DEF ScreenInv, BadgeOk, WaitingOk, ControlsOk

\* Nothing changes.
LEMMA ScreenStutter ==
  ASSUME ScreenInv, UNCHANGED screenVars
  PROVE  ScreenInv'
BY DEF ScreenInv, screenVars, CallOk, ViewOk, BadgeOk, WaitingOk, ControlsOk, ShowsReconnecting, Active

\* Every step keeps the pin, pins a tile, or changes nothing.
LEMMA StepKeeps ==
  ASSUME ScreenInv, ScreenNext
  PROVE  \/ Keeps
         \/ \E cid \in plan.remotes \cup {Me}, kind \in {"camera", "content"} : PinTile(<<cid, kind>>)
<1>1. CASE Join \/ End
  BY <1>1, NoCallOk, PublishOk DEF Join, End
<1>2. ASSUME NEW cid \in plan.remotes,
             Enter(cid) \/ Depart(cid) \/ StreamArrives(cid) \/ StreamGone(cid)
      PROVE  Keeps
  BY <1>2, PeopleOk
<1>3. ASSUME NEW i, NEW flag \in BOOLEAN, Presume(i, flag) \/ ContentFlows(i, flag)
      PROVE  Keeps
  BY <1>3, EditOk DEF Presume, ContentFlows
<1>4. ASSUME NEW i, NEW content, Present(i, content)
      PROVE  Keeps
  BY <1>4, EditOk DEF Present
<1>5. ASSUME NEW i, NEW content, NEW fresh \in BOOLEAN, ContentState(i, content, fresh)
      PROVE  Keeps
  BY <1>5, MessageOk
<1>6. ASSUME NEW flag \in BOOLEAN, Share(flag) \/ ShareFlows(flag) \/ CameraOff(flag)
      PROVE  Keeps
  BY <1>6, OwnOk
<1>7. ASSUME NEW m, TurnCamera(m) \/ ConnectionStatus(m)
      PROVE  Keeps
  BY <1>7, ModeOk
<1>8. CASE BadgeDue \/ WaitingDue \/ IdleDue
  BY <1>8, TimersOk
<1>9. CASE Touch \/ Tap \/ Swap
  BY <1>9, GesturesOk
<1>10. ASSUME NEW x, PinParticipant(x)
       PROVE  Keeps
  BY <1>10, PinParticipantOk
<1> QED BY <1>1, <1>2, <1>3, <1>4, <1>5, <1>6, <1>7, <1>8, <1>9, <1>10 DEF ScreenNext

\* Every step keeps the invariant.
LEMMA ScreenSteps == ScreenInv /\ [ScreenNext]_screenVars => ScreenInv'
<1> SUFFICES ASSUME ScreenInv, [ScreenNext]_screenVars PROVE ScreenInv'
  OBVIOUS
<1>1. CASE Keeps
  BY <1>1, BecomesOk DEF Keeps
<1>2. ASSUME NEW x, PinTile(x) PROVE ScreenInv'
  BY <1>2, PinTileOk
<1>3. CASE UNCHANGED screenVars
  BY <1>3, ScreenStutter
<1> QED BY <1>1, <1>2, <1>3, StepKeeps

\* And the invariant is what the overlays promise.
LEMMA ScreenTruthful == ScreenInv => OverlaysTruthful
BY DEF ScreenInv, BadgeOk, WaitingOk, ControlsOk, OverlaysTruthful

\* A pin that changes was let go by the user, or its tile is gone.
LEMMA PinStep ==
  ASSUME ScreenInv, [ScreenNext]_screenVars
  PROVE  [\/ view.pinnedTile = None \/ view'.pinnedTile = view.pinnedTile
          \/ \E cid \in plan.remotes \cup {Me}, kind \in {"camera", "content"} : PinTile(<<cid, kind>>)
          \/ ~Has(Tiles(call', Scene(call', view')), view.pinnedTile)]_screenVars
<1>1. CASE Keeps
  <2>1. PICK c, w : Change(c, w) /\ w.pinnedTile = view.pinnedTile /\ Becomes(c, w)
    BY <1>1 DEF Keeps
  <2>2. ViewOk(w) /\ call' = c /\ view' = Settle(call, view, c, w)
    BY <2>1 DEF Change, Becomes
  <2>3. \/ w.pinnedTile = None
        \/ view'.pinnedTile = w.pinnedTile
        \/ ~Has(Tiles(c, Scene(c, view')), w.pinnedTile)
    <3>1. \A s : s = Settle(call, view, c, w) =>
            \/ w.pinnedTile = None
            \/ s.pinnedTile = w.pinnedTile
            \/ ~Has(Tiles(c, Scene(c, s)), w.pinnedTile)
      <4>1. ASSUME NEW s, s = Settle(call, view, c, w)
            PROVE  \/ w.pinnedTile = None
                   \/ s.pinnedTile = w.pinnedTile
                   \/ ~Has(Tiles(c, Scene(c, s)), w.pinnedTile)
        BY <2>2, <4>1, Settled
      <4> QED BY <4>1
    <3> QED BY <2>2, <3>1
  <2> QED BY <2>1, <2>2, <2>3
<1> QED BY <1>1, StepKeeps

\* In every state of a call's screen the overlays and their timers are those of the
\* session's phase and status.
THEOREM ScreenInvariant == ScreenSpec => []ScreenInv
BY ScreenStarts, ScreenSteps, PTL DEF ScreenSpec

\* The reconnecting badge, the waiting overlay and the controls never tell of a state the
\* session is not in, whatever timer fires late.
THEOREM OverlaysTheorem == ScreenSpec => []OverlaysTruthful
BY ScreenInvariant, ScreenTruthful, PTL

\* A pinned tile stays pinned until the user pins another or it is gone from the screen.
THEOREM PinTheorem == ScreenSpec => PinKept
<1>1. ScreenInv /\ [ScreenNext]_screenVars =>
        [\/ view.pinnedTile = None \/ view'.pinnedTile = view.pinnedTile
         \/ \E cid \in plan.remotes \cup {Me}, kind \in {"camera", "content"} : PinTile(<<cid, kind>>)
         \/ ~Has(Tiles(call', Scene(call', view')), view.pinnedTile)]_screenVars
  BY PinStep
<1> QED BY <1>1, ScreenInvariant, PTL DEF ScreenSpec, PinKept
=============================================================================
