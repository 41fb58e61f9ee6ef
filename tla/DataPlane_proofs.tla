--------------------------- MODULE DataPlane_proofs ---------------------------
(***************************************************************************)
(* Proofs about the data planes, the simulated one with the Event Collector *)
(* for any ring, bucket, channels and number of flows and subscribers, and  *)
(* the archived XDP firewall for any files, packets and size of its map.    *)
(***************************************************************************)
EXTENDS EventCollector, XdpFirewall, FiniteSetTheorems, SequenceTheorems, TLAPS

-----------------------------------------------------------------------------
(* The inductive invariant *)

Known == 1..flows

\* The flow that is accepted and not remembered yet.
Tracked == IF pc = "track" THEN {flows} ELSE {}

\* A flow is tracked, open, being ended, or over: one of them.  Those being ended
\* are in the order in which they began.
FlowsInv ==
  /\ flows \in 0..MaxFlows /\ left \in 0..PerTick
  /\ pc \in {"tick", "flows", "track", "ending"}
  /\ open \in [DOMAIN open -> 0..LongLife] /\ DOMAIN open \subseteq Known
  /\ done \in Seq(Known) /\ ended \subseteq Known
  /\ pc # "ending" => done = <<>>
  /\ pc = "track" => flows \in Known /\ flows \notin DOMAIN open \cup ended
  /\ DOMAIN open \cap ended = {}
  /\ \A i \in 1..Len(done) : done[i] \notin ended \cup DOMAIN open
  /\ \A i, j \in 1..Len(done) : i < j => done[i] < done[j]
  /\ IsFiniteSet(DOMAIN open) /\ Cardinality(DOMAIN open) <= MaxOpen

CounterTypes ==
  /\ next \in 0..MaxIds
  /\ c \in [accepted : 0..MaxFlows, dropped : 0..MaxFlows, eventsLost : 0..MaxFlows,
            reasons : [Reasons -> 0..MaxFlows], hits : 0..MaxFlows]
CountersInv == CounterTypes /\ CountersAddUp /\ c.eventsLost <= c.dropped

BucketTypes == bucket \in 0..Full /\ since \in 0..Enough /\ level \in 0..Full
BucketInv == BucketTypes /\ BucketExact

\* The ring holds the latest events, numbered without a hole.
RingInv ==
  /\ buf \in Seq(Event) /\ Len(buf) = Smaller(next, BufSize)
  /\ \A i \in 1..Len(buf) : buf[i].id = next - Len(buf) + i

\* A dropped flow has one event, and the end of a flow is its last one.
PairsInv ==
  /\ \A i \in 1..Len(buf) :
       /\ buf[i].flow \in Known
       /\ buf[i].type = "FLOW_END" => buf[i].flow \in ended
       /\ buf[i].type = "FLOW_DROP" =>
            /\ buf[i].flow \notin Tracked \cup DOMAIN open \cup ended
            /\ \A k \in 1..Len(done) : done[k] # buf[i].flow
  /\ \A i, j \in 1..Len(buf) :
       buf[i].flow = buf[j].flow /\ i < j => buf[i].type = "FLOW_NEW" /\ buf[j].type = "FLOW_END"

\* Of what was published, the past is complete.
StreamTypes ==
  /\ DOMAIN subs \subseteq Subscribers
  /\ \A s \in DOMAIN subs : subs[s] \in Seq(1..MaxIds) /\ Len(subs[s]) <= ChanSize
  /\ got \in [Subscribers -> Seq(1..MaxIds)]
  /\ full \in [Subscribers -> SUBSET (1..MaxIds)]
  /\ from \in [Subscribers -> 0..MaxIds]
StreamInv ==
  /\ StreamTypes
  /\ \A s \in Subscribers : full[s] \subseteq 1..next /\ from[s] <= next
  /\ StreamFaithful

IInv == FlowsInv /\ CountersInv /\ BucketInv /\ RingInv /\ PairsInv /\ StreamInv

-----------------------------------------------------------------------------
(* The bounds *)

\* Capacities are positive numbers; what they add up to is, too.
LEMMA Bounds ==
  ASSUME CollectorAssumption
  PROVE  /\ BufSize \in Nat \ {0} /\ ChanSize \in Nat \ {0} /\ Capacity \in Nat \ {0}
         /\ Unit \in Nat \ {0} /\ Refill \in Nat \ {0} /\ MaxOpen \in Nat \ {0}
         /\ PerTick \in Nat \ {0} /\ LongLife \in Nat \ {0}
         /\ ShortLife \in Nat /\ MaxFlows \in Nat /\ MaxIds \in Nat /\ MaxIds = 2 * MaxFlows
         /\ Full \in Nat \ {0} /\ Unit <= Full
<1>1. /\ BufSize \in Nat \ {0} /\ ChanSize \in Nat \ {0} /\ Capacity \in Nat \ {0}
      /\ Unit \in Nat \ {0} /\ Refill \in Nat \ {0} /\ MaxOpen \in Nat \ {0}
      /\ PerTick \in Nat \ {0} /\ LongLife \in Nat \ {0} /\ ShortLife \in Nat /\ MaxFlows \in Nat
  BY DEF CollectorAssumption
<1>2. \A n, u \in Nat \ {0} : n * u \in Nat \ {0} /\ u <= n * u
  OBVIOUS
<1> QED BY <1>1, <1>2 DEF Full, MaxIds

\* After Enough ticks any bucket is full.
LEMMA EnoughFills ==
  ASSUME CollectorAssumption
  PROVE  Enough \in Nat \ {0} /\ Full <= Enough * Refill
<1>1. Full \in Nat /\ Refill \in Nat \ {0}
  BY Bounds
<1> DEFINE q == Full \div Refill
<1>2. q \in Nat /\ Full % Refill \in 0..Refill-1 /\ Full = Refill * q + (Full % Refill)
  BY <1>1
<1>3. (q + 1) * Refill = Refill * q + Refill /\ Refill * q \in Nat
  BY <1>1, <1>2
<1> QED BY <1>1, <1>2, <1>3 DEF Enough

-----------------------------------------------------------------------------
(* The bucket *)

\* What a bucket holds once it is refilled.
LEMMA RefilledType ==
  ASSUME CollectorAssumption, BucketTypes
  PROVE  Refilled \in 0..Full /\ since * Refill \in Nat
<1>1. Full \in Nat /\ Refill \in Nat /\ bucket \in Nat /\ since \in Nat
  BY Bounds, EnoughFills DEF BucketTypes
<1>2. since * Refill \in Nat
  BY <1>1
<1> QED BY <1>1, <1>2 DEF Refilled, Smaller

\* A tick brings Refill to either bucket, up to its capacity.
LEMMA BucketTick ==
  ASSUME CollectorAssumption, BucketInv, Tick
  PROVE  BucketInv'
<1>1. since' = Smaller(since + 1, Enough) /\ level' = Larger(0, level - Refill) /\ bucket' = bucket
  BY DEF Tick
<1>2. /\ Full \in Nat /\ Refill \in Nat \ {0} /\ Enough \in Nat \ {0} /\ Full <= Enough * Refill
      /\ bucket \in 0..Full /\ since \in 0..Enough /\ level \in 0..Full
  BY Bounds, EnoughFills DEF BucketInv, BucketTypes
<1>3. Full - level = Smaller(Full, bucket + since * Refill)
  BY DEF BucketInv, BucketExact, Refilled
<1> DEFINE x == since * Refill
           y == since' * Refill
<1>4. x \in Nat
  BY <1>2
<1>5. \/ since' = since + 1 /\ y = x + Refill
      \/ since = Enough /\ since' = Enough /\ y = x /\ x >= Full
  BY <1>1, <1>2 DEF Smaller
<1>6. since' \in 0..Enough
  BY <1>1, <1>2 DEF Smaller
<1> HIDE DEF x, y
<1>7. level' \in 0..Full
  BY <1>1, <1>2 DEF Larger
<1>8. Full - level' = Smaller(Full, bucket + y)
  BY <1>1, <1>2, <1>3, <1>4, <1>5 DEF Smaller, Larger, x
<1> QED BY <1>1, <1>2, <1>6, <1>7, <1>8 DEF BucketInv, BucketTypes, BucketExact, Refilled, y

\* A drop takes a token or finds that there is none.
LEMMA BucketDrop ==
  ASSUME CollectorAssumption, BucketInv, NEW f, NEW r, EmitDrop(f, r)
  PROVE  BucketInv'
<1>1. /\ Refilled \in 0..Full /\ Full - level = Refilled /\ level \in 0..Full
      /\ Full \in Nat /\ Unit \in Nat \ {0} /\ Enough \in Nat /\ Refill \in Nat
  BY Bounds, EnoughFills, RefilledType DEF BucketInv, BucketTypes, BucketExact
<1>2. ASSUME since' = 0, bucket' \in 0..Full, level' \in 0..Full, Full - level' = bucket'
      PROVE  BucketInv'
  <2>1. since' * Refill = 0
    BY <1>1, <1>2
  <2>2. Refilled' = Smaller(Full, bucket')
    BY <1>2, <2>1 DEF Refilled
  <2>3. BucketTypes'
    BY <1>1, <1>2 DEF BucketTypes
  <2>4. Smaller(Full, bucket') = bucket'
    BY <1>1, <1>2 DEF Smaller
  <2> QED BY <1>2, <2>2, <2>3, <2>4 DEF BucketInv, BucketExact
<1>3. CASE Refilled < Unit
  <2>1. bucket' = Refilled /\ since' = 0 /\ level' = level
    BY <1>3 DEF EmitDrop, SinceLost
  <2> QED BY <1>1, <1>2, <2>1
<1>4. CASE ~(Refilled < Unit)
  <2>1. bucket' = Refilled - Unit /\ since' = 0 /\ level' = level + Unit
    BY <1>4 DEF EmitDrop
  <2> QED BY <1>1, <1>2, <1>4, <2>1
<1> QED BY <1>3, <1>4

\* The lazy bucket holds what a bucket refilled at every tick would hold.
LEMMA BucketStep ==
  ASSUME CollectorAssumption, BucketInv, [CollectorNext]_collectorVars
  PROVE  BucketInv'
<1>1. ASSUME UNCHANGED <<bucket, since, level>> PROVE BucketInv'
  BY <1>1 DEF BucketInv, BucketTypes, BucketExact, Refilled
<1>2. CASE Tick
  BY <1>2, BucketTick
<1>3. CASE Flow
  BY <1>1, <1>3, BucketDrop DEF Flow, EmitAccept
<1>4. CASE \/ Track \/ EndFlows \/ EndFlow \/ TickOver \/ UNCHANGED collectorVars
           \/ \E s \in Subscribers : Subscribe(s) \/ Relay(s) \/ Unsubscribe(s)
  <2>1. UNCHANGED <<bucket, since, level>>
    BY <1>4 DEF Track, EndFlows, EndFlow, EmitEnd, TickOver, Subscribe, Relay, Unsubscribe, collectorVars, collector
  <2> QED BY <1>1, <2>1
<1> QED BY <1>2, <1>3, <1>4 DEF CollectorNext, Simulate

-----------------------------------------------------------------------------
(* The flows *)

\* The first of a list and the rest of it.
LEMMA FirstAndRest ==
  ASSUME NEW S, NEW s \in Seq(S), s # <<>>
  PROVE  /\ Len(s) \in Nat \ {0} /\ Head(s) = s[1] /\ s[1] \in S
         /\ Tail(s) \in Seq(S) /\ Len(Tail(s)) = Len(s) - 1
         /\ \A i \in 1..Len(s) - 1 : Tail(s)[i] = s[i + 1]
OBVIOUS

\* A tick makes the open flows older.
LEMMA FlowsTick ==
  ASSUME CollectorAssumption, FlowsInv, Tick
  PROVE  FlowsInv'
<1>1. /\ open' = [f \in DOMAIN open |-> Smaller(open[f] + 1, LongLife)] /\ left' \in 0..PerTick
      /\ pc' = "flows" /\ pc = "tick" /\ UNCHANGED <<done, flows, ended>>
  BY DEF Tick
<1>2. DOMAIN open' = DOMAIN open /\ open' \in [DOMAIN open' -> 0..LongLife]
  <2>1. open \in [DOMAIN open -> 0..LongLife] /\ LongLife \in Nat
    BY Bounds DEF FlowsInv
  <2>2. \A n \in 0..LongLife : Smaller(n + 1, LongLife) \in 0..LongLife
    BY <2>1 DEF Smaller
  <2> QED BY <1>1, <2>1, <2>2
<1> QED BY <1>1, <1>2 DEF FlowsInv, Known

\* A new flow is none of those known.
LEMMA FlowsFlow ==
  ASSUME CollectorAssumption, FlowsInv, Flow
  PROVE  FlowsInv'
<1>1. /\ pc = "flows" /\ left > 0 /\ flows < MaxFlows /\ flows' = flows + 1 /\ left' = left - 1
      /\ pc' \in {"flows", "track"} /\ UNCHANGED <<open, done, ended>>
  BY DEF Flow
<1>2. /\ flows \in Nat /\ MaxFlows \in Nat /\ PerTick \in Nat /\ left \in 0..PerTick
      /\ done = <<>> /\ flows + 1 \notin 1..flows
  BY <1>1, Bounds DEF FlowsInv
<1>3. /\ flows' \in 0..MaxFlows /\ left' \in 0..PerTick /\ Known \subseteq Known'
      /\ flows' \in Known' /\ flows' \notin Known
  BY <1>1, <1>2 DEF Known
<1>4. done' \in Seq(Known') /\ Len(done') = 0 /\ done' = <<>>
  BY <1>1, <1>2
<1>5. flows' \notin DOMAIN open' \cup ended'
  BY <1>1, <1>3 DEF FlowsInv
<1> QED BY <1>1, <1>3, <1>4, <1>5 DEF FlowsInv

\* The flow that was accepted is remembered when there is room.
LEMMA FlowsTrack ==
  ASSUME CollectorAssumption, FlowsInv, Track
  PROVE  FlowsInv'
<1>1. pc = "track" /\ pc' = "flows" /\ UNCHANGED <<left, done, flows, ended>>
  BY DEF Track
<1>2. done = <<>> /\ flows \in Known /\ flows \notin DOMAIN open \cup ended
  BY <1>1 DEF FlowsInv
<1>3. CASE Room
  <2>1. open' = With(open, flows, 0)
    BY <1>3 DEF Track
  <2>2. DOMAIN open' = DOMAIN open \cup {flows} /\ open' \in [DOMAIN open' -> 0..LongLife]
    BY <2>1, Bounds DEF With, FlowsInv
  <2>3. IsFiniteSet(DOMAIN open') /\ Cardinality(DOMAIN open') <= MaxOpen
    <3>1. IsFiniteSet(DOMAIN open) /\ Cardinality(DOMAIN open) \in Nat /\ MaxOpen \in Nat
      BY FS_CardinalityType, Bounds DEF FlowsInv
    <3>2. Cardinality(DOMAIN open) < MaxOpen
      BY <1>3 DEF Room
    <3>3. /\ IsFiniteSet(DOMAIN open \cup {flows})
          /\ Cardinality(DOMAIN open \cup {flows}) \in {Cardinality(DOMAIN open), Cardinality(DOMAIN open) + 1}
      BY <3>1, FS_AddElement
    <3> QED BY <2>2, <3>1, <3>2, <3>3
  <2>4. DOMAIN open' \subseteq Known' /\ DOMAIN open' \cap ended' = {}
    BY <1>1, <1>2, <2>2 DEF FlowsInv, Known
  <2>5. Len(done') = 0 /\ done' \in Seq(Known')
    BY <1>1, <1>2
  <2> QED BY <1>1, <1>2, <2>2, <2>3, <2>4, <2>5 DEF FlowsInv, Known
<1>4. CASE ~Room
  <2>1. open' = open
    BY <1>4 DEF Track
  <2> QED BY <1>1, <2>1 DEF FlowsInv, Known
<1> QED BY <1>3, <1>4

\* The flows that end are taken out, in the order in which they began.
LEMMA FlowsEnding ==
  ASSUME CollectorAssumption, FlowsInv, EndFlows
  PROVE  FlowsInv'
<1>1. PICK fs \in SUBSET MayEnd :
        done' \in InOrder(fs) /\ open' = [f \in DOMAIN open \ fs |-> open[f]]
  BY DEF EndFlows
<1>2. pc = "flows" /\ pc' = "ending" /\ UNCHANGED <<left, flows, ended>>
  BY DEF EndFlows
<1>3. fs \subseteq DOMAIN open /\ fs \subseteq Known /\ IsFiniteSet(fs) /\ Cardinality(fs) \in Nat
  <2>1. fs \subseteq DOMAIN open
    BY DEF MayEnd
  <2>2. IsFiniteSet(fs)
    BY <2>1, FS_Subset DEF FlowsInv
  <2> QED BY <2>1, <2>2, FS_CardinalityType DEF FlowsInv
<1>4. done' \in Seq(fs) /\ Len(done') = Cardinality(fs) /\ DOMAIN done' = 1..Len(done')
  BY <1>1, <1>3 DEF InOrder
<1>5. done' \in Seq(Known) /\ \A i \in 1..Len(done') : done'[i] \in fs
  BY <1>3, <1>4
<1>6. \A i, j \in 1..Len(done') : i < j => done'[i] < done'[j]
  BY <1>1, <1>4 DEF InOrder
<1>7. DOMAIN open' = DOMAIN open \ fs /\ open' \in [DOMAIN open' -> 0..LongLife]
  BY <1>1 DEF FlowsInv
<1>8. IsFiniteSet(DOMAIN open') /\ Cardinality(DOMAIN open') <= MaxOpen
  <2>1. IsFiniteSet(DOMAIN open) /\ DOMAIN open' \subseteq DOMAIN open /\ Cardinality(DOMAIN open) <= MaxOpen
    BY <1>7 DEF FlowsInv
  <2>2. IsFiniteSet(DOMAIN open') /\ Cardinality(DOMAIN open') <= Cardinality(DOMAIN open)
    BY <2>1, FS_Subset
  <2>3. Cardinality(DOMAIN open) \in Nat /\ Cardinality(DOMAIN open') \in Nat /\ MaxOpen \in Nat
    BY <2>1, <2>2, FS_CardinalityType, Bounds
  <2> QED BY <2>1, <2>2, <2>3
<1>9. \A i \in 1..Len(done') : done'[i] \notin ended' \cup DOMAIN open'
  BY <1>2, <1>3, <1>5, <1>7 DEF FlowsInv
<1>10. Known' = Known
  BY <1>2 DEF Known
<1> QED BY <1>2, <1>5, <1>6, <1>7, <1>8, <1>9, <1>10 DEF FlowsInv

\* The first of those that end is over, and none of the rest is the same.
LEMMA FlowsEnd ==
  ASSUME CollectorAssumption, FlowsInv, EndFlow
  PROVE  /\ FlowsInv'
         /\ Head(done) \in Known \ ended /\ Head(done) \notin DOMAIN open
         /\ \A k \in 1..Len(done') : done'[k] # Head(done) /\ \E i \in 1..Len(done) : done'[k] = done[i]
<1>1. /\ pc = "ending" /\ done # <<>> /\ ended' = ended \cup {Head(done)} /\ done' = Tail(done)
      /\ UNCHANGED <<open, pc, left, flows>>
  BY DEF EndFlow
<1>2. done \in Seq(Known)
  BY DEF FlowsInv
<1>3. /\ Len(done) \in Nat \ {0} /\ Head(done) = done[1] /\ done[1] \in Known
      /\ done' \in Seq(Known) /\ Len(done') = Len(done) - 1
      /\ \A i \in 1..Len(done) - 1 : done'[i] = done[i + 1]
  BY <1>1, <1>2, FirstAndRest
<1>4. done[1] \notin ended \cup DOMAIN open
  BY <1>3 DEF FlowsInv
<1>5. ASSUME NEW i \in 1..Len(done')
      PROVE  i + 1 \in 1..Len(done) /\ done'[i] = done[i + 1] /\ done'[i] # done[1]
  <2>1. i + 1 \in 1..Len(done) /\ 1 \in 1..Len(done) /\ 1 < i + 1 /\ i \in 1..Len(done) - 1
    BY <1>3
  <2>2. done[1] < done[i + 1]
    BY <2>1 DEF FlowsInv
  <2>3. done[1] \in Nat
    BY <1>3 DEF Known
  <2> QED BY <1>3, <2>1, <2>2, <2>3
<1>6. \A i \in 1..Len(done') : done'[i] \notin ended' \cup DOMAIN open'
  BY <1>1, <1>3, <1>5 DEF FlowsInv
<1>7. ASSUME NEW i \in 1..Len(done'), NEW j \in 1..Len(done'), i < j
      PROVE  done'[i] < done'[j]
  <2>1. i + 1 \in 1..Len(done) /\ j + 1 \in 1..Len(done) /\ i + 1 < j + 1
    BY <1>3, <1>5, <1>7
  <2>2. done[i + 1] < done[j + 1]
    BY <2>1 DEF FlowsInv
  <2> QED BY <1>5, <2>2
<1>8. Known' = Known /\ ended' \subseteq Known /\ DOMAIN open' \cap ended' = {}
  BY <1>1, <1>3, <1>4 DEF Known, FlowsInv
<1>9. FlowsInv'
  BY <1>1, <1>3, <1>6, <1>7, <1>8 DEF FlowsInv
<1> QED BY <1>3, <1>4, <1>5, <1>9

\* A flow waits, is due, or has ended, and never two of them.
LEMMA FlowsStep ==
  ASSUME CollectorAssumption, FlowsInv, [CollectorNext]_collectorVars
  PROVE  FlowsInv'
<1>1. CASE TickOver
  <2>1. pc' = "tick" /\ done = <<>> /\ UNCHANGED <<open, left, done, flows, ended>>
    BY <1>1 DEF TickOver
  <2> QED BY <2>1 DEF FlowsInv, Known
<1>2. CASE UNCHANGED collectorVars \/ \E s \in Subscribers : Subscribe(s) \/ Relay(s) \/ Unsubscribe(s)
  <2>1. UNCHANGED simulator
    BY <1>2 DEF Subscribe, Relay, Unsubscribe, collectorVars
  <2> QED BY <2>1 DEF simulator, FlowsInv, Known
<1> QED BY <1>1, <1>2, FlowsTick, FlowsFlow, FlowsTrack, FlowsEnding, FlowsEnd DEF CollectorNext, Simulate

-----------------------------------------------------------------------------
(* The counters *)

\* Counters without their bounds.
Counts == [accepted : Nat, dropped : Nat, eventsLost : Nat, reasons : [Reasons -> Nat], hits : Nat]

\* What the counters of a record add up to, with n events and e flows that ended.
Adding(r, n, fl, e) ==
  /\ r.accepted + r.dropped = fl
  /\ r.reasons["policy"] + r.reasons["other"] = fl
  /\ r.hits = r.reasons["policy"]
  /\ n + r.eventsLost = fl + e
  /\ r.eventsLost <= r.dropped

\* Adding is the property about the counters, over values instead of variables.
LEMMA AddingIs == CountersAddUp /\ c.eventsLost <= c.dropped <=> Adding(c, next, flows, Cardinality(ended))
BY DEF CountersAddUp, Adding

\* Counters that add up are within their bounds.
LEMMA AddingBounds ==
  ASSUME CollectorAssumption, NEW r \in Counts, NEW n \in Nat, NEW fl \in 0..MaxFlows, NEW e \in 0..fl,
         Adding(r, n, fl, e)
  PROVE  /\ n \in 0..MaxIds
         /\ r \in [accepted : 0..MaxFlows, dropped : 0..MaxFlows, eventsLost : 0..MaxFlows,
                  reasons : [Reasons -> 0..MaxFlows], hits : 0..MaxFlows]
<1>1. MaxFlows \in Nat /\ MaxIds = 2 * MaxFlows
  BY Bounds
<1>2. /\ r.accepted \in Nat /\ r.dropped \in Nat /\ r.eventsLost \in Nat /\ r.hits \in Nat
      /\ r.reasons \in [Reasons -> Nat]
  BY DEF Counts
<1>3. r.reasons["policy"] \in Nat /\ r.reasons["other"] \in Nat
  BY <1>2 DEF Reasons
<1>4. /\ r.accepted \in 0..MaxFlows /\ r.dropped \in 0..MaxFlows /\ r.eventsLost \in 0..MaxFlows
      /\ r.reasons["policy"] \in 0..MaxFlows /\ r.reasons["other"] \in 0..MaxFlows
      /\ r.hits \in 0..MaxFlows /\ n \in 0..MaxIds
  BY <1>1, <1>2, <1>3 DEF Adding
<1>5. r.reasons \in [Reasons -> 0..MaxFlows]
  BY <1>2, <1>4 DEF Reasons
<1> QED BY <1>4, <1>5 DEF Counts

\* A flow is counted once for its reason, and for the Policy that matched.
LEMMA CountedFields ==
  ASSUME c \in Counts, NEW reason \in Reasons
  PROVE  LET d == Counted(reason) IN
         /\ d \in Counts
         /\ d.accepted = c.accepted /\ d.dropped = c.dropped /\ d.eventsLost = c.eventsLost
         /\ d.reasons["policy"] + d.reasons["other"] = c.reasons["policy"] + c.reasons["other"] + 1
         /\ c.hits = c.reasons["policy"] => d.hits = d.reasons["policy"]
<1> DEFINE d == Counted(reason)
<1>1. c.reasons \in [Reasons -> Nat] /\ c.hits \in Nat
  BY DEF Counts
<1>2. c.reasons["policy"] \in Nat /\ c.reasons["other"] \in Nat
  BY <1>1 DEF Reasons
<1> DEFINE rs == [c.reasons EXCEPT ![reason] = @ + 1]
           hs == IF reason = "policy" THEN c.hits + 1 ELSE c.hits
<1>3. rs \in [Reasons -> Nat] /\ hs \in Nat
  BY <1>1 DEF Reasons
<1>4. /\ d.accepted = c.accepted /\ d.dropped = c.dropped /\ d.eventsLost = c.eventsLost
      /\ d.reasons = rs /\ d.hits = hs
  BY DEF Counted, Counts
<1>5. d \in Counts
  BY <1>3 DEF Counted, Counts
<1>6. CASE reason = "policy"
  BY <1>1, <1>2, <1>4, <1>5, <1>6 DEF Reasons
<1>7. CASE reason = "other"
  BY <1>1, <1>2, <1>4, <1>5, <1>7 DEF Reasons
<1> QED BY <1>6, <1>7 DEF Reasons

\* A verdict is counted in a field of its own.
LEMMA VerdictFields ==
  ASSUME NEW d \in Counts
  PROVE  /\ LET r == [d EXCEPT !.accepted = @ + 1] IN
            /\ r \in Counts /\ r.accepted = d.accepted + 1 /\ r.dropped = d.dropped
            /\ r.eventsLost = d.eventsLost /\ r.reasons = d.reasons /\ r.hits = d.hits
         /\ LET r == [d EXCEPT !.dropped = @ + 1] IN
            /\ r \in Counts /\ r.accepted = d.accepted /\ r.dropped = d.dropped + 1
            /\ r.eventsLost = d.eventsLost /\ r.reasons = d.reasons /\ r.hits = d.hits
         /\ LET r == [d EXCEPT !.dropped = @ + 1, !.eventsLost = @ + 1] IN
            /\ r \in Counts /\ r.accepted = d.accepted /\ r.dropped = d.dropped + 1
            /\ r.eventsLost = d.eventsLost + 1 /\ r.reasons = d.reasons /\ r.hits = d.hits
<1>1. d.accepted \in Nat /\ d.dropped \in Nat /\ d.eventsLost \in Nat
  BY DEF Counts
<1>2. d.accepted + 1 \in Nat /\ d.dropped + 1 \in Nat /\ d.eventsLost + 1 \in Nat
  BY <1>1
<1>3. /\ [d EXCEPT !.accepted = @ + 1] \in Counts /\ [d EXCEPT !.dropped = @ + 1] \in Counts
      /\ [d EXCEPT !.dropped = @ + 1, !.eventsLost = @ + 1] \in Counts
  BY <1>2 DEF Counts
<1> QED BY <1>3 DEF Counts

\* What the emit of a flow does to the counters, the ring and the channels.
LEMMA FlowEmits ==
  ASSUME c \in Counts, next \in Nat, Flow
  PROVE  /\ c' \in Counts /\ flows' = flows + 1 /\ ended' = ended
         /\ \A e \in Nat : flows \in Nat /\ Adding(c, next, flows, e) => Adding(c', next', flows', e)
         /\ \/ /\ Publish("FLOW_NEW", flows + 1) /\ pc' \in {"track", "flows"}
            \/ /\ Publish("FLOW_DROP", flows + 1) /\ pc' = "flows"
            \/ /\ UNCHANGED <<buf, next, subs, full>> /\ pc' \in {"track", "flows"}
<1>1. flows' = flows + 1 /\ ended' = ended
  BY DEF Flow
<1>2. PICK reason \in Reasons :
        \/ EmitDrop(flows + 1, reason) /\ pc' = "flows"
        \/ EmitAccept(flows + 1, reason) /\ pc' \in {"track", "flows"}
  BY DEF Flow
<1> DEFINE d == Counted(reason)
<1>3. /\ d \in Counts
      /\ d.accepted = c.accepted /\ d.dropped = c.dropped /\ d.eventsLost = c.eventsLost
      /\ d.reasons["policy"] + d.reasons["other"] = c.reasons["policy"] + c.reasons["other"] + 1
      /\ c.hits = c.reasons["policy"] => d.hits = d.reasons["policy"]
  BY CountedFields
<1>4. /\ c.accepted \in Nat /\ c.dropped \in Nat /\ c.eventsLost \in Nat
      /\ c.reasons["policy"] \in Nat /\ c.reasons["other"] \in Nat
  BY DEF Counts, Reasons
<1> HIDE DEF d
<1>5. CASE EmitAccept(flows + 1, reason) /\ pc' \in {"track", "flows"}
  <2>1. c' = [d EXCEPT !.accepted = @ + 1] /\ Publish("FLOW_NEW", flows + 1)
    BY <1>5 DEF EmitAccept, d
  <2>2. c' \in Counts /\ c'.accepted = c.accepted + 1 /\ c'.dropped = c.dropped
        /\ c'.eventsLost = c.eventsLost /\ c'.reasons = d.reasons /\ c'.hits = d.hits /\ next' = next + 1
    BY <1>3, <2>1, VerdictFields DEF Publish
  <2> QED BY <1>1, <1>3, <1>4, <1>5, <2>1, <2>2 DEF Adding
<1>6. CASE EmitDrop(flows + 1, reason) /\ pc' = "flows" /\ Refilled < Unit
  <2>1. c' = [d EXCEPT !.dropped = @ + 1, !.eventsLost = @ + 1] /\ UNCHANGED <<buf, next, subs, full>>
    BY <1>6 DEF EmitDrop, d
  <2>2. c' \in Counts /\ c'.accepted = c.accepted /\ c'.dropped = c.dropped + 1
        /\ c'.eventsLost = c.eventsLost + 1 /\ c'.reasons = d.reasons /\ c'.hits = d.hits
    BY <1>3, <2>1, VerdictFields
  <2> QED BY <1>1, <1>3, <1>4, <1>6, <2>1, <2>2 DEF Adding
<1>7. CASE EmitDrop(flows + 1, reason) /\ pc' = "flows" /\ ~(Refilled < Unit)
  <2>1. c' = [d EXCEPT !.dropped = @ + 1] /\ Publish("FLOW_DROP", flows + 1)
    BY <1>7 DEF EmitDrop, d
  <2>2. c' \in Counts /\ c'.accepted = c.accepted /\ c'.dropped = c.dropped + 1
        /\ c'.eventsLost = c.eventsLost /\ c'.reasons = d.reasons /\ c'.hits = d.hits /\ next' = next + 1
    BY <1>3, <2>1, VerdictFields DEF Publish
  <2> QED BY <1>1, <1>3, <1>4, <1>7, <2>1, <2>2 DEF Adding
<1> QED BY <1>2, <1>5, <1>6, <1>7

\* The flows that are over are some of those known.
LEMMA EndedCount ==
  ASSUME CollectorAssumption, FlowsInv
  PROVE  IsFiniteSet(ended) /\ Cardinality(ended) \in 0..flows
<1>1. flows \in Nat /\ ended \subseteq 1..flows
  BY Bounds DEF FlowsInv, Known
<1>2. IsFiniteSet(1..flows) /\ Cardinality(1..flows) = flows
  BY <1>1, FS_Interval
<1>3. IsFiniteSet(ended) /\ Cardinality(ended) <= flows
  BY <1>1, <1>2, FS_Subset
<1> QED BY <1>1, <1>3, FS_CardinalityType

\* Every step leaves the counters adding up to the events and flows there were.
LEMMA CountersStep ==
  ASSUME CollectorAssumption, FlowsInv, CountersInv, [CollectorNext]_collectorVars
  PROVE  CountersInv'
<1>1. /\ c \in Counts /\ next \in Nat /\ flows \in Nat /\ MaxFlows \in Nat
      /\ Adding(c, next, flows, Cardinality(ended))
  <2>1. MaxFlows \in Nat /\ MaxIds \in Nat
    BY Bounds
  <2>2. c \in Counts /\ next \in Nat
    BY <2>1 DEF CountersInv, CounterTypes, Counts
  <2>3. flows \in Nat
    BY <2>1 DEF FlowsInv
  <2> QED BY <2>1, <2>2, <2>3, AddingIs DEF CountersInv
<1>2. IsFiniteSet(ended) /\ Cardinality(ended) \in Nat
  BY EndedCount, <1>1
<1>3. FlowsInv' /\ flows' \in 0..MaxFlows
  BY FlowsStep DEF FlowsInv
<1>4. Cardinality(ended') \in 0..flows'
  <2>1. flows' \in Nat /\ ended' \subseteq 1..flows'
    BY <1>1, <1>3 DEF FlowsInv, Known
  <2>2. IsFiniteSet(1..flows') /\ Cardinality(1..flows') = flows'
    BY <2>1, FS_Interval
  <2>3. IsFiniteSet(ended') /\ Cardinality(ended') <= flows'
    BY <2>1, <2>2, FS_Subset
  <2> QED BY <2>1, <2>3, FS_CardinalityType
<1>5. ASSUME c' \in Counts, next' \in Nat, Adding(c', next', flows', Cardinality(ended'))
      PROVE  CountersInv'
  <2>1. CounterTypes'
    BY <1>3, <1>4, <1>5, AddingBounds DEF CounterTypes
  <2>2. CountersAddUp' /\ c'.eventsLost <= c'.dropped
    BY <1>5 DEF CountersAddUp, Adding
  <2> QED BY <2>1, <2>2 DEF CountersInv
<1>6. CASE Flow
  <2>1. c' \in Counts /\ ended' = ended /\ Adding(c', next', flows', Cardinality(ended))
    BY <1>1, <1>2, <1>6, FlowEmits
  <2>2. next' \in Nat
    BY <1>1, <1>6, FlowEmits DEF Publish
  <2> QED BY <1>5, <2>1, <2>2
<1>7. CASE EndFlow
  <2>1. c' = c /\ next' = next + 1 /\ flows' = flows /\ ended' = ended \cup {Head(done)}
    BY <1>7 DEF EndFlow, EmitEnd, CountedEnd, Publish
  <2>2. Head(done) \notin ended
    BY <1>7, FlowsEnd
  <2>3. Cardinality(ended') = Cardinality(ended) + 1
    BY <1>2, <2>1, <2>2, FS_AddElement
  <2>4. c.eventsLost \in Nat
    BY <1>1 DEF Counts
  <2>5. Adding(c', next', flows', Cardinality(ended'))
    BY <1>1, <1>2, <2>1, <2>3, <2>4 DEF Adding
  <2> QED BY <1>1, <1>5, <2>1, <2>5
<1>8. CASE \/ Tick \/ Track \/ EndFlows \/ TickOver \/ UNCHANGED collectorVars
           \/ \E s \in Subscribers : Subscribe(s) \/ Relay(s) \/ Unsubscribe(s)
  <2>1. UNCHANGED <<c, next, flows, ended>>
    BY <1>8 DEF Tick, Track, EndFlows, TickOver, Subscribe, Relay, Unsubscribe, collectorVars, collector, simulator
  <2> QED BY <1>1, <1>5, <2>1
<1> QED BY <1>6, <1>7, <1>8 DEF CollectorNext, Simulate

-----------------------------------------------------------------------------
(* The ring *)

\* The new event is the last one; those before it move by d.
Shifted(d, e) ==
  /\ Len(buf') = Len(buf) - d + 1 /\ Len(buf') \in Nat \ {0}
  /\ \A i \in 1..Len(buf') - 1 : i + d \in 1..Len(buf) /\ buf'[i] = buf[i + d]
  /\ buf'[Len(buf')] = e

\* To push an event moves the others down by one when the ring is full.
LEMMA RingShift ==
  ASSUME CollectorAssumption, RingInv, NEW e \in Event, buf' = Pushed(e)
  PROVE  /\ buf' \in Seq(Event)
         /\ \/ Len(buf) >= BufSize /\ Shifted(1, e)
            \/ Len(buf) < BufSize /\ Shifted(0, e)
<1>1. buf \in Seq(Event) /\ Len(buf) \in Nat /\ BufSize \in Nat \ {0}
  BY Bounds DEF RingInv
<1>2. ASSUME NEW s \in Seq(Event)
      PROVE  /\ Append(s, e) \in Seq(Event) /\ Len(Append(s, e)) = Len(s) + 1
             /\ \A i \in 1..Len(s) : Append(s, e)[i] = s[i]
             /\ Append(s, e)[Len(s) + 1] = e /\ Len(s) \in Nat
  OBVIOUS
<1>3. CASE Len(buf) >= BufSize
  <2>1. buf # <<>> /\ buf' = Append(Tail(buf), e)
    BY <1>1, <1>3 DEF Pushed
  <2>2. /\ Tail(buf) \in Seq(Event) /\ Len(Tail(buf)) = Len(buf) - 1
        /\ \A i \in 1..Len(buf) - 1 : Tail(buf)[i] = buf[i + 1]
    BY <1>1, <2>1, FirstAndRest
  <2>3. /\ buf' \in Seq(Event) /\ Len(buf') = Len(buf) - 1 + 1
        /\ \A i \in 1..Len(buf) - 1 : buf'[i] = Tail(buf)[i]
        /\ buf'[Len(buf) - 1 + 1] = e
    BY <1>2, <2>1, <2>2
  <2>4. Shifted(1, e)
    BY <1>1, <1>3, <2>2, <2>3 DEF Shifted
  <2> QED BY <1>3, <2>3, <2>4
<1>4. CASE Len(buf) < BufSize
  <2>1. buf' = Append(buf, e)
    BY <1>1, <1>4 DEF Pushed
  <2>2. /\ buf' \in Seq(Event) /\ Len(buf') = Len(buf) + 1
        /\ \A i \in 1..Len(buf) : buf'[i] = buf[i]
        /\ buf'[Len(buf) + 1] = e
    BY <1>1, <1>2, <2>1
  <2>3. Shifted(0, e)
    BY <1>1, <2>2 DEF Shifted
  <2> QED BY <1>4, <2>2, <2>3
<1> QED BY <1>1, <1>3, <1>4

\* The numbers go on.
LEMMA RingPublish ==
  ASSUME CollectorAssumption, RingInv, next \in Nat, next' \in 0..MaxIds,
         NEW type \in Types, NEW f \in 1..MaxFlows, Publish(type, f)
  PROVE  /\ RingInv'
         /\ \E d \in {0, 1} : Shifted(d, [id |-> next + 1, type |-> type, flow |-> f])
<1> DEFINE e == [id |-> next + 1, type |-> type, flow |-> f]
<1>1. next' = next + 1 /\ buf' = Pushed(e)
  BY DEF Publish
<1>2. e \in Event
  BY <1>1 DEF Event
<1>3. e.id = next + 1
  OBVIOUS
<1>4. /\ buf' \in Seq(Event)
      /\ \/ Len(buf) >= BufSize /\ Shifted(1, e)
         \/ Len(buf) < BufSize /\ Shifted(0, e)
  BY <1>1, <1>2, RingShift
<1>5. Len(buf) \in Nat /\ BufSize \in Nat \ {0} /\ Len(buf) = Smaller(next, BufSize)
  BY Bounds DEF RingInv
<1>6. \A i \in 1..Len(buf) : buf[i].id = next - Len(buf) + i
  BY DEF RingInv
<1> HIDE DEF e
<1>7. ASSUME NEW d \in {0, 1}, Shifted(d, e), d = 1 => Len(buf) >= BufSize, d = 0 => Len(buf) < BufSize
      PROVE  RingInv'
  <2>1. Len(buf') = Len(buf) - d + 1 /\ Len(buf') \in Nat
    BY <1>5, <1>7 DEF Shifted
  <2>2. Len(buf') = Smaller(next', BufSize)
    BY <1>1, <1>5, <1>7, <2>1 DEF Smaller
  <2>3. ASSUME NEW i \in 1..Len(buf') PROVE buf'[i].id = next' - Len(buf') + i
    <3>1. CASE i = Len(buf')
      BY <1>1, <1>3, <1>7, <2>1, <3>1 DEF Shifted
    <3>2. CASE i # Len(buf')
      <4>1. i \in 1..Len(buf') - 1
        BY <2>1, <3>2
      <4>2. i + d \in 1..Len(buf) /\ buf'[i] = buf[i + d]
        BY <1>7, <4>1 DEF Shifted
      <4>3. buf'[i].id = next - Len(buf) + (i + d)
        BY <1>6, <4>2
      <4>4. /\ Len(buf) \in Int /\ d \in Int /\ i \in Int /\ next \in Int
            /\ Len(buf') = Len(buf) - d + 1 /\ next' = next + 1
        BY <1>1, <1>5, <2>1
      <4>5. next' - Len(buf') + i = next - Len(buf) + (i + d)
        BY <4>4
      <4> QED BY <4>3, <4>5
    <3> QED BY <3>1, <3>2
  <2> QED BY <1>4, <2>2, <2>3 DEF RingInv
<1>8. RingInv'
  BY <1>4, <1>5, <1>7
<1> QED BY <1>4, <1>8 DEF e

\* What follows from the numbers: the end of the stream is what Recent gives.
LEMMA RingGivesLatest ==
  ASSUME CollectorAssumption, RingInv, next \in Nat
  PROVE  RingIsLatest
<1>1. /\ buf \in Seq(Event) /\ Len(buf) \in Nat /\ BufSize \in Nat \ {0}
      /\ Len(buf) = Smaller(next, BufSize)
      /\ \A i \in 1..Len(buf) : buf[i].id = next - Len(buf) + i
  BY Bounds DEF RingInv
<1> SUFFICES ASSUME NEW n \in 0..BufSize + 1
             PROVE  LET size == Smaller(n, Smaller(next, BufSize))
                    IN  /\ Len(Recent(n)) = size
                        /\ \A i \in 1..size : Recent(n)[i].id = next - size + i
  BY DEF RingIsLatest
<1> DEFINE size == Smaller(n, Len(buf))
           m == Len(buf) - size + 1
<1>2. n \in Nat /\ size \in 0..Len(buf) /\ m \in 1..Len(buf) + 1 /\ m \in Int
  BY <1>1 DEF Smaller
<1>3. Recent(n) = SubSeq(buf, m, Len(buf))
  BY DEF Recent
<1> HIDE DEF m, size
<1>4. \A i \in m..Len(buf) : buf[i] \in Event
  BY <1>1, <1>2
<1>5. Len(buf) - m + 1 = size
  BY <1>1, <1>2 DEF m
<1>6. /\ Len(Recent(n)) = size
      /\ \A i \in 1..size : Recent(n)[i] = buf[m + i - 1]
  <2>1. /\ Len(Recent(n)) = IF m <= Len(buf) THEN Len(buf) - m + 1 ELSE 0
        /\ \A i \in 1..Len(buf) - m + 1 : Recent(n)[i] = buf[m + i - 1]
    BY <1>1, <1>2, <1>3, <1>4, SubSeqProperties
  <2> QED BY <1>1, <1>2, <1>5, <2>1
<1>7. ASSUME NEW i \in 1..size PROVE Recent(n)[i].id = next - size + i
  <2>1. m + i - 1 \in 1..Len(buf) /\ m + i - 1 = Len(buf) - size + i
    BY <1>1, <1>2, <1>5
  <2>2. buf[m + i - 1].id = next - Len(buf) + (Len(buf) - size + i)
    BY <1>1, <2>1
  <2>3. size \in Int /\ i \in Int /\ next \in Int /\ Len(buf) \in Int
    BY <1>1, <1>2
  <2>4. next - Len(buf) + (Len(buf) - size + i) = next - size + i
    BY <2>3
  <2> QED BY <1>6, <2>2, <2>4
<1> QED BY <1>1, <1>6, <1>7 DEF size

\* The event of a new flow is the first it has, and a dropped flow has no other.
LEMMA PairsFlow ==
  ASSUME CollectorAssumption, FlowsInv, RingInv, PairsInv, CounterTypes, CounterTypes', FlowsInv', Flow
  PROVE  RingInv' /\ PairsInv'
<1>1. /\ flows' = flows + 1 /\ flows \in Nat /\ flows' \in 1..MaxFlows /\ next \in Nat /\ next' \in 0..MaxIds
      /\ UNCHANGED <<open, done, ended>> /\ pc = "flows" /\ done = <<>> /\ Len(done) = 0 /\ Len(buf) \in Nat
  <2>1. flows' = flows + 1 /\ UNCHANGED <<open, done, ended>> /\ pc = "flows" /\ flows < MaxFlows
    BY DEF Flow
  <2>2. flows \in Nat /\ MaxFlows \in Nat /\ done = <<>>
    BY <2>1, Bounds DEF FlowsInv
  <2>3. next \in Nat /\ next' \in 0..MaxIds
    BY Bounds DEF CounterTypes
  <2>4. Len(buf) \in Nat
    BY DEF RingInv
  <2> QED BY <2>1, <2>2, <2>3, <2>4
<1>2. c \in Counts
  BY Bounds DEF CounterTypes, Counts
<1>3. \/ Publish("FLOW_NEW", flows + 1) /\ pc' \in {"track", "flows"}
      \/ Publish("FLOW_DROP", flows + 1) /\ pc' = "flows"
      \/ UNCHANGED <<buf, next, subs, full>> /\ pc' \in {"track", "flows"}
  BY <1>1, <1>2, FlowEmits
<1>4. /\ Known \subseteq Known' /\ flows' \in Known' /\ flows' \notin Known
      /\ Tracked = {} /\ Tracked' \subseteq {flows'}
      /\ ended \subseteq Known /\ DOMAIN open \subseteq Known
  BY <1>1 DEF Known, Tracked, FlowsInv
<1>5. ASSUME NEW i \in 1..Len(buf)
      PROVE  /\ buf[i].flow \in Known /\ buf[i].flow # flows'
             /\ buf[i].type = "FLOW_END" => buf[i].flow \in ended'
             /\ buf[i].type = "FLOW_DROP" => buf[i].flow \notin Tracked' \cup DOMAIN open' \cup ended'
  BY <1>1, <1>4 DEF PairsInv
<1>6. \A i, j \in 1..Len(buf) :
        buf[i].flow = buf[j].flow /\ i < j => buf[i].type = "FLOW_NEW" /\ buf[j].type = "FLOW_END"
  BY DEF PairsInv
<1>7. CASE UNCHANGED <<buf, next, subs, full>>
  <2>1. RingInv'
    BY <1>7 DEF RingInv
  <2>2. PairsInv'
    <3>1. buf' = buf /\ Len(done') = 0
      BY <1>1, <1>7
    <3>2. \A i \in 1..Len(buf') : \A k \in 1..Len(done') : done'[k] # buf'[i].flow
      BY <3>1
    <3>3. ASSUME NEW i \in 1..Len(buf')
          PROVE  /\ buf'[i].flow \in Known'
                 /\ buf'[i].type = "FLOW_END" => buf'[i].flow \in ended'
                 /\ buf'[i].type = "FLOW_DROP" => buf'[i].flow \notin Tracked' \cup DOMAIN open' \cup ended'
      BY <1>4, <1>5, <3>1
    <3> QED BY <1>6, <3>1, <3>2, <3>3 DEF PairsInv
  <2> QED BY <2>1, <2>2
<1>8. ASSUME NEW type \in {"FLOW_NEW", "FLOW_DROP"}, Publish(type, flows + 1),
             type = "FLOW_DROP" => pc' = "flows"
      PROVE  RingInv' /\ PairsInv'
  <2> DEFINE e == [id |-> next + 1, type |-> type, flow |-> flows + 1]
  <2>1. PICK d \in {0, 1} : RingInv' /\ Shifted(d, e)
    BY <1>1, <1>8, RingPublish DEF Types
  <2>2. e.flow = flows' /\ e.type = type
    BY <1>1
  <2> HIDE DEF e
  <2>3. /\ Len(buf') = Len(buf) - d + 1 /\ Len(buf') \in Nat
        /\ \A i \in 1..Len(buf') - 1 : i + d \in 1..Len(buf) /\ buf'[i] = buf[i + d]
        /\ buf'[Len(buf')] = e
    BY <2>1 DEF Shifted
  <2>4. \A i \in 1..Len(buf') : i = Len(buf') \/ i \in 1..Len(buf') - 1
    BY <2>3
  <2>5. ASSUME NEW i \in 1..Len(buf')
        PROVE  /\ buf'[i].flow \in Known'
               /\ buf'[i].type = "FLOW_END" => buf'[i].flow \in ended'
               /\ buf'[i].type = "FLOW_DROP" => buf'[i].flow \notin Tracked' \cup DOMAIN open' \cup ended'
    <3>1. CASE i = Len(buf')
      <4>1. type = "FLOW_DROP" => Tracked' = {}
        BY <1>8 DEF Tracked
      <4> QED BY <1>1, <1>4, <1>8, <2>2, <2>3, <3>1, <4>1
    <3>2. CASE i \in 1..Len(buf') - 1
      BY <1>4, <1>5, <2>3, <3>2
    <3> QED BY <2>4, <3>1, <3>2
  <2>6. ASSUME NEW i \in 1..Len(buf'), NEW j \in 1..Len(buf'), buf'[i].flow = buf'[j].flow, i < j
        PROVE  buf'[i].type = "FLOW_NEW" /\ buf'[j].type = "FLOW_END"
    <3>1. i \in 1..Len(buf') - 1 /\ i + d \in 1..Len(buf) /\ buf'[i] = buf[i + d]
      BY <2>3, <2>6
    <3>2. j # Len(buf')
      BY <1>5, <2>2, <2>3, <2>6, <3>1
    <3>3. j + d \in 1..Len(buf) /\ buf'[j] = buf[j + d] /\ i + d < j + d
      BY <2>3, <2>4, <2>6, <3>2
    <3> QED BY <1>6, <2>6, <3>1, <3>3
  <2>7. \A i \in 1..Len(buf') : \A k \in 1..Len(done') : done'[k] # buf'[i].flow
    BY <1>1
  <2>8. PairsInv'
    BY <2>5, <2>6, <2>7 DEF PairsInv
  <2> QED BY <2>1, <2>8
<1> QED BY <1>3, <1>7, <1>8

\* The end of a flow comes after its beginning, and nothing comes after it.
LEMMA PairsEnd ==
  ASSUME CollectorAssumption, FlowsInv, RingInv, PairsInv, CounterTypes, CounterTypes', FlowsInv', EndFlow
  PROVE  RingInv' /\ PairsInv'
<1> DEFINE f == Head(done)
<1>1. /\ ended' = ended \cup {f} /\ UNCHANGED <<open, pc, flows>> /\ Publish("FLOW_END", f)
      /\ pc = "ending" /\ done # <<>>
  BY DEF EndFlow, EmitEnd
<1>2. /\ f \in Known \ ended /\ f \notin DOMAIN open
      /\ \A k \in 1..Len(done') : done'[k] # f /\ \E i \in 1..Len(done) : done'[k] = done[i]
  BY FlowsEnd
<1>3. \E k \in 1..Len(done) : done[k] = f
  BY <1>1, FirstAndRest DEF FlowsInv
<1> HIDE DEF f
<1>4. f \in 1..MaxFlows /\ next \in Nat /\ next' \in 0..MaxIds /\ Len(buf) \in Nat
  <2>1. f \in 1..flows /\ flows \in 0..MaxFlows
    BY <1>2 DEF Known, FlowsInv
  <2>2. MaxFlows \in Nat /\ MaxIds \in Nat
    BY Bounds
  <2>3. next \in Nat /\ next' \in 0..MaxIds
    BY <2>2 DEF CounterTypes
  <2>4. Len(buf) \in Nat
    BY DEF RingInv
  <2> QED BY <2>1, <2>2, <2>3, <2>4
<1>5. /\ Known' = Known /\ Tracked = {} /\ Tracked' = {}
  BY <1>1 DEF Known, Tracked
<1>6. ASSUME NEW i \in 1..Len(buf)
      PROVE  /\ buf[i].flow \in Known
             /\ buf[i].type = "FLOW_END" => buf[i].flow \in ended
             /\ buf[i].type = "FLOW_DROP" =>
                  /\ buf[i].flow \notin DOMAIN open \cup ended
                  /\ \A k \in 1..Len(done) : done[k] # buf[i].flow
  BY DEF PairsInv
<1>7. \A i, j \in 1..Len(buf) :
        buf[i].flow = buf[j].flow /\ i < j => buf[i].type = "FLOW_NEW" /\ buf[j].type = "FLOW_END"
  BY DEF PairsInv
<1>8. \A i \in 1..Len(buf) : buf[i].flow = f => buf[i].type = "FLOW_NEW"
  <2>1. \A i \in 1..Len(buf) : buf[i].type \in Types
    <3>1. \A i \in 1..Len(buf) : buf[i] \in Event
      BY DEF RingInv
    <3>2. \A e \in Event : e.type \in Types
      BY DEF Event
    <3> QED BY <3>1, <3>2
  <2> QED BY <1>2, <1>3, <1>6, <2>1 DEF Types
<1> DEFINE e == [id |-> next + 1, type |-> "FLOW_END", flow |-> f]
<1>9. PICK d \in {0, 1} : RingInv' /\ Shifted(d, e)
  BY <1>1, <1>4, RingPublish DEF Types
<1>10. e.flow = f /\ e.type = "FLOW_END"
  OBVIOUS
<1> HIDE DEF e
<1>11. /\ Len(buf') = Len(buf) - d + 1 /\ Len(buf') \in Nat
       /\ \A i \in 1..Len(buf') - 1 : i + d \in 1..Len(buf) /\ buf'[i] = buf[i + d]
       /\ buf'[Len(buf')] = e
  BY <1>9 DEF Shifted
<1>12. \A i \in 1..Len(buf') : i = Len(buf') \/ i \in 1..Len(buf') - 1
  BY <1>11
<1>13. ASSUME NEW i \in 1..Len(buf')
       PROVE  /\ buf'[i].flow \in Known'
              /\ buf'[i].type = "FLOW_END" => buf'[i].flow \in ended'
              /\ buf'[i].type = "FLOW_DROP" =>
                   /\ buf'[i].flow \notin Tracked' \cup DOMAIN open' \cup ended'
                   /\ \A k \in 1..Len(done') : done'[k] # buf'[i].flow
  <2>1. CASE i = Len(buf')
    BY <1>1, <1>2, <1>5, <1>10, <1>11, <2>1
  <2>2. CASE i \in 1..Len(buf') - 1
    <3>1. i + d \in 1..Len(buf) /\ buf'[i] = buf[i + d]
      BY <1>11, <2>2
    <3>2. buf'[i].type = "FLOW_DROP" => buf'[i].flow # f
      BY <1>8, <3>1
    <3> QED BY <1>1, <1>2, <1>5, <1>6, <3>1, <3>2
  <2> QED BY <1>12, <2>1, <2>2
<1>14. ASSUME NEW i \in 1..Len(buf'), NEW j \in 1..Len(buf'), buf'[i].flow = buf'[j].flow, i < j
       PROVE  buf'[i].type = "FLOW_NEW" /\ buf'[j].type = "FLOW_END"
  <2>1. i \in 1..Len(buf') - 1 /\ i + d \in 1..Len(buf) /\ buf'[i] = buf[i + d]
    BY <1>11, <1>14
  <2>2. CASE j = Len(buf')
    BY <1>8, <1>10, <1>11, <1>14, <2>1, <2>2
  <2>3. CASE j # Len(buf')
    <3>0. j \in 1..Len(buf') - 1
      BY <1>12, <2>3
    <3>1. j + d \in 1..Len(buf) /\ buf'[j] = buf[j + d] /\ i + d < j + d
      BY <1>11, <1>14, <3>0
    <3> QED BY <1>7, <1>14, <2>1, <3>1
  <2> QED BY <2>2, <2>3
<1>15. PairsInv'
  BY <1>13, <1>14 DEF PairsInv
<1> QED BY <1>9, <1>15

\* Every step leaves the ring the end of the stream, with flows that end once.
LEMMA PairsStep ==
  ASSUME CollectorAssumption, FlowsInv, RingInv, PairsInv, CountersInv, CountersInv', FlowsInv', [CollectorNext]_collectorVars
  PROVE  RingInv' /\ PairsInv'
<1>1. CASE Flow
  BY <1>1, PairsFlow DEF CountersInv
<1>2. CASE EndFlow
  BY <1>2, PairsEnd DEF CountersInv
<1>3. ASSUME UNCHANGED <<buf, next>> PROVE RingInv'
  BY <1>3 DEF RingInv
<1>4. ASSUME UNCHANGED <<buf, flows, ended>>,
             Tracked' \cup DOMAIN open' \subseteq Tracked \cup DOMAIN open,
             \A k \in 1..Len(done') : done'[k] \in DOMAIN open \/ \E i \in 1..Len(done) : done'[k] = done[i]
      PROVE  PairsInv'
  <2>1. Known' = Known
    BY <1>4 DEF Known
  <2>2. ASSUME NEW i \in 1..Len(buf')
        PROVE  /\ buf'[i].flow \in Known'
               /\ buf'[i].type = "FLOW_END" => buf'[i].flow \in ended'
               /\ buf'[i].type = "FLOW_DROP" =>
                    /\ buf'[i].flow \notin Tracked' \cup DOMAIN open' \cup ended'
                    /\ \A k \in 1..Len(done') : done'[k] # buf'[i].flow
    <3>1. i \in 1..Len(buf) /\ buf'[i] = buf[i]
      BY <1>4
    <3>2. /\ buf[i].flow \in Known
          /\ buf[i].type = "FLOW_END" => buf[i].flow \in ended
          /\ buf[i].type = "FLOW_DROP" =>
               /\ buf[i].flow \notin Tracked \cup DOMAIN open \cup ended
               /\ \A k \in 1..Len(done) : done[k] # buf[i].flow
      BY <3>1 DEF PairsInv
    <3> QED BY <1>4, <2>1, <3>1, <3>2
  <2>3. \A i, j \in 1..Len(buf') :
          buf'[i].flow = buf'[j].flow /\ i < j => buf'[i].type = "FLOW_NEW" /\ buf'[j].type = "FLOW_END"
    BY <1>4 DEF PairsInv
  <2> QED BY <2>2, <2>3 DEF PairsInv
<1>5. CASE Tick
  <2>1. DOMAIN open' = DOMAIN open /\ Tracked' = {} /\ UNCHANGED <<buf, next, flows, ended, done>>
    BY <1>5 DEF Tick, Tracked
  <2> QED BY <1>3, <1>4, <2>1
<1>6. CASE Track
  <2>1. Tracked = {flows} /\ Tracked' = {} /\ UNCHANGED <<buf, next, flows, ended, done>>
    BY <1>6 DEF Track, Tracked, collector
  <2>2. DOMAIN open' \subseteq DOMAIN open \cup {flows}
    BY <1>6 DEF Track, With
  <2> QED BY <1>3, <1>4, <2>1, <2>2
<1>7. CASE EndFlows
  <2>1. Tracked' = {} /\ UNCHANGED <<buf, next, flows, ended>>
    BY <1>7 DEF EndFlows, Tracked, collector
  <2>2. PICK fs \in SUBSET MayEnd :
          done' \in InOrder(fs) /\ open' = [f \in DOMAIN open \ fs |-> open[f]]
    BY <1>7 DEF EndFlows
  <2>3. IsFiniteSet(fs) /\ fs \subseteq DOMAIN open
    BY FS_Subset DEF MayEnd, FlowsInv
  <2>4. \A k \in 1..Len(done') : done'[k] \in fs
    BY <2>2, <2>3, FS_CardinalityType DEF InOrder
  <2> QED BY <1>3, <1>4, <2>1, <2>2, <2>3, <2>4
<1>8. CASE \/ TickOver \/ UNCHANGED collectorVars
           \/ \E s \in Subscribers : Subscribe(s) \/ Relay(s) \/ Unsubscribe(s)
  <2>1. UNCHANGED <<buf, next, open, done, flows, ended>> /\ (pc' = pc \/ pc' = "tick")
    BY <1>8 DEF TickOver, Subscribe, Relay, Unsubscribe, collectorVars, collector, simulator
  <2> QED BY <1>3, <1>4, <2>1 DEF Tracked
<1> QED BY <1>1, <1>2, <1>5, <1>6, <1>7, <1>8 DEF CollectorNext, Simulate

-----------------------------------------------------------------------------
(* The streams *)

\* What a client has got or has waiting for it.
Sent(s) == got[s] \o subs[s]

Increasing(q) == \A i, j \in 1..Len(q) : i < j => q[i] < q[j]
Elements(q) == {q[i] : i \in 1..Len(q)}

\* A stream of one client is in order and complete.
Complete(s) == Increasing(Sent(s)) /\ Elements(Sent(s)) = (from[s] + 1 .. next) \ full[s]

\* The streams are faithful when each of them is complete.
LEMMA FaithfulIs == StreamFaithful <=> \A s \in DOMAIN subs : Complete(s)
BY DEF StreamFaithful, Complete, Sent, Increasing, Elements

\* To append to the channel is to append to the whole.
LEMMA AppendToChannel ==
  ASSUME NEW S, NEW g \in Seq(S), NEW q \in Seq(S), NEW x \in S
  PROVE  g \o Append(q, x) = Append(g \o q, x)
<1>1. Append(q, x) = q \o <<x>> /\ <<x>> \in Seq(S)
  BY AppendIsConcat
<1>2. g \o (q \o <<x>>) = (g \o q) \o <<x>>
  BY <1>1, ConcatAssociative
<1>3. g \o q \in Seq(S)
  BY ConcatProperties
<1>4. Append(g \o q, x) = (g \o q) \o <<x>>
  BY <1>3, AppendIsConcat
<1> QED BY <1>1, <1>2, <1>4

\* To move the first of the channel to the client leaves the whole as it is.
LEMMA RelayKeepsWhole ==
  ASSUME NEW S, NEW g \in Seq(S), NEW q \in Seq(S), q # <<>>
  PROVE  Append(g, Head(q)) \o Tail(q) = g \o q
<1> DEFINE x == Head(q)
           r == Tail(q)
<1>1. x \in S /\ r \in Seq(S) /\ <<x>> \in Seq(S)
  BY FirstAndRest
<1>2. q = <<x>> \o r
  <2>1. /\ Len(q) \in Nat \ {0} /\ x = q[1] /\ Len(r) = Len(q) - 1
        /\ \A i \in 1..Len(q) - 1 : r[i] = q[i + 1]
    BY FirstAndRest
  <2>2. /\ <<x>> \o r \in Seq(S) /\ Len(<<x>> \o r) = 1 + Len(r)
        /\ \A i \in 1..1 + Len(r) : (<<x>> \o r)[i] = IF i <= 1 THEN x ELSE r[i - 1]
    <3>1. Len(<<x>>) = 1 /\ <<x>>[1] = x
      OBVIOUS
    <3>2. /\ <<x>> \o r \in Seq(S) /\ Len(<<x>> \o r) = Len(<<x>>) + Len(r)
          /\ \A i \in 1..Len(<<x>>) + Len(r) :
               (<<x>> \o r)[i] = IF i <= Len(<<x>>) THEN <<x>>[i] ELSE r[i - Len(<<x>>)]
      BY <1>1, ConcatProperties
    <3> QED BY <3>1, <3>2
  <2> HIDE DEF x, r
  <2>3. Len(<<x>> \o r) = Len(q)
    BY <2>1, <2>2
  <2>4. \A i \in 1..Len(q) : q[i] = (<<x>> \o r)[i]
    BY <2>1, <2>2
  <2> QED BY <2>2, <2>3, <2>4, SeqEqual
<1>3. Append(g, x) = g \o <<x>>
  BY <1>1, AppendIsConcat
<1> HIDE DEF x, r
<1>4. (g \o <<x>>) \o r = g \o (<<x>> \o r)
  BY <1>1, ConcatAssociative
<1> QED BY <1>2, <1>3, <1>4 DEF x, r

\* A larger number at the end.
LEMMA AppendLarger ==
  ASSUME NEW q \in Seq(Nat), NEW x \in Nat, Increasing(q), \A i \in 1..Len(q) : q[i] < x
  PROVE  Increasing(Append(q, x)) /\ Elements(Append(q, x)) = Elements(q) \cup {x}
<1>1. /\ Len(q) \in Nat /\ Len(Append(q, x)) = Len(q) + 1
      /\ \A i \in 1..Len(q) : Append(q, x)[i] = q[i]
      /\ Append(q, x)[Len(q) + 1] = x
  OBVIOUS
<1>2. 1..Len(q) + 1 = 1..Len(q) \cup {Len(q) + 1}
  BY <1>1
<1> DEFINE a == Append(q, x)
<1> HIDE DEF a
<1>3. Elements(a) = Elements(q) \cup {x}
  BY <1>1, <1>2 DEF Elements, a
<1>4. ASSUME NEW i \in 1..Len(a), NEW j \in 1..Len(a), i < j PROVE a[i] < a[j]
  <2>1. i \in 1..Len(q) /\ (j \in 1..Len(q) \/ j = Len(q) + 1)
    BY <1>1, <1>4 DEF a
  <2> QED BY <1>1, <1>4, <2>1 DEF Increasing, a
<1> QED BY <1>3, <1>4 DEF Increasing, a

\* What the invariant says of a client.
LEMMA ClientTypes ==
  ASSUME CollectorAssumption, CounterTypes, StreamInv, NEW s \in DOMAIN subs
  PROVE  /\ s \in Subscribers /\ subs[s] \in Seq(1..MaxIds) /\ got[s] \in Seq(1..MaxIds)
         /\ Sent(s) \in Seq(1..MaxIds) /\ Sent(s) \in Seq(Nat)
         /\ full[s] \subseteq 1..next /\ from[s] \in 0..next /\ from[s] \in Nat /\ next \in Nat
         /\ Complete(s)
<1>1. s \in Subscribers /\ subs[s] \in Seq(1..MaxIds)
  BY DEF StreamInv, StreamTypes
<1>2. got[s] \in Seq(1..MaxIds) /\ from[s] \in 0..MaxIds /\ full[s] \subseteq 1..next /\ from[s] <= next
  BY <1>1 DEF StreamInv, StreamTypes
<1>3. Sent(s) \in Seq(1..MaxIds)
  BY <1>1, <1>2, ConcatProperties DEF Sent
<1>4. 1..MaxIds \subseteq Nat /\ MaxIds \in Nat
  BY Bounds
<1>5. Sent(s) \in Seq(Nat)
  BY <1>3, <1>4, SeqMonotonic
<1>6. next \in Nat
  BY <1>4 DEF CounterTypes
<1>7. Complete(s)
  BY FaithfulIs DEF StreamInv
<1> QED BY <1>1, <1>2, <1>3, <1>4, <1>5, <1>6, <1>7

\* An event goes to the channel or, when that is full, is missed.
LEMMA StreamPublish ==
  ASSUME CollectorAssumption, CounterTypes, CounterTypes', StreamInv, NEW type, NEW f, Publish(type, f),
         UNCHANGED streams
  PROVE  StreamInv'
<1> DEFINE x == next + 1
<1>1. /\ next' = x /\ DOMAIN subs' = DOMAIN subs /\ UNCHANGED <<got, from>>
      /\ \A s \in DOMAIN subs : subs'[s] = Send(subs[s], x)
      /\ full' = [s \in Subscribers |->
           IF s \in DOMAIN subs /\ Len(subs[s]) = ChanSize THEN full[s] \cup {x} ELSE full[s]]
  BY DEF Publish, streams
<1>2. next \in Nat /\ x \in 1..MaxIds /\ MaxIds \in Nat /\ ChanSize \in Nat \ {0} /\ x \in Nat
      /\ 1..next \subseteq 1..x /\ x \in 1..x
  <2>1. MaxIds \in Nat /\ ChanSize \in Nat \ {0}
    BY Bounds
  <2>2. next \in 0..MaxIds /\ next' \in 0..MaxIds
    BY DEF CounterTypes
  <2> QED BY <1>1, <2>1, <2>2
<1> HIDE DEF x
<1>3. ASSUME NEW s \in DOMAIN subs
      PROVE  /\ subs'[s] \in Seq(1..MaxIds) /\ Len(subs'[s]) <= ChanSize
             /\ Complete(s)'
  <2>1. /\ s \in Subscribers /\ subs[s] \in Seq(1..MaxIds) /\ got[s] \in Seq(1..MaxIds)
        /\ Sent(s) \in Seq(1..MaxIds) /\ Sent(s) \in Seq(Nat)
        /\ full[s] \subseteq 1..next /\ from[s] \in 0..next /\ from[s] \in Nat /\ Complete(s)
    BY ClientTypes
  <2>2. Len(subs[s]) <= ChanSize /\ Len(subs[s]) \in Nat
    BY <2>1 DEF StreamInv, StreamTypes
  <2>3. Elements(Sent(s)) = (from[s] + 1 .. next) \ full[s]
    BY <2>1 DEF Complete
  <2>4. (from[s] + 1 .. x) = (from[s] + 1 .. next) \cup {x} /\ x \notin full[s] /\ x \notin 1..next
    BY <1>2, <2>1 DEF x
  <2>5. CASE Len(subs[s]) = ChanSize
    <3>1. subs'[s] = subs[s] /\ full'[s] = full[s] \cup {x}
      BY <1>1, <1>2, <2>1, <2>5 DEF Send
    <3>2. Sent(s)' = Sent(s)
      BY <1>1, <3>1 DEF Sent
    <3>3. Elements(Sent(s)) = (from'[s] + 1 .. next') \ full'[s]
      BY <1>1, <2>1, <2>3, <2>4, <3>1
    <3>4. Elements(Sent(s))' = Elements(Sent(s)) /\ Increasing(Sent(s))'
      BY <2>1, <3>2 DEF Elements, Increasing, Complete
    <3> QED BY <2>1, <2>2, <3>1, <3>3, <3>4 DEF Complete
  <2>6. CASE Len(subs[s]) < ChanSize
    <3>1. subs'[s] = Append(subs[s], x) /\ full'[s] = full[s]
      BY <1>1, <2>1, <2>2, <2>6 DEF Send
    <3>2. subs'[s] \in Seq(1..MaxIds) /\ Len(subs'[s]) <= ChanSize
      BY <1>2, <2>1, <2>2, <2>6, <3>1, AppendProperties
    <3>3. Sent(s)' = Append(Sent(s), x)
      <4>1. got[s] \o Append(subs[s], x) = Append(got[s] \o subs[s], x)
        <5> DEFINE Ids == 1..MaxIds
                   g == got[s]
                   q == subs[s]
        <5>1. g \in Seq(Ids) /\ q \in Seq(Ids) /\ x \in Ids
          BY <1>2, <2>1
        <5> HIDE DEF Ids, g, q
        <5>2. g \o Append(q, x) = Append(g \o q, x)
          BY <5>1, AppendToChannel
        <5> QED BY <5>2 DEF g, q
      <4>2. got'[s] = got[s]
        BY <1>1
      <4> QED BY <3>1, <4>1, <4>2 DEF Sent
    <3>4. \A i \in 1..Len(Sent(s)) : Sent(s)[i] < x
      <4>1. \A i \in 1..Len(Sent(s)) : Sent(s)[i] \in from[s] + 1 .. next
        BY <2>3 DEF Elements
      <4> QED BY <1>2, <2>1, <4>1 DEF x
    <3>5. Increasing(Append(Sent(s), x)) /\ Elements(Append(Sent(s), x)) = Elements(Sent(s)) \cup {x}
      BY <1>2, <2>1, <3>4, AppendLarger DEF Complete
    <3>6. Elements(Sent(s)) \cup {x} = (from'[s] + 1 .. next') \ full'[s]
      BY <1>1, <2>3, <2>4, <3>1
    <3>7. Increasing(Sent(s))' /\ Elements(Sent(s))' = Elements(Append(Sent(s), x))
      BY <3>3, <3>5 DEF Increasing, Elements
    <3> QED BY <3>2, <3>5, <3>6, <3>7 DEF Complete
  <2> QED BY <1>2, <2>2, <2>5, <2>6
<1>4. ASSUME NEW s \in Subscribers
      PROVE  full'[s] \in SUBSET (1..MaxIds) /\ full'[s] \subseteq 1..next' /\ from'[s] <= next'
  <2>1. full[s] \in SUBSET (1..MaxIds) /\ full[s] \subseteq 1..next /\ from[s] <= next /\ from[s] \in 0..MaxIds
    BY DEF StreamInv, StreamTypes
  <2>2. full'[s] = full[s] \/ full'[s] = full[s] \cup {x}
    BY <1>1
  <2>3. from[s] <= x
    BY <1>2, <2>1 DEF x
  <2> QED BY <1>1, <1>2, <2>1, <2>2, <2>3
<1>5. full' \in [Subscribers -> SUBSET (1..MaxIds)]
  BY <1>1, <1>4
<1>6. StreamTypes'
  BY <1>1, <1>3, <1>5 DEF StreamInv, StreamTypes
<1>7. StreamFaithful'
  <2>1. \A s \in DOMAIN subs' : Complete(s)'
    BY <1>1, <1>3
  <2> QED BY <2>1 DEF StreamFaithful, Complete, Sent, Increasing, Elements
<1> QED BY <1>4, <1>6, <1>7 DEF StreamInv

\* A client that subscribes has got nothing and missed nothing since.
LEMMA StreamSubscribe ==
  ASSUME CollectorAssumption, CounterTypes, StreamInv, NEW s \in Subscribers, Subscribe(s)
  PROVE  StreamInv'
<1>1. /\ s \notin DOMAIN subs /\ subs' = With(subs, s, <<>>) /\ from' = [from EXCEPT ![s] = next]
      /\ got' = [got EXCEPT ![s] = <<>>] /\ full' = [full EXCEPT ![s] = {}] /\ next' = next
  BY DEF Subscribe
<1>2. DOMAIN subs' = DOMAIN subs \cup {s} /\ subs'[s] = <<>>
      /\ \A r \in DOMAIN subs : r # s /\ subs'[r] = subs[r]
  BY <1>1 DEF With
<1>3. MaxIds \in Nat /\ ChanSize \in Nat /\ next \in 0..MaxIds
  BY Bounds DEF CounterTypes
<1>4. StreamTypes'
  <2>1. <<>> \in Seq(1..MaxIds) /\ Len(<<>>) <= ChanSize
    BY <1>3
  <2> QED BY <1>1, <1>2, <1>3, <2>1 DEF StreamInv, StreamTypes
<1>5. \A r \in Subscribers : full'[r] \subseteq 1..next' /\ from'[r] <= next'
  BY <1>1, <1>3 DEF StreamInv, StreamTypes
<1>6. ASSUME NEW r \in DOMAIN subs' PROVE Complete(r)'
  <2>1. CASE r = s
    <3>1. got'[s] = <<>> /\ full'[s] = {} /\ from'[s] = next
      BY <1>1 DEF StreamInv, StreamTypes
    <3>2. Sent(r)' = <<>>
      BY <1>2, <2>1, <3>1 DEF Sent
    <3>3. (from'[s] + 1 .. next') \ full'[s] = {}
      BY <1>1, <1>3, <3>1
    <3>4. Increasing(<<>>) /\ Elements(<<>>) = {}
      BY DEF Increasing, Elements
    <3> QED BY <2>1, <3>2, <3>3, <3>4 DEF Complete, Increasing, Elements
  <2>2. CASE r # s
    <3>1. r \in DOMAIN subs /\ r \in Subscribers
      BY <1>2, <2>2 DEF StreamInv, StreamTypes
    <3>2. /\ Sent(r)' = Sent(r) /\ full'[r] = full[r] /\ from'[r] = from[r]
      BY <1>1, <1>2, <2>2, <3>1 DEF Sent, StreamInv, StreamTypes
    <3>3. Complete(r)
      BY <3>1, ClientTypes
    <3> QED BY <1>1, <3>2, <3>3 DEF Complete, Increasing, Elements
  <2> QED BY <2>1, <2>2
<1>7. StreamFaithful'
  BY <1>6 DEF StreamFaithful, Complete, Sent, Increasing, Elements
<1> QED BY <1>4, <1>5, <1>7 DEF StreamInv

\* To pass an event on changes nothing of the whole.
LEMMA StreamRelay ==
  ASSUME CollectorAssumption, CounterTypes, StreamInv, NEW s \in Subscribers, Relay(s)
  PROVE  StreamInv'
<1>1. /\ s \in DOMAIN subs /\ subs[s] # <<>> /\ UNCHANGED <<from, full, next>>
      /\ got' = [got EXCEPT ![s] = Append(got[s], Head(subs[s]))]
      /\ subs' = [subs EXCEPT ![s] = Tail(subs[s])]
  BY DEF Relay, collector
<1>2. /\ subs[s] \in Seq(1..MaxIds) /\ got[s] \in Seq(1..MaxIds)
      /\ got'[s] = Append(got[s], Head(subs[s])) /\ subs'[s] = Tail(subs[s])
  BY <1>1, ClientTypes DEF StreamInv, StreamTypes
<1>3. Head(subs[s]) \in 1..MaxIds /\ Tail(subs[s]) \in Seq(1..MaxIds)
      /\ Len(Tail(subs[s])) = Len(subs[s]) - 1 /\ Len(subs[s]) \in Nat
  BY <1>1, <1>2, FirstAndRest
<1>4. Append(got[s], Head(subs[s])) \in Seq(1..MaxIds)
  BY <1>2, <1>3, AppendProperties
<1>5. Len(subs'[s]) <= ChanSize /\ subs'[s] \in Seq(1..MaxIds)
  <2>1. ChanSize \in Nat /\ Len(subs[s]) <= ChanSize
    BY <1>1, Bounds DEF StreamInv, StreamTypes
  <2> QED BY <1>2, <1>3, <2>1
<1>6. StreamTypes'
  <2>1. got' \in [Subscribers -> Seq(1..MaxIds)]
    BY <1>1, <1>4 DEF StreamInv, StreamTypes
  <2>2. DOMAIN subs' = DOMAIN subs /\ \A r \in DOMAIN subs : r # s => subs'[r] = subs[r]
    BY <1>1
  <2> QED BY <1>1, <1>5, <2>1, <2>2 DEF StreamInv, StreamTypes
<1>7. ASSUME NEW r \in DOMAIN subs' PROVE Complete(r)'
  <2>1. r \in DOMAIN subs /\ r \in Subscribers /\ Complete(r)
    BY <1>1, ClientTypes
  <2>2. Sent(r)' = Sent(r)
    <3>1. CASE r = s
      BY <1>1, <1>2, <3>1, RelayKeepsWhole DEF Sent
    <3>2. CASE r # s
      <4>1. subs'[r] = subs[r] /\ got'[r] = got[r]
        BY <1>1, <2>1, <3>2 DEF StreamInv, StreamTypes
      <4> QED BY <4>1 DEF Sent
    <3> QED BY <3>1, <3>2
  <2> QED BY <1>1, <2>1, <2>2 DEF Complete, Increasing, Elements
<1>8. StreamFaithful'
  BY <1>7 DEF StreamFaithful, Complete, Sent, Increasing, Elements
<1> QED BY <1>1, <1>6, <1>8 DEF StreamInv

\* Every step leaves every stream in order and complete.
LEMMA StreamStep ==
  ASSUME CollectorAssumption, StreamInv, CounterTypes, CounterTypes', [CollectorNext]_collectorVars
  PROVE  StreamInv'
<1>1. ASSUME UNCHANGED <<subs, got, full, from, next>> PROVE StreamInv'
  BY <1>1 DEF StreamInv, StreamTypes, StreamFaithful
<1>2. CASE Flow
  <2>1. c \in Counts /\ next \in Nat
    BY Bounds DEF CounterTypes, Counts
  <2>2. \/ \E type : Publish(type, flows + 1)
        \/ UNCHANGED <<buf, next, subs, full>>
    BY <1>2, <2>1, FlowEmits
  <2>3. UNCHANGED streams
    BY <1>2 DEF Flow
  <2> QED BY <1>1, <2>2, <2>3, StreamPublish DEF streams
<1>3. CASE EndFlow
  <2>1. Publish("FLOW_END", Head(done)) /\ UNCHANGED streams
    BY <1>3 DEF EndFlow, EmitEnd
  <2> QED BY <2>1, StreamPublish
<1>4. ASSUME NEW s \in Subscribers, Unsubscribe(s) PROVE StreamInv'
  <2>1. /\ subs' = [r \in DOMAIN subs \ {s} |-> subs[r]] /\ UNCHANGED <<got, from, full, next>>
    BY <1>4 DEF Unsubscribe, streams, collector
  <2>2. DOMAIN subs' \subseteq DOMAIN subs /\ \A r \in DOMAIN subs' : subs'[r] = subs[r]
    BY <2>1
  <2>3. StreamTypes'
    BY <2>1, <2>2 DEF StreamInv, StreamTypes
  <2>4. \A r \in Subscribers : full'[r] \subseteq 1..next' /\ from'[r] <= next'
    BY <2>1 DEF StreamInv
  <2>5. ASSUME NEW r \in DOMAIN subs' PROVE Complete(r)'
    <3>1. r \in DOMAIN subs /\ subs'[r] = subs[r] /\ Complete(r)
      BY <2>2, ClientTypes
    <3>2. Sent(r)' = Sent(r)
      BY <2>1, <3>1 DEF Sent
    <3> QED BY <2>1, <3>1, <3>2 DEF Complete, Increasing, Elements
  <2>6. StreamFaithful'
    BY <2>5 DEF StreamFaithful, Complete, Sent, Increasing, Elements
  <2> QED BY <2>3, <2>4, <2>6 DEF StreamInv
<1>5. CASE Tick \/ Track \/ EndFlows \/ TickOver \/ UNCHANGED collectorVars
  <2>1. UNCHANGED <<subs, got, full, from, next>>
    BY <1>5 DEF Tick, Track, EndFlows, TickOver, collectorVars, collector, streams
  <2> QED BY <1>1, <2>1
<1> QED BY <1>2, <1>3, <1>4, <1>5, StreamSubscribe, StreamRelay DEF CollectorNext, Simulate

-----------------------------------------------------------------------------
(* The theorems *)

\* To begin with nothing has happened and the bucket is full.
LEMMA InitIInv ==
  ASSUME CollectorAssumption, CollectorInit
  PROVE  IInv
<1> USE DEF CollectorInit
<1>1. FlowsInv
  BY Bounds, FS_EmptySet DEF FlowsInv, Known
<1>2. CountersInv
  <2>1. Cardinality(ended) = 0
    BY FS_EmptySet
  <2> QED BY <2>1, Bounds DEF CountersInv, CounterTypes, CountersAddUp, Reasons
<1>3. BucketInv
  <2>1. since * Refill = 0 /\ Full \in Nat /\ Enough \in Nat
    BY Bounds, EnoughFills
  <2> QED BY <2>1 DEF BucketInv, BucketTypes, BucketExact, Refilled, Smaller
<1>4. RingInv /\ PairsInv
  BY Bounds DEF RingInv, PairsInv, Smaller
<1>5. StreamInv
  BY Bounds DEF StreamInv, StreamTypes, StreamFaithful
<1> QED BY <1>1, <1>2, <1>3, <1>4, <1>5 DEF IInv

\* Every step keeps the invariant.
LEMMA StepIInv ==
  ASSUME CollectorAssumption, IInv, [CollectorNext]_collectorVars
  PROVE  IInv'
<1>1. FlowsInv'
  BY FlowsStep DEF IInv
<1>2. CountersInv'
  BY CountersStep DEF IInv
<1>3. BucketInv'
  BY BucketStep DEF IInv
<1>4. RingInv' /\ PairsInv'
  BY <1>1, <1>2, PairsStep DEF IInv
<1>5. StreamInv'
  BY <1>2, StreamStep DEF IInv, CountersInv
<1> QED BY <1>1, <1>2, <1>3, <1>4, <1>5 DEF IInv

\* The inductive invariant holds in every state.
THEOREM Invariant == ASSUME CollectorAssumption PROVE CollectorSpec => []IInv
<1>1. CollectorInit => IInv
  BY InitIInv
<1>2. IInv /\ [CollectorNext]_collectorVars => IInv'
  BY StepIInv
<1> QED BY <1>1, <1>2, PTL DEF CollectorSpec

\* A sequence as a function.
LEMMA AsFunction ==
  ASSUME NEW S, NEW s \in Seq(S)
  PROVE  Len(s) \in Nat /\ s \in [1..Len(s) -> S]
OBVIOUS

\* A channel never holds more than it can.
LEMMA QueueBound ==
  ASSUME CollectorAssumption, NEW q \in Seq(1..MaxIds), Len(q) <= ChanSize
  PROVE  q \in Queues
<1>1. Len(q) \in Nat /\ q \in [1..Len(q) -> 1..MaxIds]
  BY AsFunction
<1>2. Len(q) \in 0..ChanSize
  BY <1>1, Bounds
<1> QED BY <1>1, <1>2 DEF Queues

\* Type correctness (EventCollector.CollectorTypeOK).
THEOREM TypeCorrect == ASSUME CollectorAssumption PROVE CollectorSpec => []CollectorTypeOK
<1>1. IInv => CollectorTypeOK
  <2> SUFFICES ASSUME IInv PROVE CollectorTypeOK
    OBVIOUS
  <2>1. MaxFlows \in Nat /\ BufSize \in Nat
    BY Bounds
  <2>2. flows \in 0..MaxFlows /\ Known \subseteq 1..MaxFlows
    BY <2>1 DEF IInv, FlowsInv, Known
  <2>3. DOMAIN open \subseteq 1..MaxFlows /\ ended \subseteq 1..MaxFlows /\ done \in Seq(1..MaxFlows)
    BY <2>2, SeqMonotonic DEF IInv, FlowsInv
  <2>4. buf \in Seq(Event) /\ Len(buf) <= BufSize
    <3>1. next \in Nat
      BY Bounds DEF IInv, CountersInv, CounterTypes
    <3> QED BY <2>1, <3>1 DEF IInv, RingInv, Smaller
  <2>5. \A s \in DOMAIN subs : subs[s] \in Queues
    BY QueueBound DEF IInv, StreamInv, StreamTypes
  <2> QED BY <2>2, <2>3, <2>4, <2>5
          DEF CollectorTypeOK, IInv, FlowsInv, CountersInv, CounterTypes, BucketInv, BucketTypes, StreamInv, StreamTypes
<1> QED BY <1>1, Invariant, PTL

\* The counters account for every flow, Recent gives the end of the stream, the
\* bucket is as if it were refilled all the time, a flow ends once, after it began,
\* and a client misses only what found its channel full: with rings, buckets,
\* channels and numbers of clients of any size (events.go, simulator.go, api.go
\* stream).
THEOREM EventsAlwaysAddUp == ASSUME CollectorAssumption PROVE CollectorSpec => []EventsAddUp
<1>1. IInv => EventsAddUp
  <2> SUFFICES ASSUME IInv PROVE EventsAddUp
    OBVIOUS
  <2>1. CountersAddUp /\ BucketExact /\ StreamFaithful
    BY DEF IInv, CountersInv, BucketInv, StreamInv
  <2>2. RingIsLatest
    <3>1. next \in Nat
      BY Bounds DEF IInv, CountersInv, CounterTypes
    <3> QED BY <3>1, RingGivesLatest DEF IInv
  <2>3. FlowsPair
    BY DEF FlowsPair, IInv, FlowsInv, PairsInv
  <2> QED BY <2>1, <2>2, <2>3 DEF EventsAddUp
<1> QED BY <1>1, Invariant, PTL

-----------------------------------------------------------------------------
(* XdpFirewall: what matches *)

\* The bits of a register loaded from two bytes, those of the first byte first.
LEMMA OnesOf ==
  ASSUME NEW b \in Bytes
  PROVE  Ones(Little(b, 4)) =
           {i \in 1..4 : \/ i = 1 /\ b[1] % 2 = 1
                         \/ i = 2 /\ b[1] \div 2 = 1
                         \/ i = 3 /\ b[2] % 2 = 1
                         \/ i = 4 /\ b[2] \div 2 = 1}
<1>1. b[1] \in 0..3 /\ b[2] \in 0..3
  BY DEF Bytes
<1> DEFINE n == b[1] + 4 * b[2]
<1>2. /\ n % 2 = b[1] % 2
      /\ (n \div 2) % 2 = b[1] \div 2
      /\ (n \div 4) % 2 = b[2] % 2
      /\ (n \div 8) % 2 = b[2] \div 2
  BY <1>1
<1>3. n \div 1 = n
  BY <1>1
<1>4. /\ <<1, 2, 4, 8>>[1] = 1 /\ <<1, 2, 4, 8>>[2] = 2
      /\ <<1, 2, 4, 8>>[3] = 4 /\ <<1, 2, 4, 8>>[4] = 8
  OBVIOUS
<1>5. Little(b, 4) = n
  BY DEF Little
<1> HIDE DEF n
<1>6. ASSUME NEW i \in 1..4
      PROVE  (n \div <<1, 2, 4, 8>>[i]) % 2 = 1 <=>
               \/ i = 1 /\ b[1] % 2 = 1
               \/ i = 2 /\ b[1] \div 2 = 1
               \/ i = 3 /\ b[2] % 2 = 1
               \/ i = 4 /\ b[2] \div 2 = 1
  <2>1. CASE i = 1
    BY <1>2, <1>3, <1>4, <2>1
  <2>2. CASE i = 2
    BY <1>2, <1>4, <2>2
  <2>3. CASE i = 3
    BY <1>2, <1>4, <2>3
  <2>4. CASE i = 4
    BY <1>2, <1>4, <2>4
  <2> QED BY <2>1, <2>2, <2>3, <2>4
<1> QED BY <1>5, <1>6, Zenon DEF Ones

\* Bytes of two bits are known by their bits.
LEMMA ByBits ==
  ASSUME NEW a \in 0..3, NEW b \in 0..3
  PROVE  /\ a = b <=> a % 2 = b % 2 /\ a \div 2 = b \div 2
         /\ a % 2 \in 0..1 /\ a \div 2 \in 0..1
OBVIOUS

\* The address under a mask, and so what is compared.
LEMMA MaskedIs ==
  ASSUME NEW b \in Bytes, NEW ip \in Bytes, NEW m \in Bytes
  PROVE  Masked(Little(b, 4), [ip |-> Little(ip, 4), mask |-> Little(m, 4)]) <=>
           /\ m[1] % 2 = 1 => b[1] % 2 = ip[1] % 2
           /\ m[1] \div 2 = 1 => b[1] \div 2 = ip[1] \div 2
           /\ m[2] % 2 = 1 => b[2] % 2 = ip[2] % 2
           /\ m[2] \div 2 = 1 => b[2] \div 2 = ip[2] \div 2
<1> DEFINE at(x, i) == \/ i = 1 /\ x[1] % 2 = 1
                       \/ i = 2 /\ x[1] \div 2 = 1
                       \/ i = 3 /\ x[2] % 2 = 1
                       \/ i = 4 /\ x[2] \div 2 = 1
<1>1. ASSUME NEW x \in Bytes PROVE Ones(Little(x, 4)) = {i \in 1..4 : at(x, i)}
  BY OnesOf
<1>2. Masked(Little(b, 4), [ip |-> Little(ip, 4), mask |-> Little(m, 4)]) <=>
        \A i \in 1..4 : at(m, i) => (at(b, i) <=> at(ip, i))
  <2> HIDE DEF at
  <2> QED BY <1>1 DEF Masked
<1>3. \A x \in Bytes : /\ x[1] % 2 \in 0..1 /\ x[1] \div 2 \in 0..1
                       /\ x[2] % 2 \in 0..1 /\ x[2] \div 2 \in 0..1
  <2> SUFFICES ASSUME NEW x \in Bytes
               PROVE  /\ x[1] % 2 \in 0..1 /\ x[1] \div 2 \in 0..1
                      /\ x[2] % 2 \in 0..1 /\ x[2] \div 2 \in 0..1
    OBVIOUS
  <2>1. x[1] \in 0..3 /\ x[2] \in 0..3
    BY DEF Bytes
  <2> QED BY <2>1, ByBits
<1> DEFINE low(x) == x % 2
           high(x) == x \div 2
<1>4. (\A i \in 1..4 : at(m, i) => (at(b, i) <=> at(ip, i))) <=>
        /\ low(m[1]) = 1 => (low(b[1]) = 1 <=> low(ip[1]) = 1)
        /\ high(m[1]) = 1 => (high(b[1]) = 1 <=> high(ip[1]) = 1)
        /\ low(m[2]) = 1 => (low(b[2]) = 1 <=> low(ip[2]) = 1)
        /\ high(m[2]) = 1 => (high(b[2]) = 1 <=> high(ip[2]) = 1)
  OBVIOUS
<1>5. \A x, y : x \in 0..1 /\ y \in 0..1 => ((x = 1 <=> y = 1) <=> x = y)
  OBVIOUS
<1> QED BY <1>2, <1>3, <1>4, <1>5

\* What parseCIDR makes of a CIDR matches the addresses the CIDR stands for.
LEMMA MaskedInCIDR ==
  ASSUME NEW b \in Bytes, NEW cidr \in Cidrs
  PROVE  Masked(Little(b, 4), ParseCIDR(cidr)) <=> InCIDR(b, cidr)
<1>1. /\ <<0, 0>> \in Bytes /\ <<2, 0>> \in Bytes /\ <<3, 0>> \in Bytes
      /\ <<3, 2>> \in Bytes /\ <<3, 3>> \in Bytes
  BY DEF Bytes
<1>2. /\ Little(<<0, 0>>, 4) = 0 /\ AllOnes = Little(<<3, 3>>, 4)
  BY DEF Little, AllOnes
<1>3. b[1] \in 0..3 /\ b[2] \in 0..3 /\ b = <<b[1], b[2]>>
  BY DEF Bytes
<1>4. ASSUME NEW ip \in Bytes
      PROVE  Masked(Little(b, 4), [ip |-> Little(ip, 4), mask |-> AllOnes]) <=> b = ip
  <2>1. ip[1] \in 0..3 /\ ip[2] \in 0..3 /\ ip = <<ip[1], ip[2]>>
    BY DEF Bytes
  <2>2. /\ 3 % 2 = 1 /\ 3 \div 2 = 1 /\ <<3, 3>>[1] = 3 /\ <<3, 3>>[2] = 3
    OBVIOUS
  <2>3. Masked(Little(b, 4), [ip |-> Little(ip, 4), mask |-> AllOnes]) <=>
          /\ b[1] % 2 = ip[1] % 2 /\ b[1] \div 2 = ip[1] \div 2
          /\ b[2] % 2 = ip[2] % 2 /\ b[2] \div 2 = ip[2] \div 2
    BY <1>1, <1>2, <2>2, MaskedIs
  <2>4. b = ip <=> b[1] = ip[1] /\ b[2] = ip[2]
    BY <1>3, <2>1
  <2> QED BY <1>3, <2>1, <2>3, <2>4, ByBits
<1>5. CASE cidr.kind = "empty"
  <2>1. Masked(Little(b, 4), [ip |-> 0, mask |-> 0])
    <3>1. 0 % 2 = 0 /\ 0 \div 2 = 0 /\ <<0, 0>>[1] = 0 /\ <<0, 0>>[2] = 0
      OBVIOUS
    <3> QED BY <1>1, <1>2, <3>1, MaskedIs
  <2> QED BY <1>5, <2>1 DEF ParseCIDR, InCIDR
<1>6. CASE cidr.kind = "address"
  <2>1. cidr.ip \in Bytes
    BY <1>6 DEF Cidrs
  <2> QED BY <1>4, <1>6, <2>1 DEF ParseCIDR, InCIDR
<1>7. CASE cidr.kind = "other"
  <2>1. ParseCIDR(cidr) = [ip |-> Little(<<3, 3>>, 4), mask |-> AllOnes]
    BY <1>2, <1>7 DEF ParseCIDR
  <2>2. InCIDR(b, cidr) <=> b = <<3, 3>>
    BY <1>7 DEF InCIDR
  <2> QED BY <1>1, <1>4, <2>1, <2>2
<1>8. CASE cidr.kind = "prefix"
  <2>1. cidr.ip \in Bytes /\ cidr.len \in 0..4
    BY <1>8 DEF Cidrs
  <2> DEFINE ip == cidr.ip
             m == MaskBytes(cidr.len)
             same(i) == Bits(b)[i] = Bits(ip)[i]
  <2>2. /\ cidr.len = 0 => m = <<0, 0>>
        /\ cidr.len = 1 => m = <<2, 0>>
        /\ cidr.len = 2 => m = <<3, 0>>
        /\ cidr.len = 3 => m = <<3, 2>>
        /\ cidr.len = 4 => m = <<3, 3>>
    BY DEF MaskBytes
  <2>3. m \in Bytes
    BY <1>1, <2>1, <2>2
  <2>4. FromBig(Big(m, 4), 4) = m
    <3>1. m[1] \in 0..3 /\ m[2] \in 0..3 /\ m = <<m[1], m[2]>>
      BY <2>3 DEF Bytes
    <3> HIDE DEF m
    <3>2. (4 * m[1] + m[2]) \div 4 = m[1] /\ (4 * m[1] + m[2]) % 4 = m[2]
      BY <3>1
    <3> QED BY <3>1, <3>2 DEF FromBig, Big
  <2>5. ParseCIDR(cidr) = [ip |-> Little(ip, 4), mask |-> Little(m, 4)]
    BY <1>8, <2>4 DEF ParseCIDR
  <2>6. Masked(Little(b, 4), ParseCIDR(cidr)) <=>
          /\ m[1] % 2 = 1 => same(2)
          /\ m[1] \div 2 = 1 => same(1)
          /\ m[2] % 2 = 1 => same(4)
          /\ m[2] \div 2 = 1 => same(3)
    <3>1. /\ Bits(b)[1] = b[1] \div 2 /\ Bits(b)[2] = b[1] % 2
          /\ Bits(b)[3] = b[2] \div 2 /\ Bits(b)[4] = b[2] % 2
          /\ Bits(ip)[1] = ip[1] \div 2 /\ Bits(ip)[2] = ip[1] % 2
          /\ Bits(ip)[3] = ip[2] \div 2 /\ Bits(ip)[4] = ip[2] % 2
      BY DEF Bits
    <3> HIDE DEF m
    <3> QED BY <2>1, <2>3, <2>5, <3>1, MaskedIs
  <2>7. InCIDR(b, cidr) <=> \A i \in 1..cidr.len : same(i)
    <3>1. /\ Bits(b) \in Seq(Int) /\ Len(Bits(b)) = 4
          /\ Bits(ip) \in Seq(Int) /\ Len(Bits(ip)) = 4
      <4>1. ASSUME NEW x \in Bytes PROVE Bits(x) \in Seq(Int) /\ Len(Bits(x)) = 4
        <5>1. x[1] \in Int /\ x[2] \in Int
          BY DEF Bytes
        <5>2. x[1] \div 2 \in Int /\ x[1] % 2 \in Int /\ x[2] \div 2 \in Int /\ x[2] % 2 \in Int
          BY <5>1
        <5> QED BY <5>2 DEF Bits
      <4> QED BY <2>1, <4>1
    <3> DEFINE x == Bits(b)
               y == Bits(ip)
    <3> HIDE DEF x, y
    <3>2. SubSeq(x, 1, cidr.len) = SubSeq(y, 1, cidr.len) <=> \A i \in 1..cidr.len : x[i] = y[i]
      <4>1. /\ SubSeq(x, 1, cidr.len) = [i \in 1..cidr.len |-> x[i]]
            /\ SubSeq(y, 1, cidr.len) = [i \in 1..cidr.len |-> y[i]]
        BY <2>1, <3>1 DEF x, y
      <4> QED BY <4>1
    <3> QED BY <1>8, <3>2 DEF InCIDR, x, y
  <2>8. /\ 0 % 2 = 0 /\ 0 \div 2 = 0 /\ 2 % 2 = 0 /\ 2 \div 2 = 1 /\ 3 % 2 = 1 /\ 3 \div 2 = 1
    OBVIOUS
  <2> HIDE DEF same
  <2>9. CASE cidr.len = 0
    BY <2>2, <2>6, <2>7, <2>8, <2>9
  <2>10. CASE cidr.len = 1
    <3>1. m[1] = 2 /\ m[2] = 0
      BY <2>2, <2>10
    <3>2. (\A i \in 1..cidr.len : same(i)) <=> same(1)
      BY <2>10
    <3> QED BY <2>6, <2>7, <2>8, <3>1, <3>2
  <2>11. CASE cidr.len = 2
    <3>1. m[1] = 3 /\ m[2] = 0
      BY <2>2, <2>11
    <3>2. (\A i \in 1..cidr.len : same(i)) <=> same(1) /\ same(2)
      BY <2>11
    <3> QED BY <2>6, <2>7, <2>8, <3>1, <3>2
  <2>12. CASE cidr.len = 3
    <3>1. m[1] = 3 /\ m[2] = 2
      BY <2>2, <2>12
    <3>2. (\A i \in 1..cidr.len : same(i)) <=> same(1) /\ same(2) /\ same(3)
      BY <2>12
    <3> QED BY <2>6, <2>7, <2>8, <3>1, <3>2
  <2>13. CASE cidr.len = 4
    <3>1. m[1] = 3 /\ m[2] = 3
      BY <2>2, <2>13
    <3>2. (\A i \in 1..cidr.len : same(i)) <=> same(1) /\ same(2) /\ same(3) /\ same(4)
      BY <2>13
    <3> QED BY <2>6, <2>7, <2>8, <3>1, <3>2
  <2> QED BY <2>1, <2>9, <2>10, <2>11, <2>12, <2>13
<1> QED BY <1>5, <1>6, <1>7, <1>8 DEF Cidrs

\* What syncRules writes for a rule matches the packets of the rule.
LEMMA CompiledMatches ==
  ASSUME NEW r \in RuleSpecs, NEW p \in Frames
  PROVE  Matches(Compile(r), p) <=> Covers(r, p)
<1>1. /\ r.src \in Cidrs /\ r.dst \in Cidrs /\ r.port \in 0..3 /\ r.proto \in STRING
      /\ p.src \in Bytes /\ p.dst \in Bytes /\ p.proto \in Nat /\ p.dport \in [1..2 -> 0..1]
  BY DEF RuleSpecs, Frames, Ports
<1> DEFINE slot == Compile(r)
<1>2. /\ slot.src = ParseCIDR(r.src) /\ slot.dst = ParseCIDR(r.dst)
      /\ slot.port = htons(r.port) /\ slot.proto = ProtoToUint8(r.proto)
  BY DEF Compile
<1> HIDE DEF slot
<1>3. slot.proto \in {0, p.proto} <=>
        (ToUpper(r.proto) \in {"ICMP", "TCP", "UDP"} => p.proto = ProtoToUint8(r.proto))
  BY <1>1, <1>2 DEF ProtoToUint8
<1>4. slot.port \in {0, DstPort(p)} <=>
        (r.port # 0 => p.proto \in {6, 17} /\ p.whole /\ Big(p.dport, 2) = r.port)
  <2>1. p.dport[1] \in 0..1 /\ p.dport[2] \in 0..1
    BY <1>1
  <2>2. FromBig(r.port, 2) = <<r.port \div 2, r.port % 2>>
    BY DEF FromBig
  <2> DEFINE h == r.port \div 2
             l == r.port % 2
  <2>3. h \in 0..1 /\ l \in 0..1 /\ r.port = 2 * h + l
    BY <1>1
  <2>4. htons(r.port) = h + 2 * l
    BY <2>2 DEF htons, Little
  <2> HIDE DEF h, l
  <2>5. Little(p.dport, 2) = p.dport[1] + 2 * p.dport[2] /\ Big(p.dport, 2) = 2 * p.dport[1] + p.dport[2]
    BY DEF Little, Big
  <2>6. /\ slot.port = 0 <=> r.port = 0
        /\ slot.port = Little(p.dport, 2) <=> Big(p.dport, 2) = r.port
    BY <1>2, <2>1, <2>3, <2>4, <2>5
  <2>7. CASE p.proto \in {6, 17} /\ p.whole
    BY <2>6, <2>7 DEF DstPort
  <2>8. CASE ~(p.proto \in {6, 17} /\ p.whole)
    BY <2>6, <2>8 DEF DstPort
  <2> QED BY <2>7, <2>8
<1> QED BY <1>1, <1>2, <1>3, <1>4, MaskedInCIDR DEF Matches, Covers, slot

-----------------------------------------------------------------------------
(* XdpFirewall: the inductive invariant *)

\* A list as it may be installed.
SortedLists == {l \in Seq(RuleSpecs) : ByPriority(l)}

Fitting(l) == IF Len(l) < MaxRules THEN Len(l) ELSE MaxRules

FileTypes ==
  /\ rulesFile \in RuleFiles /\ mtime \in 0..MaxTime /\ newest \in 0..MaxTime
  /\ polling \in {"sleep", "load", "put"}
  /\ statted \in 0..MaxTime /\ lastModTime \in 0..MaxTime
  /\ fresh \in BOOLEAN /\ intact \in BOOLEAN /\ wasIntact \in BOOLEAN
  /\ writes \in 0..MaxWrites /\ failures \in 0..MaxFailures

Listed(l) == l \in RuleLists \cup {<<>>}
InstalledSlots == {Zero} \cup {Compile(r) : r \in UNION {Range(l) : l \in RuleLists}}

ListTypes ==
  /\ cur \in SortedLists /\ old \in SortedLists /\ Listed(cur) /\ Listed(old)
  /\ during \subseteq SortedLists /\ \A l \in during : Listed(l)
  /\ IsFiniteSet(during)

\* Slot i holds a rule of list l.
Holds(i, l) == i <= Len(l) /\ slots[i] = Compile(l[i])

\* After an installation without a failed Put the map holds its list.  During one
\* a slot below the next holds that list, or what the list before it left there,
\* and the count is that of the latter until all is written.
MapInv ==
  /\ slots \in [1..MaxRules -> InstalledSlots]
  /\ slotNo \in 1..MaxRules+1 /\ count \in 0..MaxRules
  /\ polling # "put" /\ intact => count = Fitting(cur) /\ \A i \in 1..count : Holds(i, cur)
  /\ polling = "put" =>
       /\ slotNo \in 1..Fitting(cur)+1
       /\ intact => \A i \in 1..slotNo-1 : Holds(i, cur)
       /\ wasIntact => count = Fitting(old) /\ \A i \in 1..count : Holds(i, cur) \/ Holds(i, old)

ScanTypes ==
  scan \in {NoScan}
    \cup [step : {"slot", "action"}, packet : Frames, rules : 0..MaxRules, i : 1..MaxRules+1]
    \cup [step : {"done"}, packet : Frames, action : {0, 1}]

\* What is in use, when it is known, is noted as long as a packet is under way, and
\* every slot it will be compared with holds a rule of that.
UseNoted ==
  /\ scan = NoScan => during = {}
  /\ during # {} => cur \in during /\ (polling = "put" => old \in during)
  /\ scan.step \in {"slot", "action"} => scan.packet.ipv4
  /\ scan.step \in {"slot", "action"} /\ during # {} =>
       \A i \in 1..scan.rules : \E l \in during : Holds(i, l)
  /\ scan.step = "action" => scan.i \in 1..scan.rules
  /\ PassNeedsAPassRule

\* A rule of the list l that comes first for the packet.
FirstHit(l, p, i) ==
  /\ i \in 1..Fitting(l) /\ Matches(Compile(l[i]), p)
  /\ \A j \in 1..i-1 : ~Matches(Compile(l[j]), p)

\* With one list in use the packet has been compared with its first rules.
OneList ==
  \A l \in during : during = {l} =>
    /\ scan.step \in {"slot", "action"} =>
         /\ scan.rules = Fitting(l) /\ scan.i <= scan.rules + 1
         /\ \A j \in 1..scan.i-1 : ~Matches(Compile(l[j]), scan.packet)
    /\ scan.step = "action" => Matches(Compile(l[scan.i]), scan.packet)
    /\ scan.step = "done" /\ scan.packet.ipv4 =>
         \/ \E i \in 1..Fitting(l) : FirstHit(l, scan.packet, i) /\ scan.action = Compile(l[i]).action
         \/ scan.action = 0 /\ \A i \in 1..Fitting(l) : ~Matches(Compile(l[i]), scan.packet)

XdpIInv == FileTypes /\ ListTypes /\ MapInv /\ ScanTypes /\ UseNoted /\ OneList

-----------------------------------------------------------------------------
LEMMA FittingIs ==
  ASSUME XdpAssumption, NEW l \in SortedLists
  PROVE  Fitting(l) \in 0..MaxRules /\ Fitting(l) <= Len(l) /\ Len(l) \in Nat
BY DEF Fitting, SortedLists, XdpAssumption

LEMMA RuleOf ==
  ASSUME NEW l \in SortedLists, NEW i \in 1..Len(l)
  PROVE  l[i] \in RuleSpecs /\ l[i] \in Range(l)
BY DEF SortedLists, Range

\* The empty list.
LEMMA NoRules == /\ <<>> \in SortedLists /\ Len(<<>>) = 0 /\ Listed(<<>>)
BY DEF SortedLists, ByPriority, Listed

\* What is written for a rule of a list that is installed.
LEMMA CompiledIs ==
  ASSUME NEW l \in SortedLists, Listed(l), NEW i \in 1..Len(l)
  PROVE  Compile(l[i]) \in InstalledSlots
<1>1. l \in RuleLists
  <2>1. Len(<<>>) = 0
    OBVIOUS
  <2> QED BY <2>1 DEF Listed, SortedLists
<1> QED BY <1>1, RuleOf DEF InstalledSlots

LEMMA ActionIs ==
  ASSUME NEW r
  PROVE  Compile(r).action \in {0, 1} /\ (Compile(r).action = 1 => ToUpper(r.action) = "PASS")
BY DEF Compile, ActionToUint8

\* A file is sorted into a list.
LEMMA SortedIs ==
  ASSUME XdpAssumption, NEW f \in RuleFiles, Parses(f), NEW l \in Sorted(f)
  PROVE  l \in SortedLists /\ Listed(l)
<1>1. f \in Seq(RuleSpecs) /\ DOMAIN f = 1..Len(f) /\ Len(f) \in Nat
  BY DEF XdpAssumption, Parses
<1>2. PICK p \in SetToSeqs(DOMAIN f) : l = [i \in DOMAIN f |-> f[p[i]]]
  BY DEF Sorted
<1>3. Cardinality(DOMAIN f) = Len(f)
  BY <1>1, FS_Interval
<1>4. p \in [1..Len(f) -> DOMAIN f]
  BY <1>2, <1>3 DEF SetToSeqs
<1>5. l \in [1..Len(f) -> RuleSpecs]
  BY <1>1, <1>2, <1>4
<1>6. l \in Seq(RuleSpecs)
  BY <1>1, <1>5
<1>7. ByPriority(l) /\ l \in RuleLists
  BY DEF Sorted, RuleLists
<1> QED BY <1>6, <1>7 DEF SortedLists, Listed

LEMMA StartXdpIInv == ASSUME XdpAssumption, XdpInit PROVE XdpIInv
<1> USE DEF XdpInit
<1>1. FileTypes
  <2>1. NoFile \in RuleFiles /\ MaxTime \in Nat /\ MaxWrites \in Nat /\ MaxFailures \in Nat
    BY DEF XdpAssumption
  <2>2. 0 \in 0..MaxTime /\ 0 \in 0..MaxWrites /\ 0 \in 0..MaxFailures
    BY <2>1
  <2> QED BY <2>1, <2>2 DEF FileTypes
<1>2. ListTypes
  BY NoRules, FS_EmptySet DEF ListTypes
<1>3. MapInv
  <2>1. Fitting(<<>>) = 0
    BY NoRules, FittingIs
  <2> QED BY <2>1 DEF MapInv, InstalledSlots, XdpAssumption
<1>4. ScanTypes /\ UseNoted /\ OneList
  BY DEF ScanTypes, UseNoted, PassNeedsAPassRule, OneList, NoScan
<1> QED BY <1>1, <1>2, <1>3, <1>4 DEF XdpIInv

\* While it is known what the map holds, the slots in use hold rules of the list in
\* force, or of that and the one being installed.
LEMMA KnownSlots ==
  ASSUME XdpIInv, MapKnown, NEW i \in 1..count
  PROVE  Holds(i, cur) \/ (polling = "put" /\ Holds(i, old))
BY DEF XdpIInv, MapInv, MapKnown

\* With one list in use the slots of the scan hold its rules, and nothing races.
LEMMA NoRace ==
  ASSUME XdpIInv, NEW l \in during, during = {l}, scan.step \in {"slot", "action"}
  PROVE  \A i \in 1..scan.rules : slots[i] = Compile(l[i]) /\ ~Racing(i)
<1>1. cur = l
  BY DEF XdpIInv, UseNoted
<1>2. \A i \in 1..scan.rules : Holds(i, l)
  BY DEF XdpIInv, UseNoted
<1> QED BY <1>1, <1>2 DEF Racing, Holds

-----------------------------------------------------------------------------
(* XdpFirewall: the steps *)

\* The scan keeps to the lists and to what it has seen when neither it nor the
\* lists in use change, and the slots it reads hold rules of them.
LEMMA ScanStays ==
  ASSUME XdpIInv, UNCHANGED <<scan, during, cur, old, slots>>, polling' = "put" => polling = "put"
  PROVE  ScanTypes' /\ UseNoted' /\ OneList'
<1>1. ScanTypes'
  BY DEF XdpIInv, ScanTypes
<1>2. UseNoted'
  BY DEF XdpIInv, UseNoted, PassNeedsAPassRule, Holds
<1>3. OneList'
  BY DEF XdpIInv, OneList, FirstHit, Fitting
<1> QED BY <1>1, <1>2, <1>3

LEMMA ListsStay ==
  ASSUME XdpIInv, UNCHANGED <<cur, old, during>>
  PROVE  ListTypes'
BY DEF XdpIInv, ListTypes, Listed

LEMMA FilesStay ==
  ASSUME XdpIInv, UNCHANGED <<editor, polling, statted, lastModTime, intact, wasIntact, failures>>
  PROVE  FileTypes'
BY DEF XdpIInv, FileTypes, editor

LEMMA MapStays ==
  ASSUME XdpIInv, UNCHANGED <<maps, slotNo, cur, old, polling, intact, wasIntact>>
  PROVE  MapInv'
BY DEF XdpIInv, MapInv, maps, Fitting, Holds

LEMMA WriteStep ==
  ASSUME XdpAssumption, XdpIInv, Write
  PROVE  XdpIInv'
<1> USE DEF Write, poller, maps
<1>1. FileTypes'
  <2>1. MaxTime \in Nat /\ MaxWrites \in Nat
    BY DEF XdpAssumption
  <2> QED BY <2>1 DEF XdpIInv, FileTypes
<1> QED BY <1>1, ScanStays, ListsStay, MapStays DEF XdpIInv

LEMMA StatStep ==
  ASSUME XdpAssumption, XdpIInv, Stat \/ LoadFails
  PROVE  XdpIInv'
<1> USE DEF Stat, LoadFails, editor, maps
<1>1. FileTypes'
  BY DEF XdpIInv, FileTypes
<1>2. MapInv'
  <2>1. UNCHANGED <<slots, count, slotNo, cur, intact>> /\ polling # "put" /\ polling' # "put"
    OBVIOUS
  <2> QED BY <2>1 DEF XdpIInv, MapInv, Fitting, Holds, InstalledSlots
<1> QED BY <1>1, <1>2, ScanStays, ListsStay DEF XdpIInv

LEMMA LoadStep ==
  ASSUME XdpAssumption, XdpIInv, Load
  PROVE  XdpIInv'
<1> USE DEF Load, editor, maps
<1>0. cur' \in SortedLists /\ Listed(cur')
  BY SortedIs DEF XdpIInv, FileTypes
<1>1. FileTypes'
  BY DEF XdpIInv, FileTypes
<1>2. ListTypes'
  <2>1. IsFiniteSet(during')
    BY FS_AddElement DEF XdpIInv, ListTypes
  <2> QED BY <1>0, <2>1 DEF XdpIInv, ListTypes, Listed
<1>3. MapInv'
  <2>1. Fitting(cur') \in Nat
    BY <1>0, FittingIs
  <2>2. MaxRules \in Nat /\ slots' \in [1..MaxRules -> InstalledSlots]
    BY DEF XdpAssumption, XdpIInv, MapInv, InstalledSlots
  <2>3. wasIntact' => count' = Fitting(old') /\ \A i \in 1..count' : Holds(i, old)'
    BY DEF XdpIInv, MapInv, Fitting, Holds
  <2>4. slotNo' \in 1..MaxRules+1 /\ slotNo' \in 1..Fitting(cur')+1 /\ slotNo' = 1
    BY <2>1, <2>2
  <2>5. Fitting(cur)' = Fitting(cur') /\ Fitting(old)' = Fitting(old') /\ InstalledSlots' = InstalledSlots
    BY DEF Fitting, InstalledSlots
  <2>6. count' \in 0..MaxRules
    BY DEF XdpIInv, MapInv
  <2> QED BY <2>2, <2>3, <2>4, <2>5, <2>6 DEF MapInv
<1>4. ScanTypes'
  BY DEF XdpIInv, ScanTypes
<1>5. UseNoted'
  <2>1. CASE during = {}
    BY <2>1 DEF XdpIInv, UseNoted, PassNeedsAPassRule
  <2>2. CASE during # {}
    <3>1. during' = during \cup {cur'} /\ old' \in during'
      BY <2>2 DEF XdpIInv, UseNoted
    <3>2. scan.step \in {"slot", "action"} => \A i \in 1..scan.rules : \E l \in during' : Holds(i, l)'
      BY <2>2, <3>1 DEF XdpIInv, UseNoted, Holds
    <3>3. PassNeedsAPassRule'
      BY <2>2, <3>1 DEF XdpIInv, UseNoted, PassNeedsAPassRule
    <3>4. scan # NoScan
      BY <2>2 DEF XdpIInv, UseNoted
    <3> QED BY <3>1, <3>2, <3>3, <3>4 DEF XdpIInv, UseNoted
  <2> QED BY <2>1, <2>2
<1>6. OneList'
  <2> SUFFICES ASSUME NEW l \in during', during' = {l} PROVE during = {l}
    BY DEF XdpIInv, OneList, FirstHit, Fitting
  <2> QED OBVIOUS
<1> QED BY <1>1, <1>2, <1>3, <1>4, <1>5, <1>6 DEF XdpIInv

LEMMA PutStep ==
  ASSUME XdpAssumption, XdpIInv, Put
  PROVE  XdpIInv'
<1> USE DEF Put, CountAt
<1>1. FileTypes' /\ ListTypes'
  BY FilesStay, ListsStay
<1>2. Installing = Fitting(cur) /\ Fitting(cur) \in 0..MaxRules /\ Fitting(cur) <= Len(cur) /\ Len(cur) \in Nat
  BY FittingIs DEF Installing, Fitting, XdpIInv, ListTypes
<1>3. slotNo \in 1..MaxRules /\ slotNo \in 1..Len(cur) /\ slotNo \in Nat /\ MaxRules \in Nat
  BY <1>2 DEF XdpIInv, MapInv, XdpAssumption
<1>4. slots' = [slots EXCEPT ![slotNo] = Compile(cur[slotNo])] /\ slots \in [1..MaxRules -> InstalledSlots]
  BY DEF XdpIInv, MapInv
<1>5. Compile(cur[slotNo]) \in InstalledSlots
  BY <1>3, CompiledIs DEF XdpIInv, ListTypes
<1>6. \A i \in 1..MaxRules : slots'[i] = IF i = slotNo THEN Compile(cur[slotNo]) ELSE slots[i]
  BY <1>3, <1>4
<1>7. \A i \in 1..MaxRules : \A l : (i # slotNo /\ Holds(i, l)) => Holds(i, l)'
  BY <1>6 DEF Holds
<1>8. \A i \in 1..MaxRules : i = slotNo => Holds(i, cur)'
  BY <1>2, <1>3, <1>6 DEF Holds
<1>9. MapInv'
  <2>1. slots' \in [1..MaxRules -> InstalledSlots]
    BY <1>4, <1>5
  <2>2. slotNo' \in 1..MaxRules+1 /\ slotNo' \in 1..Fitting(cur)+1
    BY <1>2, <1>3
  <2>3. count \in 0..MaxRules
    BY DEF XdpIInv, MapInv
  <2>4. intact => \A i \in 1..slotNo'-1 : Holds(i, cur)'
    <3> HAVE intact
    <3> TAKE i \in 1..slotNo'-1
    <3>1. i \in 1..MaxRules /\ (i = slotNo \/ i \in 1..slotNo-1)
      BY <1>3
    <3>2. i \in 1..slotNo-1 => i # slotNo /\ Holds(i, cur)
      BY <1>3 DEF XdpIInv, MapInv
    <3> QED BY <1>7, <1>8, <3>1, <3>2
  <2>5. wasIntact => count = Fitting(old) /\ \A i \in 1..count : Holds(i, cur)' \/ Holds(i, old)'
    <3> HAVE wasIntact
    <3>1. count = Fitting(old) /\ \A i \in 1..count : Holds(i, cur) \/ Holds(i, old)
      BY DEF XdpIInv, MapInv
    <3>2. \A i \in 1..count : i \in 1..MaxRules
      BY <1>3, <2>3
    <3> QED BY <1>7, <1>8, <3>1, <3>2
  <2>6. Fitting(cur)' = Fitting(cur) /\ Fitting(old)' = Fitting(old) /\ InstalledSlots' = InstalledSlots
    BY DEF Fitting, InstalledSlots
  <2> QED BY <2>1, <2>2, <2>3, <2>4, <2>5, <2>6 DEF MapInv
<1>10. ScanTypes'
  BY DEF XdpIInv, ScanTypes
<1>11. UseNoted'
  <2>1. ASSUME scan.step \in {"slot", "action"}, during # {}, NEW i \in 1..scan.rules
        PROVE  \E l \in during : Holds(i, l)'
    <3>1. scan.rules \in 0..MaxRules
      BY <2>1 DEF XdpIInv, ScanTypes, NoScan
    <3>2. CASE i = slotNo
      <4>1. Holds(i, cur)' /\ cur \in during
        BY <1>3, <1>8, <2>1, <3>2 DEF XdpIInv, UseNoted
      <4> QED BY <4>1 DEF Holds
    <3>3. CASE i # slotNo
      BY <1>3, <1>7, <2>1, <3>1, <3>3 DEF XdpIInv, UseNoted
    <3> QED BY <3>2, <3>3
  <2>2. PassNeedsAPassRule'
    BY DEF XdpIInv, UseNoted, PassNeedsAPassRule
  <2> QED BY <2>1, <2>2 DEF XdpIInv, UseNoted
<1>12. OneList'
  BY DEF XdpIInv, OneList, FirstHit, Fitting
<1> QED BY <1>1, <1>9, <1>10, <1>11, <1>12 DEF XdpIInv

LEMMA PutCountStep ==
  ASSUME XdpAssumption, XdpIInv, PutCount
  PROVE  XdpIInv'
<1> USE DEF PutCount, SeenTime, editor
<1>1. FileTypes'
  BY DEF XdpIInv, FileTypes
<1>2. ListTypes'
  BY ListsStay
<1>3. Installing = Fitting(cur) /\ Fitting(cur) \in 0..MaxRules
  BY FittingIs DEF Installing, Fitting, XdpIInv, ListTypes
<1>4. MapInv'
  <2>1. count' = Fitting(cur) /\ slotNo = Fitting(cur) + 1
    BY <1>3
  <2>2. intact => \A i \in 1..count' : Holds(i, cur)'
    BY <1>3, <2>1 DEF XdpIInv, MapInv, Holds
  <2>3. Fitting(cur)' = Fitting(cur) /\ InstalledSlots' = InstalledSlots
    BY DEF Fitting, InstalledSlots
  <2> QED BY <1>3, <2>1, <2>2, <2>3 DEF XdpIInv, MapInv
<1>5. ScanTypes' /\ UseNoted' /\ OneList'
  BY ScanStays
<1> QED BY <1>1, <1>2, <1>4, <1>5 DEF XdpIInv

\* A Put that fails leaves the map, and says so.
LEMMA PutFailsStep ==
  ASSUME XdpAssumption, XdpIInv, PutFails \/ PutCountFails
  PROVE  XdpIInv'
<1> USE DEF PutFails, PutCountFails, Fails, SeenTime, editor, maps
<1>1. FileTypes'
  <2>1. failures' \in 0..MaxFailures
    BY DEF XdpIInv, FileTypes, XdpAssumption
  <2> QED BY <2>1 DEF XdpIInv, FileTypes
<1>2. ListTypes'
  BY ListsStay
<1>3. Installing = Fitting(cur) /\ Fitting(cur) \in 0..MaxRules /\ MaxRules \in Nat
  BY FittingIs DEF Installing, Fitting, XdpIInv, ListTypes, XdpAssumption
<1>4. MapInv'
  <2>1. /\ UNCHANGED <<slots, count, cur, old, wasIntact>> /\ ~intact' /\ polling = "put"
        /\ polling' = "put" => slotNo' \in 1..Fitting(cur)+1
        /\ slotNo' \in 1..MaxRules+1
    BY <1>3 DEF XdpIInv, MapInv
  <2>2. wasIntact => count = Fitting(old) /\ \A i \in 1..count : Holds(i, cur) \/ Holds(i, old)
    BY <2>1 DEF XdpIInv, MapInv
  <2>3. \A l : Fitting(l)' = Fitting(l) /\ \A i : Holds(i, l)' <=> Holds(i, l)
    BY <2>1 DEF Fitting, Holds
  <2>4. InstalledSlots' = InstalledSlots /\ slots \in [1..MaxRules -> InstalledSlots] /\ count \in 0..MaxRules
    BY DEF InstalledSlots, XdpIInv, MapInv
  <2>5. Fitting(cur)' = Fitting(cur) /\ Fitting(old)' = Fitting(old)
    BY <2>1 DEF Fitting
  <2>6. wasIntact' => count' = Fitting(old)' /\ \A i \in 1..count' : Holds(i, cur)' \/ Holds(i, old)'
    BY <2>1, <2>2 DEF Holds, Fitting
  <2> QED BY <2>1, <2>4, <2>5, <2>6 DEF MapInv
<1>5. ScanTypes' /\ UseNoted' /\ OneList'
  BY ScanStays
<1> QED BY <1>1, <1>2, <1>4, <1>5 DEF XdpIInv

\* What is in use when a packet comes.
LEMMA InUseIs ==
  ASSUME XdpIInv
  PROVE  /\ InUse \subseteq {old, cur}
         /\ InUse # {} => MapKnown /\ cur \in InUse /\ (polling = "put" => old \in InUse)
BY DEF InUse

LEMMA BeginStep ==
  ASSUME XdpAssumption, XdpIInv, NEW p \in Packets, Begin(p) \/ PassOther(p)
  PROVE  XdpIInv'
<1> USE DEF editor, poller, maps
<1>0. /\ UNCHANGED <<editor, poller, maps>> /\ during' = InUse
      /\ \/ scan' = [step |-> "slot", packet |-> p, rules |-> count, i |-> 1] /\ p.ipv4
         \/ scan' = [step |-> "done", packet |-> p, action |-> 1] /\ ~p.ipv4
  BY DEF Begin, PassOther
<1>1. FileTypes' /\ MapInv'
  BY <1>0, FilesStay, MapStays
<1>2. p \in Frames
  BY DEF XdpAssumption
<1>3. count \in 0..MaxRules /\ MaxRules \in Nat
  BY DEF XdpIInv, MapInv, XdpAssumption
<1>4. ListTypes'
  <2>1. IsFiniteSet({old, cur})
    <3>1. IsFiniteSet({cur})
      BY FS_Singleton
    <3>2. IsFiniteSet({cur} \cup {old})
      BY <3>1, FS_AddElement
    <3>3. {cur} \cup {old} = {old, cur}
      OBVIOUS
    <3> QED BY <3>1, <3>2, <3>3
  <2>2. IsFiniteSet(during') /\ during' \subseteq {old, cur}
    BY <1>0, <2>1, InUseIs, FS_Subset
  <2> QED BY <1>0, <2>2 DEF XdpIInv, ListTypes, Listed
<1>5. CASE scan' = [step |-> "slot", packet |-> p, rules |-> count, i |-> 1] /\ p.ipv4
  <2>1. /\ scan'.step = "slot" /\ scan'.packet = p /\ scan'.rules = count /\ scan'.i = 1 /\ scan' # NoScan
    BY <1>5 DEF NoScan
  <2>2. ScanTypes'
    BY <1>2, <1>3, <1>5 DEF ScanTypes
  <2>3. ASSUME during' # {}, NEW i \in 1..count PROVE \E l \in during' : Holds(i, l)'
    <3>1. MapKnown /\ cur \in during' /\ (polling = "put" => old \in during')
      BY <1>0, <2>3, InUseIs
    <3>2. \A l : Holds(i, l)' <=> Holds(i, l)
      BY <1>0 DEF Holds
    <3> QED BY <2>3, <3>1, <3>2, KnownSlots
  <2>4. PassNeedsAPassRule'
    BY <2>1 DEF PassNeedsAPassRule
  <2>5. UseNoted'
    BY <1>0, <1>5, <2>1, <2>3, <2>4, InUseIs DEF UseNoted
  <2>6. ASSUME NEW l \in during', during' = {l} PROVE count = Fitting(l)
    <3>1. MapKnown /\ l = cur /\ (polling = "put" => l = old)
      BY <1>0, <2>6, InUseIs
    <3> QED BY <3>1 DEF XdpIInv, MapInv, MapKnown
  <2>7. scan'.i <= scan'.rules + 1 /\ 1..scan'.i-1 = {} /\ scan'.step # "action" /\ scan'.step # "done"
    BY <1>3, <2>1
  <2>8. \A l : Fitting(l)' = Fitting(l)
    BY DEF Fitting
  <2>9. OneList'
    BY <2>1, <2>6, <2>7, <2>8, Zenon DEF OneList
  <2> QED BY <1>1, <1>4, <2>2, <2>5, <2>9 DEF XdpIInv
<1>6. CASE scan' = [step |-> "done", packet |-> p, action |-> 1] /\ ~p.ipv4
  <2>1. scan'.step = "done" /\ scan'.packet = p /\ scan' # NoScan
    BY <1>6 DEF NoScan
  <2>2. ScanTypes'
    BY <1>2, <1>6 DEF ScanTypes
  <2>3. UseNoted' /\ OneList'
    BY <1>0, <1>6, <2>1, InUseIs DEF UseNoted, PassNeedsAPassRule, OneList
  <2> QED BY <1>1, <1>4, <2>2, <2>3 DEF XdpIInv
<1> QED BY <1>0, <1>5, <1>6

LEMMA ReadSlotStep ==
  ASSUME XdpAssumption, XdpIInv, ReadSlot
  PROVE  XdpIInv'
<1> USE DEF ReadSlot, editor, poller, maps
<1>1. FileTypes' /\ MapInv' /\ ListTypes'
  BY FilesStay, MapStays, ListsStay
<1>2. /\ scan \in [step : {"slot", "action"}, packet : Frames, rules : 0..MaxRules, i : 1..MaxRules+1]
      /\ scan.step = "slot" /\ scan.i \in 1..scan.rules /\ scan.rules \in 0..MaxRules
      /\ scan # NoScan /\ MaxRules \in Nat
  BY DEF XdpIInv, ScanTypes, NoScan, XdpAssumption
<1>3. PICK matched \in IF Racing(scan.i) THEN BOOLEAN ELSE {Matches(slots[scan.i], scan.packet)} :
        scan' = IF matched THEN [scan EXCEPT !.step = "action"] ELSE [scan EXCEPT !.i = @ + 1]
  OBVIOUS
<1>4. /\ scan'.packet = scan.packet /\ scan'.rules = scan.rules
      /\ matched => scan'.step = "action" /\ scan'.i = scan.i
      /\ ~matched => scan'.step = "slot" /\ scan'.i = scan.i + 1
      /\ scan' \in [step : {"slot", "action"}, packet : Frames, rules : 0..MaxRules, i : 1..MaxRules+1]
  BY <1>2, <1>3
<1>5. ScanTypes'
  BY <1>4 DEF ScanTypes
<1>6. scan' # NoScan
  BY <1>4 DEF NoScan
<1>7. UseNoted'
  <2>1. PassNeedsAPassRule'
    BY <1>4 DEF PassNeedsAPassRule
  <2>2. \A i, l : Holds(i, l)' <=> Holds(i, l)
    BY DEF Holds
  <2> QED BY <1>2, <1>4, <1>6, <2>1, <2>2 DEF XdpIInv, UseNoted
<1>8. OneList'
  <2> SUFFICES ASSUME NEW l \in during, during = {l}
               PROVE  /\ scan.rules = Fitting(l) /\ scan'.i <= scan.rules + 1
                      /\ \A j \in 1..scan'.i-1 : ~Matches(Compile(l[j]), scan.packet)
                      /\ scan'.step = "action" => Matches(Compile(l[scan.i]), scan.packet)
    BY <1>4 DEF OneList, Fitting
  <2>1. /\ scan.rules = Fitting(l)
        /\ \A j \in 1..scan.i-1 : ~Matches(Compile(l[j]), scan.packet)
    BY <1>2 DEF XdpIInv, OneList
  <2>2. slots[scan.i] = Compile(l[scan.i]) /\ ~Racing(scan.i)
    BY <1>2, <2>1, NoRace
  <2>3. matched <=> Matches(Compile(l[scan.i]), scan.packet)
    BY <1>3, <2>2
  <2>4. CASE matched
    BY <1>2, <1>4, <2>1, <2>3, <2>4
  <2>5. CASE ~matched
    <3>1. \A j \in 1..scan'.i-1 : j \in 1..scan.i-1 \/ j = scan.i
      BY <1>2, <1>4, <2>5
    <3> QED BY <1>2, <1>4, <2>1, <2>3, <2>5, <3>1
  <2> QED BY <2>4, <2>5
<1> QED BY <1>1, <1>5, <1>7, <1>8 DEF XdpIInv

LEMMA JudgedStep ==
  ASSUME XdpAssumption, XdpIInv, ReadAction \/ NoMatch
  PROVE  XdpIInv'
<1> USE DEF editor, poller, maps
<1>1. FileTypes' /\ MapInv' /\ ListTypes'
  BY FilesStay, MapStays, ListsStay DEF ReadAction, NoMatch
<1>2. /\ scan \in [step : {"slot", "action"}, packet : Frames, rules : 0..MaxRules, i : 1..MaxRules+1]
      /\ scan # NoScan /\ scan.packet \in Frames /\ scan.i \in Nat /\ scan.rules \in Nat
  BY DEF XdpIInv, ScanTypes, NoScan, XdpAssumption, ReadAction, NoMatch
<1>3. UNCHANGED <<during, cur, old, polling, slots>>
  BY DEF ReadAction, NoMatch
<1> DEFINE result(a) == [step |-> "done", packet |-> scan.packet, action |-> a]
<1>4. PICK a : scan' = result(a)
  BY DEF ReadAction, NoMatch, Done
<1>5. scan'.step = "done" /\ scan'.packet = scan.packet /\ scan'.action = a /\ scan' # NoScan
  BY <1>4 DEF NoScan
<1>6. /\ a \in {0, 1}
      /\ a = 1 /\ during # {} => \E l \in during : \E r \in Range(l) : ToUpper(r.action) = "PASS"
  <2>1. CASE NoMatch
    BY <1>5, <2>1 DEF NoMatch, Done, Default
  <2>2. CASE ReadAction
    <3>1. PICK slot \in {slots[scan.i]} \cup (IF Racing(scan.i) THEN {Compile(cur[scan.i])} ELSE {}) :
            scan' = Done(slot.action)
      BY <2>2 DEF ReadAction
    <3>2. a = slot.action
      BY <1>5, <3>1 DEF Done
    <3>3. a \in {0, 1}
      <4>1. scan.i \in 1..MaxRules /\ scan.step = "action"
        <5>1. scan.rules \in 0..MaxRules /\ MaxRules \in Nat
          BY <1>2 DEF XdpAssumption
        <5> QED BY <1>2, <2>2, <5>1 DEF ReadAction, XdpIInv, UseNoted
      <4>2. slots[scan.i] \in InstalledSlots
        BY <4>1 DEF XdpIInv, MapInv
      <4>3. \A v \in InstalledSlots : v.action \in {0, 1}
        BY ActionIs DEF InstalledSlots, Zero
      <4> QED BY <3>1, <3>2, <4>2, <4>3, ActionIs
    <3>4. ASSUME a = 1, during # {}
          PROVE  \E l \in during : \E r \in Range(l) : ToUpper(r.action) = "PASS"
      <4>1. PICK l \in during : scan.i <= Len(l) /\ slot = Compile(l[scan.i])
        <5>1. scan.i \in 1..scan.rules /\ cur \in during
          BY <1>2, <2>2, <3>4 DEF ReadAction, XdpIInv, UseNoted
        <5>2. CASE slot = slots[scan.i]
          BY <1>2, <2>2, <3>4, <5>1, <5>2 DEF ReadAction, XdpIInv, UseNoted, Holds
        <5>3. CASE Racing(scan.i) /\ slot = Compile(cur[scan.i])
          <6>1. scan.i <= Len(cur)
            BY <1>2, <5>3, FittingIs DEF Racing, Installing, Fitting, XdpIInv, ListTypes
          <6> QED BY <5>1, <5>3, <6>1
        <5> QED BY <3>1, <5>2, <5>3
      <4>2. scan.i \in 1..Len(l) /\ l \in SortedLists
        <5>1. l \in SortedLists /\ Len(l) \in Nat /\ scan.i >= 1
          BY <1>2, FittingIs DEF XdpIInv, ListTypes
        <5> QED BY <1>2, <4>1, <5>1
      <4>3. l[scan.i] \in Range(l)
        BY <4>2, RuleOf
      <4>4. ToUpper(l[scan.i].action) = "PASS"
        BY <3>2, <3>4, <4>1, ActionIs
      <4> QED BY <4>3, <4>4
    <3> QED BY <3>3, <3>4
  <2> QED BY <2>1, <2>2
<1>7. ScanTypes'
  BY <1>2, <1>4, <1>6 DEF ScanTypes
<1>8. UseNoted'
  BY <1>2, <1>3, <1>5, <1>6 DEF XdpIInv, UseNoted, PassNeedsAPassRule
<1>9. OneList'
  <2> SUFFICES ASSUME NEW l \in during, during = {l}
               PROVE  \/ \E i \in 1..Fitting(l) : FirstHit(l, scan.packet, i) /\ a = Compile(l[i]).action
                      \/ a = 0 /\ \A i \in 1..Fitting(l) : ~Matches(Compile(l[i]), scan.packet)
    BY <1>3, <1>5 DEF OneList, Fitting, FirstHit
  <2>1. scan.step \in {"slot", "action"} /\ scan.rules = Fitting(l)
        /\ (\A j \in 1..scan.i-1 : ~Matches(Compile(l[j]), scan.packet))
        /\ (scan.step = "action" => Matches(Compile(l[scan.i]), scan.packet) /\ scan.i \in 1..scan.rules)
    BY <1>2 DEF XdpIInv, OneList, UseNoted
  <2>2. CASE NoMatch
    <3>1. a = 0 /\ scan.i > scan.rules
      BY <1>5, <2>2 DEF NoMatch, Done, Default
    <3> QED BY <1>2, <2>1, <3>1
  <2>3. CASE ReadAction
    <3>1. slots[scan.i] = Compile(l[scan.i]) /\ ~Racing(scan.i)
      BY <1>2, <2>1, <2>3, NoRace DEF ReadAction
    <3>2. a = Compile(l[scan.i]).action
      BY <1>5, <2>3, <3>1 DEF ReadAction, Done
    <3> QED BY <1>2, <2>1, <2>3, <3>2 DEF ReadAction, FirstHit
  <2> QED BY <2>2, <2>3
<1> QED BY <1>1, <1>7, <1>8, <1>9 DEF XdpIInv

LEMMA NextPacketStep ==
  ASSUME XdpAssumption, XdpIInv, NextPacket
  PROVE  XdpIInv'
<1> USE DEF NextPacket, editor, poller, maps
<1>1. FileTypes' /\ MapInv'
  BY FilesStay, MapStays
<1>2. ListTypes'
  BY FS_EmptySet DEF XdpIInv, ListTypes, Listed
<1>3. ScanTypes' /\ UseNoted' /\ OneList'
  BY DEF ScanTypes, UseNoted, PassNeedsAPassRule, OneList, NoScan
<1> QED BY <1>1, <1>2, <1>3 DEF XdpIInv

LEMMA XdpStutter ==
  ASSUME XdpIInv, UNCHANGED xdpVars
  PROVE  XdpIInv'
<1> USE DEF xdpVars, editor, poller, maps
<1> QED BY FilesStay, ListsStay, MapStays, ScanStays DEF XdpIInv

LEMMA StepXdpIInv == ASSUME XdpAssumption, XdpIInv, [XdpNext]_xdpVars PROVE XdpIInv'
BY WriteStep, StatStep, LoadStep, PutStep, PutCountStep, PutFailsStep, BeginStep, ReadSlotStep, JudgedStep,
   NextPacketStep, XdpStutter
   DEF XdpNext, PollRules

\* The inductive invariant of the map, the lists and the packet under way.
THEOREM XdpInvariant == ASSUME XdpAssumption PROVE XdpSpec => []XdpIInv
BY StartXdpIInv, StepXdpIInv, PTL DEF XdpSpec

\* Poller, map and packets keep to their types.
THEOREM XdpTypeCorrect == ASSUME XdpAssumption PROVE XdpSpec => []XdpTypeOK
<1>1. XdpIInv => XdpTypeOK
  <2> SUFFICES ASSUME XdpIInv PROVE XdpTypeOK
    OBVIOUS
  <2>1. count \in 0..MaxRules
    BY DEF XdpIInv, MapInv
  <2>2. {cur, old} \cup during \subseteq RuleLists \cup {<<>>}
    BY DEF XdpIInv, ListTypes, Listed
  <2>3. scan.step \in {"idle", "slot", "action", "done"}
    BY DEF XdpIInv, ScanTypes, NoScan
  <2> QED BY <2>1, <2>2, <2>3 DEF XdpTypeOK, XdpIInv, FileTypes, MapInv, InstalledSlots
<1> QED BY <1>1, XdpInvariant, PTL

-----------------------------------------------------------------------------
(* XdpFirewall: what a packet is judged by *)

\* The rules before the i-th are no more than there are places.
LEMMA BeforeIsKept ==
  ASSUME XdpAssumption, NEW l \in SortedLists, NEW i \in 1..Fitting(l)
  PROVE  i \in Kept(l)
<1> DEFINE before == {j \in DOMAIN l : l[j].priority < l[i].priority}
<1>0. \A j \in 1..Len(l) : l[j].priority \in Int
  BY RuleOf DEF RuleSpecs
<1>1. /\ Fitting(l) <= Len(l) /\ Fitting(l) \in 0..MaxRules /\ Len(l) \in Nat
      /\ DOMAIN l = 1..Len(l) /\ \A j \in 1..Len(l) : l[j].priority \in Int
  BY <1>0, FittingIs DEF SortedLists
<1>2. i \in 1..Len(l) /\ i <= MaxRules /\ MaxRules \in Nat /\ i \in Nat
  BY <1>1 DEF XdpAssumption
<1>3. ASSUME NEW j \in before PROVE j \in 1..(i-1)
  <2>1. j \in 1..Len(l) /\ l[j].priority < l[i].priority
    BY <1>1
  <2>2. ASSUME j >= i PROVE FALSE
    <3>1. i # j
      BY <1>1, <1>2, <2>1
    <3>2. l[i].priority <= l[j].priority
      BY <1>1, <1>2, <2>1, <2>2, <3>1 DEF SortedLists, ByPriority
    <3> QED BY <1>1, <1>2, <2>1, <3>2
  <2> QED BY <1>2, <2>1, <2>2
<1>4. IsFiniteSet(1..(i-1)) /\ Cardinality(1..(i-1)) = i - 1
  BY <1>2, FS_Interval
<1>5. before \in SUBSET (1..(i-1))
  BY <1>3
<1> HIDE DEF before
<1>6. IsFiniteSet(before) /\ Cardinality(before) <= i - 1 /\ Cardinality(before) \in Nat
  BY <1>4, <1>5, FS_Subset, FS_CardinalityType
<1>7. Cardinality(before) < MaxRules
  BY <1>2, <1>6
<1> QED BY <1>1, <1>2, <1>7 DEF Kept, before

\* A rule that is kept without fitting in the map is of a priority that is cut.
LEMMA CutWhenMore ==
  ASSUME XdpAssumption, NEW l \in SortedLists, NEW k \in Kept(l), k \notin 1..Fitting(l)
  PROVE  Cardinality(Kept(l)) > MaxRules
<1>1. Fitting(l) <= Len(l) /\ Fitting(l) \in 0..MaxRules /\ DOMAIN l = 1..Len(l) /\ Len(l) \in Nat /\ MaxRules \in Nat
  BY FittingIs DEF SortedLists, XdpAssumption
<1>2. Fitting(l) = MaxRules
  BY <1>1 DEF Fitting, Kept
<1> DEFINE places == 1..MaxRules
<1>3. IsFiniteSet(places) /\ Cardinality(places) = MaxRules
  BY <1>1, FS_Interval
<1>4. IsFiniteSet(places \cup {k}) /\ Cardinality(places \cup {k}) = MaxRules + 1
  BY <1>2, <1>3, FS_AddElement
<1>5. places \cup {k} \subseteq Kept(l)
  BY <1>2, BeforeIsKept
<1>6. IsFiniteSet(Kept(l))
  <2>1. IsFiniteSet(1..Len(l))
    BY <1>1, FS_Interval
  <2> QED BY <1>1, <2>1, FS_Subset DEF Kept
<1> HIDE DEF places
<1>7. Cardinality(places \cup {k}) <= Cardinality(Kept(l)) /\ Cardinality(Kept(l)) \in Nat
  BY <1>5, <1>6, FS_Subset, FS_CardinalityType
<1> QED BY <1>1, <1>4, <1>7

\* The first match has the action of a rule of lowest priority that covers the
\* packet; without one no rule in the map covers it.
LEMMA FirstIsVerdict ==
  ASSUME XdpAssumption, NEW l \in SortedLists, NEW p \in Frames, NEW a,
         \/ \E i \in 1..Fitting(l) : FirstHit(l, p, i) /\ a = Compile(l[i]).action
         \/ a = 0 /\ \A i \in 1..Fitting(l) : ~Matches(Compile(l[i]), p)
  PROVE  a \in Verdicts(l, p)
<1> DEFINE hits == {i \in Kept(l) : Covers(l[i], p)}
           best == {i \in hits : \A j \in hits : l[i].priority <= l[j].priority}
           cut == Cardinality(Kept(l)) > MaxRules
<1>0. \A j \in 1..Len(l) : l[j] \in RuleSpecs
  BY RuleOf
<1>1. /\ Fitting(l) <= Len(l) /\ Fitting(l) \in Nat /\ Len(l) \in Nat /\ DOMAIN l = 1..Len(l)
      /\ \A j \in 1..Len(l) : l[j] \in RuleSpecs /\ l[j].priority \in Int
  <2>1. \A j \in 1..Len(l) : l[j].priority \in Int
    BY <1>0 DEF RuleSpecs
  <2>2. Fitting(l) \in 0..MaxRules /\ Fitting(l) <= Len(l) /\ Len(l) \in Nat
    BY FittingIs
  <2>3. DOMAIN l = 1..Len(l)
    BY DEF SortedLists
  <2> QED BY <1>0, <2>1, <2>2, <2>3 DEF XdpAssumption
<1>2. \A j \in 1..Len(l) : Matches(Compile(l[j]), p) <=> Covers(l[j], p)
  BY <1>1, CompiledMatches
<1>3. Kept(l) \subseteq 1..Len(l)
  BY <1>1 DEF Kept
<1>4. ASSUME NEW i \in 1..Fitting(l), FirstHit(l, p, i), a = Compile(l[i]).action
      PROVE  a \in Verdicts(l, p)
  <2>1. i \in hits
    BY <1>1, <1>2, <1>4, BeforeIsKept DEF FirstHit
  <2>2. ASSUME NEW j \in hits PROVE l[i].priority <= l[j].priority
    <3>1. j \in 1..Len(l) /\ Matches(Compile(l[j]), p)
      BY <1>2, <1>3
    <3>2. j >= i
      BY <1>1, <1>4, <3>1 DEF FirstHit
    <3>3. CASE j = i
      BY <1>1, <3>1, <3>3
    <3>4. CASE j > i
      BY <1>1, <1>4, <3>1, <3>4 DEF SortedLists, ByPriority
    <3> QED BY <1>1, <3>1, <3>2, <3>3, <3>4
  <2>3. i \in best
    BY <2>1, <2>2
  <2>4. a = ActionToUint8(l[i].action)
    BY <1>4 DEF Compile
  <2> QED BY <2>3, <2>4 DEF Verdicts
<1>5. ASSUME a = 0, \A i \in 1..Fitting(l) : ~Matches(Compile(l[i]), p)
      PROVE  a \in Verdicts(l, p)
  <2>1. ASSUME NEW k \in hits PROVE cut
    <3>1. k \notin 1..Fitting(l)
      BY <1>1, <1>2, <1>3, <1>5
    <3> QED BY <3>1, CutWhenMore
  <2>2. hits = {} \/ cut
    BY <2>1
  <2> HIDE DEF cut
  <2>3. a \in {ActionToUint8(l[i].action) : i \in best} \cup (IF hits = {} \/ cut THEN {0} ELSE {})
    BY <1>5, <2>2
  <2> QED BY <2>3 DEF Verdicts, cut
<1> QED BY <1>4, <1>5

\* An IPv4 packet that no installation overlaps is judged as the file says, what
\* was replaced never comes back, and such a packet passes only by a rule that
\* passes, but for what a Put that failed has left until the next installation
\* without one: for any files, packets, edits, failures and size of the map, at any
\* interleaving (main.go syncRules, firewall.c firewall_filter).
THEOREM PacketsAlwaysJudged == ASSUME XdpAssumption PROVE XdpSpec => []PacketsJudged
<1>1. XdpIInv => PacketsJudged
  <2> SUFFICES ASSUME XdpIInv PROVE PacketsJudged
    OBVIOUS
  <2>1. QuietVerdict
    <3> SUFFICES ASSUME scan.step = "done", scan.packet.ipv4, Cardinality(during) = 1, NEW l \in during
                 PROVE  scan.action \in Verdicts(l, scan.packet)
      BY DEF QuietVerdict
    <3>1. during = {l}
      BY FS_Singleton DEF XdpIInv, ListTypes
    <3>2. l \in SortedLists /\ scan.packet \in Frames
      BY DEF XdpIInv, ListTypes, ScanTypes, NoScan
    <3>3. \/ \E i \in 1..Fitting(l) : FirstHit(l, scan.packet, i) /\ scan.action = Compile(l[i]).action
          \/ scan.action = 0 /\ \A i \in 1..Fitting(l) : ~Matches(Compile(l[i]), scan.packet)
      BY <3>1 DEF XdpIInv, OneList
    <3> QED BY <3>2, <3>3, FirstIsVerdict
  <2>2. NoLeftovers
    BY KnownSlots DEF NoLeftovers, Holds
  <2>3. PassNeedsAPassRule
    BY DEF XdpIInv, UseNoted
  <2> QED BY <2>1, <2>2, <2>3 DEF PacketsJudged
<1> QED BY <1>1, XdpInvariant, PTL
=============================================================================
