----------------------------- MODULE EventCollector -----------------------------
(***************************************************************************)
(* The Event Collector (internal/events/events.go) with the simulated Data  *)
(* Plane that feeds it (simulator.go) and the handlers that stream it       *)
(* (api.go): a ring of events, counters, a token bucket for drop events, a  *)
(* bounded channel per subscriber, and the flows that wait for their end.   *)
(*                                                                         *)
(* The simulator is one goroutine; what it does between two acquisitions of *)
(* Collector.mu is a step.  Time passes by its ticks.  Tokens are counted   *)
(* in fractions: one token is Unit of them, a tick brings Refill, which     *)
(* need not be a multiple.                                                  *)
(***************************************************************************)
EXTENDS Integers, FiniteSets, Sequences

CONSTANTS Subscribers,  \* stream handlers
          BufSize,      \* bufSize
          ChanSize,     \* capacity of a subscriber's channel
          Capacity,     \* capacity of the bucket, in tokens
          Unit, Refill,
          MaxOpen,      \* cap on the open flows
          ShortLife, LongLife, \* ticks after which a flow may, and must, end
          PerTick,      \* bound on the flows of one tick
          MaxFlows      \* bound on the flows

CollectorAssumption ==
  /\ {BufSize, ChanSize, Capacity, Unit, Refill, MaxOpen, PerTick, LongLife} \subseteq Nat \ {0}
  /\ ShortLife \in Nat /\ ShortLife < LongLife
  /\ MaxFlows \in Nat

VARIABLES buf, next,    \* Collector.buf, next
          c,            \* the counters
          bucket, since,\* the bucket, and the ticks since lastTok
          subs,         \* the subscribed channels: handler -> queue
          open,         \* flows waiting for FLOW_END, with their age
          pc, left,     \* the simulator: its step, the flows left in this tick
          done,         \* the flows endFlows has taken out and has still to emit
          flows,        \* flows so far
          got,          \* handler -> the ids it has sent to its client
          full,         \* ghost: handler -> ids that found its channel full
          from,         \* ghost: handler -> the last id before it subscribed
          level,        \* ghost: tokens that were used and have not come back
          ended         \* ghost: flows with a FLOW_END

collector == <<buf, next, c, bucket, since, full, level>>
streams == <<got, from>>
simulator == <<open, pc, left, done, flows, ended>>
collectorVars == <<collector, subs, streams, simulator>>

Smaller(a, b) == IF a < b THEN a ELSE b
Larger(a, b) == IF a > b THEN a ELSE b
With(f, k, v) == [x \in DOMAIN f \cup {k} |-> IF x = k THEN v ELSE f[x]]

Types == {"FLOW_NEW", "FLOW_DROP", "FLOW_END"}
Reasons == {"policy", "other"}  \* of a Policy, or any other
Full == Capacity * Unit
\* Ticks after which any bucket is full: since need not count further.
Enough == Full \div Refill + 1
MaxIds == 2 * MaxFlows
Event == [id : 1..MaxIds, type : Types, flow : 1..MaxFlows]
Queues == UNION {[1..n -> 1..MaxIds] : n \in 0..ChanSize}

CollectorTypeOK ==
  /\ buf \in Seq(Event) /\ Len(buf) <= BufSize
  /\ next \in 0..MaxIds
  /\ c \in [accepted : 0..MaxFlows, dropped : 0..MaxFlows, eventsLost : 0..MaxFlows,
            reasons : [Reasons -> 0..MaxFlows], hits : 0..MaxFlows]
  /\ bucket \in 0..Full /\ since \in 0..Enough
  /\ DOMAIN subs \subseteq Subscribers /\ \A s \in DOMAIN subs : subs[s] \in Queues
  /\ open \in [DOMAIN open -> 0..LongLife] /\ DOMAIN open \subseteq 1..MaxFlows
  /\ pc \in {"tick", "flows", "track", "ending"}
  /\ left \in 0..PerTick
  /\ done \in Seq(1..MaxFlows)
  /\ flows \in 0..MaxFlows
  /\ got \in [Subscribers -> Seq(1..MaxIds)]
  /\ full \in [Subscribers -> SUBSET (1..MaxIds)]
  /\ from \in [Subscribers -> 0..MaxIds]
  /\ level \in 0..Full
  /\ ended \subseteq 1..MaxFlows

CollectorInit ==
  /\ buf = <<>> /\ next = 0
  /\ c = [accepted |-> 0, dropped |-> 0, eventsLost |-> 0,
          reasons |-> [r \in Reasons |-> 0], hits |-> 0]
  /\ bucket = Full /\ since = 0
  /\ subs = <<>>
  /\ open = <<>>
  /\ pc = "tick" /\ left = 0 /\ done = <<>>
  /\ flows = 0
  /\ got = [s \in Subscribers |-> <<>>]
  /\ full = [s \in Subscribers |-> {}]
  /\ from = [s \in Subscribers |-> 0]
  /\ level = 0
  /\ ended = {}

-----------------------------------------------------------------------------
(* emit *)

Pushed(e) == IF Len(buf) >= BufSize THEN Append(Tail(buf), e) ELSE Append(buf, e)

\* A send that does not block.
Send(q, id) == IF Len(q) < ChanSize THEN Append(q, id) ELSE q

\* The second half of emit: the event gets its id and goes to the ring and to
\* every subscriber.
Publish(type, flow) ==
  /\ next' = next + 1
  /\ buf' = Pushed([id |-> next + 1, type |-> type, flow |-> flow])
  /\ subs' = [s \in DOMAIN subs |-> Send(subs[s], next + 1)]
  /\ full' = [s \in Subscribers |->
                IF s \in DOMAIN subs /\ Len(subs[s]) = ChanSize THEN full[s] \cup {next + 1} ELSE full[s]]

\* Per reason, and per Policy when one matched.
Counted(reason) ==
  [c EXCEPT !.reasons[reason] = @ + 1, !.hits = IF reason = "policy" THEN @ + 1 ELSE @]

Refilled == Smaller(Full, bucket + since * Refill)

EmitAccept(flow, reason) ==
  /\ c' = [Counted(reason) EXCEPT !.accepted = @ + 1]
  /\ Publish("FLOW_NEW", flow)
  /\ UNCHANGED <<bucket, since, level>>

\* Mutant: only the events that are emitted set lastTok.
Mutant_SinceLost == since

\* lastTok is set before it is known whether there is a token.
SinceLost == 0

EmitDrop(flow, reason) ==
  IF Refilled < Unit
    THEN /\ c' = [Counted(reason) EXCEPT !.dropped = @ + 1, !.eventsLost = @ + 1]
         /\ bucket' = Refilled /\ since' = SinceLost
         /\ UNCHANGED <<buf, next, subs, full, level>>
    ELSE /\ c' = [Counted(reason) EXCEPT !.dropped = @ + 1]
         /\ bucket' = Refilled - Unit /\ since' = 0
         /\ level' = level + Unit
         /\ Publish("FLOW_DROP", flow)

\* FLOW_END keeps the verdict of its flow but counts for nothing.
CountedEnd == c

EmitEnd(flow) ==
  /\ c' = CountedEnd
  /\ Publish("FLOW_END", flow)
  /\ UNCHANGED <<bucket, since, level>>

-----------------------------------------------------------------------------
(* The simulator *)

\* The ticker fires; a port scan and a few flows follow.
Tick ==
  /\ pc = "tick"
  /\ since' = Smaller(since + 1, Enough)
  /\ level' = Larger(0, level - Refill)
  /\ open' = [f \in DOMAIN open |-> Smaller(open[f] + 1, LongLife)]
  /\ left' \in 0..PerTick
  /\ pc' = "flows"
  /\ UNCHANGED <<buf, next, c, bucket, subs, full, streams, done, flows, ended>>

\* one, localIn, unpaired: a flow is classified and its event emitted.
Flow ==
  /\ pc = "flows" /\ left > 0 /\ flows < MaxFlows
  /\ flows' = flows + 1
  /\ left' = left - 1
  /\ \E reason \in Reasons :
       \/ EmitDrop(flows + 1, reason) /\ pc' = "flows"
       \/ /\ EmitAccept(flows + 1, reason)
          /\ pc' \in IF reason = "policy" THEN {"track"} ELSE {"track", "flows"}
  /\ UNCHANGED <<streams, open, done, ended>>

Room == Cardinality(DOMAIN open) < MaxOpen

\* An accepted flow is remembered, in a second critical section; a flow to the
\* firewall itself is not, nor one too many.
Track ==
  /\ pc = "track"
  /\ open' = IF Room THEN With(open, flows, 0) ELSE open
  /\ pc' = "flows"
  /\ UNCHANGED <<collector, subs, streams, left, done, flows, ended>>

MayEnd == {f \in DOMAIN open : open[f] > ShortLife}
MustEnd == {f \in DOMAIN open : open[f] = LongLife}

\* The one list of flows in the order in which they began.
InOrder(fs) == {q \in [1..Cardinality(fs) -> fs] : \A i, j \in DOMAIN q : i < j => q[i] < q[j]}

\* endFlows, under the mutex: each flow draws how old it may get.
EndFlows ==
  /\ pc = "flows" /\ (left = 0 \/ flows = MaxFlows)
  /\ \E fs \in SUBSET MayEnd :
       /\ MustEnd \subseteq fs
       /\ done' \in InOrder(fs)
       /\ open' = [f \in DOMAIN open \ fs |-> open[f]]
  /\ pc' = "ending"
  /\ UNCHANGED <<collector, subs, streams, left, flows, ended>>

\* ... and after it, one emit after the other.
EndFlow ==
  /\ pc = "ending" /\ done # <<>>
  /\ EmitEnd(Head(done))
  /\ ended' = ended \cup {Head(done)}
  /\ done' = Tail(done)
  /\ UNCHANGED <<streams, open, pc, left, flows>>

TickOver ==
  /\ pc = "ending" /\ done = <<>>
  /\ pc' = "tick"
  /\ UNCHANGED <<collector, subs, streams, open, left, done, flows, ended>>

-----------------------------------------------------------------------------
(* The handlers *)

\* GET /events: the latest n, oldest first.
Recent(n) == SubSeq(buf, Len(buf) - Smaller(n, Len(buf)) + 1, Len(buf))

Subscribe(s) ==
  /\ s \notin DOMAIN subs
  /\ subs' = With(subs, s, <<>>)
  /\ from' = [from EXCEPT ![s] = next]
  /\ got' = [got EXCEPT ![s] = <<>>]
  /\ full' = [full EXCEPT ![s] = {}]
  /\ UNCHANGED <<buf, next, c, bucket, since, level, simulator>>

\* stream takes an event from the channel and writes it to the client.
Relay(s) ==
  /\ s \in DOMAIN subs /\ subs[s] # <<>>
  /\ got' = [got EXCEPT ![s] = Append(@, Head(subs[s]))]
  /\ subs' = [subs EXCEPT ![s] = Tail(@)]
  /\ UNCHANGED <<collector, from, simulator>>

\* The client has gone: what its channel still holds is dropped with it.
Unsubscribe(s) ==
  /\ s \in DOMAIN subs
  /\ subs' = [r \in DOMAIN subs \ {s} |-> subs[r]]
  /\ UNCHANGED <<collector, streams, simulator>>

-----------------------------------------------------------------------------
Simulate == Tick \/ Flow \/ Track \/ EndFlows \/ EndFlow \/ TickOver

CollectorNext == Simulate \/ \E s \in Subscribers : Subscribe(s) \/ Relay(s) \/ Unsubscribe(s)

CollectorSpec == CollectorInit /\ [][CollectorNext]_collectorVars

\* The simulator's goroutine runs.  Of the handlers nothing is assumed.
CollectorFairSpec == CollectorSpec /\ WF_collectorVars(Simulate)

-----------------------------------------------------------------------------
(* Properties *)

\* The counters account for every flow, by verdict, by reason and by Policy,
\* and every event has an id unless it was counted as lost (events.go emit).
CountersAddUp ==
  /\ c.accepted + c.dropped = flows
  /\ c.reasons["policy"] + c.reasons["other"] = flows
  /\ c.hits = c.reasons["policy"]
  /\ next + c.eventsLost = flows + Cardinality(ended)

\* Recent returns the end of the stream without a hole, as far back as was asked
\* or the ring goes (events.go emit, Recent).
RingIsLatest ==
  \A n \in 0..BufSize + 1 :
    LET size == Smaller(n, Smaller(next, BufSize))
    IN  /\ Len(Recent(n)) = size
        /\ \A i \in 1..size : Recent(n)[i].id = next - size + i

\* The bucket, refilled only when a drop comes, equals one that is refilled all
\* the time: never more than Capacity drop events at once, nor more than Refill
\* for every tick after that, and none is lost while there is a token
\* (events.go emit).
BucketExact == Full - level = Refilled

\* A client gets the events in order, each once, and misses only those that
\* found its channel full: the collector waits for nobody (events.go emit,
\* api.go stream).
StreamFaithful ==
  \A s \in DOMAIN subs :
    LET all == got[s] \o subs[s]
    IN  /\ \A i, j \in 1..Len(all) : i < j => all[i] < all[j]
        /\ {all[i] : i \in 1..Len(all)} = (from[s] + 1 .. next) \ full[s]

\* A flow ends after it began, once, and only if it was accepted: it is open,
\* being ended, or over, and of those that are in the ring FLOW_NEW comes first
\* (simulator.go emitFlow, endFlows).
FlowsPair ==
  /\ DOMAIN open \cap ended = {}
  /\ \A i \in 1..Len(done) : done[i] \notin ended \cup DOMAIN open
  /\ Cardinality(DOMAIN open) <= MaxOpen
  /\ \A i, j \in 1..Len(buf) :
       buf[i].flow = buf[j].flow /\ i < j
         => buf[i].type = "FLOW_NEW" /\ buf[j].type = "FLOW_END"

\* What the UI shows of traffic is what went through (events.go emit, Recent,
\* Subscribe; simulator.go emitFlow, endFlows; api.go stream).
EventsAddUp == CountersAddUp /\ RingIsLatest /\ BucketExact /\ FlowsPair /\ StreamFaithful

\* Every flow that was remembered ends (simulator.go endFlows).
OpenFlowsEnd == \A f \in 1..MaxFlows : f \in DOMAIN open ~> f \in ended
=============================================================================
