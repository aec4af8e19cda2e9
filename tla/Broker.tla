------------------------------- MODULE Broker -------------------------------
(***************************************************************************)
(* RabbitMqService and one durable RabbitMQ queue it subscribes to.  The   *)
(* gateway runs as several replicas; each consumes the same queue, on a    *)
(* channel of its own with a prefetch limit, and acknowledges a message    *)
(* when its handler's promise resolves, or requeues it when it rejects.    *)
(*                                                                         *)
(* Messages are numbered in the order they are published; RabbitMQ puts a  *)
(* requeued message back in its place, so the queue is a set of numbers    *)
(* and its head is the smallest.                                           *)
(***************************************************************************)
EXTENDS Naturals, FiniteSets

CONSTANTS
    Gateway,     \* the replicas
    NEvent,      \* messages published, at most: bounds the run
    Prefetch,    \* channel.prefetch(2)
    Poison,      \* messages whose handler rejects every time
    MaxDowns     \* process deaths and lost connections, at most: bounds the run

ASSUME NEventAssumption == NEvent \in Nat
ASSUME PrefetchAssumption == Prefetch \in Nat
ASSUME MaxDownsAssumption == MaxDowns \in Nat
ASSUME PoisonAssumption == Poison \subseteq 1..NEvent

VARIABLES
    stage,       \* stage[g]: how far replica g has come
    sent,        \* messages published so far: 1..sent
    unrouted,    \* of these, those that never reached the queue
    bound,       \* the queue exists and is bound to the exchange
    queue,       \* messages ready for delivery
    unacked,     \* unacked[g]: delivered to g, not acknowledged
    early,       \* early[g]: of these, those whose handler lookup found nothing
    done,        \* done[g]: of these, those whose handler ran to its end
    acked,       \* messages RabbitMQ removed on an acknowledgement
    handled,     \* history: messages some handler ran to its end for
    starts,      \* history: consumers registered so far
    downs        \* process deaths and lost connections so far

vars == <<stage, sent, unrouted, bound, queue, unacked, early, done, acked, handled, starts, downs>>

-----------------------------------------------------------------------------

Event == 1..NEvent

\* No process; a process without the subscriber's channel; with it; with the queue
\* bound; with a consumer; with its handler recorded; with that channel gone for good.
Stage == {"down", "booting", "connected", "bound", "consuming", "ready", "lost"}

Delivered == UNION {unacked[g] : g \in Gateway}

Boots(g, from, to) ==
    /\ stage[g] = from
    /\ stage' = [stage EXCEPT ![g] = to]

Init ==
    /\ stage = [g \in Gateway |-> "down"]
    /\ sent = 0 /\ unrouted = {} /\ bound = FALSE
    /\ queue = {} /\ acked = {} /\ handled = {}
    /\ unacked = [g \in Gateway |-> {}]
    /\ early = [g \in Gateway |-> {}]
    /\ done = [g \in Gateway |-> {}]
    /\ starts = 0 /\ downs = 0

-----------------------------------------------------------------------------
\* A replica starts: nothing awaits the connection, so the HTTP server runs too.

StartProcess(g) ==
    /\ Boots(g, "down", "booting")
    /\ UNCHANGED <<sent, unrouted, bound, queue, unacked, early, done, acked, handled, starts, downs>>

\* initialize() and registerExchange(): a channel with its prefetch, the exchange.
Connect(g) ==
    /\ Boots(g, "booting", "connected")
    /\ UNCHANGED <<sent, unrouted, bound, queue, unacked, early, done, acked, handled, starts, downs>>

\* createQueue() and bindQueue(), both durable.
BindQueue(g) ==
    /\ Boots(g, "connected", "bound")
    /\ bound' = TRUE
    /\ UNCHANGED <<sent, unrouted, queue, unacked, early, done, acked, handled, starts, downs>>

\* consumeMessage(): RabbitMQ registers the consumer and may deliver at once.
Consume(g) ==
    /\ Boots(g, "bound", "consuming")
    /\ starts' = starts + 1
    /\ UNCHANGED <<sent, unrouted, bound, queue, unacked, early, done, acked, handled, downs>>

\* consumerHandlers[consumerTag] = handler: the last line of registerSubscriber(),
\* after the await.
RecordHandler(g) ==
    /\ Boots(g, "consuming", "ready")
    /\ UNCHANGED <<sent, unrouted, bound, queue, unacked, early, done, acked, handled, starts, downs>>

-----------------------------------------------------------------------------
\* publish(): callers do not await it, and it asks for no confirmation.  It uses the
\* last connection its process opened: initialize() tests this.connection before it
\* awaits, so the constructor and each subscriber may have opened one of their own,
\* and how far this subscriber has come says nothing of it.

Publish(g) ==
    /\ sent < NEvent
    /\ stage[g] # "down"
    /\ sent' = sent + 1
    /\ IF bound THEN queue' = queue \union {sent + 1} /\ UNCHANGED unrouted
                ELSE unrouted' = unrouted \union {sent + 1} /\ UNCHANGED queue
    /\ UNCHANGED <<stage, bound, unacked, early, done, acked, handled, starts, downs>>

\* There is no connection yet, it is gone, or the process dies first: the promise
\* nobody awaits rejects and the message is gone.
PublishFails(g) ==
    /\ sent < NEvent
    /\ stage[g] # "down"
    /\ sent' = sent + 1
    /\ unrouted' = unrouted \union {sent + 1}
    /\ UNCHANGED <<stage, bound, queue, unacked, early, done, acked, handled, starts, downs>>

-----------------------------------------------------------------------------
\* The consumer callback and invokeHandler().

\* Mutant of Deliver: the channel has no prefetch limit.
DeliverUnlimited(g, m) ==
    /\ stage[g] \in {"consuming", "ready"}
    /\ m \in queue /\ \A k \in queue : m <= k
    /\ queue' = queue \ {m}
    /\ unacked' = [unacked EXCEPT ![g] = @ \union {m}]
    /\ early' = IF stage[g] = "consuming" THEN [early EXCEPT ![g] = @ \union {m}] ELSE early
    /\ UNCHANGED <<stage, sent, unrouted, bound, done, acked, handled, starts, downs>>

\* The head of the queue goes to a consumer with room.  The callback looks its
\* handler up at once: before RecordHandler it finds none.
Deliver(g, m) ==
    /\ stage[g] \in {"consuming", "ready"}
    /\ m \in queue /\ \A k \in queue : m <= k
    /\ Cardinality(unacked[g]) < Prefetch
    /\ queue' = queue \ {m}
    /\ unacked' = [unacked EXCEPT ![g] = @ \union {m}]
    /\ early' = IF stage[g] = "consuming" THEN [early EXCEPT ![g] = @ \union {m}] ELSE early
    /\ UNCHANGED <<stage, sent, unrouted, bound, done, acked, handled, starts, downs>>

\* The handler's promise resolves.  Handlers of one replica run concurrently.
Handle(g, m) ==
    /\ m \in (unacked[g] \ early[g]) \ Poison
    /\ handled' = handled \union {m}
    /\ done' = [done EXCEPT ![g] = @ \union {m}]
    /\ UNCHANGED <<stage, sent, unrouted, bound, queue, unacked, early, acked, starts, downs>>

\* Mutant of Ack: invokeHandler() is not awaited.
AckUnawaited(g, m) ==
    /\ stage[g] = "ready"
    /\ m \in unacked[g]
    /\ unacked' = [unacked EXCEPT ![g] = @ \ {m}]
    /\ done' = [done EXCEPT ![g] = @ \ {m}]
    /\ early' = [early EXCEPT ![g] = @ \ {m}]
    /\ acked' = acked \union {m}
    /\ UNCHANGED <<stage, sent, unrouted, bound, queue, handled, starts, downs>>

\* ack() after the handler, or after a lookup that found none.  An early delivery is
\* acknowledged in the turn of the event loop that records the handler, so nothing
\* is delivered between the two.
Ack(g, m) ==
    /\ stage[g] = "ready"
    /\ m \in done[g] \union early[g]
    /\ unacked' = [unacked EXCEPT ![g] = @ \ {m}]
    /\ done' = [done EXCEPT ![g] = @ \ {m}]
    /\ early' = [early EXCEPT ![g] = @ \ {m}]
    /\ acked' = acked \union {m}
    /\ UNCHANGED <<stage, sent, unrouted, bound, queue, handled, starts, downs>>

\* Mutants of Nack: requeue is false; and the nack runs for a handler that resolved.
NackDropped(g, m) ==
    /\ m \in unacked[g] \ (done[g] \union early[g])
    /\ unacked' = [unacked EXCEPT ![g] = @ \ {m}]
    /\ UNCHANGED <<stage, sent, unrouted, bound, queue, early, done, acked, handled, starts, downs>>

NackResolved(g, m) ==
    /\ m \in unacked[g]
    /\ unacked' = [unacked EXCEPT ![g] = @ \ {m}]
    /\ queue' = queue \union {m}
    /\ UNCHANGED <<stage, sent, unrouted, bound, early, done, acked, handled, starts, downs>>

\* The handler's promise rejects: nack(msg, false, true).
Nack(g, m) ==
    /\ m \in unacked[g] \ (done[g] \union early[g])
    /\ unacked' = [unacked EXCEPT ![g] = @ \ {m}]
    /\ queue' = queue \union {m}
    /\ UNCHANGED <<stage, sent, unrouted, bound, early, done, acked, handled, starts, downs>>

-----------------------------------------------------------------------------

\* RabbitMQ requeues what a consumer that is gone had not acknowledged.
GoesDown(g, to) ==
    /\ downs < MaxDowns
    /\ downs' = downs + 1
    /\ stage' = [stage EXCEPT ![g] = to]
    /\ queue' = queue \union unacked[g]
    /\ unacked' = [unacked EXCEPT ![g] = {}]
    /\ early' = [early EXCEPT ![g] = {}]
    /\ done' = [done EXCEPT ![g] = {}]
    /\ UNCHANGED <<sent, unrouted, bound, acked, handled, starts>>

\* The process dies, or a deployment stops it.
Crash(g) == stage[g] # "down" /\ GoesDown(g, "down")

\* RabbitMQ shuts the connection down, or the channel, when nobody had asserted the
\* exchange that bindQueue() names: amqplib knows no reconnect option, nobody
\* listens to "close", and the health check does not ask RabbitMQ.  A handler in flight
\* runs on, but what it acknowledges is no longer its own: ack() and nack() throw.
Disconnect(g) ==
    /\ stage[g] \in {"connected", "bound", "consuming", "ready"}
    /\ GoesDown(g, "lost")

Boot(g) == StartProcess(g) \/ Connect(g) \/ BindQueue(g) \/ Consume(g) \/ RecordHandler(g)

Next ==
    \E g \in Gateway :
        \/ Boot(g)
        \/ Publish(g) \/ PublishFails(g)
        \/ \E m \in Event : Deliver(g, m) \/ Handle(g, m) \/ Ack(g, m) \/ Nack(g, m)
        \/ Crash(g) \/ Disconnect(g)

Spec == Init /\ [][Next]_vars

\* A replica that is down is restarted (restart_policy any, three attempts) and boots.
\* RabbitMQ goes on delivering to consumers with room; a handler that is tried again and
\* again succeeds in the end, unless the message is poison, and is then acknowledged.
Fairness ==
    /\ \A g \in Gateway : WF_vars(Boot(g))
    /\ WF_vars(\E g \in Gateway, m \in Event : Deliver(g, m))
    /\ \A m \in Event \ Poison :
        /\ SF_vars(\E g \in Gateway : Deliver(g, m))
        /\ SF_vars(\E g \in Gateway : Handle(g, m))
        /\ WF_vars(\E g \in Gateway : Ack(g, m))

FairSpec == Spec /\ Fairness

-----------------------------------------------------------------------------

TypeOK ==
    /\ stage \in [Gateway -> Stage]
    /\ sent \in 0..NEvent
    /\ bound \in BOOLEAN
    /\ unrouted \subseteq Event /\ queue \subseteq Event
    /\ acked \subseteq Event /\ handled \subseteq Event
    /\ unacked \in [Gateway -> SUBSET Event]
    /\ early \in [Gateway -> SUBSET Event]
    /\ done \in [Gateway -> SUBSET Event]
    /\ \A g \in Gateway : early[g] \union done[g] \subseteq unacked[g]
    /\ starts \in Nat /\ downs \in 0..MaxDowns

\* Whatever dies in between, a published message is in exactly one place: it
\* never reached the queue, or it is ready, or one replica has it, or it was
\* acknowledged.
Conserved ==
    /\ 1..sent = unrouted \union queue \union Delivered \union acked
    /\ unrouted \intersect (queue \union Delivered \union acked) = {}
    /\ queue \intersect (Delivered \union acked) = {}
    /\ Delivered \intersect acked = {}
    /\ \A g, h \in Gateway : g # h => unacked[g] \intersect unacked[h] = {}

\* Recording the handler after consume() loses messages that were waiting in the
\* queue, but each start of a consumer loses a prefetch window of them at most.
StartupLossBounded == Cardinality(acked \ handled) <= Prefetch * starts

\* The promise to subscribers.
Promise == INSTANCE EventDelivery WITH
    pending  <- queue \union Delivered,
    starting <- \E g \in Gateway : stage[g] = "consuming" \/ early[g] # {}

DeliversAtLeastOnce == Promise!Spec

\* A message that reached the queue is acknowledged in the end, although others
\* ahead of it are poison and requeued for ever (fewer than a prefetch window of
\* them), and replicas die meanwhile; unless every replica lost its connection,
\* which none of them notices.
EventuallySettled ==
    \A m \in Event \ Poison :
        m \in queue ~> (m \in acked \/ \A g \in Gateway : stage[g] = "lost")

=============================================================================
