----------------------------- MODULE BrokerProofs -----------------------------
(***************************************************************************)
(* Theorems about Broker for any replicas, events, prefetch and failures:  *)
(* no message is lost or duplicated inside the broker, a start loses at    *)
(* most a prefetch window, and Broker implements EventDelivery.            *)
(***************************************************************************)
EXTENDS Broker, FiniteSetTheorems, TLAPS

\* A replica that could acknowledge a message ran its handler, or looked it up early.
DoneIsHandled == \A g \in Gateway : done[g] \subseteq handled

IInv == TypeOK /\ Conserved /\ DoneIsHandled

Starting == \E g \in Gateway : stage[g] = "consuming" \/ early[g] # {}

-----------------------------------------------------------------------------

LEMMA DeliveredIs == \A m : m \in Delivered <=> \E g \in Gateway : m \in unacked[g]
BY DEF Delivered

LEMMA BootFacts ==
    ASSUME TypeOK, NEW g \in Gateway, Boot(g)
    PROVE  /\ stage' \in [Gateway -> Stage]
           /\ bound' \in BOOLEAN /\ starts' \in Nat
           /\ UNCHANGED <<sent, unrouted, queue, unacked, early, done, acked, handled, downs>>
<1>1. PICK to \in Stage : stage' = [stage EXCEPT ![g] = to]
  BY DEF Boot, StartProcess, Connect, BindQueue, Consume, RecordHandler, Boots, Stage
<1>2. stage' \in [Gateway -> Stage]
  BY <1>1 DEF TypeOK
<1>3. bound' \in BOOLEAN
  BY Zenon DEF TypeOK, Boot, StartProcess, Connect, BindQueue, Consume, RecordHandler
<1>4. starts' \in Nat
  BY DEF TypeOK, Boot, StartProcess, Connect, BindQueue, Consume, RecordHandler
<1>5. UNCHANGED <<sent, unrouted, queue, unacked, early, done, acked, handled, downs>>
  BY DEF Boot, StartProcess, Connect, BindQueue, Consume, RecordHandler
<1> QED BY <1>2, <1>3, <1>4, <1>5

-----------------------------------------------------------------------------
\* One lemma per action: it preserves the inductive invariant.

LEMMA InitIInv == Init => IInv
<1> SUFFICES ASSUME Init
             PROVE  IInv
  OBVIOUS
<1>1. TypeOK
  <2>1. stage \in [Gateway -> Stage]
    BY DEF Init, Stage
  <2>2. sent \in 0..NEvent /\ downs \in 0..MaxDowns /\ starts \in Nat
    BY NEventAssumption, MaxDownsAssumption DEF Init
  <2> QED BY <2>1, <2>2 DEF Init, TypeOK
<1>2. Delivered = {} /\ 1..sent = {}
  BY DEF Init, Delivered
<1>3. Conserved
  BY <1>2 DEF Init, Conserved
<1>4. DoneIsHandled
  BY DEF Init, DoneIsHandled
<1> QED BY <1>1, <1>3, <1>4 DEF IInv

LEMMA BootPreserves ==
    ASSUME IInv, NEW g \in Gateway, Boot(g)
    PROVE  IInv'
BY BootFacts DEF IInv, TypeOK, Conserved, Delivered, DoneIsHandled

LEMMA PublishPreserves ==
    ASSUME IInv, NEW g \in Gateway, Publish(g) \/ PublishFails(g)
    PROVE  IInv'
<1>1. /\ sent' = sent + 1 /\ sent \in Nat /\ sent' \in 0..NEvent /\ sent' \in Event
      /\ 1..sent' = (1..sent) \union {sent'} /\ sent' \notin 1..sent
  BY NEventAssumption DEF IInv, TypeOK, Event, Publish, PublishFails
<1>2. /\ \/ queue' = queue \union {sent'} /\ unrouted' = unrouted
         \/ unrouted' = unrouted \union {sent'} /\ queue' = queue
      /\ UNCHANGED <<stage, bound, unacked, early, done, acked, handled, starts, downs>>
  BY <1>1 DEF Publish, PublishFails
<1>3. TypeOK' /\ DoneIsHandled'
  BY <1>1, <1>2 DEF IInv, TypeOK, DoneIsHandled
<1>4. Delivered' = Delivered
  BY <1>2 DEF Delivered
<1>5. Conserved'
  BY <1>1, <1>2, <1>4 DEF IInv, Conserved
<1> QED BY <1>3, <1>5 DEF IInv

LEMMA DeliverPreserves ==
    ASSUME IInv, NEW g \in Gateway, NEW m \in Event, Deliver(g, m)
    PROVE  IInv'
<1>1. /\ m \in queue /\ queue' = queue \ {m}
      /\ unacked' = [unacked EXCEPT ![g] = @ \union {m}]
      /\ early' \in {early, [early EXCEPT ![g] = @ \union {m}]}
      /\ UNCHANGED <<stage, sent, unrouted, bound, done, acked, handled, starts, downs>>
  BY DEF Deliver
<1>2. TypeOK' /\ DoneIsHandled'
  BY <1>1 DEF IInv, TypeOK, DoneIsHandled
<1>3. Delivered' = Delivered \union {m}
  BY <1>1 DEF IInv, TypeOK, Delivered
<1>4. m \notin Delivered /\ \A h \in Gateway : m \notin unacked[h]
  BY <1>1, DeliveredIs DEF IInv, Conserved
<1>5. \A h \in Gateway : h # g => unacked'[h] = unacked[h]
  BY <1>1 DEF IInv, TypeOK
<1>6. unacked'[g] = unacked[g] \union {m}
  BY <1>1 DEF IInv, TypeOK
<1>7. \A h, k \in Gateway : h # k => unacked'[h] \intersect unacked'[k] = {}
  BY <1>4, <1>5, <1>6 DEF IInv, Conserved
<1>8. Conserved'
  BY <1>1, <1>3, <1>4, <1>7 DEF IInv, Conserved
<1> QED BY <1>2, <1>8 DEF IInv

LEMMA HandlePreserves ==
    ASSUME IInv, NEW g \in Gateway, NEW m \in Event, Handle(g, m)
    PROVE  IInv'
<1>1. TypeOK' /\ DoneIsHandled'
  BY DEF Handle, IInv, TypeOK, DoneIsHandled
<1>2. Conserved'
  BY DEF Handle, IInv, Conserved, Delivered
<1> QED BY <1>1, <1>2 DEF IInv

\* What a message leaves when one replica settles or requeues it.
LEMMA RemovedFrom ==
    ASSUME IInv, NEW g \in Gateway, NEW m \in unacked[g],
           unacked' = [unacked EXCEPT ![g] = @ \ {m}]
    PROVE  /\ m \in Delivered /\ Delivered' = Delivered \ {m}
           /\ \A h, k \in Gateway : h # k => unacked'[h] \intersect unacked'[k] = {}
<1>1. \A h \in Gateway : h # g => unacked'[h] = unacked[h] /\ m \notin unacked[h]
  BY DEF IInv, TypeOK, Conserved
<1>2. unacked'[g] = unacked[g] \ {m}
  BY DEF IInv, TypeOK
<1>3. m \in Delivered /\ Delivered' = Delivered \ {m}
  BY <1>1, <1>2 DEF Delivered
<1>4. \A h, k \in Gateway : h # k => unacked'[h] \intersect unacked'[k] = {}
  BY <1>1, <1>2 DEF IInv, Conserved
<1> QED BY <1>3, <1>4

LEMMA AckPreserves ==
    ASSUME IInv, NEW g \in Gateway, NEW m \in Event, Ack(g, m)
    PROVE  IInv'
<1>1. m \in unacked[g] /\ unacked' = [unacked EXCEPT ![g] = @ \ {m}]
  BY DEF Ack, IInv, TypeOK
<1>2. TypeOK' /\ DoneIsHandled'
  BY DEF Ack, IInv, TypeOK, DoneIsHandled
<1>3. /\ m \in Delivered /\ Delivered' = Delivered \ {m}
      /\ \A h, k \in Gateway : h # k => unacked'[h] \intersect unacked'[k] = {}
  BY <1>1, RemovedFrom
<1>4. Conserved'
  BY <1>3 DEF Ack, IInv, Conserved
<1> QED BY <1>2, <1>4 DEF IInv

LEMMA NackPreserves ==
    ASSUME IInv, NEW g \in Gateway, NEW m \in Event, Nack(g, m)
    PROVE  IInv'
<1>1. m \in unacked[g] /\ unacked' = [unacked EXCEPT ![g] = @ \ {m}]
  BY DEF Nack
<1>2. TypeOK' /\ DoneIsHandled'
  BY DEF Nack, IInv, TypeOK, DoneIsHandled
<1>3. /\ m \in Delivered /\ Delivered' = Delivered \ {m}
      /\ \A h, k \in Gateway : h # k => unacked'[h] \intersect unacked'[k] = {}
  BY <1>1, RemovedFrom
<1>4. Conserved'
  BY <1>3 DEF Nack, IInv, Conserved
<1> QED BY <1>2, <1>4 DEF IInv

LEMMA GoesDownPreserves ==
    ASSUME IInv, NEW g \in Gateway, NEW to \in Stage, GoesDown(g, to)
    PROVE  IInv' /\ queue' \union Delivered' = queue \union Delivered
<1>1. /\ \A h \in Gateway : h # g => unacked'[h] = unacked[h]
      /\ unacked'[g] = {} /\ queue' = queue \union unacked[g]
      /\ UNCHANGED <<sent, unrouted, bound, acked, handled, starts>>
  BY DEF GoesDown, IInv, TypeOK
<1>2. TypeOK' /\ DoneIsHandled'
  BY MaxDownsAssumption DEF GoesDown, IInv, TypeOK, DoneIsHandled
<1>3. Delivered' = Delivered \ unacked[g] /\ unacked[g] \subseteq Delivered
  BY <1>1 DEF IInv, Conserved, Delivered
<1>4. \A h, k \in Gateway : h # k => unacked'[h] \intersect unacked'[k] = {}
  BY <1>1 DEF IInv, Conserved
<1>5. Conserved'
  BY <1>1, <1>3, <1>4 DEF IInv, Conserved
<1> QED BY <1>1, <1>2, <1>3, <1>5 DEF IInv

LEMMA NextPreserves == IInv /\ [Next]_vars => IInv'
<1> SUFFICES ASSUME IInv, [Next]_vars
             PROVE  IInv'
  OBVIOUS
<1>1. CASE UNCHANGED vars
  BY <1>1 DEF vars, IInv, TypeOK, Conserved, Delivered, DoneIsHandled
<1>2. ASSUME NEW g \in Gateway, Boot(g)
      PROVE  IInv'
  BY <1>2, BootPreserves
<1>3. ASSUME NEW g \in Gateway, Publish(g) \/ PublishFails(g)
      PROVE  IInv'
  BY <1>3, PublishPreserves
<1>4. ASSUME NEW g \in Gateway, NEW m \in Event,
             Deliver(g, m) \/ Handle(g, m) \/ Ack(g, m) \/ Nack(g, m)
      PROVE  IInv'
  BY <1>4, DeliverPreserves, HandlePreserves, AckPreserves, NackPreserves
<1>5. ASSUME NEW g \in Gateway, Crash(g) \/ Disconnect(g)
      PROVE  IInv'
  BY <1>5, GoesDownPreserves DEF Crash, Disconnect, Stage
<1> QED BY <1>1, <1>2, <1>3, <1>4, <1>5 DEF Next

THEOREM Invariance == Spec => []IInv
<1> QED BY InitIInv, NextPreserves, PTL DEF Spec

\* The variables keep their types, and a replica acknowledges only what it holds.
THEOREM TypeCorrect == Spec => []TypeOK
<1>1. IInv => TypeOK
  BY DEF IInv
<1> QED BY <1>1, Invariance, PTL

\* Whatever replicas die or lose their connection between a delivery and its
\* acknowledgement, a published message is in exactly one place.
THEOREM MessagesAreConserved == Spec => []Conserved
<1>1. IInv => Conserved
  BY DEF IInv
<1> QED BY <1>1, Invariance, PTL

-----------------------------------------------------------------------------
\* What a start may lose.  Each consumer that ever started has a window of Prefetch
\* places, and a message that is lost, or may be, holds a place of its own.

AtRisk == (acked \ handled) \union UNION {early[g] : g \in Gateway}

Consuming == {g \in Gateway : stage[g] = "consuming"}

Places == (1..starts) \X (1..Prefetch)

\* window[g] is the window of a consumer without a handler: only what it has been
\* delivered too early is there, so the next early delivery finds a free place.
Fits(place, window) ==
    /\ place \in Injection(AtRisk, Places)
    /\ window \in [Gateway -> Nat]
    /\ \A g \in Consuming : window[g] \in 1..starts
    /\ \A g, h \in Consuming : window[g] = window[h] => g = h
    /\ \A g \in Consuming, m \in AtRisk : place[m][1] = window[g] => m \in early[g]

Windows == \E place, window : Fits(place, window)

\* A step after which fewer messages are at risk, and no consumer has started.
LEMMA FewerFit ==
    ASSUME Windows, AtRisk' \subseteq AtRisk, Consuming' \subseteq Consuming, starts' = starts,
           \A g \in Consuming' : early'[g] = early[g]
    PROVE  Windows'
<1>1. PICK place, window : Fits(place, window)
  BY DEF Windows
<1>2. PICK rest : rest = [m \in AtRisk' |-> place[m]]
  OBVIOUS
<1>3. Places' = Places
  BY DEF Places
<1>4. place \in [AtRisk -> Places] /\ \A a, b \in AtRisk : place[a] = place[b] => a = b
  BY <1>1 DEF Fits, Injection, IsInjective
<1>5. rest \in [AtRisk' -> Places]
  BY <1>2, <1>4
<1>6. \A a, b \in AtRisk' : rest[a] = rest[b] => a = b
  BY <1>2, <1>4
<1>7. rest \in Injection(AtRisk', Places')
  BY <1>3, <1>5, <1>6 DEF Injection, IsInjective
<1>8. Consuming \subseteq Gateway
  BY DEF Consuming
<1>9. \A g \in Consuming', m \in AtRisk' : rest[m][1] = window[g] => m \in early'[g]
  BY <1>1, <1>2 DEF Fits
<1>10. Fits(rest, window)'
  BY <1>1, <1>7, <1>9 DEF Fits
<1> QED BY <1>10 DEF Windows

LEMMA InitWindows == Init => Windows
<1> SUFFICES ASSUME Init PROVE Windows
  OBVIOUS
<1>1. AtRisk = {} /\ Consuming = {}
  BY DEF Init, AtRisk, Consuming
<1>2. PICK place, window : place = [m \in {} |-> m] /\ window = [g \in Gateway |-> 0]
  OBVIOUS
<1>3. Fits(place, window)
  BY <1>1, <1>2 DEF Fits, Injection, IsInjective
<1> QED BY <1>3 DEF Windows

\* The window of a new consumer is a new one.
LEMMA ConsumeWindows ==
    ASSUME IInv, Windows, NEW g \in Gateway, Consume(g) PROVE Windows'
<1>1. PICK place, window : Fits(place, window)
  BY DEF Windows
<1>2. /\ starts' = starts + 1 /\ starts \in Nat
      /\ UNCHANGED <<early, acked, handled>>
  BY DEF Consume, IInv, TypeOK
<1>3. AtRisk' = AtRisk /\ Consuming' = Consuming \union {g} /\ g \notin Consuming
  BY <1>2 DEF AtRisk, Consuming, Consume, Boots, IInv, TypeOK
<1>4. PICK next : next = [window EXCEPT ![g] = starts']
  OBVIOUS
<1>5. /\ next \in [Gateway -> Nat] /\ next[g] = starts + 1
      /\ \A h \in Consuming : h # g /\ next[h] = window[h] /\ next[h] \in 1..starts
  BY <1>1, <1>2, <1>3, <1>4 DEF Fits, Consuming
<1>6. place \in [AtRisk -> Places] /\ \A a, b \in AtRisk : place[a] = place[b] => a = b
  BY <1>1 DEF Fits, Injection, IsInjective
<1>7. Places \subseteq Places' /\ \A m \in AtRisk : place[m][1] \in 1..starts
  BY <1>2, <1>6 DEF Places
<1>8. place \in Injection(AtRisk', Places')
  BY <1>3, <1>6, <1>7 DEF Injection, IsInjective
<1>9. \A h \in Consuming' : next[h] \in 1..starts'
  BY <1>2, <1>3, <1>5
<1>10. \A h, k \in Consuming' : next[h] = next[k] => h = k
  BY <1>1, <1>2, <1>3, <1>5 DEF Fits
<1>11. ASSUME NEW h \in Consuming', NEW m \in AtRisk', place[m][1] = next[h]
       PROVE  m \in early'[h]
  <2>1. h # g
    BY <1>2, <1>3, <1>5, <1>7, <1>11
  <2> QED BY <2>1, <1>1, <1>2, <1>3, <1>5, <1>11 DEF Fits
<1>12. Fits(place, next)'
  BY <1>5, <1>8, <1>9, <1>10, <1>11 DEF Fits
<1> QED BY <1>12 DEF Windows

\* A consumer with room in its prefetch window has a free place in its window.
LEMMA FreePlace ==
    ASSUME IInv, NEW place, NEW window, Fits(place, window), NEW g \in Consuming,
           Cardinality(unacked[g]) < Prefetch
    PROVE  \E k \in 1..Prefetch : \A m \in AtRisk : place[m] # <<window[g], k>>
<1> DEFINE Held == {m \in AtRisk : place[m][1] = window[g]}
<1>1. g \in Gateway /\ Held \subseteq early[g] /\ early[g] \subseteq unacked[g]
      /\ unacked[g] \subseteq Event
  BY DEF Fits, Consuming, IInv, TypeOK
<1>2. IsFiniteSet(Event) /\ IsFiniteSet(unacked[g])
  <2>1. IsFiniteSet(Event)
    BY FS_Interval, NEventAssumption DEF Event
  <2> QED BY <1>1, <2>1, FS_Subset
<1>3. /\ IsFiniteSet(Held) /\ Cardinality(Held) <= Cardinality(unacked[g])
      /\ Cardinality(unacked[g]) \in Nat
  BY <1>1, <1>2, FS_Subset, FS_CardinalityType
<1>4. IsFiniteSet(1..Prefetch) /\ Cardinality(1..Prefetch) = Prefetch
  BY FS_Interval, PrefetchAssumption
<1> SUFFICES ASSUME \A k \in 1..Prefetch : \E m \in AtRisk : place[m] = <<window[g], k>>
             PROVE  FALSE
  OBVIOUS
<1>5. place \in [AtRisk -> Places]
  BY DEF Fits, Injection
<1> DEFINE f == [m \in Held |-> place[m][2]]
<1>6. f \in [Held -> 1..Prefetch]
  BY <1>5 DEF Places
<1>7. \A k \in 1..Prefetch : \E m \in Held : f[m] = k
  OBVIOUS
<1>8. f \in Surjection(Held, 1..Prefetch)
  <2> HIDE DEF f, Held
  <2> QED BY <1>6, <1>7 DEF Surjection
<1>9. Prefetch <= Cardinality(Held)
  <2> HIDE DEF f, Held
  <2> QED BY <1>3, <1>4, <1>8, FS_Surjection
<1>10. Cardinality(Held) \in Nat
  BY <1>3, FS_CardinalityType
<1> QED BY <1>3, <1>9, <1>10, PrefetchAssumption

LEMMA DeliverWindows ==
    ASSUME IInv, Windows, NEW g \in Gateway, NEW m \in Event, Deliver(g, m) PROVE Windows'
<1>1. UNCHANGED <<stage, acked, handled, starts>> /\ Consuming' = Consuming
  BY DEF Deliver, Consuming
<1>2. CASE stage[g] # "consuming"
  <2>1. early' = early
    BY <1>2 DEF Deliver
  <2>2. AtRisk' = AtRisk
    BY <1>1, <2>1 DEF AtRisk
  <2> QED BY <1>1, <2>1, <2>2, FewerFit
<1>3. CASE stage[g] = "consuming"
  <2>1. PICK place, window : Fits(place, window)
    BY DEF Windows
  <2>2. g \in Consuming /\ Cardinality(unacked[g]) < Prefetch
    BY <1>3 DEF Consuming, Deliver
  <2>3. PICK k \in 1..Prefetch : \A n \in AtRisk : place[n] # <<window[g], k>>
    BY <2>1, <2>2, FreePlace
  <2>4. /\ early' = [early EXCEPT ![g] = @ \union {m}]
        /\ early'[g] = early[g] \union {m}
        /\ \A h \in Gateway : h # g => early'[h] = early[h]
    BY <1>3 DEF Deliver, IInv, TypeOK
  <2>5. AtRisk' = AtRisk \union {m}
    BY <1>1, <2>4 DEF AtRisk
  <2>6. PICK next : next = [n \in AtRisk' |-> IF n = m THEN <<window[g], k>> ELSE place[n]]
    OBVIOUS
  <2>7. place \in [AtRisk -> Places] /\ \A a, b \in AtRisk : place[a] = place[b] => a = b
    BY <2>1 DEF Fits, Injection, IsInjective
  <2>8. <<window[g], k>> \in Places /\ Places' = Places
    BY <1>1, <2>1, <2>2 DEF Fits, Places
  <2>9. next[m] = <<window[g], k>> /\ \A n \in AtRisk' : n # m => n \in AtRisk /\ next[n] = place[n]
    BY <2>5, <2>6
  <2>10. next \in [AtRisk' -> Places']
    BY <2>6, <2>7, <2>8, <2>9
  <2>11. \A a, b \in AtRisk' : next[a] = next[b] => a = b
    BY <2>3, <2>7, <2>9
  <2>12. next \in Injection(AtRisk', Places')
    BY <2>10, <2>11 DEF Injection, IsInjective
  <2>13. ASSUME NEW h \in Consuming', NEW n \in AtRisk', next[n][1] = window[h]
         PROVE  n \in early'[h]
    <3>1. h \in Consuming /\ h \in Gateway
      BY <1>1 DEF Consuming
    <3>2. CASE n = m
      <4>1. window[g] = window[h]
        BY <2>9, <2>13, <3>2
      <4>2. g = h
        BY <2>1, <2>2, <3>1, <4>1 DEF Fits
      <4> QED BY <2>4, <3>2, <4>2
    <3>3. CASE n # m
      BY <2>1, <2>4, <2>9, <2>13, <3>1, <3>3 DEF Fits
    <3> QED BY <3>2, <3>3
  <2>14. Fits(next, window)'
    BY <1>1, <2>1, <2>12, <2>13 DEF Fits
  <2> QED BY <2>14 DEF Windows
<1> QED BY <1>2, <1>3

\* An acknowledged message was handled, or was at risk before.
LEMMA AckWindows ==
    ASSUME IInv, Windows, NEW g \in Gateway, NEW m \in Event, Ack(g, m) PROVE Windows'
<1>1. /\ acked' = acked \union {m} /\ m \in done[g] \union early[g] /\ stage[g] = "ready"
      /\ UNCHANGED <<stage, handled, starts>>
      /\ \A h \in Gateway : early'[h] \subseteq early[h] /\ (h # g => early'[h] = early[h])
  BY DEF Ack, IInv, TypeOK
<1>2. m \in handled \/ m \in early[g]
  BY <1>1 DEF IInv, DoneIsHandled
<1>3. AtRisk' \subseteq AtRisk
  BY <1>1, <1>2 DEF AtRisk
<1>4. Consuming' = Consuming /\ Consuming \subseteq Gateway /\ g \notin Consuming
  BY <1>1 DEF Consuming
<1> QED BY <1>1, <1>3, <1>4, FewerFit

LEMMA GoesDownWindows ==
    ASSUME IInv, Windows, NEW g \in Gateway, NEW to \in {"down", "lost"}, GoesDown(g, to)
    PROVE  Windows'
<1>1. /\ UNCHANGED <<acked, handled, starts>>
      /\ stage'[g] # "consuming" /\ \A h \in Gateway : h # g => stage'[h] = stage[h]
      /\ \A h \in Gateway : early'[h] \subseteq early[h] /\ (h # g => early'[h] = early[h])
  BY DEF GoesDown, IInv, TypeOK
<1>2. AtRisk' \subseteq AtRisk
  BY <1>1 DEF AtRisk
<1>3. Consuming' \subseteq Consuming /\ \A h \in Consuming' : h \in Gateway /\ h # g
  BY <1>1 DEF Consuming
<1> QED BY <1>1, <1>2, <1>3, FewerFit

\* The other steps lose nothing and start no consumer.
LEMMA QuietWindows ==
    ASSUME Windows, handled \subseteq handled', Consuming' \subseteq Consuming,
           UNCHANGED <<early, acked, starts>>
    PROVE  Windows'
<1>1. AtRisk' \subseteq AtRisk
  BY DEF AtRisk
<1> QED BY <1>1, FewerFit

LEMMA NextWindows == IInv /\ Windows /\ [Next]_vars => Windows'
<1> SUFFICES ASSUME IInv, Windows, [Next]_vars
             PROVE  Windows'
  OBVIOUS
<1>1. CASE UNCHANGED vars
  BY <1>1, QuietWindows DEF vars, Consuming
<1>2. ASSUME NEW g \in Gateway, Boot(g)
      PROVE  Windows'
  <2>1. CASE Consume(g)
    BY <2>1, ConsumeWindows
  <2>2. CASE StartProcess(g) \/ Connect(g) \/ BindQueue(g) \/ RecordHandler(g)
    <3>1. /\ UNCHANGED <<early, acked, handled, starts>>
          /\ stage' \in {[stage EXCEPT ![g] = to] : to \in {"booting", "connected", "bound", "ready"}}
      BY <2>2 DEF StartProcess, Connect, BindQueue, RecordHandler, Boots
    <3>2. Consuming' \subseteq Consuming
      BY <3>1 DEF Consuming, IInv, TypeOK
    <3> QED BY <3>1, <3>2, QuietWindows
  <2> QED BY <1>2, <2>1, <2>2 DEF Boot
<1>3. ASSUME NEW g \in Gateway, Publish(g) \/ PublishFails(g)
      PROVE  Windows'
  BY <1>3, QuietWindows DEF Publish, PublishFails, Consuming
<1>4. ASSUME NEW g \in Gateway, NEW m \in Event, Handle(g, m) \/ Nack(g, m)
      PROVE  Windows'
  BY <1>4, QuietWindows DEF Handle, Nack, Consuming
<1>5. ASSUME NEW g \in Gateway, NEW m \in Event, Deliver(g, m) \/ Ack(g, m)
      PROVE  Windows'
  BY <1>5, DeliverWindows, AckWindows
<1>6. ASSUME NEW g \in Gateway, Crash(g) \/ Disconnect(g)
      PROVE  Windows'
  BY <1>6, GoesDownWindows DEF Crash, Disconnect
<1> QED BY <1>1, <1>2, <1>3, <1>4, <1>5, <1>6 DEF Next

\* Subscribers lose at most a prefetch window of messages for every consumer that was
\* ever registered before its handler, for any number of replicas and failures.
THEOREM StartupLosses == Spec => []StartupLossBounded
<1>1. IInv /\ Windows => StartupLossBounded
  <2> SUFFICES ASSUME IInv, Windows
               PROVE  StartupLossBounded
    OBVIOUS
  <2>1. PICK place \in Injection(AtRisk, Places) : TRUE
    BY DEF Windows, Fits
  <2>2. starts \in Nat /\ Prefetch \in Nat
    BY PrefetchAssumption DEF IInv, TypeOK
  <2>3. /\ IsFiniteSet(1..starts) /\ Cardinality(1..starts) = starts
        /\ IsFiniteSet(1..Prefetch) /\ Cardinality(1..Prefetch) = Prefetch
    BY <2>2, FS_Interval
  <2>4. IsFiniteSet(Places) /\ Cardinality(Places) = starts * Prefetch
    <3>1. /\ IsFiniteSet((1..starts) \X (1..Prefetch))
          /\ Cardinality((1..starts) \X (1..Prefetch))
               = Cardinality(1..starts) * Cardinality(1..Prefetch)
      BY <2>3, FS_Product, Zenon
    <3>2. Places = (1..starts) \X (1..Prefetch)
      BY Zenon DEF Places
    <3> QED BY <2>3, <3>1, <3>2, Zenon
  <2>5. IsFiniteSet(AtRisk) /\ Cardinality(AtRisk) <= starts * Prefetch
    BY <2>1, <2>4, FS_Injection
  <2>6. acked \ handled \subseteq AtRisk
    BY DEF AtRisk
  <2>7. /\ Cardinality(acked \ handled) <= Cardinality(AtRisk)
        /\ Cardinality(acked \ handled) \in Nat /\ Cardinality(AtRisk) \in Nat
    BY <2>5, <2>6, FS_Subset, FS_CardinalityType
  <2>8. starts * Prefetch = Prefetch * starts /\ starts * Prefetch \in Nat
    BY <2>2
  <2> QED BY <2>5, <2>7, <2>8 DEF StartupLossBounded
<1> QED BY <1>1, InitWindows, NextWindows, Invariance, PTL DEF Spec

-----------------------------------------------------------------------------
\* Poison messages go round for ever.  What keeps them from stopping the others.

\* A set of messages has a head.
LEMMA HeadExists ==
    ASSUME NEW S \in SUBSET Nat, S # {}
    PROVE  \E m \in S : \A k \in S : m <= k
<1> DEFINE R == {ss \in Nat \X Nat : ss[1] < ss[2]}
<1>1. IsWellFoundedOn(R, Nat)
  BY NatLessThanWellFounded DEF OpToRel
<1> HIDE DEF R
<1>2. PICK m \in S : \A k \in S : ~(<<k, m>> \in R)
  BY <1>1, WFMin
<1>3. ASSUME NEW k \in S
      PROVE  m <= k
  <2>1. k \in Nat /\ m \in Nat
    OBVIOUS
  <2>2. k < m => <<k, m>> \in R
    BY <2>1 DEF R
  <2> QED BY <1>2, <2>1, <2>2
<1> QED BY <1>2, <1>3

\* A channel never holds more messages than its prefetch limit.
WindowsRespected ==
    \A g \in Gateway : IsFiniteSet(unacked[g]) /\ Cardinality(unacked[g]) <= Prefetch

LEMMA InitWindowsRespected == Init => WindowsRespected
BY FS_EmptySet, PrefetchAssumption DEF Init, WindowsRespected

\* A delivery needs room; nothing else fills a window.
LEMMA NextWindowsRespected == IInv /\ WindowsRespected /\ [Next]_vars => WindowsRespected'
<1> SUFFICES ASSUME IInv, WindowsRespected, [Next]_vars
             PROVE  WindowsRespected'
  OBVIOUS
<1>1. Prefetch \in Nat
  BY PrefetchAssumption
<1>2. ASSUME NEW g \in Gateway, NEW m \in Event, Deliver(g, m)
      PROVE  WindowsRespected'
  <2>1. /\ unacked'[g] = unacked[g] \union {m} /\ Cardinality(unacked[g]) < Prefetch
        /\ \A h \in Gateway : h # g => unacked'[h] = unacked[h]
    BY <1>2 DEF Deliver, IInv, TypeOK
  <2>2. /\ IsFiniteSet(unacked[g] \union {m})
        /\ Cardinality(unacked[g] \union {m})
             = IF m \in unacked[g] THEN Cardinality(unacked[g]) ELSE Cardinality(unacked[g]) + 1
        /\ Cardinality(unacked[g]) \in Nat
    BY FS_AddElement, FS_CardinalityType DEF WindowsRespected
  <2>3. Cardinality(unacked'[g]) <= Prefetch
    BY <1>1, <2>1, <2>2
  <2> QED BY <2>1, <2>2, <2>3 DEF WindowsRespected
<1>3. ASSUME \A h \in Gateway : unacked'[h] \subseteq unacked[h]
      PROVE  WindowsRespected'
  <2>1. ASSUME NEW h \in Gateway
        PROVE  IsFiniteSet(unacked'[h]) /\ Cardinality(unacked'[h]) <= Prefetch
    <3>1. IsFiniteSet(unacked[h]) /\ Cardinality(unacked[h]) <= Prefetch
      BY DEF WindowsRespected
    <3>2. unacked'[h] \in SUBSET unacked[h]
      BY <1>3
    <3>3. IsFiniteSet(unacked'[h]) /\ Cardinality(unacked'[h]) <= Cardinality(unacked[h])
      BY <3>1, <3>2, FS_Subset
    <3>4. Cardinality(unacked'[h]) \in Nat /\ Cardinality(unacked[h]) \in Nat
      BY <3>1, <3>3, FS_CardinalityType
    <3> QED BY <1>1, <3>1, <3>3, <3>4
  <2> QED BY <2>1 DEF WindowsRespected
<1>4. ASSUME NEW g \in Gateway, Boot(g) \/ Publish(g) \/ PublishFails(g)
      PROVE  WindowsRespected'
  BY <1>3, <1>4, BootFacts DEF IInv, Publish, PublishFails
<1>5. ASSUME NEW g \in Gateway, NEW m \in Event, Handle(g, m) \/ Ack(g, m) \/ Nack(g, m)
      PROVE  WindowsRespected'
  BY <1>3, <1>5 DEF Handle, Ack, Nack, IInv, TypeOK
<1>6. ASSUME NEW g \in Gateway, Crash(g) \/ Disconnect(g)
      PROVE  WindowsRespected'
  BY <1>3, <1>6 DEF Crash, Disconnect, GoesDown, IInv, TypeOK
<1>7. CASE UNCHANGED vars
  BY <1>3, <1>7 DEF vars
<1> QED BY <1>2, <1>4, <1>5, <1>6, <1>7 DEF Next

\* What replica g can do next about message m: be given it, or acknowledge it, or
\* finish its handler (which a poison message never does).
Progress(g, m) ==
    \/ m \in queue /\ (\A k \in queue : m <= k) /\ Cardinality(unacked[g]) < Prefetch
    \/ m \in done[g] \union early[g]
    \/ m \in unacked[g] \ (done[g] \union early[g] \union Poison)

\* With fewer poison messages than places in a window, a replica that is ready is never
\* stuck while messages wait: poison alone cannot fill its window.  (This is where the
\* bound on poison messages of EventuallySettled comes from.)
NeverJammed ==
    Cardinality(Poison) < Prefetch =>
        \A g \in Gateway : stage[g] = "ready" /\ queue # {} => \E m \in Event : Progress(g, m)

\* A prefetch window is never exceeded, whoever comes and goes.
THEOREM WindowsAreRespected == Spec => []WindowsRespected
<1> QED BY InitWindowsRespected, NextWindowsRespected, Invariance, PTL DEF Spec

\* Whatever is requeued and redelivered, a queue with messages and a ready replica
\* never wait for each other, for any prefetch limit above the number of poison messages.
THEOREM ReplicasNeverJam == Spec => []NeverJammed
<1>1. IInv /\ WindowsRespected => NeverJammed
  <2> SUFFICES ASSUME IInv, WindowsRespected, Cardinality(Poison) < Prefetch,
                      NEW g \in Gateway, queue # {}
               PROVE  \E m \in Event : Progress(g, m)
    BY DEF NeverJammed
  <2>1. IsFiniteSet(Poison) /\ Cardinality(Poison) \in Nat /\ Prefetch \in Nat
    <3>1. IsFiniteSet(1..NEvent)
      BY NEventAssumption, FS_Interval
    <3>2. IsFiniteSet(Poison)
      BY <3>1, PoisonAssumption, FS_Subset
    <3> QED BY <3>2, PrefetchAssumption, FS_CardinalityType
  <2>2. CASE Cardinality(unacked[g]) < Prefetch
    <3>1. queue \in SUBSET Nat /\ queue \subseteq Event
      BY NEventAssumption DEF IInv, TypeOK, Event
    <3>2. PICK m \in queue : \A k \in queue : m <= k
      BY <3>1, HeadExists
    <3> QED BY <2>2, <3>1, <3>2 DEF Progress
  <2>3. CASE ~(Cardinality(unacked[g]) < Prefetch)
    <3>1. ~(unacked[g] \subseteq Poison)
      <4> SUFFICES ASSUME unacked[g] \subseteq Poison
                   PROVE  FALSE
        OBVIOUS
      <4>1. Cardinality(unacked[g]) <= Cardinality(Poison) /\ IsFiniteSet(unacked[g])
        BY <2>1, FS_Subset
      <4>2. Cardinality(unacked[g]) \in Nat
        BY <4>1, FS_CardinalityType
      <4> QED BY <2>1, <2>3, <4>1, <4>2
    <3>2. PICK m \in unacked[g] : m \notin Poison
      BY <3>1
    <3>3. m \in Event
      BY DEF IInv, TypeOK
    <3> QED BY <3>2, <3>3 DEF Progress
  <2> QED BY <2>2, <2>3
<1> QED BY <1>1, InitWindowsRespected, NextWindowsRespected, Invariance, PTL DEF Spec

-----------------------------------------------------------------------------
\* Broker implements EventDelivery, with pending <- Pending and starting <- Starting.

Pending == queue \union Delivered

LEMMA BootImplements ==
    ASSUME IInv, NEW g \in Gateway, Boot(g)
    PROVE  Promise!Subscribe \/ UNCHANGED Promise!vars
<1>1. UNCHANGED <<sent, queue, unacked, early, handled>>
  BY BootFacts DEF IInv
<1>2. UNCHANGED Pending
  BY <1>1 DEF Pending, Delivered
<1>3. Starting' = Starting \/ Starting' = ~Starting
  BY Zenon DEF Starting
<1> QED BY <1>1, <1>2, <1>3 DEF Promise!Subscribe, Promise!vars, Pending, Starting

LEMMA PublishImplements ==
    ASSUME IInv, NEW g \in Gateway, Publish(g) \/ PublishFails(g)
    PROVE  Promise!Publish
<1>1. /\ sent < NEvent /\ sent' = sent + 1
      /\ queue' \in {queue, queue \union {sent + 1}}
      /\ UNCHANGED <<stage, unacked, early, handled>>
  BY DEF Publish, PublishFails
<1>2. Pending' \in {Pending, Pending \union {sent + 1}}
  BY <1>1 DEF Pending, Delivered
<1>3. Starting' = Starting
  BY <1>1 DEF Starting
<1> QED BY <1>1, <1>2, <1>3 DEF Promise!Publish, Pending, Starting

LEMMA DeliverImplements ==
    ASSUME IInv, NEW g \in Gateway, NEW m \in Event, Deliver(g, m)
    PROVE  UNCHANGED Promise!vars
<1>1. /\ m \in queue /\ queue' = queue \ {m}
      /\ unacked' = [unacked EXCEPT ![g] = @ \union {m}]
      /\ UNCHANGED <<stage, sent, handled>>
  BY DEF Deliver
<1>2. Delivered' = Delivered \union {m}
  BY <1>1 DEF IInv, TypeOK, Delivered
<1>3. UNCHANGED Pending
  BY <1>1, <1>2 DEF Pending
<1>4. Starting' = Starting
  <2>1. CASE stage[g] = "consuming"
    BY <1>1, <2>1 DEF Starting
  <2>2. CASE stage[g] # "consuming"
    BY <1>1, <2>2 DEF Deliver, Starting
  <2> QED BY <2>1, <2>2
<1> QED BY <1>1, <1>3, <1>4 DEF Promise!vars, Pending, Starting

LEMMA HandleImplements ==
    ASSUME IInv, NEW g \in Gateway, NEW m \in Event, Handle(g, m)
    PROVE  Promise!Handle(m)
<1>1. m \in 1..sent
  BY DEF Handle, IInv, Conserved, Delivered
<1>2. UNCHANGED <<Pending, Starting>>
  BY DEF Handle, Pending, Delivered, Starting
<1> QED BY <1>1, <1>2 DEF Handle, Promise!Handle, Pending, Starting

\* Only what a replica holds is acknowledged, so the message leaves Pending.
LEMMA AckImplements ==
    ASSUME IInv, NEW g \in Gateway, NEW m \in Event, Ack(g, m)
    PROVE  Promise!Settle(m)
<1>1. /\ m \in unacked[g] /\ unacked' = [unacked EXCEPT ![g] = @ \ {m}]
      /\ UNCHANGED <<stage, sent, queue, handled>>
  BY DEF Ack, IInv, TypeOK
<1>2. m \in Delivered /\ Delivered' = Delivered \ {m}
  BY <1>1, RemovedFrom
<1>3. m \in Pending /\ Pending' = Pending \ {m}
  BY <1>1, <1>2 DEF Pending, IInv, Conserved
<1>4. m \in handled \/ Starting
  BY DEF Ack, IInv, DoneIsHandled, Starting
<1>5. Starting' \in {Starting, FALSE}
  <2>1. \A h \in Gateway : early'[h] \subseteq early[h]
    BY DEF Ack, IInv, TypeOK
  <2>2. Starting' => Starting
    BY <1>1, <2>1 DEF Starting
  <2> QED BY <2>2, Zenon DEF Starting
<1> QED BY <1>1, <1>3, <1>4, <1>5 DEF Promise!Settle, Pending, Starting

LEMMA NackImplements ==
    ASSUME IInv, NEW g \in Gateway, NEW m \in Event, Nack(g, m)
    PROVE  UNCHANGED Promise!vars
<1>1. /\ m \in unacked[g] /\ unacked' = [unacked EXCEPT ![g] = @ \ {m}]
      /\ queue' = queue \union {m}
      /\ UNCHANGED <<stage, sent, early, handled>>
  BY DEF Nack
<1>2. m \in Delivered /\ Delivered' = Delivered \ {m}
  BY <1>1, RemovedFrom
<1>3. UNCHANGED Pending
  BY <1>1, <1>2 DEF Pending
<1>4. UNCHANGED Starting
  BY <1>1 DEF Starting
<1> QED BY <1>1, <1>3, <1>4 DEF Promise!vars, Pending, Starting

\* What RabbitMQ requeues stays pending.
LEMMA GoesDownImplements ==
    ASSUME IInv, NEW g \in Gateway, NEW to \in Stage, GoesDown(g, to)
    PROVE  Promise!Subscribe \/ UNCHANGED Promise!vars
<1>1. UNCHANGED <<Pending, sent, handled>>
  BY GoesDownPreserves DEF Pending, GoesDown
<1>2. Starting' = Starting \/ Starting' = ~Starting
  BY Zenon DEF Starting
<1> QED BY <1>1, <1>2 DEF Promise!Subscribe, Promise!vars, Pending, Starting

LEMMA InitImplements == Init => Promise!Init
<1> SUFFICES ASSUME Init
             PROVE  Promise!Init
  OBVIOUS
<1>1. Pending = {}
  BY DEF Init, Pending, Delivered
<1>2. ~Starting
  BY DEF Init, Starting
<1> QED BY <1>1, <1>2 DEF Init, Promise!Init, Pending, Starting

LEMMA NextImplements == IInv /\ [Next]_vars => [Promise!Next]_Promise!vars
<1> SUFFICES ASSUME IInv, [Next]_vars
             PROVE  Promise!Next \/ UNCHANGED Promise!vars
  OBVIOUS
<1>1. CASE UNCHANGED vars
  <2>1. UNCHANGED <<Pending, Starting, sent, handled>>
    BY <1>1 DEF vars, Pending, Delivered, Starting
  <2> QED BY <2>1 DEF Promise!vars, Pending, Starting
<1>2. ASSUME NEW g \in Gateway, Boot(g)
      PROVE  Promise!Next \/ UNCHANGED Promise!vars
  BY <1>2, BootImplements DEF Promise!Next
<1>3. ASSUME NEW g \in Gateway, Publish(g) \/ PublishFails(g)
      PROVE  Promise!Next
  BY <1>3, PublishImplements DEF Promise!Next
<1>4. ASSUME NEW g \in Gateway, NEW m \in Event,
             Deliver(g, m) \/ Handle(g, m) \/ Ack(g, m) \/ Nack(g, m)
      PROVE  Promise!Next \/ UNCHANGED Promise!vars
  BY <1>4, DeliverImplements, HandleImplements, AckImplements, NackImplements
  DEF Promise!Next, Event
<1>5. ASSUME NEW g \in Gateway, Crash(g) \/ Disconnect(g)
      PROVE  Promise!Next \/ UNCHANGED Promise!vars
  BY <1>5, GoesDownImplements DEF Crash, Disconnect, Stage, Promise!Next
<1> QED BY <1>1, <1>2, <1>3, <1>4, <1>5 DEF Next

\* What the services that subscribe may count on: an event that reached the queue
\* leaves it only after a handler ran to its end for it, except while a subscriber
\* starts, whatever dies and however deliveries and handlers interleave.
THEOREM BrokerDelivers == Spec => DeliversAtLeastOnce
<1> QED BY InitImplements, Invariance, NextImplements, PTL DEF Spec, DeliversAtLeastOnce, Promise!Spec

=============================================================================
