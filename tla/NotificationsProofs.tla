-------------------------- MODULE NotificationsProofs --------------------------
(***************************************************************************)
(* Theorems about Notifications for any events, users, handlers and        *)
(* failures.                                                               *)
(***************************************************************************)
EXTENDS Notifications, FiniteSetTheorems, TLAPS

\* An attempt past the INSERT has a row of its event, and has tried what comes before.
GoodAttempt(h) ==
    LET a == handling[h]
    IN  a # Idle =>
        /\ a.event \in 1..sent
        /\ a.valid => a.event \in pending
        /\ a.stage # "create" => a.row \in Ids /\ rows[a.row].event = a.event
        /\ a.stage = "email" => payload[a.event].email
        /\ a.stage = "sms" => payload[a.event].sms
        /\ a.stage \in {"sms", "ack"} => (payload[a.event].email => a.row \in emailed)
        /\ a.stage = "ack" => (payload[a.event].sms => a.row \in texted)

\* At most one attempt has the event.
OneValid ==
    \A g, h \in Handler :
        (/\ handling[g] # Idle /\ handling[g].valid
         /\ handling[h] # Idle /\ handling[h].valid
         /\ handling[g].event = handling[h].event) => g = h

\* A request about to write has a row, and leaves those of its columns alone that are marked
\* already; or it has rows it answered.
GoodRequest(p) ==
    /\ req[p].kind \in {"select", "save"} => req[p].id \in Ids
    /\ req[p].kind = "save" =>
        /\ "status" \notin req[p].columns => rows[req[p].id].status = "read"
        /\ "alert" \notin req[p].columns => rows[req[p].id].alert = "read"
    /\ req[p].kind = "seen" => req[p].ids \subseteq listed

Creating(e) == {h \in Handler : In(h, "create") /\ handling[h].event = e}

\* The attempt that is being made, or that may have settled the event.
Live(e) == IF e > sent \/ (e \in pending /\ ~Held(e)) THEN 0 ELSE 1

\* Every attempt but the live one failed, and each made or will make one row.
Counted(e) == Cardinality(RowsOf(e)) + Cardinality(Creating(e)) <= fails[e] + Live(e)

IInv ==
    /\ TypeOK
    /\ \A h \in Handler : GoodAttempt(h)
    /\ OneValid
    /\ \A p \in Proc : GoodRequest(p)
    /\ SeenWasListed
    /\ \A e \in Event : Counted(e)

USE NEventAssumption, PayloadAssumption, BoundsAssumption, NoneAssumption, MaxDownsAssumption

-----------------------------------------------------------------------------
\* What the counting rests on.

LEMMA RowsOfFinite ==
    ASSUME TypeOK, NEW e \in Event
    PROVE  IsFiniteSet(RowsOf(e)) /\ Cardinality(RowsOf(e)) \in Nat
<1>1. Ids = 1..Len(rows) /\ Len(rows) \in Nat
  BY DEF TypeOK, Ids
<1>2. IsFiniteSet(1..Len(rows))
  BY <1>1, FS_Interval
<1>3. RowsOf(e) \subseteq 1..Len(rows)
  BY <1>1 DEF RowsOf
<1> QED BY <1>2, <1>3, FS_Subset, FS_CardinalityType

LEMMA CreatingFinite ==
    ASSUME NEW e \in Event
    PROVE  IsFiniteSet(Creating(e)) /\ Cardinality(Creating(e)) \in Nat
<1>1. Creating(e) \subseteq Handler
  BY DEF Creating
<1> QED BY <1>1, HandlerAssumption, FS_Subset, FS_CardinalityType

LEMMA CreatingFiniteNext ==
    ASSUME NEW e \in Event
    PROVE  IsFiniteSet(Creating(e)') /\ Cardinality(Creating(e)') \in Nat
<1>1. Creating(e)' \subseteq Handler
  BY DEF Creating
<1> QED BY <1>1, HandlerAssumption, FS_Subset, FS_CardinalityType

\* Rows that keep their events count as before.
LEMMA SameRows ==
    ASSUME NEW e \in Event, Ids' = Ids, \A i \in Ids : rows'[i].event = rows[i].event
    PROVE  RowsOf(e)' = RowsOf(e)
BY DEF RowsOf

\* Steps that touch no attempt and no row's event keep every count.
LEMMA CountsStay ==
    ASSUME IInv, UNCHANGED <<sent, pending, handling, fails>>,
           Ids' = Ids, \A i \in Ids : rows'[i].event = rows[i].event
    PROVE  \A e \in Event : Counted(e)'
<1> SUFFICES ASSUME NEW e \in Event
             PROVE  Counted(e)'
  OBVIOUS
<1>1. RowsOf(e)' = RowsOf(e)
  BY SameRows
<1>2. Creating(e)' = Creating(e) /\ Held(e)' = Held(e)
  BY DEF Creating, Held, HasEvent, In
<1>3. Live(e)' = Live(e)
  BY <1>2 DEF Live
<1> QED BY <1>1, <1>2, <1>3 DEF IInv, Counted

-----------------------------------------------------------------------------
\* One lemma per action: it preserves the inductive invariant.

LEMMA InitIInv == Init => IInv
<1> SUFFICES ASSUME Init
             PROVE  IInv
  OBVIOUS
<1>1. Ids = {}
  BY DEF Init, Ids
<1>2. TypeOK
  <2>1. req \in [Proc -> Request]
    BY DEF Init, Request
  <2>2. handling \in [Handler -> Attempt \union {Idle}]
    BY DEF Init
  <2>3. fails \in [Event -> Nat] /\ \A e \in Event : fails[e] <= MaxFails[e]
    BY DEF Init
  <2>4. rows \in Seq(Row)
    BY DEF Init
  <2>5. subscriber \in [Replica -> Subscriber] /\ downs \in 0..MaxDowns
    BY DEF Init, Subscriber
  <2> QED BY <1>1, <2>1, <2>2, <2>3, <2>4, <2>5 DEF Init, TypeOK
<1>3. \A h \in Handler : GoodAttempt(h)
  BY DEF Init, GoodAttempt
<1>4. OneValid
  BY DEF Init, OneValid
<1>5. \A p \in Proc : GoodRequest(p)
  BY DEF Init, GoodRequest, Nothing
<1>6. SeenWasListed
  BY <1>1 DEF SeenWasListed
<1>7. \A e \in Event : Counted(e)
  <2> SUFFICES ASSUME NEW e \in Event
               PROVE  Counted(e)
    OBVIOUS
  <2>1. RowsOf(e) = {} /\ Creating(e) = {}
    BY <1>1 DEF Init, RowsOf, Creating, In
  <2>2. fails[e] = 0 /\ Live(e) \in Nat
    BY DEF Init, Live
  <2> QED BY <2>1, <2>2, FS_EmptySet DEF Counted
<1> QED BY <1>2, <1>3, <1>4, <1>5, <1>6, <1>7 DEF IInv

LEMMA PublishPreserves == ASSUME IInv, Publish PROVE IInv'
<1>1. TypeOK'
  <2>1. sent' \in 0..NEvent /\ pending' \subseteq 1..sent'
    BY DEF IInv, TypeOK, Publish
  <2>2. Ids' = Ids
    BY DEF Publish, Ids
  <2> QED BY <2>1, <2>2 DEF IInv, TypeOK, Publish, reading, replicas
<1>2. \A h \in Handler : GoodAttempt(h)'
  <2> SUFFICES ASSUME NEW h \in Handler
               PROVE  GoodAttempt(h)'
    OBVIOUS
  <2>1. 1..sent \subseteq 1..sent' /\ pending \subseteq pending'
    BY DEF IInv, TypeOK, Publish
  <2>2. UNCHANGED <<handling, rows, emailed, texted>> /\ GoodAttempt(h)
    BY DEF Publish, IInv
  <2>3. Ids' = Ids
    BY <2>2 DEF Ids
  <2> QED BY <2>1, <2>2, <2>3 DEF GoodAttempt
<1>3. OneValid' /\ \A p \in Proc : GoodRequest(p)'
  BY DEF IInv, Publish, OneValid, GoodRequest, reading, Ids
<1>4. SeenWasListed'
  BY DEF IInv, Publish, SeenWasListed, reading, Ids
<1>5. \A e \in Event : Counted(e)'
  <2> SUFFICES ASSUME NEW e \in Event
               PROVE  Counted(e)'
    OBVIOUS
  <2>1. RowsOf(e)' = RowsOf(e) /\ Creating(e)' = Creating(e) /\ Held(e)' = Held(e)
    BY DEF Publish, RowsOf, Ids, Creating, Held, HasEvent, In
  <2>2. Cardinality(RowsOf(e)) \in Nat /\ Cardinality(Creating(e)) \in Nat
    BY RowsOfFinite, CreatingFinite DEF IInv
  <2>3. Live(e) <= Live(e)'
    <3>1. e # sent + 1 => (e \in pending' <=> e \in pending)
      BY DEF Publish
    <3>2. e \in Nat /\ sent \in Nat /\ sent' = sent + 1
      BY DEF Publish, IInv, TypeOK, Event
    <3>3. CASE e > sent
      BY <3>2, <3>3 DEF Live
    <3>4. CASE ~(e > sent)
      <4>1. ~(e > sent') /\ e # sent + 1
        BY <3>2, <3>4
      <4>2. Live(e)' = Live(e)
        BY <2>1, <3>1, <3>4, <4>1 DEF Live
      <4> QED BY <4>2, <3>2 DEF Live
    <3> QED BY <3>3, <3>4
  <2>4. fails' = fails /\ fails[e] \in Nat /\ Live(e) \in Nat /\ Live(e)' \in Nat
    BY DEF Publish, IInv, TypeOK, Live
  <2> QED BY <2>1, <2>2, <2>3, <2>4 DEF Counted, IInv
<1> QED BY <1>1, <1>2, <1>3, <1>4, <1>5 DEF IInv

\* A handler's step that leaves the rows, the requests and the other attempts alone.
LEMMA OtherAttempts ==
    ASSUME IInv, NEW h \in Handler, NEW a \in Attempt \union {Idle},
           handling' = [handling EXCEPT ![h] = a],
           sent' = sent, pending' \subseteq pending, rows' = rows,
           emailed \subseteq emailed', emailed' \subseteq Ids,
           texted \subseteq texted', texted' \subseteq Ids, UNCHANGED reading,
           subscriber' \in [Replica -> Subscriber], downs' \in 0..MaxDowns,
           fails' \in [Event -> Nat], \A e \in Event : fails'[e] <= MaxFails[e],
           \A g \in Handler : (g # h /\ handling[g] # Idle /\ handling[g].valid)
                                => handling[g].event \in pending'
    PROVE  /\ TypeOK'
           /\ \A g \in Handler : g # h => GoodAttempt(g)'
           /\ \A p \in Proc : GoodRequest(p)'
           /\ SeenWasListed'
           /\ \A e \in Event : RowsOf(e)' = RowsOf(e)
<1>1. Ids' = Ids /\ UNCHANGED <<req, listed>>
  BY DEF Ids, reading
<1>2. handling' \in [Handler -> Attempt \union {Idle}] /\ handling'[h] = a
  BY DEF IInv, TypeOK
<1>3. TypeOK'
  BY <1>1, <1>2 DEF IInv, TypeOK
<1>4. \A g \in Handler : g # h => handling'[g] = handling[g] /\ GoodAttempt(g)
  BY DEF IInv, TypeOK
<1>5. \A g \in Handler : g # h => GoodAttempt(g)'
  BY <1>1, <1>4 DEF GoodAttempt
<1>6. \A p \in Proc : GoodRequest(p)'
  BY <1>1 DEF IInv, GoodRequest
<1>7. SeenWasListed' /\ \A e \in Event : RowsOf(e)' = RowsOf(e)
  BY <1>1 DEF IInv, SeenWasListed, RowsOf
<1> QED BY <1>3, <1>5, <1>6, <1>7

LEMMA TakePreserves ==
    ASSUME IInv, NEW h \in Handler, NEW e \in Event, Take(h, e)
    PROVE  IInv'
<1> DEFINE a == [event |-> e, stage |-> "create", row |-> 0, valid |-> TRUE]
<1>1. a \in Attempt /\ handling' = [handling EXCEPT ![h] = a] /\ handling'[h] = a /\ a # Idle
  BY DEF Take, Attempt, Stage, IInv, TypeOK, Idle
<1>2. /\ e \in pending /\ handling[h] = Idle /\ ~Held(e)
      /\ UNCHANGED <<replicas, sent, pending, fails, emailed, texted, rows, reading>>
  BY DEF Take, Held, HasEvent
<1>3. \A g \in Handler : (g # h /\ handling[g] # Idle /\ handling[g].valid)
                            => handling[g].event \in pending'
  BY <1>2 DEF IInv, GoodAttempt
<1>4. /\ TypeOK' /\ \A g \in Handler : g # h => GoodAttempt(g)'
      /\ \A p \in Proc : GoodRequest(p)'
      /\ SeenWasListed' /\ \A x \in Event : RowsOf(x)' = RowsOf(x)
  BY <1>1, <1>2, <1>3, OtherAttempts DEF IInv, TypeOK, replicas
<1>5. GoodAttempt(h)'
  BY <1>1, <1>2 DEF GoodAttempt, IInv, TypeOK
<1>6. OneValid'
  <2>1. \A g \in Handler : g # h => handling'[g] = handling[g]
    BY <1>1 DEF IInv, TypeOK
  <2>2. \A g \in Handler : handling[g] # Idle /\ handling[g].valid => handling[g].event # e
    BY <1>2 DEF Held, HasEvent
  <2> QED BY <1>1, <2>1, <2>2 DEF OneValid, IInv
<1>7. ASSUME NEW x \in Event PROVE Counted(x)'
  <2>1. \A g \in Handler : g # h => handling'[g] = handling[g]
    BY <1>1 DEF IInv, TypeOK
  <2>2. CASE x = e
    <3>1. Creating(e)' = Creating(e) \union {h} /\ h \notin Creating(e)
      BY <1>1, <1>2, <2>1 DEF Creating, In
    <3>2. Cardinality(Creating(e)') = Cardinality(Creating(e)) + 1
      BY <3>1, CreatingFinite, FS_AddElement
    <3>3. Live(e) = 0
      BY <1>2 DEF Live
    <3>4. e \in Nat /\ sent \in Nat /\ ~(e > sent)
      BY <1>2 DEF IInv, TypeOK, Event
    <3>5. Held(e)'
      BY <1>1 DEF Held, HasEvent
    <3>6. Live(e)' = 1
      BY <1>2, <3>4, <3>5 DEF Live
    <3>7. Cardinality(RowsOf(e)) + Cardinality(Creating(e)) <= fails[e] + Live(e)
      BY DEF Counted, IInv
    <3>8. RowsOf(e)' = RowsOf(e) /\ fails' = fails /\ fails[e] \in Nat
      BY <1>2, <1>4 DEF IInv, TypeOK
    <3>9. Cardinality(RowsOf(e)) \in Nat /\ Cardinality(Creating(e)) \in Nat
      BY CreatingFinite, RowsOfFinite DEF IInv
    <3> QED BY <2>2, <3>2, <3>3, <3>6, <3>7, <3>8, <3>9 DEF Counted
  <2>3. CASE x # e
    <3>1. Creating(x)' = Creating(x) /\ Held(x)' = Held(x)
      BY <1>1, <1>2, <2>1, <2>3 DEF Creating, In, Held, HasEvent
    <3>2. Live(x)' = Live(x)
      BY <1>2, <3>1 DEF Live
    <3> QED BY <1>2, <1>4, <3>1, <3>2 DEF Counted, IInv
  <2> QED BY <2>2, <2>3
<1> QED BY <1>4, <1>5, <1>6, <1>7 DEF IInv

\* A step of an attempt to a later stage than "create", which keeps its event.
LEMMA AdvanceCounts ==
    ASSUME IInv, NEW h \in Handler, handling[h] # Idle, handling[h].stage # "create",
           NEW a \in Attempt, handling' = [handling EXCEPT ![h] = a],
           a.event = handling[h].event, a.valid = handling[h].valid, a.stage # "create",
           UNCHANGED <<sent, pending, fails, rows>>
    PROVE  OneValid' /\ \A e \in Event : Counted(e)'
<1>1. handling'[h] = a /\ a # Idle
  BY DEF IInv, TypeOK, Attempt, Idle, Event
<1>2. \A g \in Handler : g # h => handling'[g] = handling[g]
  BY DEF IInv, TypeOK
<1>3. OneValid'
  BY <1>1, <1>2 DEF OneValid, IInv
<1>4. ASSUME NEW e \in Event PROVE Counted(e)'
  <2>1. RowsOf(e)' = RowsOf(e)
    BY DEF RowsOf, Ids
  <2>2. Creating(e)' = Creating(e)
    BY <1>1, <1>2 DEF Creating, In
  <2>3. Held(e)' = Held(e)
    BY <1>1, <1>2 DEF Held, HasEvent
  <2>4. Live(e)' = Live(e)
    BY <2>3 DEF Live
  <2> QED BY <2>1, <2>2, <2>4 DEF Counted, IInv
<1> QED BY <1>3, <1>4

LEMMA SendEmailPreserves == ASSUME IInv, NEW h \in Handler, SendEmail(h) PROVE IInv'
<1> DEFINE ev == handling[h].event
           a == [handling[h] EXCEPT !.stage = AfterEmail(ev)]
<1>1. /\ handling[h] \in Attempt /\ handling[h] # Idle /\ handling[h].stage = "email"
      /\ GoodAttempt(h) /\ ev \in Event
  BY DEF SendEmail, In, IInv, TypeOK, Attempt
<1>2. a \in Attempt /\ a # Idle /\ handling' = [handling EXCEPT ![h] = a] /\ handling'[h] = a
  BY <1>1 DEF SendEmail, Goes, AfterEmail, Attempt, Stage, Idle, Event, IInv, TypeOK
<1>3. /\ UNCHANGED <<replicas, sent, pending, fails, texted, rows, reading>>
      /\ emailed' = emailed \union {handling[h].row}
  BY DEF SendEmail
<1>4. handling[h].row \in Ids
  BY <1>1 DEF GoodAttempt
<1>5. \A g \in Handler : (g # h /\ handling[g] # Idle /\ handling[g].valid)
                            => handling[g].event \in pending'
  BY <1>3 DEF IInv, GoodAttempt
<1>6. /\ TypeOK' /\ \A g \in Handler : g # h => GoodAttempt(g)'
      /\ \A p \in Proc : GoodRequest(p)'
      /\ SeenWasListed'
  BY <1>2, <1>3, <1>4, <1>5, OtherAttempts DEF IInv, TypeOK, replicas
<1>7. GoodAttempt(h)'
  <2>1. /\ a.event = ev /\ a.row = handling[h].row /\ a.valid = handling[h].valid
        /\ a.stage = AfterEmail(ev)
    BY <1>1 DEF Attempt
  <2>2. a.row \in emailed' /\ Ids' = Ids
    BY <1>3, <2>1 DEF Ids
  <2> HIDE DEF a
  <2> QED BY <1>1, <1>2, <1>3, <2>1, <2>2 DEF GoodAttempt, AfterEmail
<1>8. OneValid' /\ \A e \in Event : Counted(e)'
  BY <1>1, <1>2, <1>3, AdvanceCounts DEF AfterEmail, Attempt
<1> QED BY <1>6, <1>7, <1>8 DEF IInv

LEMMA SendSMSPreserves == ASSUME IInv, NEW h \in Handler, SendSMS(h) PROVE IInv'
<1> DEFINE ev == handling[h].event
           a == [handling[h] EXCEPT !.stage = "ack"]
<1>1. /\ handling[h] \in Attempt /\ handling[h] # Idle /\ handling[h].stage = "sms"
      /\ GoodAttempt(h) /\ ev \in Event
  BY DEF SendSMS, In, IInv, TypeOK, Attempt
<1>2. a \in Attempt /\ a # Idle /\ handling' = [handling EXCEPT ![h] = a] /\ handling'[h] = a
  BY <1>1 DEF SendSMS, Goes, Attempt, Stage, Idle, Event, IInv, TypeOK
<1>3. /\ UNCHANGED <<replicas, sent, pending, fails, emailed, rows, reading>>
      /\ texted' = texted \union {handling[h].row}
  BY DEF SendSMS
<1>4. handling[h].row \in Ids
  BY <1>1 DEF GoodAttempt
<1>5. \A g \in Handler : (g # h /\ handling[g] # Idle /\ handling[g].valid)
                            => handling[g].event \in pending'
  BY <1>3 DEF IInv, GoodAttempt
<1>6. /\ TypeOK' /\ \A g \in Handler : g # h => GoodAttempt(g)'
      /\ \A p \in Proc : GoodRequest(p)'
      /\ SeenWasListed'
  BY <1>2, <1>3, <1>4, <1>5, OtherAttempts DEF IInv, TypeOK, replicas
<1>7. GoodAttempt(h)'
  <2>1. /\ a.event = ev /\ a.row = handling[h].row /\ a.valid = handling[h].valid
        /\ a.stage = "ack"
    BY <1>1 DEF Attempt
  <2>2. a.row \in texted' /\ Ids' = Ids
    BY <1>3, <2>1 DEF Ids
  <2> HIDE DEF a
  <2> QED BY <1>1, <1>2, <1>3, <2>1, <2>2 DEF GoodAttempt
<1>8. OneValid' /\ \A e \in Event : Counted(e)'
  BY <1>1, <1>2, <1>3, AdvanceCounts DEF Attempt
<1> QED BY <1>6, <1>7, <1>8 DEF IInv

LEMMA SaveRowPreserves == ASSUME IInv, NEW h \in Handler, SaveRow(h) PROVE IInv'
<1> DEFINE ev == handling[h].event
           n == Len(rows) + 1
           a == [handling[h] EXCEPT !.stage = AfterCreate(ev), !.row = n]
<1>1. /\ handling[h] \in Attempt /\ handling[h] # Idle /\ handling[h].stage = "create"
      /\ GoodAttempt(h) /\ ev \in Event
  BY DEF SaveRow, In, IInv, TypeOK, Attempt
<1>2. NewRow(ev) \in Row /\ NewRow(ev).event = ev /\ NewRow(ev).alert # "read"
  BY <1>1 DEF NewRow, Row, Status, AlertStatus, Payload
<1>3. /\ rows' = Append(rows, NewRow(ev)) /\ rows \in Seq(Row)
      /\ UNCHANGED <<replicas, sent, pending, fails, emailed, texted, reading>>
  BY DEF SaveRow, IInv, TypeOK
<1>4. /\ n \in Nat /\ Len(rows') = n /\ rows' \in Seq(Row) /\ Ids' = Ids \union {n} /\ n \notin Ids
      /\ rows'[n] = NewRow(ev) /\ \A i \in Ids : rows'[i] = rows[i]
  BY <1>2, <1>3 DEF Ids
<1>5. a \in Attempt /\ a # Idle /\ handling' = [handling EXCEPT ![h] = a] /\ handling'[h] = a
  BY <1>1, <1>4 DEF SaveRow, AfterCreate, AfterEmail, Attempt, Stage, Idle, Event, IInv, TypeOK
<1>6. /\ a.event = ev /\ a.row = n /\ a.valid = handling[h].valid
      /\ a.stage = AfterCreate(ev) /\ a.stage # "create"
  BY <1>1, <1>4 DEF Attempt, AfterCreate, AfterEmail
<1>7. \A g \in Handler : g # h => handling'[g] = handling[g]
  BY <1>5 DEF IInv, TypeOK
<1> HIDE DEF a, n
<1>8. TypeOK'
  <2>1. handling' \in [Handler -> Attempt \union {Idle}]
    BY <1>5 DEF IInv, TypeOK
  <2> QED BY <1>3, <1>4, <2>1 DEF IInv, TypeOK, reading, replicas
<1>9. GoodAttempt(h)'
  BY <1>1, <1>2, <1>3, <1>4, <1>5, <1>6 DEF GoodAttempt, AfterCreate, AfterEmail
<1>10. ASSUME NEW g \in Handler, g # h PROVE GoodAttempt(g)'
  <2>1. GoodAttempt(g) /\ handling'[g] = handling[g]
    BY <1>7, <1>10 DEF IInv
  <2> QED BY <1>3, <1>4, <2>1 DEF GoodAttempt
<1>11. OneValid'
  BY <1>1, <1>5, <1>6, <1>7 DEF OneValid, IInv
<1>12. ASSUME NEW p \in Proc PROVE GoodRequest(p)'
  <2>1. GoodRequest(p) /\ UNCHANGED <<req, listed>>
    BY <1>3 DEF IInv, reading
  <2> QED BY <1>4, <2>1 DEF GoodRequest
<1>13. SeenWasListed'
  BY <1>2, <1>3, <1>4 DEF SeenWasListed, IInv, reading
<1>14. ASSUME NEW x \in Event PROVE Counted(x)'
  <2>1. Held(x)' = Held(x)
    BY <1>1, <1>5, <1>6, <1>7 DEF Held, HasEvent
  <2>2. Live(x)' = Live(x) /\ fails' = fails
    BY <1>3, <2>1 DEF Live
  <2>3. Counted(x) /\ TypeOK
    BY DEF IInv
  <2>4. CASE x = ev
    <3>1. RowsOf(x)' = RowsOf(x) \union {n} /\ n \notin RowsOf(x)
      BY <1>2, <1>4, <2>4 DEF RowsOf
    <3>2. Creating(x)' = Creating(x) \ {h} /\ h \in Creating(x)
      BY <1>1, <1>5, <1>6, <1>7, <2>4 DEF Creating, In
    <3>3. Cardinality(RowsOf(x)') = Cardinality(RowsOf(x)) + 1
      BY <2>3, <3>1, RowsOfFinite, FS_AddElement
    <3>4. Cardinality(Creating(x)') = Cardinality(Creating(x)) - 1
      BY <3>2, CreatingFinite, FS_RemoveElement
    <3>5. Cardinality(RowsOf(x)) \in Nat /\ Cardinality(Creating(x)) \in Nat
      BY <2>3, RowsOfFinite, CreatingFinite
    <3>6. Cardinality(RowsOf(x)') + Cardinality(Creating(x)')
            = Cardinality(RowsOf(x)) + Cardinality(Creating(x))
      BY <3>3, <3>4, <3>5
    <3> QED BY <2>2, <2>3, <3>6 DEF Counted
  <2>5. CASE x # ev
    <3>1. RowsOf(x)' = RowsOf(x)
      BY <1>2, <1>4, <2>5 DEF RowsOf
    <3>2. Creating(x)' = Creating(x)
      BY <1>1, <1>5, <1>6, <1>7, <2>5 DEF Creating, In
    <3> QED BY <2>2, <2>3, <3>1, <3>2 DEF Counted
  <2> QED BY <2>4, <2>5
<1> QED BY <1>8, <1>9, <1>10, <1>11, <1>12, <1>13, <1>14 DEF IInv

LEMMA AckPreserves == ASSUME IInv, NEW h \in Handler, Ack(h) PROVE IInv'
<1> DEFINE ev == handling[h].event
<1>1. /\ handling[h] \in Attempt /\ handling[h] # Idle /\ handling[h].stage = "ack"
      /\ GoodAttempt(h) /\ ev \in Event
  BY DEF Ack, In, IInv, TypeOK, Attempt
<1>2. /\ handling'[h] = Idle /\ \A g \in Handler : g # h => handling'[g] = handling[g]
      /\ handling' = [handling EXCEPT ![h] = Idle]
  BY DEF Ack, End, IInv, TypeOK
<1>3. /\ UNCHANGED <<replicas, sent, fails, emailed, texted, rows, reading>>
      /\ pending' = IF handling[h].valid THEN pending \ {ev} ELSE pending
  BY DEF Ack
<1>4. \A g \in Handler : (g # h /\ handling[g] # Idle /\ handling[g].valid)
                            => handling[g].event \in pending'
  BY <1>1, <1>3 DEF IInv, GoodAttempt, OneValid
<1>5. /\ TypeOK' /\ \A g \in Handler : g # h => GoodAttempt(g)'
      /\ \A p \in Proc : GoodRequest(p)'
      /\ SeenWasListed' /\ \A x \in Event : RowsOf(x)' = RowsOf(x)
  <2>1. /\ UNCHANGED <<sent, rows, emailed, texted, reading, subscriber, downs, fails>>
        /\ pending' \subseteq pending /\ Idle \in Attempt \union {Idle}
    BY <1>3 DEF replicas
  <2>2. /\ emailed \subseteq Ids /\ texted \subseteq Ids
        /\ subscriber \in [Replica -> Subscriber] /\ downs \in 0..MaxDowns
        /\ fails \in [Event -> Nat] /\ \A e \in Event : fails[e] <= MaxFails[e]
    BY DEF IInv, TypeOK
  <2> QED BY <1>2, <1>4, <2>1, <2>2, OtherAttempts
<1>6. GoodAttempt(h)'
  BY <1>2 DEF GoodAttempt
<1>7. OneValid'
  BY <1>2 DEF OneValid, IInv
<1>8. ASSUME NEW x \in Event PROVE Counted(x)'
  <2>1. Creating(x)' = Creating(x)
    BY <1>1, <1>2 DEF Creating, In, Idle
  <2>2. Live(x)' = Live(x)
    <3>1. CASE handling[h].valid /\ x = ev
      <4>1. Held(x) /\ ~(x > sent) /\ x \notin pending'
        BY <1>1, <1>3, <3>1 DEF Held, HasEvent, GoodAttempt, IInv, TypeOK
      <4> QED BY <1>3, <4>1 DEF Live
    <3>2. CASE ~(handling[h].valid /\ x = ev)
      <4>1. Held(x)' = Held(x)
        BY <1>2, <3>2 DEF Held, HasEvent
      <4>2. x \in pending' <=> x \in pending
        BY <1>3, <3>2
      <4> QED BY <1>3, <4>1, <4>2 DEF Live
    <3> QED BY <3>1, <3>2
  <2> QED BY <1>3, <1>5, <2>1, <2>2 DEF Counted, IInv
<1> QED BY <1>5, <1>6, <1>7, <1>8 DEF IInv

\* What failures cost: the events of the attempts hs are nobody's, and each of their attempts
\* counts one failure more.
LEMMA FailureCounts ==
    ASSUME IInv, NEW hs \in SUBSET Handler, Retry(hs), UNCHANGED <<sent, pending>>,
           \A g \in Handler \ hs : handling'[g] = handling[g],
           \A h \in hs : handling'[h] # Idle =>
               /\ handling[h] # Idle
               /\ handling'[h].event = handling[h].event
               /\ handling'[h].stage = handling[h].stage
               /\ ~handling'[h].valid,
           NEW x \in Event, RowsOf(x)' = RowsOf(x)
    PROVE  Counted(x)'
<1>1. TypeOK /\ Counted(x)
  BY DEF IInv
<1>2. Creating(x)' \subseteq Creating(x)
  BY DEF Creating, In
<1>3. Cardinality(Creating(x)') <= Cardinality(Creating(x))
  BY <1>2, CreatingFinite, FS_Subset
<1>4. /\ Cardinality(RowsOf(x)) \in Nat /\ Cardinality(Creating(x)) \in Nat
      /\ Cardinality(Creating(x)') \in Nat
  BY <1>1, RowsOfFinite, CreatingFinite, CreatingFiniteNext
<1>5. fails[x] \in Nat /\ fails'[x] = fails[x] + IF \E h \in hs : HasEvent(h, x) THEN 1 ELSE 0
  BY <1>1 DEF TypeOK, Retry
<1>6. CASE \E h \in hs : HasEvent(h, x)
  <2>1. fails'[x] = fails[x] + 1
    BY <1>5, <1>6
  <2>2. Live(x) <= 1 /\ Live(x) \in Nat /\ Live(x)' \in Nat /\ (Live(x)' <= 1)
    BY DEF Live
  <2> QED BY <1>1, <1>3, <1>4, <1>5, <2>1, <2>2 DEF Counted
<1>7. CASE ~\E h \in hs : HasEvent(h, x)
  <2>1. fails'[x] = fails[x]
    BY <1>5, <1>7
  <2>2. \A g \in Handler : HasEvent(g, x)' <=> HasEvent(g, x)
    BY <1>7 DEF HasEvent
  <2>3. Live(x)' = Live(x) /\ Live(x) \in Nat
    BY <2>2 DEF Live, Held
  <2> QED BY <1>1, <1>3, <1>4, <1>5, <2>1, <2>3 DEF Counted
<1> QED BY <1>6, <1>7

LEMMA RetryBounded ==
    ASSUME TypeOK, NEW hs \in SUBSET Handler, Retry(hs)
    PROVE  fails' \in [Event -> Nat] /\ \A e \in Event : fails'[e] <= MaxFails[e]
BY DEF TypeOK, Retry

\* A step that ends or voids the attempts hs.
LEMMA FailuresPreserve ==
    ASSUME IInv, NEW hs \in SUBSET Handler, Retry(hs),
           UNCHANGED <<sent, pending, emailed, texted, rows, reading>>,
           subscriber' \in [Replica -> Subscriber], downs' \in 0..MaxDowns,
           handling' \in [Handler -> Attempt \union {Idle}],
           \A g \in Handler \ hs : handling'[g] = handling[g],
           \A h \in hs : handling'[h] # Idle =>
               /\ handling[h] # Idle
               /\ handling'[h].event = handling[h].event
               /\ handling'[h].stage = handling[h].stage
               /\ handling'[h].row = handling[h].row
               /\ ~handling'[h].valid
    PROVE  IInv'
<1>1. Ids' = Ids /\ UNCHANGED <<req, listed>>
  BY DEF Ids, reading
<1>2. TypeOK'
  BY <1>1, RetryBounded DEF IInv, TypeOK
<1>3. ASSUME NEW g \in Handler PROVE GoodAttempt(g)'
  <2>1. GoodAttempt(g)
    BY DEF IInv
  <2>2. CASE g \in hs
    BY <1>1, <2>1, <2>2 DEF GoodAttempt
  <2>3. CASE g \notin hs
    BY <1>1, <2>1, <2>3 DEF GoodAttempt
  <2> QED BY <2>2, <2>3
<1>4. OneValid'
  <2>1. \A g \in Handler : handling'[g] # Idle /\ handling'[g].valid => handling'[g] = handling[g]
    OBVIOUS
  <2> QED BY <2>1 DEF OneValid, IInv
<1>5. (\A p \in Proc : GoodRequest(p)') /\ SeenWasListed'
  BY <1>1 DEF IInv, GoodRequest, SeenWasListed
<1>6. ASSUME NEW x \in Event PROVE Counted(x)'
  <2>1. RowsOf(x)' = RowsOf(x)
    BY <1>1 DEF RowsOf
  <2> QED BY <2>1, FailureCounts
<1> QED BY <1>2, <1>3, <1>4, <1>5, <1>6 DEF IInv

\* What ends, and what runs on for nothing.
LEMMA EndVoidFacts ==
    ASSUME TypeOK, NEW hs \in SUBSET Handler, End(hs) \/ Void(hs)
    PROVE  /\ handling' \in [Handler -> Attempt \union {Idle}]
           /\ \A g \in Handler \ hs : handling'[g] = handling[g]
           /\ \A h \in hs : handling'[h] # Idle =>
                  /\ handling[h] # Idle
                  /\ handling'[h].event = handling[h].event
                  /\ handling'[h].stage = handling[h].stage
                  /\ handling'[h].row = handling[h].row
                  /\ ~handling'[h].valid
<1>1. CASE End(hs)
  BY <1>1 DEF End, TypeOK
<1>2. CASE Void(hs)
  <2>1. \A h \in Handler : handling'[h] = IF h \in hs /\ handling[h] # Idle
                                          THEN [handling[h] EXCEPT !.valid = FALSE] ELSE handling[h]
    BY <1>2 DEF Void
  <2>2. ASSUME NEW h \in Handler, handling[h] # Idle
        PROVE  LET a == [handling[h] EXCEPT !.valid = FALSE]
               IN  /\ a \in Attempt /\ a.event = handling[h].event /\ a.stage = handling[h].stage
                   /\ a.row = handling[h].row /\ ~a.valid
    <3>1. handling[h] \in Attempt
      BY <2>2 DEF TypeOK
    <3> QED BY <3>1 DEF Attempt
  <2>3. \A h \in Handler : handling'[h] \in Attempt \union {Idle}
    BY <2>1, <2>2 DEF TypeOK
  <2>4. handling' \in [Handler -> Attempt \union {Idle}]
    BY <1>2, <2>3 DEF Void
  <2> QED BY <2>1, <2>2, <2>4
<1> QED BY <1>1, <1>2

LEMMA FailPreserves == ASSUME IInv, NEW h \in Handler, Fail(h) PROVE IInv'
<1>1. /\ {h} \in SUBSET Handler /\ Retry({h}) /\ End({h}) /\ TypeOK
      /\ UNCHANGED <<replicas, sent, pending, emailed, texted, rows, reading>>
  BY DEF Fail, IInv
<1>2. subscriber' \in [Replica -> Subscriber] /\ downs' \in 0..MaxDowns
  BY <1>1 DEF TypeOK, replicas
<1> QED BY <1>1, <1>2, EndVoidFacts, FailuresPreserve

LEMMA GoesDownPreserves ==
    ASSUME IInv, NEW r \in Replica, NEW to \in Subscriber, GoesDown(r, to),
           End(On(r)) \/ Void(On(r))
    PROVE  IInv'
<1>1. /\ On(r) \in SUBSET Handler /\ Retry(On(r)) /\ TypeOK
      /\ UNCHANGED <<sent, pending, emailed, texted, rows, reading>>
  BY DEF GoesDown, IInv, On
<1>2. subscriber' \in [Replica -> Subscriber] /\ downs' \in 0..MaxDowns
  BY <1>1 DEF TypeOK, GoesDown
<1> QED BY <1>1, <1>2, EndVoidFacts, FailuresPreserve

LEMMA DisconnectPreserves == ASSUME IInv, NEW r \in Replica, Disconnect(r) PROVE IInv'
BY GoesDownPreserves DEF Disconnect, Subscriber

LEMMA CrashPreserves == ASSUME IInv, NEW r \in Replica, Crash(r) PROVE IInv'
BY GoesDownPreserves DEF Crash, Subscriber

\* A step of a subscriber that starts, which may drop an event that nobody has.
LEMMA BootsPreserves ==
    ASSUME IInv, NEW r \in Replica, NEW from, NEW to \in Subscriber, Boots(r, from, to)
    PROVE  IInv'
<1>1. /\ UNCHANGED <<downs, sent, pending, handling, fails, emailed, texted, rows, req, listed>>
      /\ subscriber' \in [Replica -> Subscriber] /\ Ids' = Ids
  BY DEF Boots, delivery, reading, Ids, IInv, TypeOK
<1>2. TypeOK'
  BY <1>1 DEF IInv, TypeOK
<1>3. (\A h \in Handler : GoodAttempt(h)') /\ OneValid'
  BY <1>1 DEF IInv, GoodAttempt, OneValid
<1>4. (\A p \in Proc : GoodRequest(p)') /\ SeenWasListed'
  BY <1>1 DEF IInv, GoodRequest, SeenWasListed
<1>5. \A e \in Event : Counted(e)'
  BY <1>1, CountsStay
<1> QED BY <1>2, <1>3, <1>4, <1>5 DEF IInv

LEMMA SkipPreserves == ASSUME IInv, NEW r \in Replica, NEW e \in Event, Skip(r, e) PROVE IInv'
<1>1. /\ UNCHANGED <<subscriber, downs, sent, handling, fails, emailed, texted, rows, req, listed>>
      /\ pending' = pending \ {e} /\ e \in pending /\ ~Held(e) /\ Ids' = Ids
  BY DEF Skip, replicas, reading, Ids
<1>2. TypeOK'
  BY <1>1 DEF IInv, TypeOK
<1>3. ASSUME NEW h \in Handler PROVE GoodAttempt(h)'
  <2>1. GoodAttempt(h)
    BY DEF IInv
  <2>2. handling[h] # Idle /\ handling[h].valid => handling[h].event # e
    BY <1>1 DEF Held, HasEvent
  <2> QED BY <1>1, <2>1, <2>2 DEF GoodAttempt
<1>4. OneValid' /\ (\A p \in Proc : GoodRequest(p)') /\ SeenWasListed'
  BY <1>1 DEF IInv, OneValid, GoodRequest, SeenWasListed
<1>5. ASSUME NEW x \in Event PROVE Counted(x)'
  <2>1. RowsOf(x)' = RowsOf(x) /\ Creating(x)' = Creating(x) /\ Held(x)' = Held(x)
    BY <1>1 DEF RowsOf, Creating, In, Held, HasEvent
  <2>2. Live(x) <= Live(x)' /\ Live(x) \in Nat /\ Live(x)' \in Nat
    BY <1>1, <2>1 DEF Live
  <2>3. Cardinality(RowsOf(x)) \in Nat /\ Cardinality(Creating(x)) \in Nat
    BY RowsOfFinite, CreatingFinite DEF IInv
  <2>4. fails' = fails /\ fails[x] \in Nat /\ Counted(x)
    BY <1>1 DEF IInv, TypeOK
  <2> QED BY <2>1, <2>2, <2>3, <2>4 DEF Counted
<1> QED BY <1>2, <1>3, <1>4, <1>5 DEF IInv

\* A request's step, and what it may do to the rows.
LEMMA RequestKeeps ==
    ASSUME IInv, UNCHANGED <<replicas, delivery>>, req' \in [Proc -> Request],
           rows' \in Seq(Row), Ids' = Ids, \A i \in Ids : rows'[i].event = rows[i].event,
           listed \subseteq listed', listed' \subseteq Ids
    PROVE  TypeOK' /\ (\A h \in Handler : GoodAttempt(h)') /\ OneValid'
           /\ \A e \in Event : Counted(e)'
<1>1. UNCHANGED <<subscriber, downs, sent, pending, handling, fails, emailed, texted>>
  BY DEF delivery, replicas
<1>2. TypeOK'
  BY <1>1 DEF IInv, TypeOK
<1>3. ASSUME NEW h \in Handler PROVE GoodAttempt(h)'
  <2>1. GoodAttempt(h)
    BY DEF IInv
  <2> QED BY <1>1, <2>1 DEF GoodAttempt
<1>4. OneValid'
  BY <1>1 DEF IInv, OneValid
<1>5. \A e \in Event : Counted(e)'
  BY <1>1, CountsStay
<1> QED BY <1>2, <1>3, <1>4, <1>5

\* A request that other requests' rows survive.
LEMMA OthersSurvive ==
    ASSUME IInv, Ids' = Ids, KeepsRead, listed \subseteq listed', NEW p \in Proc, UNCHANGED req[p]
    PROVE  GoodRequest(p)'
<1>1. GoodRequest(p)
  BY DEF IInv
<1>2. req[p].kind \in {"select", "save"} => req[p].id \in Ids
  BY <1>1 DEF GoodRequest
<1>3. req[p].kind = "save" =>
          /\ "status" \notin req[p].columns => rows'[req[p].id].status = "read"
          /\ "alert" \notin req[p].columns => rows'[req[p].id].alert = "read"
  BY <1>1, <1>2 DEF GoodRequest, KeepsRead
<1> QED BY <1>1, <1>2, <1>3 DEF GoodRequest

LEMMA FinishKeeps ==
    ASSUME IInv, NEW p \in Proc, Finish(p), Ids' = Ids, KeepsRead, listed' = listed
    PROVE  /\ req' \in [Proc -> Request]
           /\ \A q \in Proc : GoodRequest(q)'
<1>1. /\ req' \in [Proc -> Request]
      /\ req'[p] = Nothing /\ \A q \in Proc : q # p => req'[q] = req[q]
  BY DEF Finish, IInv, TypeOK, Request
<1>2. GoodRequest(p)'
  BY <1>1 DEF GoodRequest, Nothing
<1>3. ASSUME NEW q \in Proc, q # p PROVE GoodRequest(q)'
  BY <1>1, <1>3, OthersSurvive
<1> QED BY <1>1, <1>2, <1>3

\* What marking columns of a row makes of it.
LEMMA ReadRow ==
    ASSUME NEW r \in Row, NEW C
    PROVE  /\ Read(r, C) \in Row /\ Read(r, C).event = r.event
           /\ Read(r, C).status = IF "status" \in C THEN "read" ELSE r.status
           /\ Read(r, C).alert = IF "alert" \in C THEN "read" ELSE r.alert
BY DEF Read, Row, Status, AlertStatus

LEMMA RowsAreRows ==
    ASSUME TypeOK
    PROVE  Ids = 1..Len(rows) /\ Len(rows) \in Nat /\ \A i \in Ids : rows[i] \in Row
BY DEF TypeOK, Ids

\* Rows changed in place are rows.
LEMMA InPlace ==
    ASSUME TypeOK, rows' \in [Ids -> Row]
    PROVE  rows' \in Seq(Row) /\ Ids' = Ids
BY RowsAreRows DEF Ids

LEMMA RequestPreserves ==
    ASSUME IInv, NEW p \in Proc, NEW new \in Request, req' = [req EXCEPT ![p] = new],
           UNCHANGED <<replicas, delivery, rows, listed>>,
           new.kind \in {"select", "save"} => new.id \in Ids,
           new.kind = "save" => /\ "status" \notin new.columns => rows[new.id].status = "read"
                                /\ "alert" \notin new.columns => rows[new.id].alert = "read",
           new.kind # "seen"
    PROVE  IInv'
<1>1. Ids' = Ids /\ TypeOK /\ rows \in Seq(Row) /\ KeepsRead
  BY DEF Ids, IInv, TypeOK, KeepsRead
<1>2. /\ req' \in [Proc -> Request]
      /\ req'[p] = new /\ \A q \in Proc : q # p => req'[q] = req[q]
  BY <1>1 DEF TypeOK
<1>3. TypeOK' /\ (\A h \in Handler : GoodAttempt(h)') /\ OneValid' /\ \A e \in Event : Counted(e)'
  BY <1>1, <1>2, RequestKeeps DEF TypeOK
<1>4. GoodRequest(p)'
  BY <1>1, <1>2 DEF GoodRequest
<1>5. ASSUME NEW q \in Proc, q # p PROVE GoodRequest(q)'
  BY <1>1, <1>2, <1>5, OthersSurvive
<1>6. SeenWasListed'
  BY <1>1 DEF IInv, SeenWasListed
<1> QED BY <1>3, <1>4, <1>5, <1>6 DEF IInv

LEMMA FindToMarkPreserves ==
    ASSUME IInv, NEW p \in Proc, NEW u \in User, NEW i \in Ids, FindToMark(p, u, i)
    PROVE  IInv'
<1> DEFINE new == [kind |-> "select", id |-> i]
<1>1. UNCHANGED <<replicas, delivery, rows, listed>> /\ req' = [req EXCEPT ![p] = new]
  BY DEF FindToMark
<1>2. i \in Nat
  BY RowsAreRows DEF IInv
<1>3. new \in Request /\ new.kind = "select" /\ new.id = i
  BY <1>2 DEF Request, SelectRequest
<1> HIDE DEF new
<1> QED BY <1>1, <1>3, RequestPreserves

LEMMA SelectAgainPreserves == ASSUME IInv, NEW p \in Proc, SelectAgain(p) PROVE IInv'
<1> DEFINE C == Unread(rows[req[p].id])
           new == [kind |-> "save", id |-> req[p].id, columns |-> C]
<1>1. UNCHANGED <<replicas, delivery, rows, listed>> /\ req' = [req EXCEPT ![p] = new]
  BY DEF SelectAgain
<1>2. req[p].id \in Ids
  BY DEF SelectAgain, IInv, GoodRequest
<1>3. req[p].id \in Nat
  BY <1>2, RowsAreRows DEF IInv
<1>4. /\ C \subseteq Marked
      /\ "status" \notin C => rows[req[p].id].status = "read"
      /\ "alert" \notin C => rows[req[p].id].alert = "read"
  BY DEF Unread, Marked
<1> HIDE DEF C
<1>5. new \in Request /\ new.kind = "save" /\ new.id = req[p].id /\ new.columns = C
  BY <1>3, <1>4 DEF Request, SaveRequest
<1> HIDE DEF new
<1> QED BY <1>1, <1>2, <1>4, <1>5, RequestPreserves

LEMMA SaveReadPreserves == ASSUME IInv, NEW p \in Proc, SaveRead(p) PROVE IInv'
<1> DEFINE i == req[p].id
           C == req[p].columns
<1>1. /\ i \in Ids /\ rows[i] \in Row /\ TypeOK
      /\ "status" \notin C => rows[i].status = "read"
      /\ "alert" \notin C => rows[i].alert = "read"
      /\ UNCHANGED <<replicas, delivery, listed>> /\ Finish(p)
      /\ rows' = [rows EXCEPT ![i] = Read(rows[i], C)]
  BY RowsAreRows DEF SaveRead, IInv, GoodRequest
<1> HIDE DEF i, C
<1>2. /\ Read(rows[i], C) \in Row /\ Read(rows[i], C).event = rows[i].event
      /\ Read(rows[i], C).status = "read" /\ Read(rows[i], C).alert = "read"
  BY <1>1, ReadRow
<1>3. /\ rows' \in [Ids -> Row] /\ rows'[i] = Read(rows[i], C)
      /\ \A j \in Ids : j # i => rows'[j] = rows[j]
  BY <1>1, <1>2, RowsAreRows DEF Ids
<1>4. rows' \in Seq(Row) /\ Ids' = Ids
  BY <1>1, <1>3, InPlace
<1>5. (\A j \in Ids : rows'[j].event = rows[j].event) /\ KeepsRead
  BY <1>2, <1>3 DEF KeepsRead
<1>6. /\ req' \in [Proc -> Request]
      /\ \A q \in Proc : GoodRequest(q)'
  BY <1>1, <1>4, <1>5, FinishKeeps
<1>7. TypeOK' /\ (\A h \in Handler : GoodAttempt(h)') /\ OneValid' /\ \A e \in Event : Counted(e)'
  BY <1>1, <1>4, <1>5, <1>6, RequestKeeps DEF TypeOK
<1>8. SeenWasListed'
  BY <1>1, <1>2, <1>3, <1>4 DEF IInv, SeenWasListed
<1> QED BY <1>6, <1>7, <1>8 DEF IInv

LEMMA MarkAllAsReadPreserves == ASSUME IInv, NEW u \in User, MarkAllAsRead(u) PROVE IInv'
<1>1. TypeOK /\ UNCHANGED <<replicas, delivery, req, listed>>
  BY DEF MarkAllAsRead, reading, IInv
<1>2. /\ rows' \in [Ids -> Row]
      /\ \A i \in Ids : /\ rows'[i].event = rows[i].event /\ rows'[i].alert = rows[i].alert
                        /\ rows[i].status = "read" => rows'[i].status = "read"
  <2> DEFINE new(i) == IF Asked(i).user = u THEN Read(rows[i], {"status"}) ELSE rows[i]
  <2>1. \A i \in Ids : /\ new(i) \in Row /\ new(i).event = rows[i].event
                       /\ new(i).alert = rows[i].alert
                       /\ rows[i].status = "read" => new(i).status = "read"
    BY <1>1, RowsAreRows, ReadRow
  <2>2. rows' = [i \in Ids |-> new(i)]
    BY DEF MarkAllAsRead
  <2> HIDE DEF new
  <2> QED BY <2>1, <2>2
<1>3. KeepsRead
  BY <1>2 DEF KeepsRead
<1>4. rows' \in Seq(Row) /\ Ids' = Ids
  BY <1>1, <1>2, InPlace
<1>5. TypeOK' /\ (\A h \in Handler : GoodAttempt(h)') /\ OneValid' /\ \A e \in Event : Counted(e)'
  BY <1>1, <1>2, <1>4, RequestKeeps DEF TypeOK
<1>6. ASSUME NEW p \in Proc PROVE GoodRequest(p)'
  BY <1>1, <1>3, <1>4, OthersSurvive
<1>7. SeenWasListed'
  BY <1>1, <1>2, <1>4 DEF IInv, SeenWasListed
<1> QED BY <1>5, <1>6, <1>7 DEF IInv

LEMMA FindAllAlertsPreserves ==
    ASSUME IInv, NEW p \in Proc, NEW u \in User, FindAllAlerts(p, u) PROVE IInv'
<1>1. TypeOK /\ UNCHANGED <<replicas, delivery, rows>> /\ Ids' = Ids /\ KeepsRead
  BY DEF FindAllAlerts, IInv, Ids, KeepsRead
<1>2. PICK items \in SUBSET Alerts(u) :
        /\ req' = [req EXCEPT ![p] = [kind |-> "seen", ids |-> items]]
        /\ listed' = listed \union items
  BY DEF FindAllAlerts
<1>3. items \subseteq Ids /\ items \subseteq Nat
  BY <1>1, RowsAreRows DEF Alerts
<1>4. /\ req' \in [Proc -> Request]
      /\ req'[p] = [kind |-> "seen", ids |-> items]
      /\ \A q \in Proc : q # p => req'[q] = req[q]
  BY <1>1, <1>2, <1>3 DEF TypeOK, Request, SeenRequest
<1>5. listed \subseteq listed' /\ listed' \subseteq Ids
  BY <1>1, <1>2, <1>3 DEF TypeOK
<1>6. TypeOK' /\ (\A h \in Handler : GoodAttempt(h)') /\ OneValid' /\ \A e \in Event : Counted(e)'
  BY <1>1, <1>4, <1>5, RequestKeeps DEF TypeOK
<1>7. GoodRequest(p)'
  BY <1>2, <1>4 DEF GoodRequest
<1>8. ASSUME NEW q \in Proc, q # p PROVE GoodRequest(q)'
  BY <1>1, <1>4, <1>5, <1>8, OthersSurvive
<1>9. SeenWasListed'
  BY <1>1, <1>5 DEF IInv, SeenWasListed
<1> QED BY <1>6, <1>7, <1>8, <1>9 DEF IInv

LEMMA MarkAsSeenPreserves == ASSUME IInv, NEW p \in Proc, MarkAsSeen(p) PROVE IInv'
<1>1. /\ TypeOK /\ GoodRequest(p) /\ req[p].kind = "seen"
      /\ UNCHANGED <<replicas, delivery, listed>> /\ Finish(p)
  BY DEF MarkAsSeen, IInv
<1>2. /\ rows' \in [Ids -> Row]
      /\ \A i \in Ids : /\ rows'[i].event = rows[i].event /\ rows'[i].status = rows[i].status
                        /\ rows[i].alert = "read" => rows'[i].alert = "read"
                        /\ rows'[i].alert = "read" => rows[i].alert = "read" \/ i \in req[p].ids
  <2> DEFINE new(i) == IF i \in req[p].ids THEN Read(rows[i], {"alert"}) ELSE rows[i]
  <2>1. \A i \in Ids : /\ new(i) \in Row /\ new(i).event = rows[i].event
                       /\ new(i).status = rows[i].status
                       /\ rows[i].alert = "read" => new(i).alert = "read"
                       /\ new(i).alert = "read" => rows[i].alert = "read" \/ i \in req[p].ids
    BY <1>1, RowsAreRows, ReadRow
  <2>2. rows' = [i \in Ids |-> new(i)]
    BY DEF MarkAsSeen
  <2> HIDE DEF new
  <2> QED BY <2>1, <2>2
<1>3. KeepsRead
  BY <1>2 DEF KeepsRead
<1>4. rows' \in Seq(Row) /\ Ids' = Ids
  BY <1>1, <1>2, InPlace
<1>5. /\ req' \in [Proc -> Request]
      /\ \A q \in Proc : GoodRequest(q)'
  BY <1>1, <1>3, <1>4, FinishKeeps
<1>6. TypeOK' /\ (\A h \in Handler : GoodAttempt(h)') /\ OneValid' /\ \A e \in Event : Counted(e)'
  BY <1>1, <1>2, <1>4, <1>5, RequestKeeps DEF TypeOK
<1>7. SeenWasListed'
  BY <1>1, <1>2, <1>4 DEF IInv, SeenWasListed, GoodRequest
<1> QED BY <1>5, <1>6, <1>7 DEF IInv

LEMMA QuitPreserves == ASSUME IInv, NEW p \in Proc, Quit(p) PROVE IInv'
<1>1. /\ TypeOK /\ UNCHANGED <<replicas, delivery, rows, listed>> /\ Finish(p) /\ Ids' = Ids
      /\ KeepsRead
  BY DEF Quit, IInv, Ids, KeepsRead
<1>2. /\ req' \in [Proc -> Request]
      /\ \A q \in Proc : GoodRequest(q)'
  BY <1>1, FinishKeeps
<1>3. TypeOK' /\ (\A h \in Handler : GoodAttempt(h)') /\ OneValid' /\ \A e \in Event : Counted(e)'
  BY <1>1, <1>2, RequestKeeps DEF TypeOK
<1>4. SeenWasListed'
  BY <1>1 DEF IInv, SeenWasListed
<1> QED BY <1>2, <1>3, <1>4 DEF IInv

LEMMA StutterPreserves == ASSUME IInv, UNCHANGED vars PROVE IInv'
<1>1. TypeOK /\ UNCHANGED <<replicas, delivery, rows, req, listed>> /\ Ids' = Ids /\ KeepsRead
  BY DEF IInv, vars, reading, Ids, KeepsRead
<1>2. TypeOK' /\ (\A h \in Handler : GoodAttempt(h)') /\ OneValid' /\ \A e \in Event : Counted(e)'
  BY <1>1, RequestKeeps DEF TypeOK
<1>3. ASSUME NEW p \in Proc PROVE GoodRequest(p)'
  BY <1>1, OthersSurvive
<1>4. SeenWasListed'
  BY <1>1 DEF IInv, SeenWasListed
<1> QED BY <1>2, <1>3, <1>4 DEF IInv

LEMMA NextPreserves == IInv /\ [Next]_vars => IInv'
<1> SUFFICES ASSUME IInv, [Next]_vars
             PROVE  IInv'
  OBVIOUS
<1>1. CASE Publish
  BY <1>1, PublishPreserves
<1>2. CASE Attempts
  BY <1>2, TakePreserves, SaveRowPreserves, SendEmailPreserves, SendSMSPreserves, AckPreserves
     DEF Attempts
<1>3. CASE Failures
  BY <1>3, FailPreserves, DisconnectPreserves, CrashPreserves DEF Failures
<1>4. CASE Requests
  BY <1>4, FindToMarkPreserves, SelectAgainPreserves, SaveReadPreserves, FindAllAlertsPreserves,
     MarkAsSeenPreserves, QuitPreserves, MarkAllAsReadPreserves DEF Requests
<1>5. CASE Subscribing
  BY <1>5, BootsPreserves, SkipPreserves DEF Subscribing, Start, Subscribe, Subscriber
<1>6. CASE UNCHANGED vars
  BY <1>6, StutterPreserves
<1> QED BY <1>1, <1>2, <1>3, <1>4, <1>5, <1>6 DEF Next

\* The inductive invariant holds in every behaviour.
THEOREM Invariance == Spec => []IInv
BY InitIInv, NextPreserves, PTL DEF Spec

-----------------------------------------------------------------------------
\* What follows from it.

\* The state keeps its type: rows that are dispatched exist, pending events were sent.
THEOREM TypeCorrect == Spec => []TypeOK
<1>1. IInv => TypeOK
  BY DEF IInv
<1> QED BY <1>1, Invariance, PTL

\* An event makes a second row only after an attempt at it failed.
THEOREM DuplicatesCost == Spec => []DuplicatesNeedFailures
<1>1. IInv => DuplicatesNeedFailures
  <2> SUFFICES ASSUME IInv, NEW e \in Event
               PROVE  Cardinality(RowsOf(e)) <= 1 + fails[e]
    BY DEF DuplicatesNeedFailures
  <2>1. Cardinality(RowsOf(e)) \in Nat /\ Cardinality(Creating(e)) \in Nat
    BY RowsOfFinite, CreatingFinite DEF IInv
  <2>2. fails[e] \in Nat /\ Live(e) \in 0..1
    BY DEF IInv, TypeOK, Live
  <2> QED BY <2>1, <2>2 DEF IInv, Counted
<1> QED BY <1>1, Invariance, PTL

\* An alert is marked as seen only if it was answered or its notification was read.
THEOREM AlertsAreNotLost == Spec => []SeenWasListed
<1>1. IInv => SeenWasListed
  BY DEF IInv
<1> QED BY <1>1, Invariance, PTL

\* A notification that was read and an alert that was seen stay so.
THEOREM ReadingsStay == Spec => ReadStaysRead
<1>1. IInv /\ [Next]_vars => [KeepsRead]_vars
  <2> SUFFICES ASSUME IInv, Next PROVE KeepsRead
    OBVIOUS
  <2>1. \A i \in Ids : rows[i] \in Row
    BY RowsAreRows DEF IInv
  <2>2. CASE UNCHANGED rows
    BY <2>2 DEF KeepsRead
  <2>3. CASE \E h \in Handler : SaveRow(h)
    BY <2>3 DEF SaveRow, IInv, TypeOK, Ids, KeepsRead
  <2>4. CASE \E p \in Proc : SaveRead(p)
    <3> PICK p \in Proc : SaveRead(p)
      BY <2>4
    <3> DEFINE i == req[p].id
    <3>1. i \in Ids /\ rows' = [rows EXCEPT ![i] = Read(rows[i], req[p].columns)]
      BY DEF IInv, SaveRead, GoodRequest
    <3>2. /\ rows[i].status = "read" => Read(rows[i], req[p].columns).status = "read"
          /\ rows[i].alert = "read" => Read(rows[i], req[p].columns).alert = "read"
      BY <2>1, <3>1, ReadRow
    <3> HIDE DEF i
    <3> QED BY <3>1, <3>2 DEF KeepsRead, Ids
  <2>5. CASE \E u \in User : MarkAllAsRead(u)
    <3>1. PICK u \in User :
              rows' = [i \in Ids |-> IF Asked(i).user = u THEN Read(rows[i], {"status"})
                                                           ELSE rows[i]]
      BY <2>5 DEF MarkAllAsRead
    <3>2. \A i \in Ids : /\ Read(rows[i], {"status"}).status = "read"
                         /\ Read(rows[i], {"status"}).alert = rows[i].alert
      BY <2>1, ReadRow
    <3> QED BY <3>1, <3>2 DEF KeepsRead
  <2>6. CASE \E p \in Proc : MarkAsSeen(p)
    <3>1. PICK p \in Proc :
              rows' = [i \in Ids |-> IF i \in req[p].ids THEN Read(rows[i], {"alert"})
                                                         ELSE rows[i]]
      BY <2>6 DEF MarkAsSeen
    <3>2. \A i \in Ids : /\ Read(rows[i], {"alert"}).alert = "read"
                         /\ Read(rows[i], {"alert"}).status = rows[i].status
      BY <2>1, ReadRow
    <3> QED BY <3>1, <3>2 DEF KeepsRead
  <2> QED BY <2>2, <2>3, <2>4, <2>5, <2>6 DEF Next, Publish, Subscribing, Start, Subscribe, Boots,
            Skip, Attempts, Take, SendEmail, SendSMS, Ack, Failures, Fail, Disconnect, Crash,
            GoesDown, Requests, FindToMark, SelectAgain, FindAllAlerts, Quit
<1> QED BY <1>1, Invariance, PTL DEF Spec, ReadStaysRead

-----------------------------------------------------------------------------
\* Notifications keep the subscriber's side of EventDelivery.

\* Some subscriber is starting.
Starting == \E r \in Replica : subscriber[r] = "starting"

\* The UPDATE of a row leaves the others, and the events.
LEMMA SavedRow ==
    ASSUME NEW p \in Proc, SaveRead(p), \A i \in Ids : rows[i] \in Row
    PROVE  Ids' = Ids /\ \A i \in Ids : rows'[i].event = rows[i].event
<1>1. rows' = [rows EXCEPT ![req[p].id] = Read(rows[req[p].id], req[p].columns)]
  BY DEF SaveRead
<1>2. req[p].id \in Ids => Read(rows[req[p].id], req[p].columns).event = rows[req[p].id].event
  BY ReadRow
<1> QED BY <1>1, <1>2 DEF Ids

LEMMA NotifiedGrows ==
    ASSUME Ids \subseteq Ids', \A i \in Ids : rows'[i].event = rows[i].event,
           emailed \subseteq emailed', texted \subseteq texted'
    PROVE  Notified \subseteq Notified'
BY DEF Notified, RowsOf, Complete, Asked

LEMMA NotifiedStays ==
    ASSUME Ids' = Ids, \A i \in Ids : rows'[i].event = rows[i].event,
           UNCHANGED <<emailed, texted>>
    PROVE  Notified' = Notified
<1>1. \A i \in Ids : Complete(i)' <=> Complete(i)
  BY DEF Complete, Asked
<1> QED BY <1>1 DEF Notified, RowsOf

\* Work on row r can only complete the event of r.
LEMMA OneNotified ==
    ASSUME NEW r, Ids' = Ids \union {r}, \A i \in Ids : rows'[i].event = rows[i].event,
           emailed' \subseteq emailed \union {r}, texted' \subseteq texted \union {r}
    PROVE  Notified' \subseteq Notified \union {rows'[r].event}
<1>1. \A i \in Ids' : i # r => (Complete(i)' => Complete(i))
  BY DEF Complete, Asked
<1> QED BY <1>1 DEF Notified, RowsOf

\* Steps that leave the events and the starting subscribers alone, but for the one whose row
\* they work on.
LEMMA WorkImplements ==
    ASSUME IInv, NEW h \in Handler, handling[h] # Idle, UNCHANGED <<subscriber, sent, pending>>,
           Notified \subseteq Notified', Notified' \subseteq Notified \union {handling[h].event}
    PROVE  [Delivery!Next]_(Delivery!vars)
<1>1. handling[h].event \in 1..sent /\ handling[h].event \in 1..NEvent
  BY DEF IInv, GoodAttempt, TypeOK, Attempt, Event
<1>2. Notified' = Notified \/ Notified' = Notified \union {handling[h].event}
  OBVIOUS
<1>3. CASE Notified' = Notified
  BY <1>3 DEF Delivery!vars
<1>4. CASE Notified' = Notified \union {handling[h].event}
  BY <1>1, <1>4 DEF Delivery!Next, Delivery!Handle
<1> QED BY <1>2, <1>3, <1>4

LEMMA SaveRowImplements ==
    ASSUME IInv, NEW h \in Handler, SaveRow(h) PROVE [Delivery!Next]_(Delivery!vars)
<1> DEFINE n == Len(rows) + 1
           ev == handling[h].event
<1>1. /\ handling[h] # Idle /\ ev \in Event
      /\ rows' = Append(rows, NewRow(ev)) /\ rows \in Seq(Row)
      /\ UNCHANGED <<subscriber, sent, pending, emailed, texted>>
  BY DEF SaveRow, In, IInv, TypeOK, Attempt, replicas
<1>2. NewRow(ev) \in Row /\ NewRow(ev).event = ev
  BY <1>1 DEF NewRow, Row, Status, AlertStatus, Payload
<1>3. /\ Ids' = Ids \union {n} /\ rows'[n] = NewRow(ev)
      /\ \A i \in Ids : rows'[i] = rows[i]
  BY <1>1, <1>2 DEF Ids
<1>4. Notified \subseteq Notified'
  BY <1>1, <1>3, NotifiedGrows
<1> HIDE DEF n
<1>5. Notified' \subseteq Notified \union {ev}
  <2>1. /\ \A i \in Ids : rows'[i].event = rows[i].event
        /\ emailed' \subseteq emailed \union {n} /\ texted' \subseteq texted \union {n}
    BY <1>1, <1>3
  <2>2. Notified' \subseteq Notified \union {rows'[n].event}
    BY <1>3, <2>1, OneNotified
  <2>3. rows'[n].event = ev
    BY <1>2, <1>3
  <2> QED BY <2>2, <2>3
<1> QED BY <1>1, <1>4, <1>5, WorkImplements

LEMMA SendImplements ==
    ASSUME IInv, NEW h \in Handler, SendEmail(h) \/ SendSMS(h)
    PROVE  [Delivery!Next]_(Delivery!vars)
<1> DEFINE r == handling[h].row
<1>1. /\ handling[h] # Idle /\ r \in Ids /\ rows[r].event = handling[h].event
      /\ UNCHANGED <<subscriber, sent, pending, rows>>
      /\ emailed \subseteq emailed' /\ emailed' \subseteq emailed \union {r}
      /\ texted \subseteq texted' /\ texted' \subseteq texted \union {r}
  BY DEF SendEmail, SendSMS, In, IInv, GoodAttempt, replicas
<1>2. Ids' = Ids
  BY <1>1 DEF Ids
<1>3. Notified \subseteq Notified'
  BY <1>1, <1>2, NotifiedGrows
<1> HIDE DEF r
<1>4. Notified' \subseteq Notified \union {rows'[r].event}
  BY <1>1, <1>2, OneNotified
<1> QED BY <1>1, <1>3, <1>4, WorkImplements

\* An attempt that reached its ack has a complete row.
LEMMA AckImplements ==
    ASSUME IInv, NEW h \in Handler, Ack(h) PROVE [Delivery!Next]_(Delivery!vars)
<1>1. handling[h].event \in Notified
  BY DEF Ack, In, IInv, TypeOK, Attempt, GoodAttempt, Notified, RowsOf, Complete, Asked
<1>2. UNCHANGED <<subscriber, sent, rows, emailed, texted>> /\ Ids' = Ids
  BY DEF Ack, Ids, replicas
<1>3. Notified' = Notified
  BY <1>2, NotifiedStays
<1>4. CASE handling[h].valid
  <2>1. /\ handling[h].event \in pending /\ handling[h].event \in 1..NEvent
        /\ pending' = pending \ {handling[h].event}
    BY <1>4 DEF Ack, In, IInv, TypeOK, Attempt, GoodAttempt, Event
  <2> QED BY <1>1, <1>2, <1>3, <2>1 DEF Delivery!Next, Delivery!Settle
<1>5. CASE ~handling[h].valid
  <2>1. pending' = pending
    BY <1>5 DEF Ack
  <2> QED BY <1>2, <1>3, <2>1 DEF Delivery!vars
<1> QED BY <1>4, <1>5

\* A subscriber starts, or is there, or is gone.
LEMMA SubscribersImplement ==
    ASSUME UNCHANGED <<sent, pending, rows, emailed, texted>>
    PROVE  [Delivery!Next]_(Delivery!vars)
<1>1. Notified' = Notified
  <2>1. Ids' = Ids
    BY DEF Ids
  <2> QED BY <2>1, NotifiedStays
<1>2. CASE Starting' <=> Starting
  BY <1>1, <1>2 DEF Starting, Delivery!vars
<1>3. CASE Starting' <=> ~Starting
  BY <1>1, <1>3 DEF Starting, Delivery!Next, Delivery!Subscribe
<1> QED BY <1>2, <1>3

LEMMA SkipImplements ==
    ASSUME IInv, NEW r \in Replica, NEW e \in Event, Skip(r, e)
    PROVE  [Delivery!Next]_(Delivery!vars)
<1>1. /\ UNCHANGED <<subscriber, sent, rows, emailed, texted>> /\ Ids' = Ids
      /\ e \in pending /\ pending' = pending \ {e} /\ subscriber[r] = "starting"
  BY DEF Skip, replicas, Ids
<1>2. Notified' = Notified
  BY <1>1, NotifiedStays
<1> QED BY <1>1, <1>2 DEF Delivery!Next, Delivery!Settle, Event

LEMMA StepsImplement == ASSUME IInv, [Next]_vars PROVE [Delivery!Next]_(Delivery!vars)
<1>1. CASE UNCHANGED vars
  BY <1>1, SubscribersImplement DEF vars, delivery
<1>2. CASE Publish
  <2>1. Ids' = Ids /\ UNCHANGED <<subscriber, rows, emailed, texted>>
    BY <1>2 DEF Publish, Ids, replicas
  <2>2. Notified' = Notified
    BY <2>1, NotifiedStays
  <2> QED BY <1>2, <2>1, <2>2 DEF Delivery!Next, Delivery!Publish, Publish
<1>3. CASE Subscribing
  <2>1. CASE \E r \in Replica : Start(r) \/ Subscribe(r)
    BY <2>1, SubscribersImplement DEF Start, Subscribe, Boots, delivery
  <2> QED BY <1>3, <2>1, SkipImplements DEF Subscribing
<1>4. CASE Attempts
  <2>1. CASE \E h \in Handler, e \in Event : Take(h, e)
    BY <2>1, SubscribersImplement DEF Take
  <2> QED BY <1>4, <2>1, SaveRowImplements, SendImplements, AckImplements DEF Attempts
<1>5. CASE Failures
  BY <1>5, SubscribersImplement DEF Failures, Fail, Disconnect, Crash, GoesDown
<1>6. CASE Requests
  <2>1. UNCHANGED <<replicas, delivery>>
    BY <1>6 DEF Requests, FindToMark, SelectAgain, FindAllAlerts, SaveRead, MarkAsSeen, Quit,
       MarkAllAsRead
  <2>2. Ids' = Ids /\ \A i \in Ids : rows'[i].event = rows[i].event
    <3>1. \A i \in Ids : rows[i] \in Row
      BY RowsAreRows DEF IInv
    <3>2. CASE UNCHANGED rows
      BY <3>2 DEF Ids
    <3>3. CASE \E p \in Proc : SaveRead(p)
      BY <3>1, <3>3, SavedRow
    <3>4. CASE (\E u \in User : MarkAllAsRead(u)) \/ \E p \in Proc : MarkAsSeen(p)
      <4>1. \A i \in Ids : \A C : Read(rows[i], C).event = rows[i].event
        BY <3>1, ReadRow
      <4> QED BY <3>4, <4>1 DEF MarkAllAsRead, MarkAsSeen, Ids
    <3> QED BY <1>6, <3>2, <3>3, <3>4 DEF Requests, FindToMark, SelectAgain, FindAllAlerts, Quit
  <2>3. Notified' = Notified
    BY <2>1, <2>2, NotifiedStays DEF delivery
  <2> QED BY <2>1, <2>3 DEF Delivery!vars, replicas, delivery
<1> QED BY <1>1, <1>2, <1>3, <1>4, <1>5, <1>6 DEF Next

\* An event that reached the queue is settled only when one of its rows was emailed and
\* texted as it asked, or while a subscriber starts; whatever fails, however often it is
\* delivered, and although handlers run on after their channel is lost.
THEOREM NotificationsDeliver == Spec => SettledWasNotified
<1>1. Init => Delivery!Init
  BY DEF Init, Delivery!Init, Notified, RowsOf, Ids
<1>2. IInv /\ [Next]_vars => [Delivery!Next]_(Delivery!vars)
  BY StepsImplement
<1> QED BY <1>1, <1>2, Invariance, PTL DEF Spec, SettledWasNotified, Delivery!Spec

-----------------------------------------------------------------------------
\* What reaches people.

\* Messages of either kind for an event are at most one and those of failed attempts.
MessagesBounded ==
    \A e \in Event : /\ Cardinality(emailed \intersect RowsOf(e)) <= 1 + fails[e]
                     /\ Cardinality(texted \intersect RowsOf(e)) <= 1 + fails[e]

\* An event goes by the channels it asks for, the email before the SMS.
AsAsked ==
    /\ \A i \in emailed : i \in Ids /\ Asked(i).email
    /\ \A i \in texted : i \in Ids /\ Asked(i).sms /\ (Asked(i).email => i \in emailed)

\* A row stays, and stays of its event, whatever inserts and saves run.
LEMMA RowsKeepEvents ==
    ASSUME IInv, [Next]_vars
    PROVE  Ids \subseteq Ids' /\ \A i \in Ids : rows'[i].event = rows[i].event
<1>1. \A i \in Ids : rows[i] \in Row
  BY RowsAreRows DEF IInv
<1>2. CASE UNCHANGED rows
  BY <1>2 DEF Ids
<1>3. CASE \E h \in Handler : SaveRow(h)
  <2>1. PICK new : rows' = Append(rows, new)
    BY <1>3 DEF SaveRow
  <2>2. rows \in Seq(Row)
    BY DEF IInv, TypeOK
  <2> QED BY <2>1, <2>2 DEF Ids
<1>4. CASE \E p \in Proc : SaveRead(p)
  BY <1>1, <1>4, SavedRow
<1>5. CASE (\E u \in User : MarkAllAsRead(u)) \/ \E p \in Proc : MarkAsSeen(p)
  <2>1. \A i \in Ids : \A C : Read(rows[i], C).event = rows[i].event
    BY <1>1, ReadRow
  <2> QED BY <1>5, <2>1 DEF MarkAllAsRead, MarkAsSeen, Ids
<1> QED BY <1>2, <1>3, <1>4, <1>5 DEF Next, Publish, Subscribing, Start, Subscribe, Boots, Skip,
           Attempts, Take, SendEmail, SendSMS, Ack, Failures, Fail, Disconnect, Crash, GoesDown,
           Requests, FindToMark, SelectAgain, FindAllAlerts, Quit, vars

\* However deliveries are lost, repeated and run side by side, nobody gets more emails
\* or more SMS for an event than one and one for each attempt that failed.
THEOREM MessagesAreBounded == Spec => []MessagesBounded
<1>1. TypeOK /\ DuplicatesNeedFailures => MessagesBounded
  <2> SUFFICES ASSUME TypeOK, DuplicatesNeedFailures, NEW e \in Event, NEW tried
               PROVE  Cardinality(tried \intersect RowsOf(e)) <= 1 + fails[e]
    BY DEF MessagesBounded
  <2>1. Cardinality(RowsOf(e)) <= 1 + fails[e] /\ fails[e] \in Nat
    BY DEF DuplicatesNeedFailures, TypeOK
  <2>2. /\ IsFiniteSet(RowsOf(e)) /\ Cardinality(RowsOf(e)) \in Nat
        /\ tried \intersect RowsOf(e) \subseteq RowsOf(e)
    BY RowsOfFinite
  <2>3. /\ Cardinality(tried \intersect RowsOf(e)) \in Nat
        /\ Cardinality(tried \intersect RowsOf(e)) <= Cardinality(RowsOf(e))
    BY <2>2, FS_Subset, FS_CardinalityType
  <2> QED BY <2>1, <2>2, <2>3
<1> QED BY <1>1, TypeCorrect, DuplicatesCost, PTL

\* Retries included, no SMS and no email goes out for an event that did not ask for it,
\* and none is texted before its email was tried.
THEOREM MessagesAreAsAsked == Spec => []AsAsked
<1>1. Init => AsAsked
  BY DEF Init, AsAsked
<1>2. IInv /\ AsAsked /\ [Next]_vars => AsAsked'
  <2> SUFFICES ASSUME IInv, AsAsked, [Next]_vars PROVE AsAsked'
    OBVIOUS
  <2>1. Ids \subseteq Ids' /\ \A i \in Ids : Asked(i)' = Asked(i)
    BY RowsKeepEvents DEF Asked
  <2>2. CASE UNCHANGED <<emailed, texted>>
    BY <2>1, <2>2 DEF AsAsked
  <2>3. ASSUME NEW h \in Handler, SendEmail(h) PROVE AsAsked'
    <3>1. /\ emailed' = emailed \union {handling[h].row} /\ texted' = texted
          /\ handling[h].row \in Ids /\ Asked(handling[h].row).email
      BY <2>3 DEF SendEmail, In, IInv, GoodAttempt, Asked
    <3> QED BY <2>1, <3>1 DEF AsAsked
  <2>4. ASSUME NEW h \in Handler, SendSMS(h) PROVE AsAsked'
    <3>1. /\ texted' = texted \union {handling[h].row} /\ emailed' = emailed
          /\ handling[h].row \in Ids /\ Asked(handling[h].row).sms
          /\ Asked(handling[h].row).email => handling[h].row \in emailed
      BY <2>4 DEF SendSMS, In, IInv, GoodAttempt, Asked
    <3> QED BY <2>1, <3>1 DEF AsAsked
  <2> QED BY <2>2, <2>3, <2>4 DEF Next, Publish, Subscribing, Start, Subscribe, Boots, Skip,
             Attempts, Take, SaveRow, Ack, Failures, Fail, Disconnect, Crash, GoesDown, Requests,
             FindToMark, SelectAgain, FindAllAlerts, SaveRead, MarkAsSeen, Quit, MarkAllAsRead,
             vars, delivery
<1> QED BY <1>1, <1>2, Invariance, PTL DEF Spec

=============================================================================
