----------------------------- MODULE Notifications -----------------------------
(***************************************************************************)
(* Notifications: an event from the queue becomes a row and is dispatched  *)
(* by email and SMS; users read their rows and are shown alerts.           *)
(*                                                                         *)
(* The queue is that of EventDelivery: an event may never reach it, a      *)
(* subscriber that starts may drop one, and any other pending one is       *)
(* handled until a handler ran to its end.  A handler inserts a row first, *)
(* so each attempt has a row of its own, and then tries email and SMS.     *)
(* Mailers swallow their errors; an SMS provider that cannot be reached    *)
(* rejects the whole event, since the try around "return promise" catches  *)
(* nothing.  The handlers of a replica share its channel to RabbitMQ, and  *)
(* when that is gone nothing opens another before the replica restarts.    *)
(*                                                                         *)
(* One action is one SQL statement or one call of a provider, with the     *)
(* code that follows it.  Push tokens are stored and never read, and are   *)
(* left out; how a list is cut into pages is in Listing.                   *)
(***************************************************************************)
EXTENDS Integers, Sequences, FiniteSets

CONSTANTS
    NEvent,     \* the events are 1..NEvent
    payload,    \* what they ask for
    User,
    Replica,
    Handler,    \* attempts that may run at once: prefetch of them on each replica ...
    replica,    \* ... replica[h]
    Proc,       \* requests in flight at once
    PageSize,
    MaxFails,   \* MaxFails[e] bounds the failures of the handling of e
    MaxDowns,   \* bounds the processes that die and the channels lost
    None

Event == 1..NEvent

Payload == [user: User \union {None}, alert: BOOLEAN,
            email: BOOLEAN, sms: BOOLEAN]

ASSUME NEventAssumption == NEvent \in Nat
ASSUME PayloadAssumption == payload \in [Event -> Payload]
ASSUME PageSizeAssumption == PageSize \in Nat \ {0}
ASSUME BoundsAssumption == MaxFails \in [Event -> Nat]
ASSUME NoneAssumption == None \notin User
ASSUME HandlerAssumption == IsFiniteSet(Handler) /\ replica \in [Handler -> Replica]
ASSUME MaxDownsAssumption == MaxDowns \in Nat

VARIABLES
    subscriber, \* subscriber[r]: how far replica r has come
    downs,      \* deaths and lost channels so far
    sent,       \* events published so far: 1..sent
    pending,    \* those in the queue or with a handler
    handling,   \* handling[h]: the attempt h is making
    fails,      \* fails[e]: attempts at e that failed
    rows,       \* the notifications table, in the order of insertion
    emailed,    \* rows whose email was tried ...
    texted,     \* ... and whose SMS the provider took
    req,        \* req[p]: a request between its SELECTs and its write
    listed      \* history: the rows some query for alerts has answered

replicas == <<subscriber, downs>>
delivery == <<sent, pending, handling, fails, emailed, texted>>
reading == <<req, listed>>
vars == <<replicas, delivery, rows, reading>>

-----------------------------------------------------------------------------

\* Of a process that is down, is starting, consumes, or has lost its channel for good.
Subscriber == {"down", "starting", "ready", "lost"}
Stage == {"create", "email", "sms", "ack"}

\* Its delivery is void once the channel is lost: the event is free again.
Attempt == [event: Event, stage: Stage, row: Nat, valid: BOOLEAN]
Idle == [event |-> 0]

Status == {"not_read", "read"}
AlertStatus == {"none", "not_read", "read"}

\* The other columns are those of the event's payload.
Row == [event: Event, status: Status, alert: AlertStatus]

NewRow(e) ==
    [event |-> e, status |-> "not_read",
     alert |-> IF payload[e].alert THEN "not_read" ELSE "none"]

\* The columns that markAsRead() changes, those of them a row does not hold as it leaves
\* them, and a write of the columns C.
Marked == {"status", "alert"}
Unread(r) == {c \in Marked : r[c] # "read"}
Read(r, C) == [r EXCEPT !.status = IF "status" \in C THEN "read" ELSE @,
                        !.alert = IF "alert" \in C THEN "read" ELSE @]

Ids == DOMAIN rows
Asked(i) == payload[rows[i].event]
Alerts(u) == {i \in Ids : /\ Asked(i).user = u /\ Asked(i).alert
                          /\ rows[i].status = "not_read" /\ rows[i].alert = "not_read"}

Nothing == [kind |-> "none"]
SelectRequest == [kind: {"select"}, id: Nat]
SaveRequest == [kind: {"save"}, id: Nat, columns: SUBSET Marked]
SeenRequest == [kind: {"seen"}, ids: SUBSET Nat]
Request == SelectRequest \union SaveRequest \union SeenRequest \union {Nothing}

Init ==
    /\ subscriber = [r \in Replica |-> "down"] /\ downs = 0
    /\ sent = 0 /\ pending = {}
    /\ handling = [h \in Handler |-> Idle]
    /\ fails = [e \in Event |-> 0]
    /\ rows = <<>>
    /\ emailed = {} /\ texted = {}
    /\ req = [p \in Proc |-> Nothing]
    /\ listed = {}

-----------------------------------------------------------------------------
\* Delivery and dispatch.

\* sendNotification(): the event reaches the queue, or does not.
Publish ==
    /\ sent < NEvent
    /\ sent' = sent + 1
    /\ pending' \in {pending, pending \union {sent + 1}}
    /\ UNCHANGED <<replicas, handling, fails, emailed, texted, rows, reading>>

HasEvent(h, e) == handling[h] # Idle /\ handling[h].event = e /\ handling[h].valid
Held(e) == \E h \in Handler : HasEvent(h, e)

Boots(r, from, to) ==
    /\ subscriber[r] = from
    /\ subscriber' = [subscriber EXCEPT ![r] = to]
    /\ UNCHANGED <<downs, delivery, rows, reading>>

Start(r) == Boots(r, "down", "starting")

\* Deliveries before the handler is recorded find none and are acknowledged (see Broker,
\* which bounds them) ...
Skip(r, e) ==
    /\ subscriber[r] = "starting"
    /\ e \in pending /\ ~Held(e)
    /\ pending' = pending \ {e}
    /\ UNCHANGED <<replicas, sent, handling, fails, emailed, texted, rows, reading>>

\* ... until it is.
Subscribe(r) == Boots(r, "starting", "ready")

\* Mutant of Take: every replica has a queue of its own.
TakeCopy(h, e) ==
    /\ subscriber[replica[h]] = "ready" /\ handling[h] = Idle
    /\ e \in pending
    /\ handling' = [handling EXCEPT ![h] =
            [event |-> e, stage |-> "create", row |-> 0, valid |-> TRUE]]
    /\ UNCHANGED <<replicas, sent, pending, fails, emailed, texted, rows, reading>>

Take(h, e) ==
    /\ subscriber[replica[h]] = "ready" /\ handling[h] = Idle
    /\ e \in pending /\ ~Held(e)
    /\ handling' = [handling EXCEPT ![h] =
            [event |-> e, stage |-> "create", row |-> 0, valid |-> TRUE]]
    /\ UNCHANGED <<replicas, sent, pending, fails, emailed, texted, rows, reading>>

In(h, stage) == handling[h] # Idle /\ handling[h].stage = stage

\* What dispatch() does after the row is saved, and after the email.
AfterEmail(e) == IF payload[e].sms THEN "sms" ELSE "ack"
AfterCreate(e) == IF payload[e].email THEN "email" ELSE AfterEmail(e)

Goes(h, stage) == handling' = [handling EXCEPT ![h].stage = stage]

\* Mutant of SaveRow: a redelivery finds the row of an earlier attempt and stops there.
SaveRowOnce(h) ==
    /\ In(h, "create")
    /\ LET e == handling[h].event
       IN  IF \E i \in Ids : rows[i].event = e
           THEN Goes(h, "ack") /\ UNCHANGED rows
           ELSE /\ rows' = Append(rows, NewRow(e))
                /\ handling' = [handling EXCEPT ![h].stage = AfterCreate(e), ![h].row = Len(rows')]
    /\ UNCHANGED <<replicas, sent, pending, fails, emailed, texted, reading>>

\* Mutant of SaveRow: a redelivery overwrites the row of an earlier attempt.
UpsertRow(h) ==
    /\ In(h, "create")
    /\ LET e == handling[h].event
           earlier == {i \in Ids : rows[i].event = e}
       IN  \E i \in IF earlier = {} THEN {Len(rows) + 1} ELSE earlier :
            /\ rows' = [j \in Ids \union {i} |-> IF j = i THEN NewRow(e) ELSE rows[j]]
            /\ handling' = [handling EXCEPT ![h].stage = AfterCreate(e), ![h].row = i]
    /\ UNCHANGED <<replicas, sent, pending, fails, emailed, texted, reading>>

\* Mutant of SaveRow: the entity that is dispatched is not the one that was saved.
SaveRowOfNoId(h) ==
    /\ In(h, "create")
    /\ LET e == handling[h].event
       IN  /\ rows' = Append(rows, NewRow(e))
           /\ handling' = [handling EXCEPT ![h].stage = AfterCreate(e)]
    /\ UNCHANGED <<replicas, sent, pending, fails, emailed, texted, reading>>

SaveRow(h) ==
    /\ In(h, "create")
    /\ LET e == handling[h].event
       IN  /\ rows' = Append(rows, NewRow(e))
           /\ handling' = [handling EXCEPT ![h].stage = AfterCreate(e), ![h].row = Len(rows')]
    /\ UNCHANGED <<replicas, sent, pending, fails, emailed, texted, reading>>

\* Sent or failed: the outcome is dropped either way.
SendEmail(h) ==
    /\ In(h, "email")
    /\ emailed' = emailed \union {handling[h].row}
    /\ Goes(h, AfterEmail(handling[h].event))
    /\ UNCHANGED <<replicas, sent, pending, fails, texted, rows, reading>>

\* Mutant of SendSMS: it waits for ever when the event was texted before.
SendSMSOnce(h) ==
    /\ In(h, "sms")
    /\ \A i \in texted : rows[i].event # handling[h].event
    /\ texted' = texted \union {handling[h].row}
    /\ Goes(h, "ack")
    /\ UNCHANGED <<replicas, sent, pending, fails, emailed, rows, reading>>

\* Any answer of the provider counts as sent.
SendSMS(h) ==
    /\ In(h, "sms")
    /\ texted' = texted \union {handling[h].row}
    /\ Goes(h, "ack")
    /\ UNCHANGED <<replicas, sent, pending, fails, emailed, rows, reading>>

\* The attempts hs end, or run on for nothing: an attempt is void when its channel is gone.
End(hs) == handling' = [h \in Handler |-> IF h \in hs THEN Idle ELSE handling[h]]
Void(hs) == handling' = [h \in Handler |-> IF h \in hs /\ handling[h] # Idle
                                            THEN [handling[h] EXCEPT !.valid = FALSE]
                                            ELSE handling[h]]

\* An ack for a void delivery throws and settles nothing.
Ack(h) ==
    /\ In(h, "ack")
    /\ pending' = IF handling[h].valid THEN pending \ {handling[h].event} ELSE pending
    /\ End({h})
    /\ UNCHANGED <<replicas, sent, fails, emailed, texted, rows, reading>>

\* The events that the attempts hs have are free again, at the cost of a failure each.
Retry(hs) ==
    /\ fails' = [e \in Event |-> fails[e] + IF \E h \in hs : HasEvent(h, e) THEN 1 ELSE 0]
    /\ \A e \in Event : fails'[e] <= MaxFails[e]

\* The provider cannot be reached or the database fails, and the event is rejected.
Fail(h) ==
    /\ handling[h] # Idle
    /\ Retry({h})
    /\ End({h})
    /\ UNCHANGED <<replicas, sent, pending, emailed, texted, rows, reading>>

On(r) == {h \in Handler : replica[h] = r}

GoesDown(r, to) ==
    /\ downs < MaxDowns
    /\ downs' = downs + 1
    /\ subscriber' = [subscriber EXCEPT ![r] = to]
    /\ Retry(On(r))
    /\ UNCHANGED <<sent, pending, emailed, texted, rows, reading>>

\* The channel is lost, or the subscriber's start fails; the handlers run on.
Disconnect(r) ==
    /\ subscriber[r] \in {"starting", "ready"}
    /\ GoesDown(r, "lost")
    /\ Void(On(r))

\* The process dies.
Crash(r) ==
    /\ subscriber[r] # "down"
    /\ GoesDown(r, "down")
    /\ End(On(r))

-----------------------------------------------------------------------------
\* Reading.

Free(p) == req[p].kind = "none"
Finish(p) == req' = [req EXCEPT ![p] = Nothing]

\* markNotificationAsRead(): the owner's row is read and its entity marked ...
FindToMark(p, u, i) ==
    /\ Free(p)
    /\ i \in Ids /\ Asked(i).user = u
    /\ req' = [req EXCEPT ![p] = [kind |-> "select", id |-> i]]
    /\ UNCHANGED <<replicas, delivery, rows, listed>>

\* ... save() selects the row again and compares ...
SelectAgain(p) ==
    /\ req[p].kind = "select"
    /\ req' = [req EXCEPT ![p] = [kind |-> "save", id |-> req[p].id,
                                  columns |-> Unread(rows[req[p].id])]]
    /\ UNCHANGED <<replicas, delivery, rows, listed>>

\* ... and updates the columns that differed.
SaveRead(p) ==
    /\ req[p].kind = "save"
    /\ rows' = [rows EXCEPT ![req[p].id] = Read(@, req[p].columns)]
    /\ Finish(p)
    /\ UNCHANGED <<replicas, delivery, listed>>

MarkAllAsRead(u) ==
    /\ rows' = [i \in Ids |-> IF Asked(i).user = u THEN Read(rows[i], {"status"})
                                                ELSE rows[i]]
    /\ UNCHANGED <<replicas, delivery, reading>>

\* findAllAlerts(): a page of alerts ...
FindAllAlerts(p, u) ==
    /\ Free(p)
    /\ \E items \in SUBSET Alerts(u) :
        /\ items # {} /\ Cardinality(items) <= PageSize
        /\ req' = [req EXCEPT ![p] = [kind |-> "seen", ids |-> items]]
        /\ listed' = listed \union items
    /\ UNCHANGED <<replicas, delivery, rows>>

\* Mutant of MarkAsSeen: it marks what the filter of the query matches by now.
MarkMatchingAsSeen(p) ==
    /\ req[p].kind = "seen"
    /\ rows' = [i \in Ids |-> IF \E u \in User : i \in Alerts(u)
                              THEN Read(rows[i], {"alert"}) ELSE rows[i]]
    /\ Finish(p)
    /\ UNCHANGED <<replicas, delivery, listed>>

\* ... is marked as seen, by the ids read before.
MarkAsSeen(p) ==
    /\ req[p].kind = "seen"
    /\ rows' = [i \in Ids |-> IF i \in req[p].ids THEN Read(rows[i], {"alert"})
                                                     ELSE rows[i]]
    /\ Finish(p)
    /\ UNCHANGED <<replicas, delivery, listed>>

\* The request fails or its process dies.
Quit(p) ==
    /\ ~Free(p)
    /\ Finish(p)
    /\ UNCHANGED <<replicas, delivery, rows, listed>>

-----------------------------------------------------------------------------

Attempts ==
    \E h \in Handler :
        \/ \E e \in Event : Take(h, e)
        \/ SaveRow(h) \/ SendEmail(h) \/ SendSMS(h) \/ Ack(h)

Subscribing == \E r \in Replica : Start(r) \/ Subscribe(r) \/ \E e \in Event : Skip(r, e)

Failures ==
    \/ \E h \in Handler : Fail(h)
    \/ \E r \in Replica : Disconnect(r) \/ Crash(r)

Requests ==
    \/ \E p \in Proc, u \in User :
        \/ \E i \in Ids : FindToMark(p, u, i)
        \/ FindAllAlerts(p, u)
    \/ \E p \in Proc : SelectAgain(p) \/ SaveRead(p) \/ MarkAsSeen(p) \/ Quit(p)
    \/ \E u \in User : MarkAllAsRead(u)

Next == Publish \/ Subscribing \/ Attempts \/ Failures \/ Requests

Spec == Init /\ [][Next]_vars

\* A replica that is down is started again and subscribes, handlers run on, and RabbitMQ
\* delivers to those that are ready.  Failures are not assumed to stop: they are bounded by
\* MaxFails and MaxDowns.
Fairness ==
    /\ \A r \in Replica : WF_vars(Start(r) \/ Subscribe(r))
    /\ WF_vars(\E h \in Handler, e \in Event : Take(h, e))
    /\ \A h \in Handler : WF_vars(SaveRow(h) \/ SendEmail(h) \/ SendSMS(h) \/ Ack(h))

FairSpec == Spec /\ Fairness

-----------------------------------------------------------------------------

TypeOK ==
    /\ subscriber \in [Replica -> Subscriber] /\ downs \in 0..MaxDowns
    /\ sent \in 0..NEvent /\ pending \subseteq 1..sent
    /\ handling \in [Handler -> Attempt \union {Idle}]
    /\ fails \in [Event -> Nat] /\ \A e \in Event : fails[e] <= MaxFails[e]
    /\ rows \in Seq(Row)
    /\ emailed \subseteq Ids /\ texted \subseteq Ids
    /\ req \in [Proc -> Request]
    /\ listed \subseteq Ids

RowsOf(e) == {i \in Ids : rows[i].event = e}

\* However deliveries are lost, repeated and run side by side, an event makes a second
\* row and a second message only after an attempt at it failed.
DuplicatesNeedFailures == \A e \in Event : Cardinality(RowsOf(e)) <= 1 + fails[e]

\* An attempt went all the way for one row: both channels the event asks for.
Complete(i) == (Asked(i).email => i \in emailed) /\ (Asked(i).sms => i \in texted)
Notified == {e \in Event : \E i \in RowsOf(e) : Complete(i)}

\* The subscriber keeps its side of EventDelivery: except while a replica starts, an event
\* is settled only when some one of its rows was emailed and texted as asked; half attempts
\* do not add up.
Delivery == INSTANCE EventDelivery WITH
    handled  <- Notified,
    starting <- \E r \in Replica : subscriber[r] = "starting"
SettledWasNotified == Delivery!Spec

\* A notification that was read and an alert that was seen stay so, although a request
\* saves columns of a row that it read before others marked it.
KeepsRead ==
    \A i \in Ids : /\ rows[i].status = "read" => rows'[i].status = "read"
                   /\ rows[i].alert = "read" => rows'[i].alert = "read"
ReadStaysRead == [][KeepsRead]_vars

\* An alert is marked as seen only if some query answered it or its notification was
\* read: what arrives between the query and the update is not lost.
SeenWasListed ==
    \A i \in Ids : rows[i].alert = "read" => i \in listed \/ rows[i].status = "read"

\* Whatever an email does, and after as many failures of the SMS provider, deaths and lost
\* channels as there are, an event that reached the queue is settled in the end; unless every
\* replica lost its channel, which none of them notices.
EventuallySettled ==
    \A e \in Event :
        e \in pending ~> (e \notin pending \/ \A r \in Replica : subscriber[r] = "lost")

=============================================================================
