--------------------------- MODULE MCNotifications ---------------------------
(***************************************************************************)
(* Small instances of Notifications for TLC: an event that is an alert and *)
(* goes by email and SMS, and one that is neither.                         *)
(***************************************************************************)
EXTENDS Notifications, TLC

CONSTANTS u1, r1, r2, h1, h2, h3

MCUser == {u1}

\* One replica has two handlers on its channel, the other has one.
MCreplica == (h1 :> r1 @@ h2 :> r1 @@ h3 :> r2)

\* A single handler.
MCreplicaReading == (h1 :> r1)

MCPayload == <<
    [user |-> u1, alert |-> TRUE, email |-> TRUE, sms |-> TRUE],
    [user |-> u1, alert |-> FALSE, email |-> FALSE, sms |-> FALSE]>>

MCMaxFails == <<2, 0>>
MCMaxFailsReading == <<1, 0>>

SymmetryReading == Permutations(Proc)

=============================================================================
