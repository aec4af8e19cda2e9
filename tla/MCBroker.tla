------------------------------ MODULE MCBroker ------------------------------
(***************************************************************************)
(* A small instance of Broker for TLC.                                     *)
(***************************************************************************)
EXTENDS Broker

MCPoison == {1}

=============================================================================
