------------------------------ MODULE MCAccounts ------------------------------
(***************************************************************************)
(* A small instance of Accounts for TLC: the default user has an email and *)
(* a mobile, and one user may sign up with another email.                  *)
(***************************************************************************)
EXTENDS Accounts

CONSTANTS email1, email2, mobile1

MCEmail == {email1, email2}
MCMobile == {mobile1}
MCAdminIdent == {email1, mobile1}

=============================================================================
