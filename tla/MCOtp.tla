-------------------------------- MODULE MCOtp --------------------------------
(***************************************************************************)
(* A small instance of Otp for TLC: u1 is seeded, u2 may register.         *)
(***************************************************************************)
EXTENDS Otp, TLC

CONSTANTS u1, u2, email1, email2

MCUser == {u1, u2}
MCDest == {email1, email2}
MCOwner == (email1 :> u1) @@ (email2 :> u2)
MCSeeded == {u1}

Symmetry == Permutations(OtpId) \union Permutations(Code) \union Permutations(Proc)

=============================================================================
