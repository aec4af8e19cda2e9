----------------------------- MODULE MCAttachments -----------------------------
(***************************************************************************)
(* A small instance of Attachments for TLC: a private draft of one user    *)
(* and a public attachment of another.                                     *)
(***************************************************************************)
EXTENDS Attachments, TLC

CONSTANTS a1, a2, u1, u2

MCAttachment == {a1, a2}
MCUploader == (a1 :> u1) @@ (a2 :> u2)
MCUser == {u1, u2}

Symmetry == Permutations(Proc)

=============================================================================
