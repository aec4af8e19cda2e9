------------------------------ MODULE MCCountries ------------------------------
(***************************************************************************)
(* Three countries, the first of which has two states.  Their names are    *)
(* not in the order of the file, so rows are inserted before, between and  *)
(* after those that are there.                                             *)
(***************************************************************************)
EXTENDS Countries, TLC

CONSTANTS p1, p2

MCProcess == {p1, p2}
MCStates == <<2, 0, 0>>
MCName == <<1, 0>> :> 2 @@ <<2, 0>> :> 3 @@ <<3, 0>> :> 1 @@ <<1, 1>> :> 2 @@ <<1, 2>> :> 1
MCPageSizes == {1, 2}

Symmetry == Permutations(MCProcess)

=============================================================================
