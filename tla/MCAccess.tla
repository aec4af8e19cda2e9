-------------------------------- MODULE MCAccess --------------------------------
(***************************************************************************)
(* Two processes with the configured default user, a customer, and a role  *)
(* that administrators create, or give another list of permissions.        *)
(***************************************************************************)
EXTENDS Access

CONSTANTS p1, p2

MCProcess == {p1, p2}
MCIdent == {"email", "mobile"}
MCDefaultIdents == [p \in MCProcess |-> {"email"}]
MCGrants == {{"write:users"}}

=============================================================================
