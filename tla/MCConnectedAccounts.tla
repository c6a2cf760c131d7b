------------------------ MODULE MCConnectedAccounts ------------------------
(* Instances of ConnectedAccounts for TLC. *)
EXTENDS ConnectedAccounts
=============================================================================
