------------------------------ MODULE MCRelay -------------------------------
(***************************************************************************)
(* Small networks for the command path to node 1's relay.                 *)
(***************************************************************************)
EXTENDS SwitchHistory

(* Every station hears every other one. *)
AllLinks == {p \in Station \X Station : p[1] # p[2]}
=============================================================================
