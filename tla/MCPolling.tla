----------------------------- MODULE MCPolling ------------------------------
(***************************************************************************)
(* Small networks for the pace, the bounds and the turns of the polling.   *)
(***************************************************************************)
EXTENDS PollHistory, MeshProperties

(* Every station hears every other one. *)
AllLinks == {p \in Station \X Station : p[1] # p[2]}
=============================================================================
