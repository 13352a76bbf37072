------------------------------- MODULE MCMesh -------------------------------
(***************************************************************************)
(* Small networks for what must eventually happen.                         *)
(***************************************************************************)
EXTENDS MeshProperties

(* Every station hears every other one. *)
AllLinks == {p \in Station \X Station : p[1] # p[2]}
=============================================================================
