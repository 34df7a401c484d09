----------------------------- MODULE MCWorkspace ----------------------------
(* A small instance of Workspace: two concurrent calls, two servers.       *)
EXTENDS Workspace, TLC

ServerSymmetry == Permutations(Server)
=============================================================================
