----------------------------- MODULE MCWorkspace -----------------------------
(* Instances of Workspace for TLC: interchangeable processes. *)
EXTENDS Workspace, TLC

Processes == Permutations(CLIs)
=============================================================================
