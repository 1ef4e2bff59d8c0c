--------------------------- MODULE MCWorkspaceInit ---------------------------
(* Instances of WorkspaceInit for TLC. *)
EXTENDS WorkspaceInit
=============================================================================
