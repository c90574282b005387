-------------------------- MODULE MCLibraryHistory --------------------------
(* The instances of MCLibraryOps, with the history variables. *)
EXTENDS MCLibraryOps, LibraryHistory
=============================================================================
