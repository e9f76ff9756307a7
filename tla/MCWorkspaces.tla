---------------------------- MODULE MCWorkspaces ----------------------------
(* Small instances of Workspaces.                                          *)
EXTENDS Workspaces

MCInodes == 1..(1 + 2 * Cardinality(Engines))
=============================================================================
