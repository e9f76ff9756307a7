------------------------------ MODULE MCLadder ------------------------------
(* Small instances of Ladder: its constants are numbers, given in the .cfg  *)
(* files.                                                                   *)
EXTENDS Ladder
=============================================================================
