----------------------------- MODULE MCWallGrid -----------------------------
(* An instance of WallGrid for TLC.                                           *)
EXTENDS WallGrid
=============================================================================
