---------------------------- MODULE MCGameServer ----------------------------
(* Instances of GameServer for TLC.                                           *)
EXTENDS GameServer, TLC

(* Connections are interchangeable: no property of the runs that use the
   symmetry is temporal beyond a step.                                        *)
ConnSymmetry == Permutations(Conn)

=============================================================================
