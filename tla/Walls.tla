-------------------------------- MODULE Walls --------------------------------
(* What the walls of the board promise: between two neighbouring squares there
   is a wall or there is none, and it is the same wall seen from either of them.
   A pawn builds one, a rook breaks one (engine.cpp:215-289, 847-877).        *)
EXTENDS Naturals

CONSTANT Edges      \* the pairs of neighbouring squares

VARIABLE walls      \* the pairs with a wall between them

Init == walls = {}

Build(e) == walls' = walls \cup {e}
Break(e) == walls' = walls \ {e}

Next == \E e \in Edges : Build(e) \/ Break(e)

Spec == Init /\ [][Next]_walls

=============================================================================
