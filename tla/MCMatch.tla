------------------------------- MODULE MCMatch -------------------------------
(* Instances of Match for TLC: positions, seen by White, and clicks, each
   player's own view.                                                         *)
EXTENDS Match, TLC

Position(pieces, walls) ==
    LET all == pieces @@ (60 :> <<"W", "KING">>) @@ (4 :> <<"B", "KING">>)
    IN  [NewEngine("W") EXCEPT
            !.board = [s \in Square |-> IF s \in DOMAIN all THEN all[s] ELSE Empty],
            !.walls = walls]

W(kind) == <<"W", kind>>
B(kind) == <<"B", kind>>

(* White may castle, and Black's rook looks at the king.                      *)
Castle == Position((63 :> W("ROOK")) @@ (20 :> B("ROOK")) @@ (0 :> B("ROOK")), {})

(* White may step twice past a pawn of Black's, which may take en passant, or
   nothing, or the pawn and the rook that went where it passed, through a wall
   that stood before it.                                                      *)
Pawns == Position((52 :> W("PAWN")) @@ (37 :> B("PAWN")) @@ (28 :> W("PAWN"))
                    @@ (40 :> W("ROOK")), {Wall(40, Right)})

(* White's pawn is about to promote, beside a rook of Black's that may take it
   there; Black's king is in reach of the pawn.                               *)
Promotion == Position((11 :> W("PAWN")) @@ (2 :> B("ROOK")), {})

MatchStarts == {Castle, Pawns, Promotion}

MatchClicks ==
    [p \in Player |->
        IF p = "W"
        THEN {<<60, 62>>, <<60, 61>>, <<52, 36>>, <<40, 44>>, <<11, 3>>, <<11, 4>>}
        ELSE {<<43, 3>>, <<43, 51>>, <<59, 61>>, <<26, 19>>, <<61, 60>>}]

MatchWalls == [p \in Player |-> IF p = "W" THEN {<<28, 20>>} ELSE {<<26, 18>>}]

(* Dead memory that reads as walls all over.                                  *)
MatchOverwrites == {AllWalls}

(* Only kings in danger, for what becomes of the loser.                       *)
EndStarts == {Castle, Promotion}

EndClicks ==
    [p \in Player |-> IF p = "W" THEN {<<60, 61>>, <<11, 4>>}
                      ELSE {<<43, 3>>, <<59, 60>>}]

NoWalls == [p \in Player |-> {}]

=============================================================================
