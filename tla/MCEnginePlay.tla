---------------------------- MODULE MCEnginePlay ----------------------------
(* Instances of EnginePlay for TLC: positions to start from and squares to
   click on.                                                                  *)
EXTENDS EnginePlay, TLC

OtherKing(p) == Reverse(KingHome(Other(p)))

(* An engine with the two kings at home, these pieces, [square |-> piece], and
   these walls.                                                               *)
Position(p, pieces, walls) ==
    LET all == pieces @@ (KingHome(p) :> <<p, "KING">>)
                      @@ (OtherKing(p) :> <<Other(p), "KING">>)
    IN  [NewEngine(p) EXCEPT
            !.board = [s \in Square |-> IF s \in DOMAIN all THEN all[s] ELSE Empty],
            !.walls = walls]

-----------------------------------------------------------------------------
(* One piece in the middle, at 27: pieces of both sides next to it and further
   off on a row, a column and a diagonal, and walls around its up-left corner
   and to its right.                                                          *)

Others == {9, 19, 28, 30}

Around == {Wall(27, Up), Wall(27, Left), Wall(18, Down), Wall(18, Right),
           Wall(28, Right)}

Middle(p, kind, near, walls) == Position(p, near @@ (27 :> <<p, kind>>), walls)

(* The king in the middle has moved.                                          *)
KingInMiddle(p, near, walls) ==
    [Position(p, near @@ (27 :> <<p, "KING">>) @@ (KingHome(p) :> Empty), walls)
        EXCEPT !.kingMoved = TRUE]

Near(p) == [Others -> {Empty, <<p, "PAWN">>, <<Other(p), "PAWN">>}]
Bare == [s \in Others |-> Empty]

MiddleStarts ==
    UNION {{Middle(p, kind, near, {}) : near \in Near(p)}
           \cup {Middle(p, kind, Bare, walls) : walls \in SUBSET Around}
           : p \in Player, kind \in {"QUEEN", "ROOK", "BISHOP", "KNIGHT"}}
    \cup UNION {{KingInMiddle(p, near, {}) : near \in Near(p)} : p \in Player}

MiddleClicks == {27} \X Square

-----------------------------------------------------------------------------
(* The home row, with every set of the pieces between king and rooks out of the
   way and the outer and middle files open; the opponent's rooks may come down
   on the rooks and go on to the king.                                        *)

OpenFiles == {8, 15, 48, 51, 52, 55}

HomeStarts ==
    UNION {{[NewEngine(p) EXCEPT
                !.board = [s \in Square |->
                    IF s \in cleared \cup OpenFiles THEN Empty ELSE @[s]]]
            : cleared \in SUBSET ({57, 58, 59, 60, 61, 62}
                                    \ {KingHome(p)})}
           : p \in Player}

HomeClicks ==
    ({59, 60} \X {52, 57, 58, 59, 60, 61, 62}) \cup {<<56, 57>>, <<63, 62>>, <<62, 63>>}

HomeTaken == {<<0, 56>>, <<7, 63>>, <<56, 59>>, <<63, 60>>}

-----------------------------------------------------------------------------
(* Pawns: one about to promote, forward or by a capture; one to step twice; one
   beside which the opponent steps twice, with a rook to take that pawn, and a
   knight on either side to go where it would be taken en passant.            *)

PawnPieces(p) ==
    LET own(kind) == <<p, kind>>
        other(kind) == <<Other(p), kind>>
    IN  (1 :> other("ROOK")) @@ (10 :> own("PAWN")) @@ (11 :> other("PAWN"))
        @@ (28 :> own("PAWN")) @@ (43 :> own("ROOK")) @@ (52 :> own("PAWN"))
        @@ (49 :> other("PAWN")) @@ (56 :> own("ROOK"))
        @@ (34 :> own("KNIGHT")) @@ (9 :> other("KNIGHT"))

PawnStarts == {Position(p, PawnPieces(p), walls) :
                  p \in Player, walls \in {{}, {Wall(28, Up)}}}

PawnClicks == {<<10, 2>>, <<10, 1>>, <<10, 3>>, <<28, 20>>, <<28, 19>>, <<28, 21>>,
               <<52, 36>>, <<43, 27>>, <<34, 19>>}

PawnWalls == {<<28, 20>>, <<28, 30>>, <<52, 43>>}

PawnOpponent == {<<1, 2>>, <<9, 19>>, <<27, 35>>, <<49, 56>>, <<49, 57>>}

OpponentPawnWalls == {<<27, 35>>, <<49, 48>>}

PawnStepTwice == {11}

-----------------------------------------------------------------------------
(* What each play has.                                                        *)

MCPlays == {"middle", "home", "pawns"}

MCStarts == [middle |-> MiddleStarts, home |-> HomeStarts, pawns |-> PawnStarts]
MCClicks == [middle |-> MiddleClicks, home |-> HomeClicks, pawns |-> PawnClicks]
MCWallClicks == [middle |-> {}, home |-> {}, pawns |-> PawnWalls]
MCOpponentMoves == [middle |-> {}, home |-> HomeTaken, pawns |-> PawnOpponent]
MCOpponentWalls == [middle |-> {}, home |-> {}, pawns |-> OpponentPawnWalls]
MCOpportunities == [middle |-> {}, home |-> {}, pawns |-> PawnStepTwice]
MCMaxCalls == [middle |-> 1, home |-> 3, pawns |-> 4]

OneCall == [x \in MCPlays |-> 1]

=============================================================================
