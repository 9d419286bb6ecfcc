---------------------------- MODULE EngineProofs ----------------------------
(* What the operations of ChessEngine do to an engine, for every board, every
   set of walls and all squares: the lemmas PlayProofs and MatchProofs rest on.

   Whatever piece is moved and whatever comes of it, a call of move_piece has
   one of six outcomes (MoveOutcome); the properties of the games follow from
   these, and no proof about a game looks into the walks of the pieces again.  *)
EXTENDS ChessEngine, FiniteSetTheorems, TLAPS

-----------------------------------------------------------------------------
(* Squares.                                                                   *)

LEMMA RowCol ==
  \A s \in Square : Row(s) \in 0..7 /\ Col(s) \in 0..7 /\ s = 8 * Row(s) + Col(s)
  BY DEF Square, Row, Col

LEMMA RowsAreEights ==
  \A s \in Square : Row(s) = 0 <=> s \in 0..7
  BY DEF Square, Row

LEMMA AtSquare ==
  \A r, c \in 0..7 : At(r, c) \in Square /\ Row(At(r, c)) = r /\ Col(At(r, c)) = c
  BY DEF Square, Row, Col, At

(* Seen from the other side and back again, a square is itself.               *)
LEMMA ReverseSquare ==
  \A s \in Square : Reverse(s) \in Square /\ Reverse(s) = 63 - s /\ Reverse(Reverse(s)) = s
<1>1. \A s \in Square : Reverse(s) \in Square /\ Reverse(s) = 63 - s
  BY RowCol DEF Square, At, Reverse
<1> QED
  BY <1>1 DEF Square

LEMMA OtherPlayer ==
  \A p \in Player : Other(p) \in Player /\ Other(p) # p /\ Other(Other(p)) = p
  BY DEF Player, Other

(* A piece is nobody's, or a kind of a player's.                              *)
LEMMA PieceCases ==
  \A x \in Pieces :
    \/ x = Empty /\ x[1] = "" /\ x[2] = ""
    \/ x[1] \in Player /\ x[2] \in Kind /\ x = <<x[1], x[2]>> /\ x # Empty
<1>1. Empty[1] = "" /\ Empty[2] = ""
  BY DEF Empty
<1>2. ASSUME NEW x \in Player \X Kind
      PROVE  x[1] \in Player /\ x[2] \in Kind /\ x = <<x[1], x[2]>> /\ x # Empty
  <2>1. x[1] \in Player /\ x[2] \in Kind /\ x = <<x[1], x[2]>>
    OBVIOUS
  <2>2. x[1] # Empty[1]
    BY <1>1, <2>1 DEF Player
  <2> QED
    BY <2>1, <2>2
<1>3. \A x \in Pieces : x = Empty \/ x \in Player \X Kind
  BY DEF Pieces
<1> QED
  BY <1>1, <1>2, <1>3

(* Pieces differ in their owner or in their kind.                             *)
LEMMA PieceFacts ==
  ASSUME NEW p \in Player, NEW k \in Kind
  PROVE  /\ <<p, k>> # Empty /\ <<p, k>> \in Pieces
         /\ <<p, k>>[1] = p /\ <<p, k>>[2] = k /\ p # ""
         /\ \A l : <<p, k>> = <<p, l>> => l = k
         /\ \A l : <<Other(p), l>> # <<p, k>>
  BY OtherPlayer DEF Player, Kind, Empty, Pieces

LEMMA EngineFields ==
  ASSUME NEW e \in EngineType
  PROVE  /\ e.player \in Player
         /\ e.board \in [Square -> Pieces]
         /\ e.walls \in SUBSET AllWalls
         /\ e.timeOuts \in Seq(Square)
         /\ e.enPassant \in SUBSET [under : Int, when : Nat]
         /\ e.waiting \in [from : Int, to : Int]
         /\ e.kingMoved \in BOOLEAN
         /\ e.moves \in Nat
         /\ e.left \in Int
  BY DEF EngineType

-----------------------------------------------------------------------------
(* Writing one component keeps the type and the other ones.                   *)

LEMMA WriteBoard ==
  ASSUME NEW e \in EngineType, NEW v \in [Square -> Pieces]
  PROVE  LET g == [e EXCEPT !.board = v]
         IN  /\ g \in EngineType /\ g.board = v
             /\ g.player = e.player /\ g.walls = e.walls /\ g.timeOuts = e.timeOuts
             /\ g.enPassant = e.enPassant /\ g.waiting = e.waiting /\ g.kingMoved = e.kingMoved
             /\ g.moves = e.moves /\ g.left = e.left
  BY DEF EngineType

LEMMA WriteWalls ==
  ASSUME NEW e \in EngineType, NEW v \in SUBSET AllWalls
  PROVE  LET g == [e EXCEPT !.walls = v]
         IN  /\ g \in EngineType /\ g.walls = v
             /\ g.player = e.player /\ g.board = e.board /\ g.timeOuts = e.timeOuts
             /\ g.enPassant = e.enPassant /\ g.waiting = e.waiting /\ g.kingMoved = e.kingMoved
             /\ g.moves = e.moves /\ g.left = e.left
  BY DEF EngineType

LEMMA WriteTimeOuts ==
  ASSUME NEW e \in EngineType, NEW v \in Seq(Square)
  PROVE  LET g == [e EXCEPT !.timeOuts = v]
         IN  /\ g \in EngineType /\ g.timeOuts = v
             /\ g.player = e.player /\ g.board = e.board /\ g.walls = e.walls
             /\ g.enPassant = e.enPassant /\ g.waiting = e.waiting /\ g.kingMoved = e.kingMoved
             /\ g.moves = e.moves /\ g.left = e.left
  BY DEF EngineType

LEMMA WriteEnPassant ==
  ASSUME NEW e \in EngineType, NEW v \in SUBSET [under : Int, when : Nat]
  PROVE  LET g == [e EXCEPT !.enPassant = v]
         IN  /\ g \in EngineType /\ g.enPassant = v
             /\ g.player = e.player /\ g.board = e.board /\ g.walls = e.walls
             /\ g.timeOuts = e.timeOuts /\ g.waiting = e.waiting /\ g.kingMoved = e.kingMoved
             /\ g.moves = e.moves /\ g.left = e.left
  BY DEF EngineType

LEMMA WriteWaiting ==
  ASSUME NEW e \in EngineType, NEW v \in [from : Int, to : Int]
  PROVE  LET g == [e EXCEPT !.waiting = v]
         IN  /\ g \in EngineType /\ g.waiting = v
             /\ g.player = e.player /\ g.board = e.board /\ g.walls = e.walls
             /\ g.timeOuts = e.timeOuts /\ g.enPassant = e.enPassant /\ g.kingMoved = e.kingMoved
             /\ g.moves = e.moves /\ g.left = e.left
  BY DEF EngineType

LEMMA WriteKingMoved ==
  ASSUME NEW e \in EngineType, NEW v \in BOOLEAN
  PROVE  LET g == [e EXCEPT !.kingMoved = v]
         IN  /\ g \in EngineType /\ g.kingMoved = v
             /\ g.player = e.player /\ g.board = e.board /\ g.walls = e.walls
             /\ g.timeOuts = e.timeOuts /\ g.enPassant = e.enPassant /\ g.waiting = e.waiting
             /\ g.moves = e.moves /\ g.left = e.left
  BY DEF EngineType

LEMMA WriteLeft ==
  ASSUME NEW e \in EngineType, NEW v \in Int
  PROVE  LET g == [e EXCEPT !.left = v]
         IN  /\ g \in EngineType /\ g.left = v
             /\ g.player = e.player /\ g.board = e.board /\ g.walls = e.walls
             /\ g.timeOuts = e.timeOuts /\ g.enPassant = e.enPassant /\ g.waiting = e.waiting
             /\ g.kingMoved = e.kingMoved /\ g.moves = e.moves
  BY DEF EngineType

-----------------------------------------------------------------------------
(* What a call of move_piece may come to.                                     *)

Relocated(b, from, to) == [b EXCEPT ![to] = b[from], ![from] = Empty]

(* The move counts: it is dated, opportunities run out, the piece rests.      *)
Counts(e, f, to) ==
    /\ f.moves = e.moves + 1
    /\ f.timeOuts = Append(e.timeOuts, to)
    /\ f.enPassant = {ep \in e.enPassant : ep.when + 1 # e.moves}

Waits(e, f, from, to) ==
    f.waiting = IF e.board[from][2] = "PAWN" /\ Row(to) = 0
                THEN [from |-> from, to |-> to] ELSE e.waiting

Refused(e, f, res) ==
    /\ res = "INVALID"
    /\ f.board = e.board /\ f.moves = e.moves /\ f.timeOuts = e.timeOuts
    /\ f.enPassant = e.enPassant /\ f.waiting = e.waiting /\ f.left = e.left

(* Nothing moved and nothing taken, though a capture is reported.             *)
Void(e, f, res, from, to) ==
    res = "CAPTURE" /\ f = e /\ e.board[from][2] = "PAWN" /\ Row(to) = Row(from) - 1

Stepped(e, f, res, from, to) ==
    /\ res \in {"SUCCESS", "PROMOTION", "EN_PASSENT_OPPORTUNITY"}
    /\ res = "PROMOTION" <=> (e.board[from][2] = "PAWN" /\ Row(to) = 0)
    /\ res = "EN_PASSENT_OPPORTUNITY" =>
          e.board[from][2] = "PAWN" /\ Row(from) = 6 /\ Row(to) = 4
    /\ e.board[to] = Empty
    /\ f.board = Relocated(e.board, from, to) /\ f.left = e.left
    /\ Counts(e, f, to) /\ Waits(e, f, from, to)

Took(e, f, res, from, to) ==
    /\ res \in {"CAPTURE", "PROMOTION_CAPTURE"}
    /\ res = "PROMOTION_CAPTURE" <=> (e.board[from][2] = "PAWN" /\ Row(to) = 0)
    /\ is_other_player_piece(e, to)
    /\ f.board = Relocated(e.board, from, to) /\ f.left = e.left - 1
    /\ Counts(e, f, to) /\ Waits(e, f, from, to)

Passed(e, f, res, from, to) ==
    /\ res = "CAPTURE" /\ e.board[from][2] = "PAWN"
    /\ en_passent_avalible(e, to)
    /\ Row(to) = Row(from) - 1 /\ Col(to) # Col(from)
    /\ f.board = [Relocated(e.board, from, to) EXCEPT ![to + Down] = Empty]
    /\ f.left = e.left - 1 /\ f.waiting = e.waiting
    /\ Counts(e, f, to)

CastledBoard(e, w) ==
    [e.board EXCEPT ![w.rook] = Empty, ![w.king] = Empty,
                    ![w.kingTo] = <<e.player, "KING">>,
                    ![w.rookTo] = <<e.player, "ROOK">>]

Castled(e, f, res, from, to) ==
    /\ res = "SUCCESS" /\ ~e.kingMoved /\ f.kingMoved
    /\ e.board[from] = <<e.player, "KING">>
    /\ \E w \in Castling[e.player] :
          /\ w.to = to
          /\ e.board[w.rook] = <<e.player, "ROOK">>
          /\ \A s \in w.free : e.board[s] = Empty
          /\ f.board = CastledBoard(e, w)
    /\ f.moves = e.moves + 1 /\ f.timeOuts = e.timeOuts
    /\ f.enPassant = e.enPassant /\ f.waiting = e.waiting /\ f.left = e.left

(* Whatever the outcome: only a rook breaks walls, only a king is marked, and
   a king that has gone somewhere is marked.                                  *)
Always(e, f, from) ==
    /\ f \in EngineType /\ f.player = e.player
    /\ f.walls \subseteq e.walls
    /\ f.walls # e.walls => e.board[from] = <<e.player, "ROOK">>
    /\ e.kingMoved => f.kingMoved
    /\ f.kingMoved # e.kingMoved => e.board[from] = <<e.player, "KING">>
    /\ f.board # e.board /\ e.board[from] = <<e.player, "KING">> => f.kingMoved

Outcome(e, f, res, from, to) ==
    /\ Always(e, f, from)
    /\ \/ Refused(e, f, res)
       \/ /\ e.board[from][1] = e.player
          /\ \/ Void(e, f, res, from, to)
             \/ Stepped(e, f, res, from, to)
             \/ Took(e, f, res, from, to)
             \/ Passed(e, f, res, from, to)
             \/ Castled(e, f, res, from, to)

-----------------------------------------------------------------------------
(* The steps operations are made of.                                          *)

LEMMA RelocatedType ==
  ASSUME NEW b \in [Square -> Pieces], NEW from \in Square, NEW to \in Square
  PROVE  Relocated(b, from, to) \in [Square -> Pieces]
  BY DEF Relocated, Pieces

(* move_piece_no_check keeps the type and all that it does not write
   (engine.cpp:795-811).                                                      *)
LEMMA NoCheck ==
  ASSUME NEW e \in EngineType, NEW from \in Square, NEW to \in Square
  PROVE  LET f == move_piece_no_check(e, from, to)
         IN  /\ f \in EngineType
             /\ f.board = Relocated(e.board, from, to) /\ Counts(e, f, to)
             /\ f.player = e.player /\ f.walls = e.walls /\ f.waiting = e.waiting
             /\ f.kingMoved = e.kingMoved /\ f.left = e.left
<1> DEFINE b == Relocated(e.board, from, to)
           t == Append(e.timeOuts, to)
           o == {ep \in e.enPassant : ep.when + 1 # e.moves}
           n == e.moves + 1
           f == [e EXCEPT !.board = b, !.enPassant = o, !.moves = n, !.timeOuts = t]
<1>1. move_piece_no_check(e, from, to) = f
  BY DEF move_piece_no_check, Relocated
<1>2. b \in [Square -> Pieces] /\ t \in Seq(Square)
      /\ o \in SUBSET [under : Int, when : Nat] /\ n \in Nat
  BY EngineFields, RelocatedType
<1> HIDE DEF b, t, o, n
<1>3. f \in EngineType
  BY <1>2 DEF EngineType
<1>4. f.board = b /\ f.enPassant = o /\ f.moves = n /\ f.timeOuts = t
  BY DEF EngineType
<1>5. /\ f.player = e.player /\ f.walls = e.walls /\ f.waiting = e.waiting
      /\ f.kingMoved = e.kingMoved /\ f.left = e.left
  BY DEF EngineType
<1> HIDE DEF f
<1> QED
  BY <1>1, <1>3, <1>4, <1>5 DEF b, t, o, n, Counts

(* A piece taken is one left less.                                            *)
LEMMA TakenNoCheck ==
  ASSUME NEW e \in EngineType, NEW from \in Square, NEW to \in Square
  PROVE  LET g == [move_piece_no_check(e, from, to) EXCEPT !.left = @ - 1]
         IN  /\ g \in EngineType
             /\ g.board = Relocated(e.board, from, to) /\ Counts(e, g, to)
             /\ g.player = e.player /\ g.walls = e.walls /\ g.waiting = e.waiting
             /\ g.kingMoved = e.kingMoved /\ g.left = e.left - 1
<1> DEFINE f == move_piece_no_check(e, from, to)
           l == f.left - 1
           g == [f EXCEPT !.left = l]
<1>1. /\ f \in EngineType
      /\ f.board = Relocated(e.board, from, to) /\ Counts(e, f, to)
      /\ f.player = e.player /\ f.walls = e.walls /\ f.waiting = e.waiting
      /\ f.kingMoved = e.kingMoved /\ f.left = e.left
  BY NoCheck
<1>2. [f EXCEPT !.left = @ - 1] = g
  OBVIOUS
<1> HIDE DEF f
<1>3. l \in Int /\ l = e.left - 1
  BY <1>1, EngineFields
<1> HIDE DEF l
<1>4. /\ g \in EngineType /\ g.left = l
      /\ g.board = f.board /\ g.player = f.player /\ g.walls = f.walls
      /\ g.waiting = f.waiting /\ g.kingMoved = f.kingMoved /\ g.moves = f.moves
      /\ g.timeOuts = f.timeOuts /\ g.enPassant = f.enPassant
  BY <1>1, <1>3, WriteLeft
<1> HIDE DEF g
<1>5. Counts(e, g, to)
  BY <1>1, <1>4 DEF Counts
<1> QED
  BY <1>1, <1>2, <1>3, <1>4, <1>5 DEF f

(* TakeOrStep takes what is the opponent's, steps onto an empty square, and
   refuses the player's own (engine.cpp:698-713).                             *)
LEMMA TakeOrStepOutcome ==
  ASSUME NEW e \in EngineType, NEW from \in Square, NEW to \in Square,
         e.board[from][1] = e.player, e.board[from][2] # "PAWN"
  PROVE  LET r == TakeOrStep(e, from, to)
         IN  /\ r[1] \in EngineType /\ r[1].player = e.player
             /\ r[1].walls = e.walls /\ r[1].kingMoved = e.kingMoved
             /\ \/ r = <<e, "INVALID">> /\ e.board[to][1] = e.player
                \/ Stepped(e, r[1], r[2], from, to)
                \/ Took(e, r[1], r[2], from, to)
<1> DEFINE f == move_piece_no_check(e, from, to)
           g == [f EXCEPT !.left = @ - 1]
           r == TakeOrStep(e, from, to)
<1>1. /\ f \in EngineType
      /\ f.board = Relocated(e.board, from, to) /\ Counts(e, f, to)
      /\ f.player = e.player /\ f.walls = e.walls /\ f.waiting = e.waiting
      /\ f.kingMoved = e.kingMoved /\ f.left = e.left
  BY NoCheck
<1>2. /\ g \in EngineType
      /\ g.board = Relocated(e.board, from, to) /\ Counts(e, g, to)
      /\ g.player = e.player /\ g.walls = e.walls /\ g.waiting = e.waiting
      /\ g.kingMoved = e.kingMoved /\ g.left = e.left - 1
  BY TakenNoCheck
<1>3. CASE is_other_player_piece(e, to)
  <2>1. e.board[to] # Empty
    BY <1>3, EngineFields, PieceCases DEF is_other_player_piece, Other, Player
  <2>2. r = <<g, "CAPTURE">>
    BY <1>3, <2>1 DEF TakeOrStep
  <2> HIDE DEF f, g, r
  <2> QED
    BY <1>2, <1>3, <2>2 DEF Took, Waits, r
<1>4. CASE ~is_other_player_piece(e, to) /\ e.board[to] = Empty
  <2>1. r = <<f, "SUCCESS">>
    BY <1>4 DEF TakeOrStep
  <2> HIDE DEF f, g, r
  <2> QED
    BY <1>1, <1>4, <2>1 DEF Stepped, Waits, r
<1>5. CASE ~is_other_player_piece(e, to) /\ e.board[to] # Empty
  <2>1. r = <<e, "INVALID">>
    BY <1>5 DEF TakeOrStep
  <2>2. e.board[to][1] = e.player
    BY <1>5, EngineFields, PieceCases DEF is_other_player_piece, Other, Player
  <2> HIDE DEF f, g, r
  <2> QED
    BY <2>1, <2>2 DEF r
<1> QED
  BY <1>3, <1>4, <1>5

(* A refused call changes nothing, or only breaks walls (engine.cpp:719, 847). *)
LEMMA RefusedOutcome ==
  ASSUME NEW e \in EngineType, NEW from \in Square, NEW to \in Square
  PROVE  Outcome(e, e, "INVALID", from, to)
  BY EngineFields DEF Outcome, Always, Refused

(* What is not a pawn or a king has nothing more to it.                       *)
LEMMA TakeOrStepAlways ==
  ASSUME NEW e \in EngineType, NEW from \in Square, NEW to \in Square,
         e.board[from][1] = e.player, e.board[from][2] \notin {"PAWN", "KING"}
  PROVE  LET r == TakeOrStep(e, from, to) IN Outcome(e, r[1], r[2], from, to)
<1> DEFINE r == TakeOrStep(e, from, to)
<1>1. /\ r[1] \in EngineType /\ r[1].player = e.player
      /\ r[1].walls = e.walls /\ r[1].kingMoved = e.kingMoved
      /\ \/ r = <<e, "INVALID">> /\ e.board[to][1] = e.player
         \/ Stepped(e, r[1], r[2], from, to)
         \/ Took(e, r[1], r[2], from, to)
  BY TakeOrStepOutcome
<1> HIDE DEF r
<1>2. Always(e, r[1], from)
  BY <1>1 DEF Always
<1>3. CASE r = <<e, "INVALID">>
  <2>1. r[1] = e /\ r[2] = "INVALID"
    BY <1>3
  <2> QED
    BY <2>1, RefusedOutcome DEF r
<1>4. CASE r # <<e, "INVALID">>
  BY <1>1, <1>2, <1>4 DEF Outcome, r
<1> QED
  BY <1>3, <1>4 DEF r

-----------------------------------------------------------------------------
(* The pieces.                                                                *)

LEMMA KnightOutcome ==
  ASSUME NEW e \in EngineType, NEW from \in Square, NEW to \in Square,
         e.board[from] = <<e.player, "KNIGHT">>
  PROVE  LET r == handle_knight_move(e, from, to) IN Outcome(e, r[1], r[2], from, to)
<1>1. e.board[from][1] = e.player /\ e.board[from][2] \notin {"PAWN", "KING"}
  OBVIOUS
<1> DEFINE t == TakeOrStep(e, from, to)
           r == handle_knight_move(e, from, to)
<1>2. Outcome(e, t[1], t[2], from, to)
  BY <1>1, TakeOrStepAlways
<1>3. r = t \/ r = <<e, "INVALID">>
  BY DEF handle_knight_move
<1> HIDE DEF t, r
<1> QED
  BY <1>2, <1>3, RefusedOutcome DEF r

LEMMA BishopOutcome ==
  ASSUME NEW e \in EngineType, NEW from \in Square, NEW to \in Square,
         e.board[from] \in {<<e.player, "BISHOP">>, <<e.player, "QUEEN">>}
  PROVE  LET r == handle_bishop_move(e, from, to) IN Outcome(e, r[1], r[2], from, to)
<1>1. e.board[from][1] = e.player /\ e.board[from][2] \notin {"PAWN", "KING"}
  OBVIOUS
<1> DEFINE t == TakeOrStep(e, from, to)
           r == handle_bishop_move(e, from, to)
<1>2. Outcome(e, t[1], t[2], from, to)
  BY <1>1, TakeOrStepAlways
<1>3. r = t \/ r = <<e, "INVALID">>
  BY DEF handle_bishop_move
<1> HIDE DEF t, r
<1> QED
  BY <1>2, <1>3, RefusedOutcome DEF r

(* The walls a rook breaks are all that its way changes.                      *)
Broken(e, from, to) ==
    LET dir == Straight(from, to)
        walked == Walk(e, from, to, dir, {})
    IN  {Wall(from + i * dir, dir) : i \in 0..(walked - 1)}

LEMMA RookWay ==
  ASSUME NEW e \in EngineType, NEW from \in Square, NEW to \in Square
  PROVE  LET r == move_up_down_left_right(e, from, to, TRUE)
             after == [e EXCEPT !.walls = @ \ Broken(e, from, to)]
         IN  \/ r = <<e, "INVALID">>
             \/ /\ Row(from) = Row(to) \/ Col(from) = Col(to)
                /\ from # to
                /\ r = <<after, "INVALID">> \/ r = TakeOrStep(after, from, to)
<1> DEFINE dir == Straight(from, to)
           walled == {i \in 0..(Steps(from, to) - 1) :
                        /\ ~TRUE
                        /\ ~can_move_straight_wall_check(e, from + i * dir, dir)}
           broken == {Wall(from + i * dir, dir) : i \in 0..(Walk(e, from, to, dir, walled) - 1)}
           after == [e EXCEPT !.walls = @ \ broken]
           r == move_up_down_left_right(e, from, to, TRUE)
<1>1. walled = {}
  OBVIOUS
<1>2. broken = Broken(e, from, to)
  BY <1>1 DEF Broken
<1>3. \/ r = <<e, "INVALID">>
      \/ /\ Row(from) = Row(to) \/ Col(from) = Col(to)
         /\ from # to
         /\ r = <<after, "INVALID">> \/ r = TakeOrStep(after, from, to)
  BY DEF move_up_down_left_right, Resting
<1> QED
  BY <1>2, <1>3

LEMMA QueenWay ==
  ASSUME NEW e \in EngineType, NEW from \in Square, NEW to \in Square
  PROVE  LET r == move_up_down_left_right(e, from, to, FALSE)
         IN  r = <<e, "INVALID">> \/ r = TakeOrStep(e, from, to)
  BY DEF move_up_down_left_right

LEMMA QueenOutcome ==
  ASSUME NEW e \in EngineType, NEW from \in Square, NEW to \in Square,
         e.board[from] = <<e.player, "QUEEN">>
  PROVE  LET r == handle_queen_move(e, from, to) IN Outcome(e, r[1], r[2], from, to)
<1>1. e.board[from][1] = e.player /\ e.board[from][2] \notin {"PAWN", "KING"}
  OBVIOUS
<1> DEFINE t == TakeOrStep(e, from, to)
           b == handle_bishop_move(e, from, to)
           r == handle_queen_move(e, from, to)
<1>2. Outcome(e, t[1], t[2], from, to) /\ Outcome(e, b[1], b[2], from, to)
  BY <1>1, TakeOrStepAlways, BishopOutcome
<1>3. r = b \/ r = t \/ r = <<e, "INVALID">>
  BY QueenWay DEF handle_queen_move
<1> HIDE DEF t, b, r
<1> QED
  BY <1>2, <1>3, RefusedOutcome DEF r

LEMMA RookOutcome ==
  ASSUME NEW e \in EngineType, NEW from \in Square, NEW to \in Square,
         e.board[from] = <<e.player, "ROOK">>
  PROVE  LET r == move_up_down_left_right(e, from, to, TRUE)
         IN  Outcome(e, r[1], r[2], from, to)
<1> DEFINE ws == e.walls \ Broken(e, from, to)
           after == [e EXCEPT !.walls = ws]
           t == TakeOrStep(after, from, to)
           r == move_up_down_left_right(e, from, to, TRUE)
<1> SUFFICES Outcome(e, r[1], r[2], from, to)
  OBVIOUS
<1>1. ws \in SUBSET AllWalls /\ ws \subseteq e.walls
  BY EngineFields
<1>2. r = <<e, "INVALID">> \/ r = <<after, "INVALID">> \/ r = t
  BY RookWay
<1> HIDE DEF ws, r
<1>3. /\ after \in EngineType /\ after.walls = ws
      /\ after.player = e.player /\ after.board = e.board /\ after.timeOuts = e.timeOuts
      /\ after.enPassant = e.enPassant /\ after.waiting = e.waiting
      /\ after.kingMoved = e.kingMoved /\ after.moves = e.moves /\ after.left = e.left
  BY <1>1, WriteWalls
<1> HIDE DEF after
<1>4. /\ t[1] \in EngineType /\ t[1].player = e.player
      /\ t[1].walls = ws /\ t[1].kingMoved = e.kingMoved
      /\ \/ t = <<after, "INVALID">>
         \/ Stepped(after, t[1], t[2], from, to)
         \/ Took(after, t[1], t[2], from, to)
  BY <1>3, TakeOrStepOutcome
<1> HIDE DEF t
<1>5. CASE r = <<e, "INVALID">>
  <2>1. r[1] = e /\ r[2] = "INVALID"
    BY <1>5
  <2> QED
    BY <2>1, RefusedOutcome
<1>6. CASE r = <<after, "INVALID">>
  <2>1. r[1] = after /\ r[2] = "INVALID"
    BY <1>6
  <2>2. Always(e, after, from)
    BY <1>1, <1>3 DEF Always
  <2>3. Refused(e, after, "INVALID")
    BY <1>3 DEF Refused
  <2> QED
    BY <2>1, <2>2, <2>3 DEF Outcome
<1>7. CASE r = t /\ t # <<after, "INVALID">>
  <2>1. Always(e, t[1], from)
    BY <1>1, <1>4 DEF Always
  <2>2. Stepped(e, t[1], t[2], from, to) \/ Took(e, t[1], t[2], from, to)
    BY <1>3, <1>4, <1>7 DEF Stepped, Took, Counts, Waits, is_other_player_piece
  <2> QED
    BY <1>3, <1>7, <2>1, <2>2 DEF Outcome
<1> QED
  BY <1>2, <1>5, <1>6, <1>7

(* The ways to castle: king and rook end beside each other on squares that are
   free, or the king's own (engine.cpp:597-652).                              *)
LEMMA CastlingWays ==
  ASSUME NEW p \in Player, NEW w \in Castling[p]
  PROVE  /\ w.king = KingHome(p) /\ w.king \in 56..63
         /\ w.rook \in {56, 63} /\ w.rook # w.king
         /\ w.kingTo \in w.free /\ w.rookTo \in w.free /\ w.kingTo # w.rookTo
         /\ w.free \subseteq 57..62 /\ w.king \notin w.free
<1>1. CASE p = "W"
  <2>1. w \in {[to |-> 58, rook |-> 56, free |-> {57, 58, 59}, king |-> 60,
                kingTo |-> 58, rookTo |-> 57],
               [to |-> 62, rook |-> 63, free |-> {61, 62}, king |-> 60,
                kingTo |-> 61, rookTo |-> 62]}
    BY <1>1 DEF Castling
  <2> QED
    BY <1>1, <2>1 DEF KingHome
<1>2. CASE p = "B"
  <2>1. w \in {[to |-> 57, rook |-> 56, free |-> {57, 58}, king |-> 59,
                kingTo |-> 57, rookTo |-> 58],
               [to |-> 61, rook |-> 63, free |-> {60, 61, 62}, king |-> 59,
                kingTo |-> 61, rookTo |-> 60]}
    BY <1>2 DEF Castling
  <2> QED
    BY <1>2, <2>1 DEF KingHome
<1> QED
  BY <1>1, <1>2 DEF Player

LEMMA CastlingSquares ==
  ASSUME NEW p \in Player, NEW w \in Castling[p]
  PROVE  /\ w.king \in Square /\ w.rook \in Square /\ w.kingTo \in Square
         /\ w.rookTo \in Square /\ w.free \subseteq Square
<1>1. 57..62 \subseteq Square /\ 56..63 \subseteq Square /\ {56, 63} \subseteq Square
  BY DEF Square
<1> QED
  BY <1>1, CastlingWays

LEMMA CastlingOutcome ==
  ASSUME NEW e \in EngineType, NEW to \in Square
  PROVE  LET r == handle_castling(e, to)
             f == r[1]
         IN  \/ r = <<e, "INVALID">>
             \/ /\ r[2] = "SUCCESS" /\ ~e.kingMoved
                /\ f \in EngineType /\ f.kingMoved
                /\ \E w \in Castling[e.player] :
                      /\ w.to = to
                      /\ e.board[w.rook] = <<e.player, "ROOK">>
                      /\ \A s \in w.free : e.board[s] = Empty
                      /\ f.board = CastledBoard(e, w)
                /\ f.moves = e.moves + 1 /\ f.timeOuts = e.timeOuts
                /\ f.enPassant = e.enPassant /\ f.waiting = e.waiting
                /\ f.left = e.left /\ f.player = e.player /\ f.walls = e.walls
<1> DEFINE ways == {w \in Castling[e.player] :
                      /\ w.to = to
                      /\ e.board[w.rook] = <<e.player, "ROOK">>
                      /\ \A s \in w.free : e.board[s] = Empty}
           w == CHOOSE x \in ways : TRUE
           b == CastledBoard(e, w)
           n == e.moves + 1
           f == [e EXCEPT !.board = b, !.kingMoved = TRUE, !.moves = n]
           r == handle_castling(e, to)
<1>1. CASE e.kingMoved \/ ways = {}
  BY <1>1 DEF handle_castling
<1>2. CASE ~e.kingMoved /\ ways # {}
  <2>1. r = <<f, "SUCCESS">>
    BY <1>2 DEF handle_castling, CastledBoard
  <2>2. w \in ways
    BY <1>2
  <2>3. /\ w \in Castling[e.player] /\ w.to = to
        /\ e.board[w.rook] = <<e.player, "ROOK">>
        /\ \A s \in w.free : e.board[s] = Empty
    BY <2>2
  <2> HIDE DEF w, r
  <2>4. /\ w.rook \in Square /\ w.king \in Square /\ w.kingTo \in Square
        /\ w.rookTo \in Square
    BY <2>3, CastlingSquares, EngineFields
  <2>5. <<e.player, "KING">> \in Pieces /\ <<e.player, "ROOK">> \in Pieces /\ Empty \in Pieces
    BY EngineFields DEF Pieces, Kind
  <2>6. b \in [Square -> Pieces]
    BY <2>4, <2>5, EngineFields DEF CastledBoard
  <2>7. n \in Nat
    BY EngineFields
  <2>8. b = CastledBoard(e, w) /\ n = e.moves + 1
    OBVIOUS
  <2> HIDE DEF b, n
  <2>9. f \in EngineType
    BY <2>6, <2>7 DEF EngineType
  <2>10. f.board = b /\ f.kingMoved = TRUE /\ f.moves = n
    BY DEF EngineType
  <2>11. /\ f.timeOuts = e.timeOuts /\ f.enPassant = e.enPassant /\ f.waiting = e.waiting
         /\ f.left = e.left /\ f.player = e.player /\ f.walls = e.walls
    BY DEF EngineType
  <2> HIDE DEF f
  <2>12. r[1] = f /\ r[2] = "SUCCESS"
    BY <2>1
  <2> QED
    BY <1>2, <2>3, <2>8, <2>9, <2>10, <2>11, <2>12 DEF r
<1> QED
  BY <1>1, <1>2

(* The king: marked by any attempt at a neighbour (engine.cpp:572-595).       *)
LEMMA KingOutcome ==
  ASSUME NEW e \in EngineType, NEW from \in Square, NEW to \in Square,
         e.board[from] = <<e.player, "KING">>
  PROVE  LET r == handle_king_move(e, from, to) IN Outcome(e, r[1], r[2], from, to)
<1> DEFINE near == /\ Abs(Row(to) - Row(from)) <= 1
                   /\ Abs(Col(to) - Col(from)) <= 1
           k == e.kingMoved \/ near
           marked == [e EXCEPT !.kingMoved = k]
           t == TakeOrStep(marked, from, to)
           c == handle_castling(marked, to)
           r == handle_king_move(e, from, to)
<1> SUFFICES Outcome(e, r[1], r[2], from, to)
  OBVIOUS
<1>1. \/ r = <<e, "INVALID">>
      \/ near /\ t[2] # "INVALID" /\ r = t
      \/ r = c /\ ~(near /\ t[2] # "INVALID")
  <2>1. CASE Resting(e, from, to)
    BY <2>1 DEF handle_king_move
  <2>2. CASE ~Resting(e, from, to) /\ near /\ t[2] # "INVALID"
    BY <2>2 DEF handle_king_move
  <2>3. CASE ~Resting(e, from, to) /\ ~(near /\ t[2] # "INVALID")
    BY <2>3 DEF handle_king_move
  <2> QED
    BY <2>1, <2>2, <2>3
<1>2. k \in BOOLEAN
  BY EngineFields
<1>3. near => k
  OBVIOUS
<1>4. k => e.kingMoved \/ near
  OBVIOUS
<1>5. e.kingMoved => k
  OBVIOUS
<1> HIDE DEF near, k, r
<1>6. /\ marked \in EngineType /\ marked.kingMoved = k
      /\ marked.player = e.player /\ marked.board = e.board /\ marked.walls = e.walls
      /\ marked.timeOuts = e.timeOuts /\ marked.enPassant = e.enPassant
      /\ marked.waiting = e.waiting /\ marked.moves = e.moves /\ marked.left = e.left
  BY <1>2, WriteKingMoved
<1> HIDE DEF marked
<1>7. /\ t[1] \in EngineType /\ t[1].player = e.player
      /\ t[1].walls = e.walls /\ t[1].kingMoved = k
      /\ \/ t = <<marked, "INVALID">>
         \/ Stepped(marked, t[1], t[2], from, to)
         \/ Took(marked, t[1], t[2], from, to)
  BY <1>6, TakeOrStepOutcome
<1>8. CASE r = <<e, "INVALID">>
  <2>1. r[1] = e /\ r[2] = "INVALID"
    BY <1>8
  <2> QED
    BY <2>1, RefusedOutcome
<1>9. CASE near /\ t[2] # "INVALID" /\ r = t
  <2> HIDE DEF t
  <2>1. Always(e, t[1], from)
    BY <1>3, <1>4, <1>5, <1>6, <1>7, <1>9 DEF Always
  <2>2. Stepped(e, t[1], t[2], from, to) \/ Took(e, t[1], t[2], from, to)
    BY <1>6, <1>7, <1>9 DEF Stepped, Took, Counts, Waits, is_other_player_piece
  <2> QED
    BY <1>9, <2>1, <2>2 DEF Outcome
<1>10. CASE r = c
  <2>1. \/ c = <<marked, "INVALID">>
        \/ /\ c[2] = "SUCCESS" /\ ~marked.kingMoved
           /\ c[1] \in EngineType /\ c[1].kingMoved
           /\ \E w \in Castling[marked.player] :
                 /\ w.to = to
                 /\ marked.board[w.rook] = <<marked.player, "ROOK">>
                 /\ \A s \in w.free : marked.board[s] = Empty
                 /\ c[1].board = CastledBoard(marked, w)
           /\ c[1].moves = marked.moves + 1 /\ c[1].timeOuts = marked.timeOuts
           /\ c[1].enPassant = marked.enPassant /\ c[1].waiting = marked.waiting
           /\ c[1].left = marked.left /\ c[1].player = marked.player
           /\ c[1].walls = marked.walls
    BY <1>6, CastlingOutcome
  <2> HIDE DEF c
  <2>2. CASE c = <<marked, "INVALID">>
    <3>1. r[1] = marked /\ r[2] = "INVALID"
      BY <1>10, <2>2
    <3>2. Always(e, marked, from)
      BY <1>5, <1>6 DEF Always
    <3>3. Refused(e, marked, "INVALID")
      BY <1>6 DEF Refused
    <3> QED
      BY <3>1, <3>2, <3>3 DEF Outcome
  <2>3. CASE c # <<marked, "INVALID">>
    <3>1. ~e.kingMoved
      BY <1>5, <1>6, <2>1, <2>3
    <3>2. Always(e, c[1], from)
      BY <1>6, <2>1, <2>3, <3>1 DEF Always
    <3>3. Castled(e, c[1], c[2], from, to)
      <4>1. PICK w \in Castling[e.player] :
               /\ w.to = to
               /\ e.board[w.rook] = <<e.player, "ROOK">>
               /\ \A s \in w.free : e.board[s] = Empty
               /\ c[1].board = CastledBoard(marked, w)
        BY <1>6, <2>1, <2>3
      <4>2. CastledBoard(marked, w) = CastledBoard(e, w)
        BY <1>6 DEF CastledBoard
      <4> QED
        BY <1>6, <2>1, <2>3, <3>1, <4>1, <4>2 DEF Castled
    <3> QED
      BY <1>10, <3>2, <3>3 DEF Outcome
  <2> QED
    BY <2>2, <2>3
<1> QED
  BY <1>1, <1>8, <1>9, <1>10

NoCheckPassant(e, from, to) ==
    [move_piece_no_check(e, from, to) EXCEPT !.board[to + Down] = Empty, !.left = @ - 1]

(* What a pawn does, as a choice of engines (engine.cpp:394-460).             *)
LEMMA PawnCases ==
  ASSUME NEW e \in EngineType, NEW from \in Square, NEW to \in Square
  PROVE  LET r == handle_pawn_move(e, from, to)
             m == move_piece_no_check(e, from, to)
             g == [m EXCEPT !.left = @ - 1]
             x == [from |-> from, to |-> to]
         IN  \/ r = <<e, "INVALID">>
             \/ /\ e.board[to] = Empty /\ Row(to) = 0
                /\ r = <<[m EXCEPT !.waiting = x], "PROMOTION">>
             \/ e.board[to] = Empty /\ Row(to) # 0 /\ r = <<m, "SUCCESS">>
             \/ /\ e.board[to] = Empty /\ Row(from) = 6 /\ Row(to) = 4
                /\ r = <<m, "EN_PASSENT_OPPORTUNITY">>
             \/ /\ Row(to) = Row(from) - 1 /\ Col(to) # Col(from)
                /\ en_passent_avalible(e, to)
                /\ r = <<NoCheckPassant(e, from, to), "CAPTURE">>
             \/ /\ is_other_player_piece(e, to) /\ Row(to) = 0
                /\ r = <<[g EXCEPT !.waiting = x], "PROMOTION_CAPTURE">>
             \/ is_other_player_piece(e, to) /\ Row(to) # 0 /\ r = <<g, "CAPTURE">>
             \/ Row(to) = Row(from) - 1 /\ r = <<e, "CAPTURE">>
<1> DEFINE ahead == Row(to) = Row(from) - 1
           straight == Col(to) = Col(from)
           upFree == ~OnEdge(from, Up) /\ Wall(from, Up) \notin e.walls
           aside == Col(to) - Col(from)
           A == Resting(e, from, to)
           B == ~Resting(e, from, to) /\ upFree /\ straight /\ ahead /\ e.board[to] = Empty
           C == ~Resting(e, from, to) /\ upFree /\ straight /\ Row(from) = 6 /\ Row(to) = 4
                 /\ e.board[from + Up] = Empty /\ e.board[to] = Empty
           D == ~Resting(e, from, to) /\ ahead /\ aside \in {Left, Right}
                 /\ can_move_diagonal_wall_check(e, from, Up, aside)
           r == handle_pawn_move(e, from, to)
<1>1. Row(to) \in Int /\ Row(from) \in Int /\ Col(to) \in Int /\ Col(from) \in Int
  BY RowCol
<1>2. ~(B /\ C)
  BY <1>1
<1>3. D => ahead /\ ~straight
  BY <1>1 DEF Left, Right
<1>4. CASE A
  BY <1>4 DEF handle_pawn_move
<1>5. CASE B
  <2>1. ~A /\ ~C /\ ~D
    BY <1>2, <1>3, <1>5
  <2> QED
    BY <1>5, <2>1 DEF handle_pawn_move
<1>6. CASE C
  <2>1. ~A /\ ~B /\ ~D
    BY <1>2, <1>3, <1>6
  <2> QED
    BY <1>6, <2>1 DEF handle_pawn_move
<1>7. CASE D
  <2>1. ~A /\ ~B /\ ~C
    BY <1>2, <1>3, <1>7
  <2> QED
    BY <1>3, <1>7, <2>1 DEF handle_pawn_move, NoCheckPassant
<1>8. CASE ~A /\ ~B /\ ~C /\ ~D
  BY <1>8 DEF handle_pawn_move
<1> QED
  BY <1>4, <1>5, <1>6, <1>7, <1>8

(* Taking en passant: the square below is emptied, too.                       *)
LEMMA PassedNoCheck ==
  ASSUME NEW e \in EngineType, NEW from \in Square, NEW to \in Square, to + Down \in Square
  PROVE  LET h == NoCheckPassant(e, from, to)
         IN  /\ h \in EngineType
             /\ h.board = [Relocated(e.board, from, to) EXCEPT ![to + Down] = Empty]
             /\ Counts(e, h, to) /\ h.left = e.left - 1
             /\ h.player = e.player /\ h.walls = e.walls /\ h.waiting = e.waiting
             /\ h.kingMoved = e.kingMoved
<1> DEFINE f == move_piece_no_check(e, from, to)
           b == [f.board EXCEPT ![to + Down] = Empty]
           h1 == [f EXCEPT !.board = b]
           l == f.left - 1
           h == [h1 EXCEPT !.left = l]
<1>1. /\ f \in EngineType
      /\ f.board = Relocated(e.board, from, to) /\ Counts(e, f, to)
      /\ f.player = e.player /\ f.walls = e.walls /\ f.waiting = e.waiting
      /\ f.kingMoved = e.kingMoved /\ f.left = e.left
  BY NoCheck
<1> HIDE DEF f
<1>2. NoCheckPassant(e, from, to) = h
  <2>1. h1.left = f.left
    BY <1>1 DEF EngineType
  <2> QED
    BY <2>1 DEF NoCheckPassant, f
<1>3. b \in [Square -> Pieces] /\ l \in Int
  BY <1>1, EngineFields DEF Pieces
<1>4. b = [f.board EXCEPT ![to + Down] = Empty] /\ l = e.left - 1
  BY <1>1
<1> HIDE DEF b, l
<1>5. /\ h1 \in EngineType /\ h1.board = b
      /\ h1.player = f.player /\ h1.walls = f.walls /\ h1.waiting = f.waiting
      /\ h1.kingMoved = f.kingMoved /\ h1.moves = f.moves /\ h1.timeOuts = f.timeOuts
      /\ h1.enPassant = f.enPassant
  BY <1>1, <1>3, WriteBoard
<1> HIDE DEF h1
<1>6. /\ h \in EngineType /\ h.left = l /\ h.board = h1.board
      /\ h.player = h1.player /\ h.walls = h1.walls /\ h.waiting = h1.waiting
      /\ h.kingMoved = h1.kingMoved /\ h.moves = h1.moves /\ h.timeOuts = h1.timeOuts
      /\ h.enPassant = h1.enPassant
  BY <1>3, <1>5, WriteLeft
<1> HIDE DEF h
<1>7. Counts(e, h, to)
  BY <1>1, <1>5, <1>6 DEF Counts
<1>8. h.board = [Relocated(e.board, from, to) EXCEPT ![to + Down] = Empty]
  BY <1>1, <1>4, <1>5, <1>6
<1> QED
  BY <1>1, <1>2, <1>4, <1>5, <1>6, <1>7, <1>8 DEF f

LEMMA PawnOutcome ==
  ASSUME NEW e \in EngineType, NEW from \in Square, NEW to \in Square,
         e.board[from] = <<e.player, "PAWN">>
  PROVE  LET r == handle_pawn_move(e, from, to) IN Outcome(e, r[1], r[2], from, to)
<1> DEFINE m == move_piece_no_check(e, from, to)
           g == [m EXCEPT !.left = @ - 1]
           x == [from |-> from, to |-> to]
           mx == [m EXCEPT !.waiting = x]
           gx == [g EXCEPT !.waiting = x]
           h == NoCheckPassant(e, from, to)
           r == handle_pawn_move(e, from, to)
<1> SUFFICES Outcome(e, r[1], r[2], from, to)
  OBVIOUS
<1>1. /\ m \in EngineType
      /\ m.board = Relocated(e.board, from, to) /\ Counts(e, m, to)
      /\ m.player = e.player /\ m.walls = e.walls /\ m.waiting = e.waiting
      /\ m.kingMoved = e.kingMoved /\ m.left = e.left
  BY NoCheck
<1>2. /\ g \in EngineType
      /\ g.board = Relocated(e.board, from, to) /\ Counts(e, g, to)
      /\ g.player = e.player /\ g.walls = e.walls /\ g.waiting = e.waiting
      /\ g.kingMoved = e.kingMoved /\ g.left = e.left - 1
  BY TakenNoCheck
<1>3. ASSUME Row(to) = Row(from) - 1
      PROVE  /\ h \in EngineType
             /\ h.board = [Relocated(e.board, from, to) EXCEPT ![to + Down] = Empty]
             /\ Counts(e, h, to) /\ h.left = e.left - 1
             /\ h.player = e.player /\ h.walls = e.walls /\ h.waiting = e.waiting
             /\ h.kingMoved = e.kingMoved
  <2>1. to + Down \in Square
    BY <1>3 DEF Square, Row, Down
  <2> QED
    BY <2>1, PassedNoCheck
<1>4. \/ r = <<e, "INVALID">>
      \/ /\ e.board[to] = Empty /\ Row(to) = 0
         /\ r = <<mx, "PROMOTION">>
      \/ e.board[to] = Empty /\ Row(to) # 0 /\ r = <<m, "SUCCESS">>
      \/ /\ e.board[to] = Empty /\ Row(from) = 6 /\ Row(to) = 4
         /\ r = <<m, "EN_PASSENT_OPPORTUNITY">>
      \/ /\ Row(to) = Row(from) - 1 /\ Col(to) # Col(from)
         /\ en_passent_avalible(e, to)
         /\ r = <<h, "CAPTURE">>
      \/ /\ is_other_player_piece(e, to) /\ Row(to) = 0
         /\ r = <<gx, "PROMOTION_CAPTURE">>
      \/ is_other_player_piece(e, to) /\ Row(to) # 0 /\ r = <<g, "CAPTURE">>
      \/ Row(to) = Row(from) - 1 /\ r = <<e, "CAPTURE">>
  BY PawnCases
<1> HIDE DEF m, h, r
<1>5. x \in [from : Int, to : Int]
  BY DEF Square
<1>6. x = [from |-> from, to |-> to]
  OBVIOUS
<1> HIDE DEF x
<1>7. /\ mx \in EngineType /\ mx.waiting = x
      /\ mx.board = m.board /\ mx.player = m.player /\ mx.walls = m.walls
      /\ mx.kingMoved = m.kingMoved /\ mx.left = m.left /\ mx.moves = m.moves
      /\ mx.timeOuts = m.timeOuts /\ mx.enPassant = m.enPassant
  BY <1>1, <1>5, WriteWaiting
<1> HIDE DEF g
<1>8. /\ gx \in EngineType /\ gx.waiting = x
      /\ gx.board = g.board /\ gx.player = g.player /\ gx.walls = g.walls
      /\ gx.kingMoved = g.kingMoved /\ gx.left = g.left /\ gx.moves = g.moves
      /\ gx.timeOuts = g.timeOuts /\ gx.enPassant = g.enPassant
  BY <1>2, <1>5, WriteWaiting
<1> HIDE DEF mx, gx
<1>9. e.board[from][1] = e.player /\ e.board[from][2] = "PAWN"
      /\ e.board[from] # <<e.player, "KING">>
  OBVIOUS
<1>10. ASSUME NEW f \in EngineType,
              f.player = e.player, f.walls = e.walls, f.kingMoved = e.kingMoved
       PROVE  Always(e, f, from)
  BY <1>9, <1>10 DEF Always
<1>11. CASE r = <<e, "INVALID">>
  <2>1. r[1] = e /\ r[2] = "INVALID"
    BY <1>11
  <2> QED
    BY <2>1, RefusedOutcome
<1>12. CASE e.board[to] = Empty /\ Row(to) = 0 /\ r = <<mx, "PROMOTION">>
  <2>1. r[1] = mx /\ r[2] = "PROMOTION"
    BY <1>12
  <2>2. Stepped(e, mx, "PROMOTION", from, to)
    BY <1>1, <1>6, <1>7, <1>9, <1>12 DEF Stepped, Counts, Waits
  <2>3. Always(e, mx, from)
    BY <1>1, <1>7, <1>10
  <2> QED
    BY <1>9, <2>1, <2>2, <2>3 DEF Outcome
<1>13. CASE e.board[to] = Empty /\ Row(to) # 0 /\ r = <<m, "SUCCESS">>
  <2>1. r[1] = m /\ r[2] = "SUCCESS"
    BY <1>13
  <2>2. Stepped(e, m, "SUCCESS", from, to)
    BY <1>1, <1>9, <1>13 DEF Stepped, Waits
  <2>3. Always(e, m, from)
    BY <1>1, <1>10
  <2> QED
    BY <1>9, <2>1, <2>2, <2>3 DEF Outcome
<1>14. CASE /\ e.board[to] = Empty /\ Row(from) = 6 /\ Row(to) = 4
            /\ r = <<m, "EN_PASSENT_OPPORTUNITY">>
  <2>1. r[1] = m /\ r[2] = "EN_PASSENT_OPPORTUNITY"
    BY <1>14
  <2>2. Stepped(e, m, "EN_PASSENT_OPPORTUNITY", from, to)
    BY <1>1, <1>9, <1>14 DEF Stepped, Waits
  <2>3. Always(e, m, from)
    BY <1>1, <1>10
  <2> QED
    BY <1>9, <2>1, <2>2, <2>3 DEF Outcome
<1>15. CASE /\ Row(to) = Row(from) - 1 /\ Col(to) # Col(from)
            /\ en_passent_avalible(e, to)
            /\ r = <<h, "CAPTURE">>
  <2>1. r[1] = h /\ r[2] = "CAPTURE"
    BY <1>15
  <2>2. Passed(e, h, "CAPTURE", from, to)
    BY <1>3, <1>9, <1>15 DEF Passed
  <2>3. Always(e, h, from)
    BY <1>3, <1>10, <1>15
  <2> QED
    BY <1>9, <2>1, <2>2, <2>3 DEF Outcome
<1>16. CASE /\ is_other_player_piece(e, to) /\ Row(to) = 0
            /\ r = <<gx, "PROMOTION_CAPTURE">>
  <2>1. r[1] = gx /\ r[2] = "PROMOTION_CAPTURE"
    BY <1>16
  <2>2. Took(e, gx, "PROMOTION_CAPTURE", from, to)
    BY <1>2, <1>6, <1>8, <1>9, <1>16 DEF Took, Counts, Waits
  <2>3. Always(e, gx, from)
    BY <1>2, <1>8, <1>10
  <2> QED
    BY <1>9, <2>1, <2>2, <2>3 DEF Outcome
<1>17. CASE is_other_player_piece(e, to) /\ Row(to) # 0 /\ r = <<g, "CAPTURE">>
  <2>1. r[1] = g /\ r[2] = "CAPTURE"
    BY <1>17
  <2>2. Took(e, g, "CAPTURE", from, to)
    BY <1>2, <1>9, <1>17 DEF Took, Waits
  <2>3. Always(e, g, from)
    BY <1>2, <1>10
  <2> QED
    BY <1>9, <2>1, <2>2, <2>3 DEF Outcome
<1>18. CASE Row(to) = Row(from) - 1 /\ r = <<e, "CAPTURE">>
  <2>1. r[1] = e /\ r[2] = "CAPTURE"
    BY <1>18
  <2>2. Void(e, e, "CAPTURE", from, to)
    BY <1>9, <1>18 DEF Void
  <2>3. Always(e, e, from)
    BY <1>10
  <2> QED
    BY <1>9, <2>1, <2>2, <2>3 DEF Outcome
<1> QED
  BY <1>4, <1>11, <1>12, <1>13, <1>14, <1>15, <1>16, <1>17, <1>18

(* Whatever piece is moved and wherever to, a call of move_piece comes to one
   of the outcomes above (engine.cpp:145-174).                                *)
THEOREM MoveOutcome ==
  ASSUME NEW e \in EngineType, NEW from \in Square, NEW to \in Square
  PROVE  LET r == move_piece(e, from, to) IN Outcome(e, r[1], r[2], from, to)
<1> DEFINE r == move_piece(e, from, to)
           kind == e.board[from][2]
<1> SUFFICES Outcome(e, r[1], r[2], from, to)
  OBVIOUS
<1>1. CASE ~valid_piece(e, from)
  <2>1. r = <<e, "INVALID">>
    BY <1>1 DEF move_piece
  <2>2. r[1] = e /\ r[2] = "INVALID"
    BY <2>1
  <2> HIDE DEF r
  <2> QED
    BY <2>2, RefusedOutcome
<1>2. CASE valid_piece(e, from)
  <2>1. e.board[from] = <<e.player, kind>> /\ kind \in Kind
    BY <1>2, EngineFields, PieceCases DEF valid_piece, Player
  <2>2. CASE kind = "PAWN"
    <3>1. r = handle_pawn_move(e, from, to)
      BY <1>2, <2>2 DEF move_piece
    <3> QED
      BY <2>1, <2>2, <3>1, PawnOutcome
  <2>3. CASE kind = "ROOK"
    <3>1. r = move_up_down_left_right(e, from, to, TRUE)
      BY <1>2, <2>3 DEF move_piece
    <3> QED
      BY <2>1, <2>3, <3>1, RookOutcome
  <2>4. CASE kind = "KNIGHT"
    <3>1. r = handle_knight_move(e, from, to)
      BY <1>2, <2>4 DEF move_piece
    <3> QED
      BY <2>1, <2>4, <3>1, KnightOutcome
  <2>5. CASE kind = "BISHOP"
    <3>1. r = handle_bishop_move(e, from, to)
      BY <1>2, <2>5 DEF move_piece
    <3> QED
      BY <2>1, <2>5, <3>1, BishopOutcome
  <2>6. CASE kind = "QUEEN"
    <3>1. r = handle_queen_move(e, from, to)
      BY <1>2, <2>6 DEF move_piece
    <3> QED
      BY <2>1, <2>6, <3>1, QueenOutcome
  <2>7. CASE kind = "KING"
    <3>1. r = handle_king_move(e, from, to)
      BY <1>2, <2>7 DEF move_piece
    <3> QED
      BY <2>1, <2>7, <3>1, KingOutcome
  <2> QED
    BY <2>1, <2>2, <2>3, <2>4, <2>5, <2>6, <2>7 DEF Kind
<1> QED
  BY <1>1, <1>2

-----------------------------------------------------------------------------
(* The other operations.                                                      *)

Sides == {Up, Down, Left, Right}

LEMMA SideOfAll ==
  ASSUME NEW s \in Square, NEW dir \in Sides, ~OnEdge(s, dir)
  PROVE  Wall(s, dir) \in AllWalls
<1>1. \A t \in Square, d \in {Down, Right} : ~OnEdge(t, d) => Wall(t, d) \in AllWalls
  BY DEF AllWalls
<1>2. CASE dir \in {Down, Right}
  BY <1>1, <1>2
<1>3. CASE dir = Up
  <2>1. s - 8 \in Square /\ ~OnEdge(s - 8, Down)
    BY <1>3 DEF Square, OnEdge, Row, Up, Down, Left, Right
  <2>2. Wall(s - 8, Down) = Wall(s, dir)
    BY <1>3 DEF Square, Wall, Up, Down
  <2> QED
    BY <1>1, <2>1, <2>2
<1>4. CASE dir = Left
  <2>1. s - 1 \in Square /\ ~OnEdge(s - 1, Right)
    BY <1>4 DEF Square, OnEdge, Row, Col, Up, Down, Left, Right
  <2>2. Wall(s - 1, Right) = Wall(s, dir)
    BY <1>4 DEF Square, Wall, Left, Right
  <2> QED
    BY <1>1, <2>1, <2>2
<1> QED
  BY <1>2, <1>3, <1>4 DEF Sides

LEMMA TowardsSide ==
  ASSUME NEW place, NEW target
  PROVE  Towards(place, target) \in Sides
<1>1. CASE Col(place) = Col(target)
  BY <1>1 DEF Towards, Sides
<1>2. CASE Col(place) # Col(target)
  BY <1>2 DEF Towards, Sides
<1> QED
  BY <1>1, <1>2

(* All but walls and time-outs are as they were.                              *)
OnlyWalls(e, f) ==
    /\ f \in EngineType /\ f.player = e.player /\ f.board = e.board
    /\ f.enPassant = e.enPassant /\ f.waiting = e.waiting
    /\ f.kingMoved = e.kingMoved /\ f.moves = e.moves /\ f.left = e.left
    /\ e.walls \subseteq f.walls

(* Building adds a wall and never takes one (engine.cpp:215-289).             *)
LEMMA BuildOutcome ==
  ASSUME NEW e \in EngineType, NEW place \in Square, NEW target \in Square
  PROVE  OnlyWalls(e, build_wall(e, place, target)[1])
<1> DEFINE dir == Towards(place, target)
           r == build_wall(e, place, target)
           ws == e.walls \cup {Wall(place, dir)}
           f == [e EXCEPT !.walls = ws]
           t == Append(f.timeOuts, place)
           g == [f EXCEPT !.timeOuts = t]
           C == \/ e.board[place] # <<e.player, "PAWN">>
                \/ place = target \/ ~InLine(place, target)
<1>1. \/ r \in {<<e, "INVALID">>, <<e, "WALL_EXISTS">>}
      \/ ~WallExists(e, place, dir) /\ r = <<g, "SUCCESS">>
  <2>1. CASE C
    BY <2>1 DEF build_wall
  <2>2. CASE ~C
    BY <2>2 DEF build_wall, add_timeout
  <2> QED
    BY <2>1, <2>2
<1>2. CASE r \in {<<e, "INVALID">>, <<e, "WALL_EXISTS">>}
  <2>1. r[1] = e
    BY <1>2
  <2> QED
    BY <2>1 DEF OnlyWalls
<1>3. CASE ~WallExists(e, place, dir) /\ r = <<g, "SUCCESS">>
  <2>1. Wall(place, dir) \in AllWalls
    BY <1>3, SideOfAll, TowardsSide DEF WallExists
  <2>2. ws \in SUBSET AllWalls /\ e.walls \subseteq ws
    BY <2>1, EngineFields
  <2> HIDE DEF ws, r, dir
  <2>3. /\ f \in EngineType /\ f.walls = ws
        /\ f.player = e.player /\ f.board = e.board /\ f.timeOuts = e.timeOuts
        /\ f.enPassant = e.enPassant /\ f.waiting = e.waiting /\ f.kingMoved = e.kingMoved
        /\ f.moves = e.moves /\ f.left = e.left
    BY <2>2, WriteWalls
  <2> HIDE DEF f
  <2>4. t \in Seq(Square)
    BY <2>3, EngineFields
  <2> HIDE DEF t
  <2>5. /\ g \in EngineType /\ g.timeOuts = t
        /\ g.player = f.player /\ g.board = f.board /\ g.walls = f.walls
        /\ g.enPassant = f.enPassant /\ g.waiting = f.waiting /\ g.kingMoved = f.kingMoved
        /\ g.moves = f.moves /\ g.left = f.left
    BY <2>3, <2>4, WriteTimeOuts
  <2> HIDE DEF g
  <2>6. r[1] = g
    BY <1>3
  <2>7. OnlyWalls(e, g)
    BY <2>2, <2>3, <2>5 DEF OnlyWalls
  <2> QED
    BY <2>6, <2>7 DEF r
<1> QED
  BY <1>1, <1>2, <1>3

(* So it is for the opponent, wherever the second operand points
   (engine.cpp:259-289).                                                      *)
LEMMA BuildOpponentOutcome ==
  ASSUME NEW e \in EngineType, NEW place \in Square, NEW target
  PROVE  OnlyWalls(e, build_wall_opponent(e, place, target))
<1> DEFINE dir == Towards(place, target)
           ws == e.walls \cup {Wall(place, dir)}
           f == [e EXCEPT !.walls = ws]
<1>1. CASE ~(InLine(place, target) /\ ~OnEdge(place, dir))
  <2>1. build_wall_opponent(e, place, target) = e
    BY <1>1 DEF build_wall_opponent
  <2> QED
    BY <2>1 DEF OnlyWalls
<1>2. CASE InLine(place, target) /\ ~OnEdge(place, dir)
  <2>1. build_wall_opponent(e, place, target) = f
    BY <1>2 DEF build_wall_opponent
  <2>2. Wall(place, dir) \in AllWalls
    BY <1>2, SideOfAll, TowardsSide
  <2>3. ws \in SUBSET AllWalls /\ e.walls \subseteq ws
    BY <2>2, EngineFields
  <2> HIDE DEF ws
  <2>4. /\ f \in EngineType /\ f.walls = ws
        /\ f.player = e.player /\ f.board = e.board /\ f.timeOuts = e.timeOuts
        /\ f.enPassant = e.enPassant /\ f.waiting = e.waiting /\ f.kingMoved = e.kingMoved
        /\ f.moves = e.moves /\ f.left = e.left
    BY <2>3, WriteWalls
  <2> HIDE DEF f
  <2> QED
    BY <2>1, <2>3, <2>4 DEF OnlyWalls
<1> QED
  BY <1>1, <1>2

(* A promotion writes the square that waits and ends the waiting
   (engine.cpp:316-338).                                                      *)
LEMMA PromoteOutcome ==
  ASSUME NEW e \in EngineType, NEW kind \in Promotions, e.waiting.to \in Square
  PROVE  LET f == promote(e, kind)
         IN  /\ f \in EngineType
             /\ f.board = [e.board EXCEPT ![e.waiting.to] = <<e.player, kind>>]
             /\ f.waiting = NoPromotion
             /\ f.player = e.player /\ f.walls = e.walls /\ f.timeOuts = e.timeOuts
             /\ f.enPassant = e.enPassant /\ f.kingMoved = e.kingMoved
             /\ f.moves = e.moves /\ f.left = e.left
<1> DEFINE b == [e.board EXCEPT ![e.waiting.to] = <<e.player, kind>>]
           f1 == [e EXCEPT !.board = b]
           f == [f1 EXCEPT !.waiting = NoPromotion]
<1>1. e.waiting.to # -1
  BY DEF Square
<1>2. promote(e, kind) = f
  BY <1>1 DEF promote
<1>3. <<e.player, kind>> \in Pieces
  BY EngineFields DEF Pieces, Kind, Promotions
<1>4. b \in [Square -> Pieces] /\ NoPromotion \in [from : Int, to : Int]
  BY <1>3, EngineFields DEF NoPromotion
<1> HIDE DEF b
<1>5. /\ f1 \in EngineType /\ f1.board = b
      /\ f1.player = e.player /\ f1.walls = e.walls /\ f1.timeOuts = e.timeOuts
      /\ f1.enPassant = e.enPassant /\ f1.kingMoved = e.kingMoved
      /\ f1.moves = e.moves /\ f1.left = e.left
  BY <1>4, WriteBoard
<1> HIDE DEF f1
<1>6. /\ f \in EngineType /\ f.waiting = NoPromotion /\ f.board = f1.board
      /\ f.player = f1.player /\ f.walls = f1.walls /\ f.timeOuts = f1.timeOuts
      /\ f.enPassant = f1.enPassant /\ f.kingMoved = f1.kingMoved
      /\ f.moves = f1.moves /\ f.left = f1.left
  BY <1>4, <1>5, WriteWaiting
<1> HIDE DEF f
<1> QED
  BY <1>2, <1>5, <1>6 DEF b

PromotedBoard(b, from, to, piece) == [b EXCEPT ![from] = Empty, ![to] = piece]

(* The opponent's promotion only writes the board (engine.cpp:98-120).        *)
LEMMA OpponentPromoteOutcome ==
  ASSUME NEW e \in EngineType, NEW from \in Square, NEW to \in Square, NEW kind \in Promotions
  PROVE  LET f == opponent_promote(e, from, to, kind)
         IN  /\ f \in EngineType
             /\ f.board = PromotedBoard(e.board, from, to, <<Other(e.player), kind>>)
             /\ f.player = e.player /\ f.walls = e.walls /\ f.timeOuts = e.timeOuts
             /\ f.enPassant = e.enPassant /\ f.kingMoved = e.kingMoved
             /\ f.moves = e.moves /\ f.left = e.left /\ f.waiting = e.waiting
<1> DEFINE b == PromotedBoard(e.board, from, to, <<Other(e.player), kind>>)
           f == [e EXCEPT !.board = b]
<1>1. opponent_promote(e, from, to, kind) = f
  BY DEF opponent_promote, PromotedBoard
<1>2. <<Other(e.player), kind>> \in Pieces /\ Empty \in Pieces
  BY EngineFields, OtherPlayer DEF Pieces, Kind, Promotions
<1>3. b \in [Square -> Pieces]
  BY <1>2, EngineFields DEF PromotedBoard
<1> HIDE DEF b
<1>4. /\ f \in EngineType /\ f.board = b
      /\ f.player = e.player /\ f.walls = e.walls /\ f.timeOuts = e.timeOuts
      /\ f.enPassant = e.enPassant /\ f.kingMoved = e.kingMoved
      /\ f.moves = e.moves /\ f.left = e.left /\ f.waiting = e.waiting
  BY <1>3, WriteBoard
<1> HIDE DEF f
<1> QED
  BY <1>1, <1>4 DEF b

LEMMA OpportunityOutcome ==
  ASSUME NEW e \in EngineType, NEW under \in Int, NEW when \in Nat
  PROVE  LET f == add_en_passent_oppertunity(e, under, when)
         IN  /\ f \in EngineType
             /\ f.enPassant = e.enPassant \cup {[under |-> under, when |-> when]}
             /\ f.player = e.player /\ f.walls = e.walls /\ f.timeOuts = e.timeOuts
             /\ f.board = e.board /\ f.kingMoved = e.kingMoved
             /\ f.moves = e.moves /\ f.left = e.left /\ f.waiting = e.waiting
<1> DEFINE o == e.enPassant \cup {[under |-> under, when |-> when]}
           f == [e EXCEPT !.enPassant = o]
<1>1. add_en_passent_oppertunity(e, under, when) = f
  BY DEF add_en_passent_oppertunity
<1>2. o \in SUBSET [under : Int, when : Nat]
  BY EngineFields
<1> HIDE DEF o
<1>3. /\ f \in EngineType /\ f.enPassant = o
      /\ f.player = e.player /\ f.walls = e.walls /\ f.timeOuts = e.timeOuts
      /\ f.board = e.board /\ f.kingMoved = e.kingMoved
      /\ f.moves = e.moves /\ f.left = e.left /\ f.waiting = e.waiting
  BY <1>2, WriteEnPassant
<1> HIDE DEF f
<1> QED
  BY <1>1, <1>3 DEF o

LEMMA CheckTimeoutsOutcome ==
  ASSUME NEW e \in EngineType, NEW n \in 0..Len(e.timeOuts)
  PROVE  LET f == check_timeouts(e, n)
         IN  /\ f \in EngineType
             /\ f.board = e.board /\ f.player = e.player /\ f.walls = e.walls
             /\ f.enPassant = e.enPassant /\ f.kingMoved = e.kingMoved
             /\ f.moves = e.moves /\ f.left = e.left /\ f.waiting = e.waiting
<1> DEFINE t == SubSeq(e.timeOuts, n + 1, Len(e.timeOuts))
           f == [e EXCEPT !.timeOuts = t]
<1>1. check_timeouts(e, n) = f
  BY DEF check_timeouts
<1>2. t \in Seq(Square)
  <2>1. e.timeOuts \in Seq(Square) /\ n + 1 \in Nat /\ Len(e.timeOuts) \in Nat
    BY EngineFields
  <2> QED
    BY <2>1
<1> HIDE DEF t
<1>3. /\ f \in EngineType
      /\ f.board = e.board /\ f.player = e.player /\ f.walls = e.walls
      /\ f.enPassant = e.enPassant /\ f.kingMoved = e.kingMoved
      /\ f.moves = e.moves /\ f.left = e.left /\ f.waiting = e.waiting
  BY <1>2, WriteTimeOuts
<1> HIDE DEF f
<1> QED
  BY <1>1, <1>3

-----------------------------------------------------------------------------
(* The boards after a move.                                                   *)

LEMMA RelocatedAt ==
  ASSUME NEW b \in [Square -> Pieces], NEW from \in Square, NEW to \in Square
  PROVE  \A s \in Square :
            Relocated(b, from, to)[s] =
                IF s = from THEN Empty ELSE IF s = to THEN b[from] ELSE b[s]
  BY DEF Relocated

LEMMA PassedAt ==
  ASSUME NEW b \in [Square -> Pieces], NEW from \in Square, NEW to \in Square
  PROVE  \A s \in Square :
            [Relocated(b, from, to) EXCEPT ![to + Down] = Empty][s] =
                IF s \in {from, to + Down} THEN Empty
                ELSE IF s = to THEN b[from] ELSE b[s]
<1>1. Relocated(b, from, to) \in [Square -> Pieces]
  BY RelocatedType
<1> QED
  BY <1>1, RelocatedAt

LEMMA CastledAt ==
  ASSUME NEW e \in EngineType, NEW w \in Castling[e.player]
  PROVE  /\ CastledBoard(e, w) \in [Square -> Pieces]
         /\ \A s \in Square :
              CastledBoard(e, w)[s] =
                IF s = w.rookTo THEN <<e.player, "ROOK">>
                ELSE IF s = w.kingTo THEN <<e.player, "KING">>
                ELSE IF s \in {w.rook, w.king} THEN Empty
                ELSE e.board[s]
<1>1. /\ w.king \in Square /\ w.rook \in Square /\ w.kingTo \in Square
      /\ w.rookTo \in Square /\ w.free \subseteq Square
  BY EngineFields, CastlingSquares
<1>2. /\ w.king \notin {w.kingTo, w.rookTo} /\ w.rook \notin {w.kingTo, w.rookTo}
      /\ w.kingTo # w.rookTo
  <2>1. /\ w.rook \in {56, 63} /\ w.kingTo \in w.free /\ w.rookTo \in w.free
        /\ w.kingTo # w.rookTo /\ w.free \subseteq 57..62 /\ w.king \notin w.free
    BY EngineFields, CastlingWays
  <2>2. 56 \notin w.free /\ 63 \notin w.free
    BY <2>1
  <2> QED
    BY <2>1, <2>2
<1>3. <<e.player, "KING">> \in Pieces /\ <<e.player, "ROOK">> \in Pieces /\ Empty \in Pieces
  BY EngineFields DEF Pieces, Kind
<1>4. CastledBoard(e, w) \in [Square -> Pieces]
  BY <1>1, <1>3, EngineFields DEF CastledBoard
<1>5. ASSUME NEW s \in Square
      PROVE  CastledBoard(e, w)[s] =
                IF s = w.rookTo THEN <<e.player, "ROOK">>
                ELSE IF s = w.kingTo THEN <<e.player, "KING">>
                ELSE IF s \in {w.rook, w.king} THEN Empty ELSE e.board[s]
  BY <1>1, <1>2, EngineFields DEF CastledBoard
<1> QED
  BY <1>4, <1>5

(* Whatever stands on a square after a move, castling apart, came with it or
   was there before.                                                          *)
LEMMA StandsAfter ==
  ASSUME NEW b \in [Square -> Pieces], NEW c, NEW from \in Square, NEW to \in Square,
         \/ c = Relocated(b, from, to)
         \/ c = [Relocated(b, from, to) EXCEPT ![to + Down] = Empty],
         NEW s \in Square, c[s] # Empty
  PROVE  s # from /\ c[s] = IF s = to THEN b[from] ELSE b[s]
<1>1. CASE c = Relocated(b, from, to)
  BY <1>1, RelocatedAt
<1>2. CASE c = [Relocated(b, from, to) EXCEPT ![to + Down] = Empty]
  BY <1>2, PassedAt
<1> QED
  BY <1>1, <1>2

(* Castling makes no pieces but one king and one rook.                        *)
LEMMA StandsAfterCastling ==
  ASSUME NEW e \in EngineType, NEW w \in Castling[e.player], NEW c, c = CastledBoard(e, w),
         NEW s \in Square,
         c[s] \notin {Empty, <<e.player, "KING">>, <<e.player, "ROOK">>}
  PROVE  c[s] = e.board[s]
<1>1. c[s] = IF s = w.rookTo THEN <<e.player, "ROOK">>
             ELSE IF s = w.kingTo THEN <<e.player, "KING">>
             ELSE IF s \in {w.rook, w.king} THEN Empty
             ELSE e.board[s]
  BY CastledAt
<1> QED
  BY <1>1

-----------------------------------------------------------------------------
(* The player's king.                                                         *)

KingUnmarkedAtHome(e) ==
    ~e.kingMoved => \A s \in Square :
        e.board[s] = <<e.player, "KING">> => s = KingHome(e.player)

LEMMA OwnPieces ==
  ASSUME NEW e \in EngineType
  PROVE  /\ <<e.player, "PAWN">> \notin {Empty, <<e.player, "KING">>, <<e.player, "ROOK">>}
         /\ <<e.player, "KING">> # Empty
         /\ \A l : <<Other(e.player), l>> \notin {<<e.player, "KING">>, <<e.player, "PAWN">>}
<1>1. e.player \in Player
  BY EngineFields
<1> QED
  BY <1>1, PieceFacts DEF Kind

(* A king not marked as moved stays at home (engine.cpp:595-713).             *)
LEMMA MoveKeepsKing ==
  ASSUME NEW e \in EngineType, NEW f, NEW res, NEW from \in Square, NEW to \in Square,
         Outcome(e, f, res, from, to), KingUnmarkedAtHome(e)
  PROVE  KingUnmarkedAtHome(f)
<1>1. Always(e, f, from) /\ f.player = e.player
  BY DEF Outcome, Always
<1>2. CASE f.board = e.board
  BY <1>1, <1>2 DEF KingUnmarkedAtHome, Always
<1>3. CASE Castled(e, f, res, from, to)
  BY <1>3 DEF Castled, KingUnmarkedAtHome
<1>4. CASE /\ f.board # e.board
           /\ \/ f.board = Relocated(e.board, from, to)
              \/ f.board = [Relocated(e.board, from, to) EXCEPT ![to + Down] = Empty]
  <2>1. \/ f.board = Relocated(e.board, from, to)
        \/ f.board = [Relocated(e.board, from, to) EXCEPT ![to + Down] = Empty]
    BY <1>4
  <2>2. e.board \in [Square -> Pieces]
    BY EngineFields
  <2>3. ASSUME ~f.kingMoved, NEW s \in Square, f.board[s] = <<f.player, "KING">>
        PROVE  s = KingHome(f.player)
    <3>1. e.board[from] # <<e.player, "KING">> /\ ~e.kingMoved
      BY <1>1, <1>4, <2>3 DEF Always
    <3>2. f.board[s] # Empty
      BY <1>1, <2>3, OwnPieces
    <3>3. f.board[s] = IF s = to THEN e.board[from] ELSE e.board[s]
      BY <2>1, <2>2, <3>2, StandsAfter
    <3> QED
      BY <1>1, <2>3, <3>1, <3>3 DEF KingUnmarkedAtHome
  <2> QED
    BY <2>3 DEF KingUnmarkedAtHome
<1>5. \/ f.board = e.board
      \/ Castled(e, f, res, from, to)
      \/ f.board = Relocated(e.board, from, to)
      \/ f.board = [Relocated(e.board, from, to) EXCEPT ![to + Down] = Empty]
  BY DEF Outcome, Refused, Void, Stepped, Took, Passed
<1> QED
  BY <1>2, <1>3, <1>4, <1>5

(* King and rook change to two empty squares, and nothing else changes.        *)
CastlesWith(e, f, from, w) ==
    /\ w.king = from
    /\ e.board[w.king] = <<e.player, "KING">> /\ e.board[w.rook] = <<e.player, "ROOK">>
    /\ e.board[w.kingTo] = Empty /\ e.board[w.rookTo] = Empty
    /\ \A s \in Square :
         f.board[s] = IF s = w.rookTo THEN <<e.player, "ROOK">>
                      ELSE IF s = w.kingTo THEN <<e.player, "KING">>
                      ELSE IF s \in {w.rook, w.king} THEN Empty
                      ELSE e.board[s]
    /\ {w.king, w.rook, w.kingTo, w.rookTo} \subseteq Square
    /\ w.king \notin {w.rook, w.kingTo, w.rookTo}
    /\ w.rook \notin {w.kingTo, w.rookTo} /\ w.kingTo # w.rookTo

(* Castling finds the king it moves at home.                                  *)
LEMMA CastledSquares ==
  ASSUME NEW e \in EngineType, KingUnmarkedAtHome(e), NEW f, NEW res,
         NEW from \in Square, NEW to \in Square, Castled(e, f, res, from, to)
  PROVE  \E w \in Castling[e.player] : CastlesWith(e, f, from, w)
<1>1. PICK w \in Castling[e.player] :
        /\ e.board[w.rook] = <<e.player, "ROOK">>
        /\ \A s \in w.free : e.board[s] = Empty
        /\ f.board = CastledBoard(e, w)
  BY DEF Castled
<1>2. e.player \in Player
  BY EngineFields
<1>3. /\ w.king = KingHome(e.player) /\ w.rook \in {56, 63} /\ w.rook # w.king
      /\ w.kingTo \in w.free /\ w.rookTo \in w.free /\ w.kingTo # w.rookTo
      /\ w.free \subseteq 57..62 /\ w.king \notin w.free
  BY <1>2, CastlingWays
<1>4. w.king = from /\ e.board[w.king] = <<e.player, "KING">>
  BY <1>3 DEF Castled, KingUnmarkedAtHome
<1>5. w.rook \notin w.free
  BY <1>3
<1>6. {w.king, w.rook, w.kingTo, w.rookTo} \subseteq Square
  BY <1>2, CastlingSquares
<1>7. \A s \in Square :
        f.board[s] = IF s = w.rookTo THEN <<e.player, "ROOK">>
                     ELSE IF s = w.kingTo THEN <<e.player, "KING">>
                     ELSE IF s \in {w.rook, w.king} THEN Empty
                     ELSE e.board[s]
  BY <1>1, CastledAt
<1> QED
  BY <1>1, <1>3, <1>4, <1>5, <1>6, <1>7 DEF CastlesWith

-----------------------------------------------------------------------------
(* Counting pieces.                                                           *)

LEMMA SquaresFinite ==
  ASSUME NEW S \in SUBSET Square
  PROVE  IsFiniteSet(S) /\ Cardinality(S) \in Nat
<1>1. IsFiniteSet(Square)
  <2>1. 0 \in Int /\ 63 \in Int
    OBVIOUS
  <2>2. IsFiniteSet(0..63)
    BY <2>1, FS_Interval, Zenon
  <2> QED
    BY <2>2 DEF Square
<1>2. IsFiniteSet(S)
  BY <1>1, FS_Subset
<1> QED
  BY <1>2, FS_CardinalityType

LEMMA Replaced ==
  ASSUME NEW S \in SUBSET Square, NEW x \in S, NEW y \in Square, y \notin S
  PROVE  Cardinality((S \ {x}) \cup {y}) = Cardinality(S)
<1>1. /\ IsFiniteSet(S) /\ Cardinality(S) \in Nat
      /\ IsFiniteSet(S \ {x}) /\ Cardinality(S \ {x}) \in Nat
  BY SquaresFinite
<1>2. Cardinality(S \ {x}) = Cardinality(S) - 1
  BY <1>1, FS_RemoveElement
<1>3. Cardinality((S \ {x}) \cup {y}) = Cardinality(S \ {x}) + 1
  BY <1>1, FS_AddElement
<1> QED
  BY <1>1, <1>2, <1>3

LEMMA TakenAway ==
  ASSUME NEW S \in SUBSET Square, NEW T \in SUBSET S
  PROVE  Cardinality(S) - Cardinality(S \ T) = Cardinality(T)
<1>1. IsFiniteSet(S) /\ IsFiniteSet(T) /\ IsFiniteSet(S \ T)
      /\ Cardinality(S) \in Nat /\ Cardinality(T) \in Nat /\ Cardinality(S \ T) \in Nat
  BY SquaresFinite
<1>2. (S \ T) \cup T = S /\ (S \ T) \cap T = {}
  OBVIOUS
<1>3. Cardinality((S \ T) \cap T) = 0
  BY <1>2, FS_EmptySet
<1>4. Cardinality((S \ T) \cup T) = Cardinality(S \ T) + Cardinality(T) - 0
  BY <1>1, <1>3, FS_Union
<1>5. Cardinality(S) = Cardinality(S \ T) + Cardinality(T)
  <2>1. Cardinality(S \ T) + Cardinality(T) - 0 = Cardinality(S \ T) + Cardinality(T)
    BY <1>1
  <2> QED
    BY <1>2, <1>4, <2>1, Zenon
<1> QED
  BY <1>1, <1>5

(* Where a piece stands after a move that takes none of its kind: where it stood
   before, but for the one that moved.                                        *)
LEMMA MovedSet ==
  ASSUME NEW b \in [Square -> Pieces], NEW c, NEW from \in Square, NEW to \in Square,
         from # to,
         \/ c = Relocated(b, from, to)
         \/ /\ c = [Relocated(b, from, to) EXCEPT ![to + Down] = Empty]
            /\ to + Down # from,
         NEW x \in Pieces, x # Empty, b[to] # x,
         \/ c = Relocated(b, from, to)
         \/ to + Down \notin Square
         \/ b[to + Down] # x
  PROVE  LET S == {s \in Square : b[s] = x}
             T == {s \in Square : c[s] = x}
         IN  T = IF b[from] = x THEN (S \ {from}) \cup {to} ELSE S
<1> DEFINE S == {s \in Square : b[s] = x}
           T == {s \in Square : c[s] = x}
<1>1. ASSUME NEW s \in Square
      PROVE  s \in T <=> IF b[from] = x THEN s \in (S \ {from}) \cup {to} ELSE s \in S
  <2>1. CASE c = Relocated(b, from, to)
    BY <2>1, RelocatedAt
  <2>2. CASE /\ c # Relocated(b, from, to)
             /\ c = [Relocated(b, from, to) EXCEPT ![to + Down] = Empty]
    <3>1. to + Down # from /\ to + Down # to
      BY <2>2 DEF Down, Square
    <3>2. c[s] = IF s \in {from, to + Down} THEN Empty ELSE IF s = to THEN b[from] ELSE b[s]
      BY <2>2, PassedAt
    <3>3. s = to + Down => b[s] # x
      BY <2>2
    <3> QED
      BY <3>1, <3>2, <3>3
  <2> QED
    BY <2>1, <2>2
<1>2. S \subseteq Square /\ T \subseteq Square
  OBVIOUS
<1> HIDE DEF S, T
<1> QED
  BY <1>1, <1>2 DEF S, T

-----------------------------------------------------------------------------
(* The constructor.                                                           *)

LEMMA HomeRowKinds ==
  /\ \A c \in 0..7 : HomeRow[c + 1] \in Kind \ {"PAWN"}
  /\ \A c \in 0..7 : HomeRow[c + 1] = "KING" => c = 4
  BY DEF HomeRow, Kind

LEMMA WhiteViewAt ==
  ASSUME NEW s \in Square
  PROVE  WhiteView[s] =
            IF Row(s) = 0 THEN <<"B", HomeRow[Col(s) + 1]>>
            ELSE IF Row(s) = 1 THEN <<"B", "PAWN">>
            ELSE IF Row(s) = 6 THEN <<"W", "PAWN">>
            ELSE IF Row(s) = 7 THEN <<"W", HomeRow[Col(s) + 1]>>
            ELSE Empty
<1>1. CASE Row(s) = 0
  BY <1>1 DEF WhiteView
<1>2. CASE Row(s) = 1
  BY <1>2 DEF WhiteView
<1>3. CASE Row(s) = 6
  BY <1>3 DEF WhiteView
<1>4. CASE Row(s) = 7
  BY <1>4 DEF WhiteView
<1>5. CASE Row(s) \notin {0, 1, 6, 7}
  BY <1>5 DEF WhiteView
<1> QED
  BY <1>1, <1>2, <1>3, <1>4, <1>5

(* White's view has its kings at home and its pawns on their second rows.     *)
LEMMA WhiteViewPieces ==
  ASSUME NEW s \in Square
  PROVE  /\ WhiteView[s] \in Pieces
         /\ WhiteView[s] = <<"W", "KING">> => s = 60
         /\ WhiteView[s] = <<"B", "KING">> => s = 4
         /\ WhiteView[s] = <<"W", "PAWN">> => Row(s) = 6
         /\ WhiteView[s] = <<"B", "PAWN">> => Row(s) = 1
<1> DEFINE k == HomeRow[Col(s) + 1]
<1>1. Row(s) \in 0..7 /\ Col(s) \in 0..7 /\ s = 8 * Row(s) + Col(s)
  BY RowCol
<1>2. k \in Kind \ {"PAWN"} /\ (k = "KING" => Col(s) = 4)
  BY <1>1, HomeRowKinds
<1>3. WhiteView[s] = IF Row(s) = 0 THEN <<"B", k>>
                     ELSE IF Row(s) = 1 THEN <<"B", "PAWN">>
                     ELSE IF Row(s) = 6 THEN <<"W", "PAWN">>
                     ELSE IF Row(s) = 7 THEN <<"W", k>>
                     ELSE Empty
  BY WhiteViewAt
<1> HIDE DEF k
<1>4. \A p \in Player, l \in Kind : <<p, l>> # Empty /\ <<p, l>> \in Pieces
  BY PieceFacts
<1>5. Empty \in Pieces /\ "W" \in Player /\ "B" \in Player /\ "PAWN" \in Kind /\ "KING" \in Kind
  BY DEF Pieces, Player, Kind
<1>6. CASE Row(s) = 0
  BY <1>1, <1>2, <1>3, <1>4, <1>5, <1>6
<1>7. CASE Row(s) = 7
  BY <1>1, <1>2, <1>3, <1>4, <1>5, <1>7
<1>8. CASE Row(s) \in {1, 6}
  BY <1>1, <1>3, <1>4, <1>5, <1>8
<1>9. CASE Row(s) \notin {0, 1, 6, 7}
  <2>1. WhiteView[s] = Empty
    BY <1>3, <1>9
  <2> QED
    BY <1>4, <1>5, <2>1
<1> QED
  BY <1>6, <1>7, <1>8, <1>9

LEMMA InitialBoardPieces ==
  ASSUME NEW p \in Player, NEW s \in Square
  PROVE  /\ InitialBoard(p)[s] \in Pieces
         /\ InitialBoard(p)[s] = <<p, "KING">> => s = KingHome(p)
         /\ InitialBoard(p)[s] = <<p, "PAWN">> => Row(s) = 6
<1>1. CASE p = "W"
  BY <1>1, WhiteViewPieces DEF InitialBoard, KingHome
<1>2. CASE p = "B"
  <2>1. 63 - s \in Square /\ InitialBoard(p)[s] = WhiteView[63 - s]
    BY <1>2 DEF Square, InitialBoard
  <2>2. Row(63 - s) = 1 => Row(s) = 6
    BY DEF Square, Row
  <2>3. 63 - s = 4 => s = 59
    BY DEF Square
  <2> QED
    BY <1>2, <2>1, <2>2, <2>3, WhiteViewPieces DEF KingHome
<1> QED
  BY <1>1, <1>2 DEF Player

(* The engine the constructor makes may start: what is assumed of the positions
   to start from is true of the one the program starts from
   (engine.cpp:23-63).                                                *)
THEOREM ConstructedPlayable == \A p \in Player : Playable(NewEngine(p))
<1> SUFFICES ASSUME NEW p \in Player PROVE Playable(NewEngine(p))
  OBVIOUS
<1> DEFINE b == InitialBoard(p)
           e == [player |-> p, board |-> b, walls |-> {}, timeOuts |-> <<>>,
                 enPassant |-> {}, waiting |-> NoPromotion, kingMoved |-> FALSE,
                 moves |-> 0, left |-> 12]
<1>1. NewEngine(p) = e
  BY DEF NewEngine
<1>2. b \in [Square -> Pieces]
  <2>1. b = [s \in Square |-> b[s]]
    <3>1. WhiteView = [s \in Square |-> WhiteView[s]]
      BY DEF WhiteView
    <3>2. CASE p = "W"
      BY <3>1, <3>2 DEF InitialBoard
    <3>3. CASE p # "W"
      BY <3>3 DEF InitialBoard
    <3> QED
      BY <3>2, <3>3
  <2>2. \A s \in Square : b[s] \in Pieces
    BY InitialBoardPieces
  <2> HIDE DEF b
  <2> QED
    BY <2>1, <2>2
<1>3. \A s \in Square : /\ b[s] = <<p, "KING">> => s = KingHome(p)
                        /\ b[s] = <<p, "PAWN">> => Row(s) # 0
  BY InitialBoardPieces
<1> HIDE DEF b
<1>4. NoPromotion \in [from : Int, to : Int]
  BY DEF NoPromotion
<1>5. e \in EngineType
  BY <1>2, <1>4 DEF EngineType
<1>6. e.player = p /\ e.board = b /\ e.enPassant = {} /\ e.waiting = NoPromotion
  OBVIOUS
<1> HIDE DEF e
<1> QED
  BY <1>1, <1>3, <1>5, <1>6 DEF Playable, Own, Squares

=============================================================================
