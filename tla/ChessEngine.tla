---------------------------- MODULE ChessEngine ----------------------------
(* chess::ChessEngine of Client/src/engine.cpp: one player's board, seen with
   the player's own pieces at the bottom, and the operations of the class.

   An engine is a record; an operation takes one and returns the engine after
   it, or a pair of that engine and what the operation returns.  Squares are
   0..63, row 0 on top.  A wall is the pair of neighbouring squares it stands
   between: reset_board lets both squares refer to one bool (WallGrid).  Time
   is abstracted: time-outs all last equally long, so they end in the order
   they began.                                                                *)
EXTENDS Integers, Sequences, FiniteSets

Square == 0..63
Row(s) == s \div 8
Col(s) == s % 8
At(row, col) == row * 8 + col
Abs(n) == IF n < 0 THEN -n ELSE n

(* reverse(): the same square seen from the other side.                       *)
Reverse(s) == At(7 - Row(s), 7 - Col(s))

Player == {"W", "B"}
Other(p) == IF p = "W" THEN "B" ELSE "W"

Kind == {"KING", "QUEEN", "BISHOP", "KNIGHT", "ROOK", "PAWN"}
Empty == <<"", "">>
Pieces == (Player \X Kind) \cup {Empty}

Promotions == {"QUEEN", "ROOK", "BISHOP", "KNIGHT"}

MoveState == {"SUCCESS", "INVALID", "CAPTURE", "PROMOTION",
              "PROMOTION_CAPTURE", "EN_PASSENT_OPPORTUNITY"}

NoPromotion == [from |-> -1, to |-> -1]

(* The four sides of a square.                                                *)
Up == -8
Down == 8
Left == -1
Right == 1

(* nullopt: there is no wall to refer to at the edge of the board.            *)
OnEdge(s, dir) ==
    \/ dir = Up /\ Row(s) = 0
    \/ dir = Down /\ Row(s) = 7
    \/ dir = Left /\ Col(s) = 0
    \/ dir = Right /\ Col(s) = 7

Wall(s, dir) == {s, s + dir}

AllWalls ==
    UNION {{Wall(s, dir) : dir \in {d \in {Down, Right} : ~OnEdge(s, d)}} : s \in Square}

-----------------------------------------------------------------------------
(* Construction.                                                              *)

HomeRow == <<"ROOK", "KNIGHT", "BISHOP", "QUEEN", "KING", "BISHOP", "KNIGHT",
             "ROOK">>

WhiteView ==
    [s \in Square |->
        CASE Row(s) = 0 -> <<"B", HomeRow[Col(s) + 1]>>
          [] Row(s) = 1 -> <<"B", "PAWN">>
          [] Row(s) = 6 -> <<"W", "PAWN">>
          [] Row(s) = 7 -> <<"W", HomeRow[Col(s) + 1]>>
          [] OTHER -> Empty]

InitialBoard(p) ==
    IF p = "W" THEN WhiteView ELSE [s \in Square |-> WhiteView[63 - s]]

(* ChessEngine(p, timeout) and reset_board.                                   *)
NewEngine(p) ==
    [player |-> p,
     board |-> InitialBoard(p),
     walls |-> {},
     timeOuts |-> <<>>,
     enPassant |-> {},
     waiting |-> NoPromotion,
     kingMoved |-> FALSE,
     moves |-> 0,
     left |-> 12]

-----------------------------------------------------------------------------
(* Looking.                                                                   *)

valid_piece(e, s) == e.board[s][1] = e.player
is_other_player_piece(e, s) == e.board[s][1] = Other(e.player)
piece_exists(e, s) == e.board[s] # Empty
is_in_timeout(e, s) == \E i \in DOMAIN e.timeOuts : e.timeOuts[i] = s
en_passent_avalible(e, s) ==
    \E ep \in e.enPassant : ep.under = s
did_other_lose(e) == \A s \in Square : e.board[s] # <<Other(e.player), "KING">>

(* wallExists of the two wall checks: beyond the edge counts as a wall.       *)
WallExists(e, s, dir) == OnEdge(s, dir) \/ Wall(s, dir) \in e.walls

can_move_straight_wall_check(e, s, dir) == ~WallExists(e, s, dir)

(* A step to the diagonal neighbour is stopped by two walls that meet: at the
   square itself, at the neighbour, or in line across the shared corner.      *)
can_move_diagonal_wall_check(e, s, v, h) ==
    LET t == s + v + h
    IN  ~ \/ WallExists(e, s, v) /\ WallExists(e, s, h)
          \/ WallExists(e, t, -v) /\ WallExists(e, t, -h)
          \/ WallExists(e, t, -h) /\ WallExists(e, s, h)
          \/ WallExists(e, t, -v) /\ WallExists(e, s, v)

-----------------------------------------------------------------------------
(* Moving without a check, as an opponent's move is.                          *)

add_timeout(e, s) == [e EXCEPT !.timeOuts = Append(@, s)]

(* Mutant: the square moved from is not cleared.                              *)
MoveCopies(e, from, to) ==
    [e EXCEPT
        !.board = [@ EXCEPT ![to] = e.board[from]],
        !.enPassant = {ep \in @ : ep.when + 1 # e.moves},
        !.moves = @ + 1,
        !.timeOuts = Append(@, to)]

(* Mutant: the date of an opportunity is compared one move too late.          *)
MoveKeepsOpportunities(e, from, to) ==
    [e EXCEPT
        !.board = [@ EXCEPT ![to] = e.board[from], ![from] = Empty],
        !.enPassant = {ep \in @ : ep.when + 2 # e.moves},
        !.moves = @ + 1,
        !.timeOuts = Append(@, to)]

move_piece_no_check(e, from, to) ==
    [e EXCEPT
        !.board = [@ EXCEPT ![to] = e.board[from], ![from] = Empty],
        !.enPassant = {ep \in @ : ep.when + 1 # e.moves},
        !.moves = @ + 1,
        !.timeOuts = Append(@, to)]

(* Mutant: the time-out begins before the target is looked at.                *)
RestsAnyway(e, from, to) ==
    CASE is_other_player_piece(e, to) ->
            <<[move_piece_no_check(e, from, to) EXCEPT !.left = @ - 1],
              "CAPTURE">>
      [] e.board[to] = Empty ->
            <<move_piece_no_check(e, from, to), "SUCCESS">>
      [] OTHER -> <<add_timeout(e, from), "INVALID">>

(* Mutant: whatever is not the player's own is taken.                         *)
TakesNothing(e, from, to) ==
    CASE e.board[to][1] # e.player ->
            <<[move_piece_no_check(e, from, to) EXCEPT !.left = @ - 1],
              "CAPTURE">>
      [] OTHER -> <<e, "INVALID">>

(* What every piece but the pawn does on reaching its target.                 *)
TakeOrStep(e, from, to) ==
    CASE is_other_player_piece(e, to) ->
            <<[move_piece_no_check(e, from, to) EXCEPT !.left = @ - 1],
              "CAPTURE">>
      [] e.board[to] = Empty ->
            <<move_piece_no_check(e, from, to), "SUCCESS">>
      [] OTHER -> <<e, "INVALID">>

Resting(e, from, to) == is_in_timeout(e, from) \/ to = from

-----------------------------------------------------------------------------
(* The pieces.                                                                *)

handle_pawn_move(e, from, to) ==
    LET ahead == Row(to) = Row(from) - 1
        straight == Col(to) = Col(from)
        upFree == ~OnEdge(from, Up) /\ Wall(from, Up) \notin e.walls
        moved == move_piece_no_check(e, from, to)
        promoting(m) == [m EXCEPT !.waiting = [from |-> from, to |-> to]]
        aside == Col(to) - Col(from)
    IN  CASE Resting(e, from, to) -> <<e, "INVALID">>
          [] ~Resting(e, from, to) /\ upFree /\ straight /\ ahead
                /\ e.board[to] = Empty ->
                IF Row(to) = 0 THEN <<promoting(moved), "PROMOTION">>
                ELSE <<moved, "SUCCESS">>
          [] ~Resting(e, from, to) /\ upFree /\ straight
                /\ Row(from) = 6 /\ Row(to) = 4
                /\ e.board[from + Up] = Empty /\ e.board[to] = Empty ->
                <<moved, "EN_PASSENT_OPPORTUNITY">>
          [] ~Resting(e, from, to) /\ ahead /\ aside \in {Left, Right}
                /\ can_move_diagonal_wall_check(e, from, Up, aside) ->
                IF en_passent_avalible(e, to)
                THEN <<[moved EXCEPT !.board[to + Down] = Empty,
                                     !.left = @ - 1], "CAPTURE">>
                ELSE IF is_other_player_piece(e, to)
                THEN LET taken == [moved EXCEPT !.left = @ - 1]
                     IN  IF Row(to) = 0
                         THEN <<promoting(taken), "PROMOTION_CAPTURE">>
                         ELSE <<taken, "CAPTURE">>
                ELSE <<e, "CAPTURE">>          \* nothing moved, nothing taken
          [] OTHER -> <<e, "INVALID">>

Steps(from, to) ==
    LET dr == Abs(Row(to) - Row(from))
        dc == Abs(Col(to) - Col(from))
    IN  IF dr > dc THEN dr ELSE dc

(* Mutant: a piece on the target is in the way as well.                       *)
BlockedAtTarget(e, s, step, to) == piece_exists(e, s + step)

Blocked(e, s, step, to) == piece_exists(e, s + step) /\ s + step # to

(* The walk of a slider from `from` in steps of `step`: the number of steps it
   takes before it is at `to` or is stopped, by a piece or at one of the steps
   in `walled`; whether the code looks for the wall before or after looking at
   the next square makes no difference.                                       *)
Walk(e, from, to, step, walled) ==
    LET n == Steps(from, to)
        stops == walled \cup {i \in 0..(n - 1) : Blocked(e, from + i * step, step, to)}
    IN  IF stops = {} THEN n ELSE CHOOSE i \in stops : \A j \in stops : i <= j

Straight(from, to) ==
    CASE Row(from) = Row(to) -> IF Col(to) > Col(from) THEN Right ELSE Left
      [] OTHER -> IF Row(to) > Row(from) THEN Down ELSE Up

(* A rook breaks the walls it walks through, also when it is stopped later.   *)
move_up_down_left_right(e, from, to, canBreakWalls) ==
    IF Resting(e, from, to) \/ (Row(from) # Row(to) /\ Col(from) # Col(to))
    THEN <<e, "INVALID">>
    ELSE LET dir == Straight(from, to)
             walled == {i \in 0..(Steps(from, to) - 1) :
                            /\ ~canBreakWalls
                            /\ ~can_move_straight_wall_check(e, from + i * dir, dir)}
             walked == Walk(e, from, to, dir, walled)
             broken == {Wall(from + i * dir, dir) : i \in 0..(walked - 1)}
             after == IF canBreakWalls THEN [e EXCEPT !.walls = @ \ broken] ELSE e
         IN  IF walked = Steps(from, to) THEN TakeOrStep(after, from, to)
             ELSE <<after, "INVALID">>

handle_bishop_move(e, from, to) ==
    LET dr == Row(to) - Row(from)
        dc == Col(to) - Col(from)
        v == IF dr > 0 THEN Down ELSE Up
        h == IF dc > 0 THEN Right ELSE Left
        walled == {i \in 0..(Steps(from, to) - 1) :
                    ~can_move_diagonal_wall_check(e, from + i * (v + h), v, h)}
    IN  IF /\ ~Resting(e, from, to)
           /\ Abs(dr) = Abs(dc)
           /\ Walk(e, from, to, v + h, walled) = Abs(dr)
        THEN TakeOrStep(e, from, to)
        ELSE <<e, "INVALID">>

(* Mutant: the queen breaks walls like the rook.                              *)
QueenBreaksWalls(e, from, to) ==
    IF Row(from) = Row(to) \/ Col(from) = Col(to)
    THEN move_up_down_left_right(e, from, to, TRUE)
    ELSE handle_bishop_move(e, from, to)

handle_queen_move(e, from, to) ==
    IF Row(from) = Row(to) \/ Col(from) = Col(to)
    THEN move_up_down_left_right(e, from, to, FALSE)
    ELSE handle_bishop_move(e, from, to)

handle_knight_move(e, from, to) ==
    IF /\ ~Resting(e, from, to)
       /\ {Abs(Row(to) - Row(from)), Abs(Col(to) - Col(from))} = {1, 2}
    THEN TakeOrStep(e, from, to)
    ELSE <<e, "INVALID">>

(* Castling, by the square the king was sent to: the rook's square, the squares
   that must be empty, where king and rook end, and the king's own square.    *)
Castling ==
    [W |-> {[to |-> 58, rook |-> 56, free |-> {57, 58, 59}, king |-> 60,
             kingTo |-> 58, rookTo |-> 57],
            [to |-> 62, rook |-> 63, free |-> {61, 62}, king |-> 60,
             kingTo |-> 61, rookTo |-> 62]},
     B |-> {[to |-> 57, rook |-> 56, free |-> {57, 58}, king |-> 59,
             kingTo |-> 57, rookTo |-> 58],
            [to |-> 61, rook |-> 63, free |-> {60, 61, 62}, king |-> 59,
             kingTo |-> 61, rookTo |-> 60]}]

(* Mutant: castling does not mark the king.                                   *)
CastlingUnmarked(e, to) ==
    LET ways == {w \in Castling[e.player] :
                    /\ w.to = to
                    /\ e.board[w.rook] = <<e.player, "ROOK">>
                    /\ \A s \in w.free : e.board[s] = Empty}
    IN  IF e.kingMoved \/ ways = {} THEN <<e, "INVALID">>
        ELSE LET w == CHOOSE x \in ways : TRUE
             IN  <<[e EXCEPT
                      !.board = [@ EXCEPT ![w.rook] = Empty, ![w.king] = Empty,
                                          ![w.kingTo] = <<e.player, "KING">>,
                                          ![w.rookTo] = <<e.player, "ROOK">>],
                      !.moves = @ + 1], "SUCCESS">>

(* Mutant: castling is two moves.                                             *)
CastlingMovesBoth(e, to) ==
    LET ways == {w \in Castling[e.player] :
                    /\ w.to = to
                    /\ e.board[w.rook] = <<e.player, "ROOK">>
                    /\ \A s \in w.free : e.board[s] = Empty}
    IN  IF e.kingMoved \/ ways = {} THEN <<e, "INVALID">>
        ELSE LET w == CHOOSE x \in ways : TRUE
                 kingGone == move_piece_no_check(e, w.king, w.kingTo)
             IN  <<[move_piece_no_check(kingGone, w.rook, w.rookTo)
                        EXCEPT !.kingMoved = TRUE], "SUCCESS">>

(* Mutant: the squares between king and rook are not looked at.               *)
CastlingOver(e, to) ==
    LET ways == {w \in Castling[e.player] :
                    /\ w.to = to
                    /\ e.board[w.rook] = <<e.player, "ROOK">>}
    IN  IF e.kingMoved \/ ways = {} THEN <<e, "INVALID">>
        ELSE LET w == CHOOSE x \in ways : TRUE
             IN  <<[e EXCEPT
                      !.board = [@ EXCEPT ![w.rook] = Empty, ![w.king] = Empty,
                                          ![w.kingTo] = <<e.player, "KING">>,
                                          ![w.rookTo] = <<e.player, "ROOK">>],
                      !.kingMoved = TRUE,
                      !.moves = @ + 1], "SUCCESS">>

handle_castling(e, to) ==
    LET ways == {w \in Castling[e.player] :
                    /\ w.to = to
                    /\ e.board[w.rook] = <<e.player, "ROOK">>
                    /\ \A s \in w.free : e.board[s] = Empty}
    IN  IF e.kingMoved \/ ways = {} THEN <<e, "INVALID">>
        ELSE LET w == CHOOSE x \in ways : TRUE
             IN  <<[e EXCEPT
                      !.board = [@ EXCEPT ![w.rook] = Empty, ![w.king] = Empty,
                                          ![w.kingTo] = <<e.player, "KING">>,
                                          ![w.rookTo] = <<e.player, "ROOK">>],
                      !.kingMoved = TRUE,
                      !.moves = @ + 1], "SUCCESS">>

(* Any attempt to step to a neighbouring square marks the king as moved, and an
   attempt that fails is tried as castling.                                   *)
handle_king_move(e, from, to) ==
    LET near == /\ Abs(Row(to) - Row(from)) <= 1
                /\ Abs(Col(to) - Col(from)) <= 1
        marked == [e EXCEPT !.kingMoved = @ \/ near]
        step == TakeOrStep(marked, from, to)
    IN  CASE Resting(e, from, to) -> <<e, "INVALID">>
          [] ~Resting(e, from, to) /\ near /\ step[2] # "INVALID" -> step
          [] OTHER -> handle_castling(marked, to)

move_piece(e, from, to) ==
    LET kind == e.board[from][2]
    IN  CASE ~valid_piece(e, from) -> <<e, "INVALID">>
          [] valid_piece(e, from) /\ kind = "PAWN" -> handle_pawn_move(e, from, to)
          [] valid_piece(e, from) /\ kind = "ROOK" ->
                move_up_down_left_right(e, from, to, TRUE)
          [] valid_piece(e, from) /\ kind = "KNIGHT" -> handle_knight_move(e, from, to)
          [] valid_piece(e, from) /\ kind = "BISHOP" -> handle_bishop_move(e, from, to)
          [] valid_piece(e, from) /\ kind = "QUEEN" -> handle_queen_move(e, from, to)
          [] OTHER -> handle_king_move(e, from, to)

-----------------------------------------------------------------------------
(* Walls, promotion, the opponent's side, time.                               *)

(* The direction of a wall is that of the second square, at any distance.     *)
Towards(place, target) ==
    CASE Col(place) = Col(target) -> IF Row(place) > Row(target) THEN Up ELSE Down
      [] OTHER -> IF Col(place) > Col(target) THEN Left ELSE Right

InLine(place, target) == Col(place) = Col(target) \/ Row(place) = Row(target)

build_wall(e, place, target) ==
    LET dir == Towards(place, target)
    IN  CASE \/ e.board[place] # <<e.player, "PAWN">>
             \/ place = target \/ ~InLine(place, target) -> <<e, "INVALID">>
          [] OTHER ->
                IF WallExists(e, place, dir) THEN <<e, "WALL_EXISTS">>
                ELSE <<add_timeout([e EXCEPT !.walls = @ \cup {Wall(place, dir)}],
                                   place), "SUCCESS">>

build_wall_opponent(e, place, target) ==
    LET dir == Towards(place, target)
    IN  IF InLine(place, target) /\ ~OnEdge(place, dir)
        THEN [e EXCEPT !.walls = @ \cup {Wall(place, dir)}]
        ELSE e

(* Mutant: the switch forgets the knight.                                     *)
PromotesNoKnight(e, kind) ==
    IF e.waiting.to = -1 THEN e
    ELSE [e EXCEPT !.board[e.waiting.to] =
                        IF kind = "KNIGHT" THEN @ ELSE <<e.player, kind>>,
                   !.waiting = NoPromotion]

promote(e, kind) ==
    IF e.waiting.to = -1 THEN e
    ELSE [e EXCEPT !.board[e.waiting.to] = <<e.player, kind>>,
                   !.waiting = NoPromotion]

opponent_move(e, from, to) == move_piece_no_check(e, from, to)

opponent_promote(e, from, to, kind) ==
    [e EXCEPT !.board = [@ EXCEPT ![from] = Empty,
                                  ![to] = <<Other(e.player), kind>>]]

add_en_passent_oppertunity(e, under, when) ==
    [e EXCEPT !.enPassant = @ \cup {[under |-> under, when |-> when]}]

get_under_position_of(s) == IF Row(s) = 7 THEN -1 ELSE s + Down

(* check_timeouts after any time: the first n time-outs are over.             *)
check_timeouts(e, n) ==
    [e EXCEPT !.timeOuts = SubSeq(@, n + 1, Len(@))]

-----------------------------------------------------------------------------

EngineType ==
    [player : Player, board : [Square -> Pieces], walls : SUBSET AllWalls,
     timeOuts : Seq(Square), enPassant : SUBSET [under : Int, when : Nat],
     waiting : [from : Int, to : Int], kingMoved : BOOLEAN, moves : Nat,
     left : Int]

KingHome(p) == IF p = "W" THEN 60 ELSE 59

Squares(e, piece) == {s \in Square : e.board[s] = piece}
Own(e, kind) == Squares(e, <<e.player, kind>>)

(* A position to start from, like that of the constructor: nothing waits, a
   king that is not marked as moved is at home, no pawn is on its last row.   *)
Playable(e) ==
    /\ e \in EngineType
    /\ e.enPassant = {} /\ e.waiting = NoPromotion
    /\ ~e.kingMoved => Own(e, "KING") \subseteq {KingHome(e.player)}
    /\ \A s \in Own(e, "PAWN") : Row(s) # 0

=============================================================================
