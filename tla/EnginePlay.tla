----------------------------- MODULE EnginePlay -----------------------------
(* One player's engine under the calls Game makes on it: the player's clicks,
   and the opponent's moves as the message handler applies them, in any order
   and from given positions.  Game takes no click while a promotion is being
   decided (game.cpp:362-377), a second click is on another square than the
   first (game.cpp:423), and a click for a wall that is refused becomes a move
   (game.cpp:208-215).

   The engine is the one its constructor made; Game assigns a temporary to its
   member instead, and what that does to the walls is WallGrid's subject.     *)
EXTENDS ChessEngine

CONSTANTS
    Plays,          \* names of what is played; the others are functions of it
    Starts,         \* the engines to start from
    Clicks,         \* pairs of squares clicked for a move
    WallClicks,     \* pairs of squares clicked for a wall
    OpponentMoves,  \* pairs of squares the opponent moves between
    OpponentWalls,  \* pairs of squares the opponent builds walls with
    Opportunities,  \* squares the opponent's pawns leave for a double step
    MaxCalls        \* bound on the calls

ASSUME ClicksAssumption == \A x \in Plays :
    /\ Clicks[x] \subseteq Square \X Square /\ WallClicks[x] \subseteq Square \X Square
    /\ OpponentMoves[x] \subseteq Square \X Square
    /\ OpponentWalls[x] \subseteq Square \X Square
    /\ \A s \in Opportunities[x] : s \in Square /\ Row(s) = 1
    /\ MaxCalls[x] \in Nat

ASSUME StartsAssumption == \A x \in Plays : \A e \in Starts[x] : Playable(e)

-----------------------------------------------------------------------------
(* The rules, as a player would state them.                                   *)

Sign(n) == IF n < 0 THEN -1 ELSE IF n > 0 THEN 1 ELSE 0

(* The squares of the straight line or diagonal from one square to another.   *)
Line(from, to) ==
    [i \in 0..Steps(from, to) |->
        At(Row(from) + i * Sign(Row(to) - Row(from)),
           Col(from) + i * Sign(Col(to) - Col(from)))]

OnLine(from, to) ==
    LET dr == Abs(Row(to) - Row(from))
        dc == Abs(Col(to) - Col(from))
    IN  dr = 0 \/ dc = 0 \/ dr = dc

(* Nothing stands strictly between the two.                                   *)
Clear(e, from, to) ==
    \A i \in 1..(Steps(from, to) - 1) : e.board[Line(from, to)[i]] = Empty

(* One step is open if no wall stands between the squares; a diagonal one, if
   one of the two ways round the corner has no wall.                          *)
Open(e, s, t) ==
    LET free(x, y) == {x, y} \notin e.walls
        a == At(Row(t), Col(s))
        b == At(Row(s), Col(t))
    IN  IF Row(s) = Row(t) \/ Col(s) = Col(t) THEN free(s, t)
        ELSE (free(s, a) /\ free(a, t)) \/ (free(s, b) /\ free(b, t))

AllOpen(e, from, to) ==
    \A i \in 1..Steps(from, to) :
        Open(e, Line(from, to)[i - 1], Line(from, to)[i])

Legal(e, from, to) ==
    LET kind == e.board[from][2]
        diagonal == Row(from) # Row(to) /\ Col(from) # Col(to)
    IN  /\ e.board[from][1] = e.player /\ e.board[to][1] # e.player
        /\ ~is_in_timeout(e, from)
        /\ \/ kind = "ROOK" /\ OnLine(from, to) /\ ~diagonal /\ Clear(e, from, to)
           \/ /\ kind = "BISHOP" /\ OnLine(from, to) /\ diagonal
              /\ Clear(e, from, to) /\ AllOpen(e, from, to)
           \/ /\ kind = "QUEEN" /\ OnLine(from, to)
              /\ Clear(e, from, to) /\ AllOpen(e, from, to)
           \/ kind = "KING" /\ Steps(from, to) = 1
           \/ kind = "KNIGHT" /\ Steps(from, to) = 2 /\ ~OnLine(from, to)

-----------------------------------------------------------------------------

VARIABLES
    play,       \* what is played
    engine,     \* the engine
    call,       \* the last call of the player's and what it returned
    calls,      \* how many calls there have been, the opponent's included
    over        \* isGameOver, set when the other king was found gone

vars == <<play, engine, call, calls, over>>

NoCall == [op |-> "none", from |-> 0, to |-> 0, res |-> "", at |-> 0]

Init ==
    /\ play \in Plays /\ engine \in Starts[play]
    /\ call = NoCall /\ calls = 0 /\ over = FALSE

Counted == calls < MaxCalls[play] /\ calls' = calls + 1 /\ UNCHANGED play

Called(op, from, to, r) ==
    /\ Counted
    /\ engine' = r[1]
    /\ call' = [op |-> op, from |-> from, to |-> to, res |-> r[2], at |-> calls']

(* A click is decided, and the game is over if the other king is gone.        *)
Deciding == ~over /\ engine.waiting = NoPromotion /\ over' = did_other_lose(engine')

MovePiece(from, to) ==
    /\ from # to
    /\ Called("move", from, to, move_piece(engine, from, to))
    /\ Deciding

BuildWall(place, target) ==
    /\ place # target
    /\ LET built == build_wall(engine, place, target)
       IN  \/ /\ built[2] = "SUCCESS"
              /\ Called("wall", place, target, built)
           \/ /\ built[2] # "SUCCESS"
              /\ Called("move", place, target, move_piece(engine, place, target))
    /\ Deciding

Promote(kind) ==
    /\ ~over /\ engine.waiting # NoPromotion
    /\ Called("promote", engine.waiting.from, engine.waiting.to,
              <<promote(engine, kind), "">>)
    /\ UNCHANGED over

(* The frame loop drops the time-outs that are over.                          *)
CheckTimeouts ==
    /\ \E n \in 1..Len(engine.timeOuts) : engine' = check_timeouts(engine, n)
    /\ UNCHANGED <<play, call, calls, over>>

(* What the opponent does comes as messages, and their handlers check nothing;
   here the opponent plays on the board as it is (a move that crosses one of
   the player's may find it otherwise).                                       *)
Message(after) == Counted /\ engine' = after /\ UNCHANGED <<call, over>>

IsOpponentPawn(s) == engine.board[s] = <<Other(engine.player), "PAWN">>

OpponentMove(from, to) ==
    /\ engine.board[from][1] = Other(engine.player)
    /\ engine.board[to][1] # Other(engine.player) /\ Clear(engine, from, to)
    /\ Message(opponent_move(engine, from, to))

(* The opponent's double step is two messages: the opportunity, dated with the
   opponent's count of moves, here equal to this one's, and the move.         *)
OpponentDoubleStep(from) ==
    LET to == from + 2 * Down
        under == Reverse(get_under_position_of(Reverse(to)))
    IN  /\ IsOpponentPawn(from) /\ engine.board[to] = Empty
        /\ Clear(engine, from, to)
        /\ Message(opponent_move(
                add_en_passent_oppertunity(engine, under, engine.moves + 1),
                from, to))

OpponentWall(place, target) ==
    /\ IsOpponentPawn(place)
    /\ Message(build_wall_opponent(engine, place, target))

(* The opponent's pawn goes from its seventh row to the last one and becomes
   what the opponent chose; this engine hears of both at once.                *)
OpponentPromote(from, to, kind) ==
    /\ IsOpponentPawn(from) /\ Row(from) = 6 /\ Row(to) = 7
    /\ engine.board[to][1] # Other(engine.player)
    /\ Message(opponent_promote(engine, from, to, kind))

Next ==
    \/ \E c \in Clicks[play] : MovePiece(c[1], c[2])
    \/ \E c \in WallClicks[play] : BuildWall(c[1], c[2])
    \/ \E kind \in Promotions : Promote(kind)
    \/ \E c \in OpponentMoves[play] : OpponentMove(c[1], c[2])
    \/ \E s \in Opportunities[play] : OpponentDoubleStep(s)
    \/ \E c \in OpponentWalls[play] : OpponentWall(c[1], c[2])
    \/ \E c \in OpponentMoves[play], kind \in Promotions : OpponentPromote(c[1], c[2], kind)
    \/ CheckTimeouts

Spec == Init /\ [][Next]_vars

-----------------------------------------------------------------------------
(* Properties.                                                                *)

(* The step is a call of move_piece.                                          *)
Moved == call' # call /\ call'.op = "move"

(* The square-by-square walks of rook, bishop and queen and the tests of king
   and knight accept exactly the moves the rules allow, castling apart
   (engine.cpp:463-595, 681-845).                                             *)
MovesAreLegal ==
    [][Moved /\ engine.board[call'.from][2] # "PAWN"
             /\ (engine.kingMoved \/ engine.board[call'.from][2] # "KING") =>
          (call'.res # "INVALID" <=> Legal(engine, call'.from, call'.to))]_vars

(* A refused call leaves the pieces, the count of moves and the time-outs as
   they were; only a rook's way through walls and the mark on the king are
   kept (engine.cpp:463-595, 681-746).                                        *)
RefusedKeepsPieces ==
    [][Moved /\ call'.res = "INVALID" =>
          /\ engine'.board = engine.board /\ engine'.moves = engine.moves
          /\ engine'.timeOuts = engine.timeOuts /\ engine'.left = engine.left
          /\ engine'.kingMoved # engine.kingMoved =>
                engine.board[call'.from][2] = "KING"]_vars

(* A wall goes only where a rook of the player's walked straight through it
   (engine.cpp:719, 847-877).                                                 *)
WallsGoByRook ==
    [][\A w \in engine.walls \ engine'.walls :
          /\ Moved
          /\ engine.board[call'.from] = <<engine.player, "ROOK">>
          /\ OnLine(call'.from, call'.to)
          /\ \E i \in 1..Steps(call'.from, call'.to) :
                w = {Line(call'.from, call'.to)[i - 1],
                     Line(call'.from, call'.to)[i]}]_vars

(* As long as the king is not marked as moved it stands on its home square or
   has been taken: castling writes its squares without looking where the king
   is (engine.cpp:597-652).                                                   *)
KingAtHome == ~engine.kingMoved => Own(engine, "KING") \subseteq {KingHome(engine.player)}

(* Taking en passant empties the square moved to and the one below without a
   look at either: by then each may hold any piece, or none.                  *)
PassantSquares(e, to, p) ==
    {s \in {to, to + Down} : en_passent_avalible(e, to) /\ e.board[s][1] = p}

(* A move of the player's own, castling included, neither makes nor loses one
   of the player's pieces, unless one of them is in the way of taking en passant
   (engine.cpp:437-441, 597-652, 795-811).                                    *)
OwnPiecesKept ==
    [][Moved /\ PassantSquares(engine, call'.to, engine.player) = {} => \A kind \in Kind :
          Cardinality(Own(engine', kind)) = Cardinality(Own(engine, kind))]_vars

(* After castling the king is where it was sent: the comment above the call
   lists 59 to 57 or 61 and 60 to 58 or 62 (engine.cpp:586-590).              *)
CastlingReachesTarget ==
    [][Moved /\ call'.res = "SUCCESS" /\ engine.board[call'.from][2] = "KING" =>
          engine'.board[call'.to] = <<engine.player, "KING">>]_vars

(* A pawn of the player's on the last row is the one that waits for promotion:
   it never stays a pawn there (engine.cpp:414-418, 449-453, 316-338).        *)
PawnOnLastRowWaits ==
    \A s \in Own(engine, "PAWN") : Row(s) = 0 => engine.waiting.to = s

Theirs(e) == {s \in Square : e.board[s][1] = Other(e.player)}

(* What a move reports is what it took: one of the opponent's pieces on a
   capture, none otherwise.  Only a pawn reports other captures: a diagonal step
   onto a square without a piece of the opponent's moves nothing, and one en
   passant takes what it finds, up to two pieces (engine.cpp:432-457, 698-713). *)
CaptureCaptures ==
    [][Moved =>
          LET taken == Cardinality(Theirs(engine)) - Cardinality(Theirs(engine'))
          IN  IF call'.res \in {"CAPTURE", "PROMOTION_CAPTURE"}
              THEN \/ taken = 1
                   \/ /\ engine.board[call'.from][2] = "PAWN"
                      /\ \/ engine' = engine
                         \/ /\ en_passent_avalible(engine, call'.to)
                            /\ taken = Cardinality(PassantSquares(
                                    engine, call'.to, Other(engine.player)))
              ELSE taken = 0]_vars

=============================================================================
