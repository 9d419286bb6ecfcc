----------------------------- MODULE PlayProofs -----------------------------
(* The properties of EnginePlay for any plays: any positions to start from, any
   clicks, any moves of the opponent, and any number of calls.

   Between two calls an engine is sound: the invariant of the runs is not
   inductive by itself, since a promotion needs a square to write to and taking
   en passant may not take a pawn to the last row unnoticed.                  *)
EXTENDS EnginePlay, EngineProofs

-----------------------------------------------------------------------------
(* What is true of the engine between any two calls.                          *)

PawnsWait(e) ==
    \A s \in Square : e.board[s] = <<e.player, "PAWN">> /\ Row(s) = 0 => e.waiting.to = s

(* An opportunity is on the third row, where no pawn is promoted.             *)
Opportune(e) == \A ep \in e.enPassant : ep.under \in Square /\ Row(ep.under) = 2

WaitsOnBoard(e) == e.waiting = NoPromotion \/ e.waiting.to \in Square

Sound(e) ==
    /\ e \in EngineType
    /\ KingUnmarkedAtHome(e) /\ PawnsWait(e) /\ Opportune(e) /\ WaitsOnBoard(e)

(* A pawn that gets to the last row waits there, and nobody else waits.       *)
LEMMA MoveKeepsPawns ==
  ASSUME NEW e \in EngineType, NEW f, NEW res, NEW from \in Square, NEW to \in Square,
         Outcome(e, f, res, from, to), PawnsWait(e), Opportune(e), e.waiting = NoPromotion
  PROVE  PawnsWait(f) /\ WaitsOnBoard(f)
<1>1. f.player = e.player
  BY DEF Outcome, Always
<1>2. \A s \in Square : e.board[s] = <<e.player, "PAWN">> => Row(s) # 0
  BY DEF PawnsWait, NoPromotion, Square
<1>3. CASE Refused(e, f, res) \/ Void(e, f, res, from, to)
  BY <1>1, <1>2, <1>3 DEF Refused, Void, PawnsWait, WaitsOnBoard
<1>4. CASE Stepped(e, f, res, from, to) \/ Took(e, f, res, from, to)
  <2>1. f.board = Relocated(e.board, from, to) /\ Waits(e, f, from, to)
    BY <1>4 DEF Stepped, Took
  <2>2. ASSUME NEW s \in Square, f.board[s] = <<f.player, "PAWN">>, Row(s) = 0
        PROVE  f.waiting.to = s
    <3>1. f.board[s] # Empty
      BY <1>1, <2>2, EngineFields, OwnPieces
    <3>2. f.board[s] = IF s = to THEN e.board[from] ELSE e.board[s]
      <4>1. e.board \in [Square -> Pieces]
        BY EngineFields
      <4> QED
        BY <2>1, <3>1, <4>1, StandsAfter
    <3>3. s = to /\ e.board[from] = <<e.player, "PAWN">>
      BY <1>1, <1>2, <2>2, <3>2
    <3> QED
      BY <2>1, <2>2, <3>3 DEF Waits
  <2>3. WaitsOnBoard(f)
    BY <2>1 DEF Waits, WaitsOnBoard
  <2> QED
    BY <2>2, <2>3 DEF PawnsWait
<1>5. CASE Passed(e, f, res, from, to)
  <2>1. Row(to) = 2
    BY <1>5 DEF Passed, en_passent_avalible, Opportune
  <2>2. f.board = [Relocated(e.board, from, to) EXCEPT ![to + Down] = Empty]
        /\ f.waiting = e.waiting
    BY <1>5 DEF Passed
  <2>3. ASSUME NEW s \in Square, f.board[s] = <<f.player, "PAWN">>, Row(s) = 0
        PROVE  FALSE
    <3>1. f.board[s] # Empty
      BY <1>1, <2>3, EngineFields, OwnPieces
    <3>2. s = to \/ e.board[s] = <<e.player, "PAWN">>
      <4>1. e.board \in [Square -> Pieces]
        BY EngineFields
      <4> QED
        BY <1>1, <2>2, <2>3, <3>1, <4>1, StandsAfter
    <3> QED
      BY <1>2, <2>1, <2>3, <3>2
  <2> QED
    BY <2>2, <2>3 DEF PawnsWait, WaitsOnBoard
<1>6. CASE Castled(e, f, res, from, to)
  <2>1. PICK w \in Castling[e.player] : f.board = CastledBoard(e, w)
    BY <1>6 DEF Castled
  <2>2. f.waiting = e.waiting
    BY <1>6 DEF Castled
  <2>3. ASSUME NEW s \in Square, f.board[s] = <<f.player, "PAWN">>
        PROVE  e.board[s] = <<e.player, "PAWN">>
    <3>1. f.board[s] \notin {<<e.player, "ROOK">>, <<e.player, "KING">>, Empty}
      BY <1>1, <2>3, EngineFields, OwnPieces
    <3>2. f.board[s] = e.board[s]
      BY <2>1, <3>1, StandsAfterCastling
    <3> QED
      BY <1>1, <2>3, <3>2
  <2> QED
    BY <1>2, <2>2, <2>3 DEF PawnsWait, WaitsOnBoard
<1> QED
  BY <1>3, <1>4, <1>5, <1>6 DEF Outcome

LEMMA MoveKeepsOpportune ==
  ASSUME NEW e, NEW f, NEW res, NEW from, NEW to,
         Outcome(e, f, res, from, to), Opportune(e)
  PROVE  Opportune(f)
<1>1. f.enPassant \subseteq e.enPassant
  <2>1. \A g : Counts(e, g, to) => g.enPassant \subseteq e.enPassant
    BY DEF Counts
  <2> QED
    BY <2>1 DEF Outcome, Refused, Void, Stepped, Took, Passed, Castled
<1> QED
  BY <1>1 DEF Opportune

LEMMA MoveKeepsSound ==
  ASSUME NEW e, Sound(e), NEW from \in Square, NEW to \in Square, from # to,
         e.waiting = NoPromotion
  PROVE  Sound(move_piece(e, from, to)[1])
<1> DEFINE r == move_piece(e, from, to)
<1>1. /\ e \in EngineType
      /\ KingUnmarkedAtHome(e) /\ PawnsWait(e) /\ Opportune(e)
  BY DEF Sound
<1>2. Outcome(e, r[1], r[2], from, to)
  BY <1>1, MoveOutcome
<1> HIDE DEF r
<1>3. r[1] \in EngineType
  BY <1>2 DEF Outcome, Always
<1>4. KingUnmarkedAtHome(r[1])
  BY <1>1, <1>2, MoveKeepsKing
<1>5. PawnsWait(r[1]) /\ WaitsOnBoard(r[1])
  BY <1>1, <1>2, MoveKeepsPawns
<1>6. Opportune(r[1])
  BY <1>1, <1>2, MoveKeepsOpportune
<1> QED
  BY <1>3, <1>4, <1>5, <1>6 DEF Sound, r

(* An engine on whose board nothing of the player's is new.                   *)
LEMMA NothingOwnKeepsSound ==
  ASSUME NEW e, Sound(e), NEW f \in EngineType, f.player = e.player,
         f.kingMoved = e.kingMoved, f.waiting = e.waiting, Opportune(f),
         \A s \in Square : \/ f.board[s] \in {e.board[s], Empty}
                           \/ f.board[s][1] = Other(e.player)
  PROVE  Sound(f)
<1>1. e \in EngineType /\ e.player \in Player
  BY EngineFields DEF Sound
<1>2. ASSUME NEW s \in Square, NEW k \in {"KING", "PAWN"}, f.board[s] = <<e.player, k>>
      PROVE  e.board[s] = <<e.player, k>>
  <2>1. <<e.player, k>> # Empty
    <3>1. k \in Kind
      BY DEF Kind
    <3> QED
      BY <1>1, <3>1, PieceFacts
  <2>2. <<e.player, k>>[1] # Other(e.player)
    BY <1>1, OtherPlayer
  <2> QED
    BY <1>2, <2>1, <2>2
<1>3. KingUnmarkedAtHome(f)
  <2>1. \A s \in Square : f.board[s] = <<e.player, "KING">> => e.board[s] = <<e.player, "KING">>
    BY <1>2
  <2> QED
    BY <2>1 DEF Sound, KingUnmarkedAtHome
<1>4. PawnsWait(f)
  <2>1. \A s \in Square : f.board[s] = <<e.player, "PAWN">> => e.board[s] = <<e.player, "PAWN">>
    BY <1>2
  <2> QED
    BY <2>1 DEF Sound, PawnsWait
<1>5. WaitsOnBoard(f)
  BY DEF Sound, WaitsOnBoard
<1> QED
  BY <1>3, <1>4, <1>5 DEF Sound

LEMMA WallsKeepSound ==
  ASSUME NEW e, Sound(e), NEW f, OnlyWalls(e, f)
  PROVE  Sound(f)
<1>1. Opportune(f)
  BY DEF Sound, Opportune, OnlyWalls
<1> QED
  BY <1>1, NothingOwnKeepsSound DEF OnlyWalls

LEMMA PromoteKeepsSound ==
  ASSUME NEW e, Sound(e), NEW kind \in Promotions, e.waiting # NoPromotion
  PROVE  Sound(promote(e, kind))
<1> DEFINE f == promote(e, kind)
<1>1. e \in EngineType /\ e.player \in Player /\ e.waiting.to \in Square
  BY EngineFields DEF Sound, WaitsOnBoard
<1>2. /\ f \in EngineType
      /\ f.board = [e.board EXCEPT ![e.waiting.to] = <<e.player, kind>>]
      /\ f.waiting = NoPromotion /\ f.player = e.player
      /\ f.enPassant = e.enPassant /\ f.kingMoved = e.kingMoved
  BY <1>1, PromoteOutcome
<1> HIDE DEF f
<1>3. \A s \in Square :
         f.board[s] = IF s = e.waiting.to THEN <<e.player, kind>> ELSE e.board[s]
  BY <1>1, <1>2, EngineFields
<1>4. <<e.player, kind>> # <<e.player, "KING">> /\ <<e.player, kind>> # <<e.player, "PAWN">>
  BY DEF Promotions
<1>5. KingUnmarkedAtHome(f)
  BY <1>2, <1>3, <1>4 DEF Sound, KingUnmarkedAtHome
<1>6. PawnsWait(f)
  BY <1>2, <1>3, <1>4 DEF Sound, PawnsWait
<1>7. Opportune(f)
  BY <1>2 DEF Sound, Opportune
<1>8. WaitsOnBoard(f)
  BY <1>2 DEF WaitsOnBoard
<1> QED
  BY <1>2, <1>5, <1>6, <1>7, <1>8 DEF Sound, f

LEMMA OpponentMoveKeepsSound ==
  ASSUME NEW e, Sound(e), NEW from \in Square, NEW to \in Square,
         e.board[from][1] = Other(e.player)
  PROVE  Sound(opponent_move(e, from, to))
<1> DEFINE f == opponent_move(e, from, to)
<1>1. e \in EngineType /\ e.board \in [Square -> Pieces]
  BY EngineFields DEF Sound
<1>2. /\ f \in EngineType
      /\ f.board = Relocated(e.board, from, to) /\ Counts(e, f, to)
      /\ f.player = e.player /\ f.waiting = e.waiting /\ f.kingMoved = e.kingMoved
  BY <1>1, NoCheck DEF opponent_move
<1> HIDE DEF f
<1>3. \A s \in Square : \/ f.board[s] \in {e.board[s], Empty}
                        \/ f.board[s][1] = Other(e.player)
  BY <1>1, <1>2, StandsAfter
<1>4. Opportune(f)
  BY <1>2 DEF Sound, Opportune, Counts
<1> QED
  BY <1>2, <1>3, <1>4, NothingOwnKeepsSound DEF f

LEMMA OpponentPromoteKeepsSound ==
  ASSUME NEW e, Sound(e), NEW from \in Square, NEW to \in Square, NEW kind \in Promotions
  PROVE  Sound(opponent_promote(e, from, to, kind))
<1> DEFINE f == opponent_promote(e, from, to, kind)
           piece == <<Other(e.player), kind>>
<1>1. e \in EngineType /\ e.board \in [Square -> Pieces]
  BY EngineFields DEF Sound
<1>2. /\ f \in EngineType
      /\ f.board = PromotedBoard(e.board, from, to, piece)
      /\ f.player = e.player /\ f.waiting = e.waiting /\ f.kingMoved = e.kingMoved
      /\ f.enPassant = e.enPassant
  BY <1>1, OpponentPromoteOutcome
<1>3. piece[1] = Other(e.player)
  OBVIOUS
<1> HIDE DEF f, piece
<1>4. \A s \in Square : f.board[s] \in {e.board[s], Empty, piece}
  BY <1>1, <1>2 DEF PromotedBoard
<1>5. Opportune(f)
  BY <1>2 DEF Sound, Opportune
<1> QED
  BY <1>2, <1>3, <1>4, <1>5, NothingOwnKeepsSound DEF f

LEMMA OpportunityKeepsSound ==
  ASSUME NEW e, Sound(e), NEW under \in Square, Row(under) = 2, NEW when \in Nat
  PROVE  LET f == add_en_passent_oppertunity(e, under, when)
         IN  Sound(f) /\ f.board = e.board /\ f.player = e.player
<1> DEFINE f == add_en_passent_oppertunity(e, under, when)
<1>1. e \in EngineType /\ under \in Int
  BY DEF Sound, Square
<1>2. /\ f \in EngineType
      /\ f.enPassant = e.enPassant \cup {[under |-> under, when |-> when]}
      /\ f.player = e.player /\ f.board = e.board /\ f.kingMoved = e.kingMoved
      /\ f.waiting = e.waiting
  BY <1>1, OpportunityOutcome
<1> HIDE DEF f
<1>3. Opportune(f)
  BY <1>2 DEF Sound, Opportune
<1>4. Sound(f)
  BY <1>2, <1>3, NothingOwnKeepsSound
<1> QED
  BY <1>2, <1>4 DEF f

(* The opponent's double step leaves a square of the third row.               *)
LEMMA UnderADoubleStep ==
  ASSUME NEW from \in Square, Row(from) = 1
  PROVE  LET to == from + 2 * Down
             under == Reverse(get_under_position_of(Reverse(to)))
         IN  to \in Square /\ under \in Square /\ Row(under) = 2
<1> DEFINE to == from + 2 * Down
<1>1. to \in Square /\ to = from + 16 /\ from \in 8..15
  BY DEF Square, Row, Down
<1>2. Reverse(to) = 63 - to /\ Row(Reverse(to)) # 7
  BY <1>1, ReverseSquare DEF Square, Row
<1>3. get_under_position_of(Reverse(to)) = 71 - to
  BY <1>1, <1>2 DEF get_under_position_of, Down, Square
<1>4. 71 - to \in Square
  BY <1>1 DEF Square
<1>5. Reverse(71 - to) = to - 8 /\ to - 8 \in 16..23
  BY <1>1, <1>4, ReverseSquare DEF Square
<1> QED
  BY <1>1, <1>3, <1>5 DEF Square, Row

-----------------------------------------------------------------------------
(* The invariant.                                                             *)

SoundPlay == play \in Plays /\ Sound(engine)

LEMMA PlayableIsSound ==
  ASSUME NEW e, Playable(e)
  PROVE  Sound(e)
<1>1. KingUnmarkedAtHome(e)
  BY DEF Playable, Own, Squares, KingUnmarkedAtHome
<1>2. PawnsWait(e)
  BY DEF Playable, Own, Squares, PawnsWait
<1>3. Opportune(e) /\ WaitsOnBoard(e) /\ e \in EngineType
  BY DEF Playable, Opportune, WaitsOnBoard
<1> QED
  BY <1>1, <1>2, <1>3 DEF Sound

LEMMA InitSound == Init => SoundPlay
<1> SUFFICES ASSUME Init PROVE SoundPlay
  OBVIOUS
<1>1. play \in Plays /\ engine \in Starts[play]
  BY DEF Init
<1>2. Playable(engine)
  BY <1>1, StartsAssumption
<1> QED
  BY <1>1, <1>2, PlayableIsSound DEF SoundPlay

LEMMA MovePieceSound ==
  ASSUME SoundPlay, NEW c \in Clicks[play], MovePiece(c[1], c[2])
  PROVE  Sound(engine') /\ c[1] \in Square /\ c[2] \in Square
<1>1. c[1] \in Square /\ c[2] \in Square
  BY ClicksAssumption DEF SoundPlay
<1>2. c[1] # c[2] /\ engine.waiting = NoPromotion /\ engine' = move_piece(engine, c[1], c[2])[1]
  BY DEF MovePiece, Called, Deciding
<1>3. Sound(engine)
  BY DEF SoundPlay
<1>4. Sound(move_piece(engine, c[1], c[2])[1])
  BY <1>1, <1>2, <1>3, MoveKeepsSound
<1> QED
  BY <1>1, <1>2, <1>4

LEMMA BuildWallSound ==
  ASSUME SoundPlay, NEW c \in WallClicks[play], BuildWall(c[1], c[2])
  PROVE  Sound(engine') /\ c[1] \in Square /\ c[2] \in Square
<1>1. c[1] \in Square /\ c[2] \in Square
  BY ClicksAssumption DEF SoundPlay
<1>2. /\ c[1] # c[2] /\ engine.waiting = NoPromotion
      /\ engine' \in {build_wall(engine, c[1], c[2])[1], move_piece(engine, c[1], c[2])[1]}
  BY DEF BuildWall, Called, Deciding
<1>3. Sound(engine) /\ engine \in EngineType
  BY DEF SoundPlay, Sound
<1>4. Sound(move_piece(engine, c[1], c[2])[1])
  BY <1>1, <1>2, <1>3, MoveKeepsSound
<1>5. Sound(build_wall(engine, c[1], c[2])[1])
  BY <1>1, <1>3, BuildOutcome, WallsKeepSound
<1> QED
  BY <1>1, <1>2, <1>4, <1>5

LEMMA OpponentDoubleStepSound ==
  ASSUME SoundPlay, NEW s \in Opportunities[play], OpponentDoubleStep(s)
  PROVE  Sound(engine')
<1> DEFINE to == s + 2 * Down
           under == Reverse(get_under_position_of(Reverse(to)))
           given == add_en_passent_oppertunity(engine, under, engine.moves + 1)
<1>1. s \in Square /\ Row(s) = 1
  BY ClicksAssumption DEF SoundPlay
<1>2. to \in Square /\ under \in Square /\ Row(under) = 2
  BY <1>1, UnderADoubleStep
<1>3. engine' = opponent_move(given, s, to) /\ IsOpponentPawn(s)
  BY DEF OpponentDoubleStep, Message
<1>4. Sound(engine) /\ engine.moves + 1 \in Nat
  BY EngineFields DEF SoundPlay, Sound
<1>5. Sound(given) /\ given.board = engine.board /\ given.player = engine.player
  BY <1>2, <1>4, OpportunityKeepsSound
<1> HIDE DEF to, under, given
<1>6. given.board[s][1] = Other(given.player)
  BY <1>3, <1>5 DEF IsOpponentPawn
<1>7. Sound(opponent_move(given, s, to))
  BY <1>1, <1>2, <1>5, <1>6, OpponentMoveKeepsSound
<1> QED
  BY <1>3, <1>7

LEMMA NextSound ==
  ASSUME SoundPlay, [Next]_vars
  PROVE  SoundPlay'
<1>0. Sound(engine) /\ engine \in EngineType /\ play \in Plays
  BY DEF SoundPlay, Sound
<1>1. play' = play
  BY DEF Next, vars, MovePiece, BuildWall, Promote, OpponentMove, OpponentDoubleStep,
         OpponentWall, OpponentPromote, CheckTimeouts, Called, Message, Counted
<1>2. ASSUME NEW c \in Clicks[play], MovePiece(c[1], c[2])
      PROVE  Sound(engine')
  BY <1>2, MovePieceSound
<1>3. ASSUME NEW c \in WallClicks[play], BuildWall(c[1], c[2])
      PROVE  Sound(engine')
  BY <1>3, BuildWallSound
<1>4. ASSUME NEW kind \in Promotions, Promote(kind)
      PROVE  Sound(engine')
  <2>1. engine.waiting # NoPromotion /\ engine' = promote(engine, kind)
    BY <1>4 DEF Promote, Called
  <2> QED
    BY <1>0, <2>1, PromoteKeepsSound
<1>5. ASSUME NEW c \in OpponentMoves[play], OpponentMove(c[1], c[2])
      PROVE  Sound(engine')
  <2>1. c[1] \in Square /\ c[2] \in Square
    BY <1>0, ClicksAssumption
  <2>2. engine' = opponent_move(engine, c[1], c[2])
        /\ engine.board[c[1]][1] = Other(engine.player)
    BY <1>5 DEF OpponentMove, Message
  <2> QED
    BY <1>0, <2>1, <2>2, OpponentMoveKeepsSound
<1>6. ASSUME NEW s \in Opportunities[play], OpponentDoubleStep(s)
      PROVE  Sound(engine')
  BY <1>6, OpponentDoubleStepSound
<1>7. ASSUME NEW c \in OpponentWalls[play], OpponentWall(c[1], c[2])
      PROVE  Sound(engine')
  <2>1. c[1] \in Square /\ c[2] \in Square
    BY <1>0, ClicksAssumption
  <2>2. engine' = build_wall_opponent(engine, c[1], c[2])
    BY <1>7 DEF OpponentWall, Message
  <2> QED
    BY <1>0, <2>1, <2>2, BuildOpponentOutcome, WallsKeepSound
<1>8. ASSUME NEW c \in OpponentMoves[play], NEW kind \in Promotions,
             OpponentPromote(c[1], c[2], kind)
      PROVE  Sound(engine')
  <2>1. c[1] \in Square /\ c[2] \in Square
    BY <1>0, ClicksAssumption
  <2>2. engine' = opponent_promote(engine, c[1], c[2], kind)
    BY <1>8 DEF OpponentPromote, Message
  <2> QED
    BY <1>0, <2>1, <2>2, OpponentPromoteKeepsSound
<1>9. ASSUME CheckTimeouts
      PROVE  Sound(engine')
  <2>1. PICK n \in 1..Len(engine.timeOuts) : engine' = check_timeouts(engine, n)
    BY <1>9 DEF CheckTimeouts
  <2>2. n \in 0..Len(engine.timeOuts)
    BY <1>0, EngineFields
  <2>3. /\ engine' \in EngineType
        /\ engine'.board = engine.board /\ engine'.player = engine.player
        /\ engine'.enPassant = engine.enPassant /\ engine'.kingMoved = engine.kingMoved
        /\ engine'.waiting = engine.waiting
    BY <1>0, <2>1, <2>2, CheckTimeoutsOutcome
  <2>4. Opportune(engine')
    BY <1>0, <2>3 DEF Sound, Opportune
  <2> QED
    BY <1>0, <2>3, <2>4, NothingOwnKeepsSound
<1>10. ASSUME UNCHANGED vars
       PROVE  Sound(engine')
  <2>1. engine' = engine
    BY <1>10 DEF vars
  <2> QED
    BY <1>0, <2>1
<1>11. Sound(engine')
  BY <1>2, <1>3, <1>4, <1>5, <1>6, <1>7, <1>8, <1>9, <1>10 DEF Next
<1> QED
  BY <1>0, <1>1, <1>11 DEF SoundPlay

(* Whatever is played, the engine is sound between two calls.                 *)
THEOREM AlwaysSound == Spec => []SoundPlay
<1>1. Init => SoundPlay
  BY InitSound
<1>2. SoundPlay /\ [Next]_vars => SoundPlay'
  BY NextSound
<1> QED
  BY <1>1, <1>2, PTL DEF Spec

(* An unmarked king is at home or taken: for any positions, any clicks and any
   moves of the opponent, castling finds the king where it writes Empty
   (engine.cpp:597-652).                                                      *)
THEOREM KingStaysHome == Spec => []KingAtHome
<1>1. SoundPlay => KingAtHome
  BY DEF SoundPlay, Sound, KingUnmarkedAtHome, KingAtHome, Own, Squares
<1> QED
  BY <1>1, AlwaysSound, PTL

(* A pawn of the player's on the last row is the one that waits
   (engine.cpp:414-418, 449-453, 316-338).                                    *)
THEOREM LastRowWaits == Spec => []PawnOnLastRowWaits
<1>1. SoundPlay => PawnOnLastRowWaits
  BY DEF SoundPlay, Sound, PawnsWait, PawnOnLastRowWaits, Own, Squares
<1> QED
  BY <1>1, AlwaysSound, PTL

-----------------------------------------------------------------------------
(* What a step may never do.                                                  *)

(* Behind every step that counts as a move there is one call of move_piece.   *)
LEMMA MovedOutcome ==
  ASSUME SoundPlay, Next, Moved
  PROVE  /\ call'.from \in Square /\ call'.to \in Square /\ call'.from # call'.to
         /\ engine' = move_piece(engine, call'.from, call'.to)[1]
         /\ call'.res = move_piece(engine, call'.from, call'.to)[2]
         /\ Outcome(engine, engine', call'.res, call'.from, call'.to)
         /\ engine.waiting = NoPromotion
<1>1. ASSUME NEW from \in Square, NEW to \in Square, from # to,
             Called("move", from, to, move_piece(engine, from, to)),
             engine.waiting = NoPromotion
      PROVE  /\ call'.from \in Square /\ call'.to \in Square /\ call'.from # call'.to
             /\ engine' = move_piece(engine, call'.from, call'.to)[1]
             /\ call'.res = move_piece(engine, call'.from, call'.to)[2]
             /\ Outcome(engine, engine', call'.res, call'.from, call'.to)
             /\ engine.waiting = NoPromotion
  <2> DEFINE r == move_piece(engine, from, to)
  <2>1. engine \in EngineType
    BY DEF SoundPlay, Sound
  <2>2. Outcome(engine, r[1], r[2], from, to)
    BY <2>1, MoveOutcome
  <2>3. engine' = r[1] /\ call'.from = from /\ call'.to = to /\ call'.res = r[2]
    BY <1>1 DEF Called
  <2> HIDE DEF r
  <2>4. Outcome(engine, engine', call'.res, call'.from, call'.to)
    BY <2>2, <2>3
  <2> QED
    BY <1>1, <2>3, <2>4 DEF r
<1>2. ASSUME NEW c \in Clicks[play], MovePiece(c[1], c[2])
      PROVE  /\ c[1] \in Square /\ c[2] \in Square /\ c[1] # c[2]
             /\ Called("move", c[1], c[2], move_piece(engine, c[1], c[2]))
             /\ engine.waiting = NoPromotion
  BY <1>2, ClicksAssumption DEF SoundPlay, MovePiece, Deciding
<1>3. ASSUME NEW c \in WallClicks[play], BuildWall(c[1], c[2])
      PROVE  /\ c[1] \in Square /\ c[2] \in Square /\ c[1] # c[2]
             /\ Called("move", c[1], c[2], move_piece(engine, c[1], c[2]))
             /\ engine.waiting = NoPromotion
  <2>1. c[1] \in Square /\ c[2] \in Square
    BY ClicksAssumption DEF SoundPlay
  <2>2. \A r : Called("wall", c[1], c[2], r) => call'.op = "wall"
    BY DEF Called
  <2> QED
    BY <1>3, <2>1, <2>2 DEF BuildWall, Deciding, Moved
<1>4. ASSUME NEW kind \in Promotions, Promote(kind)
      PROVE  FALSE
  <2>1. call'.op = "promote"
    BY <1>4 DEF Promote, Called
  <2> QED
    BY <2>1 DEF Moved
<1>5. ASSUME \/ \E c \in OpponentMoves[play] : OpponentMove(c[1], c[2])
             \/ \E s \in Opportunities[play] : OpponentDoubleStep(s)
             \/ \E c \in OpponentWalls[play] : OpponentWall(c[1], c[2])
             \/ \E c \in OpponentMoves[play], kind \in Promotions :
                    OpponentPromote(c[1], c[2], kind)
             \/ CheckTimeouts
      PROVE  FALSE
  <2>1. call' = call
    BY <1>5 DEF OpponentMove, OpponentDoubleStep, OpponentWall, OpponentPromote,
                CheckTimeouts, Message
  <2> QED
    BY <2>1 DEF Moved
<1>6. CASE \E c \in Clicks[play] : MovePiece(c[1], c[2])
  BY <1>1, <1>2, <1>6
<1>7. CASE \E c \in WallClicks[play] : BuildWall(c[1], c[2])
  BY <1>1, <1>3, <1>7
<1> QED
  BY <1>4, <1>5, <1>6, <1>7 DEF Next

(* The result and the square moved to tell what became of the board.          *)
LEMMA RefusedStep ==
  ASSUME NEW e, NEW f, NEW from, NEW to, Outcome(e, f, "INVALID", from, to)
  PROVE  Refused(e, f, "INVALID")
         /\ (f.kingMoved # e.kingMoved => e.board[from] = <<e.player, "KING">>)
  BY DEF Outcome, Always, Void, Stepped, Took, Passed, Castled

(* A refused call leaves board, count and time-outs alone, and marks no piece
   but the king (engine.cpp:463-595, 681-746).                                *)
THEOREM RefusedKeeps == Spec => RefusedKeepsPieces
<1> DEFINE A == Moved /\ call'.res = "INVALID" =>
          /\ engine'.board = engine.board /\ engine'.moves = engine.moves
          /\ engine'.timeOuts = engine.timeOuts /\ engine'.left = engine.left
          /\ engine'.kingMoved # engine.kingMoved =>
                engine.board[call'.from][2] = "KING"
<1>1. SoundPlay /\ Next => A
  <2> SUFFICES ASSUME SoundPlay, Next, Moved, call'.res = "INVALID"
               PROVE  /\ engine'.board = engine.board /\ engine'.moves = engine.moves
                      /\ engine'.timeOuts = engine.timeOuts /\ engine'.left = engine.left
                      /\ engine'.kingMoved # engine.kingMoved =>
                            engine.board[call'.from][2] = "KING"
    OBVIOUS
  <2>1. Outcome(engine, engine', "INVALID", call'.from, call'.to)
    BY MovedOutcome
  <2>2. Refused(engine, engine', "INVALID")
        /\ (engine'.kingMoved # engine.kingMoved =>
               engine.board[call'.from] = <<engine.player, "KING">>)
    BY <2>1, RefusedStep
  <2> QED
    BY <2>2 DEF Refused
<1>2. UNCHANGED vars => A
  BY DEF vars, Moved
<1>3. SoundPlay /\ [Next]_vars => A
  BY <1>1, <1>2
<1>4. Spec => [][A]_vars
  BY <1>3, AlwaysSound, PTL DEF Spec
<1> QED
  BY <1>4 DEF RefusedKeepsPieces

LEMMA OwnKeptCastling ==
  ASSUME NEW e \in EngineType, KingUnmarkedAtHome(e), NEW f, NEW res,
         NEW from \in Square, NEW to \in Square, Castled(e, f, res, from, to),
         f.player = e.player, NEW kind \in Kind
  PROVE  Cardinality(Own(f, kind)) = Cardinality(Own(e, kind))
<1> DEFINE x == <<e.player, kind>>
           S == {s \in Square : e.board[s] = x}
           T == {s \in Square : f.board[s] = x}
<1>1. Own(e, kind) = S /\ Own(f, kind) = T
  BY DEF Own, Squares
<1>2. PICK w \in Castling[e.player] : CastlesWith(e, f, from, w)
  BY CastledSquares
<1>3. x # Empty
  <2>1. e.player \in Player
    BY EngineFields
  <2> QED
    BY <2>1, PieceFacts
<1>4. CASE kind = "KING"
  <2>1. x = <<e.player, "KING">> /\ x # <<e.player, "ROOK">>
    BY <1>4
  <2>2. T = (S \ {w.king}) \cup {w.kingTo}
    <3>1. \A s \in Square : s \in T <=> s \in (S \ {w.king}) \cup {w.kingTo}
      BY <1>2, <1>3, <2>1 DEF CastlesWith
    <3> QED
      BY <1>2, <3>1 DEF CastlesWith
  <2>3. w.king \in S /\ w.kingTo \notin S /\ w.kingTo \in Square
    BY <1>2, <1>3, <2>1 DEF CastlesWith
  <2>4. S \in SUBSET Square
    OBVIOUS
  <2> HIDE DEF S, T
  <2> QED
    BY <1>1, <2>2, <2>3, <2>4, Replaced
<1>5. CASE kind = "ROOK"
  <2>1. x = <<e.player, "ROOK">> /\ x # <<e.player, "KING">>
    BY <1>5
  <2>2. T = (S \ {w.rook}) \cup {w.rookTo}
    <3>1. \A s \in Square : s \in T <=> s \in (S \ {w.rook}) \cup {w.rookTo}
      BY <1>2, <1>3, <2>1 DEF CastlesWith
    <3> QED
      BY <1>2, <3>1 DEF CastlesWith
  <2>3. w.rook \in S /\ w.rookTo \notin S /\ w.rookTo \in Square
    BY <1>2, <1>3, <2>1 DEF CastlesWith
  <2>4. S \in SUBSET Square
    OBVIOUS
  <2> HIDE DEF S, T
  <2> QED
    BY <1>1, <2>2, <2>3, <2>4, Replaced
<1>6. CASE kind \notin {"KING", "ROOK"}
  <2>1. x # <<e.player, "ROOK">> /\ x # <<e.player, "KING">>
    BY <1>6
  <2>2. \A s \in Square : s \in T <=> s \in S
    BY <1>2, <1>3, <2>1 DEF CastlesWith
  <2>3. T = S
    BY <2>2
  <2> QED
    BY <1>1, <2>3
<1> QED
  BY <1>4, <1>5, <1>6

LEMMA OwnKept ==
  ASSUME NEW e \in EngineType, KingUnmarkedAtHome(e), NEW f, NEW res,
         NEW from \in Square, NEW to \in Square, from # to, Outcome(e, f, res, from, to),
         PassantSquares(e, to, e.player) = {}, NEW kind \in Kind
  PROVE  Cardinality(Own(f, kind)) = Cardinality(Own(e, kind))
<1> DEFINE x == <<e.player, kind>>
           S == {s \in Square : e.board[s] = x}
           T == {s \in Square : f.board[s] = x}
<1>1. Own(e, kind) = S /\ Own(f, kind) = T /\ f.player = e.player
  BY DEF Own, Squares, Outcome, Always
<1>2. e.player \in Player /\ e.board \in [Square -> Pieces]
  BY EngineFields
<1>3. x # Empty /\ x \in Pieces /\ x[1] = e.player
  BY <1>2, PieceFacts
<1>4. CASE Refused(e, f, res) \/ Void(e, f, res, from, to)
  BY <1>1, <1>4 DEF Refused, Void
<1>5. CASE Castled(e, f, res, from, to)
  BY <1>1, <1>5, OwnKeptCastling
<1>6. ASSUME \/ f.board = Relocated(e.board, from, to)
             \/ /\ f.board = [Relocated(e.board, from, to) EXCEPT ![to + Down] = Empty]
                /\ to + Down # from,
             e.board[to] # x,
             \/ f.board = Relocated(e.board, from, to)
             \/ to + Down \notin Square
             \/ e.board[to + Down] # x
      PROVE  Cardinality(Own(f, kind)) = Cardinality(Own(e, kind))
  <2>1. T = IF e.board[from] = x THEN (S \ {from}) \cup {to} ELSE S
    BY <1>2, <1>3, <1>6, MovedSet
  <2>2. CASE e.board[from] = x
    <3>1. from \in S /\ to \notin S
      BY <1>6, <2>2
    <3> QED
      BY <1>1, <2>1, <2>2, <3>1, Replaced
  <2>3. CASE e.board[from] # x
    BY <1>1, <2>1, <2>3
  <2> QED
    BY <2>2, <2>3
<1>7. CASE Stepped(e, f, res, from, to)
  <2>1. f.board = Relocated(e.board, from, to) /\ e.board[to] # x
    BY <1>3, <1>7 DEF Stepped
  <2> QED
    BY <1>6, <2>1
<1>8. CASE Took(e, f, res, from, to)
  <2>1. f.board = Relocated(e.board, from, to) /\ e.board[to] # x
    BY <1>2, <1>3, <1>8, OtherPlayer DEF Took, is_other_player_piece
  <2> QED
    BY <1>6, <2>1
<1>9. CASE Passed(e, f, res, from, to)
  <2>1. /\ f.board = [Relocated(e.board, from, to) EXCEPT ![to + Down] = Empty]
        /\ en_passent_avalible(e, to) /\ Col(to) # Col(from)
    BY <1>9 DEF Passed
  <2>2. to + Down # from
    BY <2>1 DEF Down, Col, Square
  <2>3. e.board[to][1] # e.player /\ e.board[to + Down][1] # e.player
    BY <2>1 DEF PassantSquares
  <2>4. e.board[to] # x /\ e.board[to + Down] # x
    BY <1>3, <2>3
  <2> QED
    BY <1>6, <2>1, <2>2, <2>4
<1> QED
  BY <1>4, <1>5, <1>7, <1>8, <1>9 DEF Outcome

(* A move of the player's own neither makes nor loses a piece of the player's,
   unless one is in the way of taking en passant (engine.cpp:437-441, 597-652,
   795-811).                                                                  *)
THEOREM OwnAreKept == Spec => OwnPiecesKept
<1> DEFINE A == Moved /\ PassantSquares(engine, call'.to, engine.player) = {} =>
          \A kind \in Kind : Cardinality(Own(engine', kind)) = Cardinality(Own(engine, kind))
<1>1. SoundPlay /\ Next => A
  <2> SUFFICES ASSUME SoundPlay, Next, Moved,
                      PassantSquares(engine, call'.to, engine.player) = {},
                      NEW kind \in Kind
               PROVE  Cardinality(Own(engine', kind)) = Cardinality(Own(engine, kind))
    OBVIOUS
  <2>1. engine \in EngineType /\ KingUnmarkedAtHome(engine)
    BY DEF SoundPlay, Sound
  <2>2. /\ call'.from \in Square /\ call'.to \in Square /\ call'.from # call'.to
        /\ Outcome(engine, engine', call'.res, call'.from, call'.to)
    BY MovedOutcome
  <2> QED
    BY <2>1, <2>2, OwnKept
<1>2. UNCHANGED vars => A
  BY DEF vars, Moved
<1>3. SoundPlay /\ [Next]_vars => A
  BY <1>1, <1>2
<1>4. Spec => [][A]_vars
  BY <1>3, AlwaysSound, PTL DEF Spec
<1> QED
  BY <1>4 DEF OwnPiecesKept

LEMMA OpponentPieces ==
  ASSUME NEW e \in EngineType
  PROVE  /\ e.player \in Player /\ e.board \in [Square -> Pieces]
         /\ Other(e.player) # e.player /\ Empty[1] # Other(e.player)
<1>1. e.player \in Player /\ Empty[1] = ""
  BY EngineFields DEF Empty
<1> QED
  BY <1>1, EngineFields, OtherPlayer DEF Player

LEMMA TheirsAfterMove ==
  ASSUME NEW e \in EngineType, NEW f, f.player = e.player,
         NEW from \in Square, NEW to \in Square, e.board[from][1] = e.player,
         f.board = Relocated(e.board, from, to)
  PROVE  Theirs(f) = Theirs(e) \ {to}
<1>1. \A s \in Square : f.board[s] = IF s = from THEN Empty
                                     ELSE IF s = to THEN e.board[from] ELSE e.board[s]
  BY OpponentPieces, RelocatedAt
<1> QED
  BY <1>1, OpponentPieces DEF Theirs

LEMMA TheirsAfterPassing ==
  ASSUME NEW e \in EngineType, NEW f, f.player = e.player,
         NEW from \in Square, NEW to \in Square, e.board[from][1] = e.player,
         f.board = [Relocated(e.board, from, to) EXCEPT ![to + Down] = Empty]
  PROVE  Theirs(f) = Theirs(e) \ {to, to + Down}
<1>1. \A s \in Square : f.board[s] = IF s \in {from, to + Down} THEN Empty
                                     ELSE IF s = to THEN e.board[from] ELSE e.board[s]
  BY OpponentPieces, PassedAt
<1> QED
  BY <1>1, OpponentPieces DEF Theirs

TakenCount(e, f) == Cardinality(Theirs(e)) - Cardinality(Theirs(f))

LEMMA TakenBy ==
  ASSUME NEW e, NEW f, NEW T \in SUBSET Theirs(e), Theirs(f) = Theirs(e) \ T
  PROVE  TakenCount(e, f) = Cardinality(T)
<1>1. Theirs(e) \in SUBSET Square
  BY DEF Theirs
<1> QED
  BY <1>1, TakenAway DEF TakenCount

LEMMA CaptureTakes ==
  ASSUME NEW e \in EngineType, KingUnmarkedAtHome(e), NEW f, NEW res,
         NEW from \in Square, NEW to \in Square, from # to, Outcome(e, f, res, from, to)
  PROVE  /\ res \in {"CAPTURE", "PROMOTION_CAPTURE"} =>
              \/ TakenCount(e, f) = 1
              \/ /\ e.board[from][2] = "PAWN"
                 /\ \/ f = e
                    \/ /\ en_passent_avalible(e, to)
                       /\ TakenCount(e, f) = Cardinality(PassantSquares(e, to, Other(e.player)))
         /\ res \notin {"CAPTURE", "PROMOTION_CAPTURE"} => TakenCount(e, f) = 0
<1>1. f.player = e.player
  BY DEF Outcome, Always
<1>2. Theirs(f) = Theirs(e) => TakenCount(e, f) = 0
  BY TakenBy, FS_EmptySet
<1>3. e.player \in Player /\ e.board \in [Square -> Pieces]
      /\ Other(e.player) # e.player /\ Empty[1] # Other(e.player)
  BY OpponentPieces
<1>4. CASE Refused(e, f, res)
  <2>1. Theirs(f) = Theirs(e)
    BY <1>1, <1>4 DEF Theirs, Refused
  <2> QED
    BY <1>2, <1>4, <2>1 DEF Refused
<1>5. CASE Void(e, f, res, from, to)
  BY <1>5 DEF Void
<1>6. CASE e.board[from][1] = e.player /\ Stepped(e, f, res, from, to)
  <2>1. Theirs(f) = Theirs(e) \ {to}
    <3>1. f.board = Relocated(e.board, from, to) /\ e.board[from][1] = e.player
      BY <1>6 DEF Stepped
    <3> QED
      BY <1>1, <3>1, TheirsAfterMove
  <2>2. to \notin Theirs(e)
    BY <1>3, <1>6 DEF Stepped, Theirs
  <2> QED
    BY <1>2, <1>6, <2>1, <2>2 DEF Stepped
<1>7. CASE e.board[from][1] = e.player /\ Took(e, f, res, from, to)
  <2>1. Theirs(f) = Theirs(e) \ {to}
    <3>1. f.board = Relocated(e.board, from, to) /\ e.board[from][1] = e.player
      BY <1>7 DEF Took
    <3> QED
      BY <1>1, <3>1, TheirsAfterMove
  <2>2. {to} \in SUBSET Theirs(e)
    BY <1>7 DEF Took, is_other_player_piece, Theirs
  <2>3. TakenCount(e, f) = Cardinality({to})
    BY <2>1, <2>2, TakenBy
  <2> QED
    BY <1>7, <2>3, FS_Singleton DEF Took
<1>8. CASE e.board[from][1] = e.player /\ Passed(e, f, res, from, to)
  <2>1. f.board = [Relocated(e.board, from, to) EXCEPT ![to + Down] = Empty]
        /\ en_passent_avalible(e, to) /\ Row(to) = Row(from) - 1
        /\ res = "CAPTURE" /\ e.board[from][2] = "PAWN"
    BY <1>8 DEF Passed
  <2>2. Theirs(f) = Theirs(e) \ {to, to + Down}
    BY <1>1, <1>8, <2>1, TheirsAfterPassing
  <2>3. to + Down \in Square
    BY <2>1 DEF Down, Square, Row
  <2>4. PassantSquares(e, to, Other(e.player)) = Theirs(e) \cap {to, to + Down}
    BY <2>1, <2>3 DEF PassantSquares, Theirs
  <2>5. Theirs(f) = Theirs(e) \ PassantSquares(e, to, Other(e.player))
    BY <2>2, <2>4
  <2>6. TakenCount(e, f) = Cardinality(PassantSquares(e, to, Other(e.player)))
    BY <2>4, <2>5, TakenBy
  <2> QED
    BY <2>1, <2>6
<1>9. CASE Castled(e, f, res, from, to)
  <2>1. PICK w \in Castling[e.player] : CastlesWith(e, f, from, w)
    BY <1>9, CastledSquares
  <2>2. \A s \in Square : f.board[s][1] = Other(e.player) <=> e.board[s][1] = Other(e.player)
    <3>1. \A x : <<e.player, x>>[1] # Other(e.player)
      BY <1>3
    <3> QED
      BY <1>3, <2>1, <3>1 DEF CastlesWith
  <2>3. Theirs(f) = Theirs(e)
    BY <1>1, <2>2 DEF Theirs
  <2> QED
    BY <1>2, <1>9, <2>3 DEF Castled
<1> QED
  BY <1>4, <1>5, <1>6, <1>7, <1>8, <1>9 DEF Outcome

(* A move takes what it reports: one piece on a capture, none otherwise; a pawn
   alone reports a capture that took nothing, or that took what it found when it
   took en passant (engine.cpp:432-457, 698-713).                             *)
THEOREM CapturesTake == Spec => CaptureCaptures
<1> DEFINE A == Moved =>
          LET taken == Cardinality(Theirs(engine)) - Cardinality(Theirs(engine'))
          IN  IF call'.res \in {"CAPTURE", "PROMOTION_CAPTURE"}
              THEN \/ taken = 1
                   \/ /\ engine.board[call'.from][2] = "PAWN"
                      /\ \/ engine' = engine
                         \/ /\ en_passent_avalible(engine, call'.to)
                            /\ taken = Cardinality(PassantSquares(
                                    engine, call'.to, Other(engine.player)))
              ELSE taken = 0
<1>1. SoundPlay /\ Next => A
  <2> SUFFICES ASSUME SoundPlay, Next, Moved PROVE A
    OBVIOUS
  <2>1. engine \in EngineType /\ KingUnmarkedAtHome(engine)
    BY DEF SoundPlay, Sound
  <2>2. /\ call'.from \in Square /\ call'.to \in Square /\ call'.from # call'.to
        /\ Outcome(engine, engine', call'.res, call'.from, call'.to)
    BY MovedOutcome
  <2> QED
    BY <2>1, <2>2, CaptureTakes DEF TakenCount
<1>2. UNCHANGED vars => A
  BY DEF vars, Moved
<1>3. SoundPlay /\ [Next]_vars => A
  BY <1>1, <1>2
<1>4. Spec => [][A]_vars
  BY <1>3, AlwaysSound, PTL DEF Spec
<1> QED
  BY <1>4 DEF CaptureCaptures

-----------------------------------------------------------------------------
(* The way of a rook.                                                         *)

(* Of the seven steps at most, the first of some.                             *)
LEMMA FirstOf ==
  ASSUME NEW S, S \subseteq 0..6, S # {}
  PROVE  \E i \in S : \A j \in S : i <= j
<1>1. CASE 0 \in S
  BY <1>1
<1>2. CASE 0 \notin S /\ 1 \in S
  BY <1>2
<1>3. CASE 0 \notin S /\ 1 \notin S /\ 2 \in S
  BY <1>3
<1>4. CASE 0 \notin S /\ 1 \notin S /\ 2 \notin S /\ 3 \in S
  BY <1>4
<1>5. CASE 0 \notin S /\ 1 \notin S /\ 2 \notin S /\ 3 \notin S /\ 4 \in S
  BY <1>5
<1>6. CASE 0 \notin S /\ 1 \notin S /\ 2 \notin S /\ 3 \notin S /\ 4 \notin S
  <2>1. \A j \in S : j = 5 \/ j = 6
    BY <1>6
  <2>2. CASE 5 \in S
    BY <2>1, <2>2
  <2>3. CASE 5 \notin S
    <3>1. \A j \in S : j = 6
      BY <2>1, <2>3
    <3>2. PICK i \in S : TRUE
      OBVIOUS
    <3>3. \A j \in S : i <= j
      BY <3>1
    <3> QED
      BY <3>3
  <2> QED
    BY <2>2, <2>3
<1> QED
  BY <1>1, <1>2, <1>3, <1>4, <1>5, <1>6

LEMMA StepsBound ==
  ASSUME NEW from \in Square, NEW to \in Square
  PROVE  Steps(from, to) \in 0..7
  BY RowCol DEF Steps, Abs

(* A slider goes no further than its target.                                  *)
LEMMA WalkBound ==
  ASSUME NEW e, NEW from \in Square, NEW to \in Square, NEW step
  PROVE  Walk(e, from, to, step, {}) \in 0..Steps(from, to)
<1> DEFINE n == Steps(from, to)
           stops == {} \cup {i \in 0..(n - 1) : Blocked(e, from + i * step, step, to)}
           first == CHOOSE i \in stops : \A j \in stops : i <= j
<1>1. n \in 0..7
  BY StepsBound
<1>2. Walk(e, from, to, step, {}) = IF stops = {} THEN n ELSE first
  BY DEF Walk
<1> HIDE DEF n
<1>3. stops \subseteq 0..(n - 1)
  OBVIOUS
<1>4. CASE stops = {}
  BY <1>1, <1>2, <1>4 DEF n
<1>5. CASE stops # {}
  <2>1. stops \subseteq 0..6
    BY <1>1, <1>3
  <2> HIDE DEF stops
  <2>2. \E i \in stops : \A j \in stops : i <= j
    BY <1>5, <2>1, FirstOf
  <2>3. first \in stops
    BY <2>2
  <2> HIDE DEF first
  <2>4. first \in 0..n
    BY <1>1, <1>3, <2>3
  <2> QED
    BY <1>2, <1>5, <2>4 DEF n
<1> QED
  BY <1>4, <1>5

(* On a row or a column, a line goes straight on.                             *)
LEMMA StraightLine ==
  ASSUME NEW from \in Square, NEW to \in Square, from # to,
         Row(from) = Row(to) \/ Col(from) = Col(to),
         NEW i \in 0..Steps(from, to)
  PROVE  Line(from, to)[i] = from + i * Straight(from, to) /\ OnLine(from, to)
<1>1. /\ Row(from) \in 0..7 /\ Col(from) \in 0..7 /\ from = 8 * Row(from) + Col(from)
      /\ Row(to) \in 0..7 /\ Col(to) \in 0..7 /\ to = 8 * Row(to) + Col(to)
  BY RowCol
<1>2. i \in Int
  BY StepsBound
<1>3. Line(from, to)[i] = (Row(from) + i * Sign(Row(to) - Row(from))) * 8
                          + (Col(from) + i * Sign(Col(to) - Col(from)))
  BY DEF Line, At
<1>4. OnLine(from, to)
  BY <1>1 DEF OnLine, Abs
<1>5. CASE Row(from) = Row(to) /\ Col(to) > Col(from)
  <2>1. Sign(Row(to) - Row(from)) = 0 /\ Sign(Col(to) - Col(from)) = 1
        /\ Straight(from, to) = 1
    BY <1>1, <1>5 DEF Sign, Straight, Right
  <2>2. Line(from, to)[i] = (Row(from) + i * 0) * 8 + (Col(from) + i * 1)
    BY <1>3, <2>1
  <2> QED
    BY <1>1, <1>2, <1>4, <2>1, <2>2
<1>6. CASE Row(from) = Row(to) /\ Col(to) < Col(from)
  <2>1. Sign(Row(to) - Row(from)) = 0 /\ Sign(Col(to) - Col(from)) = -1
        /\ Straight(from, to) = -1
    BY <1>1, <1>6 DEF Sign, Straight, Left
  <2>2. Line(from, to)[i] = (Row(from) + i * 0) * 8 + (Col(from) + i * (-1))
    BY <1>3, <2>1
  <2> QED
    BY <1>1, <1>2, <1>4, <2>1, <2>2
<1>7. CASE Row(from) # Row(to) /\ Row(to) > Row(from)
  <2>1. Sign(Row(to) - Row(from)) = 1 /\ Sign(Col(to) - Col(from)) = 0
        /\ Straight(from, to) = 8
    BY <1>1, <1>7 DEF Sign, Straight, Down
  <2>2. Line(from, to)[i] = (Row(from) + i * 1) * 8 + (Col(from) + i * 0)
    BY <1>3, <2>1
  <2> QED
    BY <1>1, <1>2, <1>4, <2>1, <2>2
<1>8. CASE Row(from) # Row(to) /\ Row(to) < Row(from)
  <2>1. Sign(Row(to) - Row(from)) = -1 /\ Sign(Col(to) - Col(from)) = 0
        /\ Straight(from, to) = -8
    BY <1>1, <1>8 DEF Sign, Straight, Up
  <2>2. Line(from, to)[i] = (Row(from) + i * (-1)) * 8 + (Col(from) + i * 0)
    BY <1>3, <2>1
  <2> QED
    BY <1>1, <1>2, <1>4, <2>1, <2>2
<1> QED
  BY <1>1, <1>5, <1>6, <1>7, <1>8

LEMMA BrokenOnTheWay ==
  ASSUME NEW e, NEW from \in Square, NEW to \in Square, from # to,
         Row(from) = Row(to) \/ Col(from) = Col(to),
         NEW w \in Broken(e, from, to)
  PROVE  \E i \in 1..Steps(from, to) : w = {Line(from, to)[i - 1], Line(from, to)[i]}
<1> DEFINE dir == Straight(from, to)
           n == Steps(from, to)
<1>1. Walk(e, from, to, dir, {}) \in 0..n /\ n \in 0..7
  BY WalkBound, StepsBound
<1>2. PICK i \in 0..(Walk(e, from, to, dir, {}) - 1) : w = Wall(from + i * dir, dir)
  BY DEF Broken
<1>3. i \in 0..n /\ i + 1 \in 1..n /\ i + 1 \in 0..n /\ (i + 1) - 1 = i
  BY <1>1
<1>4. Line(from, to)[i] = from + i * dir /\ Line(from, to)[i + 1] = from + (i + 1) * dir
  BY <1>3, StraightLine
<1>5. dir \in {8, -8, 1, -1}
  BY DEF Straight, Up, Down, Left, Right
<1> HIDE DEF dir
<1>6. from + (i + 1) * dir = (from + i * dir) + dir
  <2>1. i \in Int /\ from \in Int
    BY <1>1 DEF Square
  <2> QED
    BY <1>5, <2>1
<1>7. w = {Line(from, to)[i], Line(from, to)[i + 1]}
  BY <1>2, <1>4, <1>6 DEF Wall
<1> QED
  BY <1>3, <1>7

LEMMA RookBreaks ==
  ASSUME NEW e \in EngineType, NEW from \in Square, NEW to \in Square,
         e.board[from] = <<e.player, "ROOK">>,
         NEW w, w \in e.walls, w \notin move_piece(e, from, to)[1].walls
  PROVE  /\ Row(from) = Row(to) \/ Col(from) = Col(to)
         /\ w \in Broken(e, from, to)
<1> DEFINE ws == e.walls \ Broken(e, from, to)
           after == [e EXCEPT !.walls = ws]
           t == TakeOrStep(after, from, to)
           r == move_piece(e, from, to)
<1>1. r = move_up_down_left_right(e, from, to, TRUE)
  BY DEF move_piece, valid_piece
<1>2. \/ r = <<e, "INVALID">>
      \/ /\ Row(from) = Row(to) \/ Col(from) = Col(to)
         /\ r = <<after, "INVALID">> \/ r = t
  BY <1>1, RookWay
<1>3. ws \in SUBSET AllWalls
  BY EngineFields
<1>4. w \notin r[1].walls /\ w \in e.walls
  OBVIOUS
<1> HIDE DEF r, ws
<1>5. /\ after \in EngineType /\ after.walls = ws
      /\ after.player = e.player /\ after.board = e.board
  BY <1>3, WriteWalls
<1> HIDE DEF after
<1>6. t[1].walls = ws
  BY <1>5, TakeOrStepOutcome
<1> HIDE DEF t
<1>7. CASE r = <<e, "INVALID">>
  BY <1>4, <1>7
<1>8. CASE r # <<e, "INVALID">>
  <2>1. r[1].walls = ws
    BY <1>2, <1>5, <1>6, <1>8
  <2> QED
    BY <1>2, <1>4, <1>8, <2>1 DEF ws
<1> QED
  BY <1>7, <1>8

(* A call has a number of its own.                                            *)
CallsCounted == calls \in Nat /\ call.at \in 0..calls

LEMMA AlwaysCounted == Spec => []CallsCounted
<1>1. Init => CallsCounted
  <2> SUFFICES ASSUME Init PROVE CallsCounted
    OBVIOUS
  <2>1. calls = 0 /\ call = NoCall
    BY DEF Init
  <2>2. call.at = 0
    BY <2>1 DEF NoCall
  <2> QED
    BY <2>1, <2>2 DEF CallsCounted
<1>2. ASSUME CallsCounted, [Next]_vars
      PROVE  CallsCounted'
  <2>1. CASE calls' = calls + 1 /\ call' = call
    BY <1>2, <2>1 DEF CallsCounted
  <2>2. CASE calls' = calls + 1 /\ call'.at = calls'
    BY <1>2, <2>2 DEF CallsCounted
  <2>3. CASE calls' = calls /\ call' = call
    BY <1>2, <2>3 DEF CallsCounted
  <2>4. \A op, from, to, r : Called(op, from, to, r) => calls' = calls + 1 /\ call'.at = calls'
    BY DEF Called, Counted
  <2>5. \A after : Message(after) => calls' = calls + 1 /\ call' = call
    BY DEF Message, Counted
  <2>6. CASE \/ \E c \in Clicks[play] : MovePiece(c[1], c[2])
             \/ \E c \in WallClicks[play] : BuildWall(c[1], c[2])
             \/ \E kind \in Promotions : Promote(kind)
    BY <2>2, <2>4, <2>6 DEF MovePiece, BuildWall, Promote
  <2>7. CASE \/ \E c \in OpponentMoves[play] : OpponentMove(c[1], c[2])
             \/ \E s \in Opportunities[play] : OpponentDoubleStep(s)
             \/ \E c \in OpponentWalls[play] : OpponentWall(c[1], c[2])
             \/ \E c \in OpponentMoves[play], kind \in Promotions :
                    OpponentPromote(c[1], c[2], kind)
    BY <2>1, <2>5, <2>7 DEF OpponentMove, OpponentDoubleStep, OpponentWall, OpponentPromote
  <2>8. CASE CheckTimeouts \/ UNCHANGED vars
    BY <2>3, <2>8 DEF CheckTimeouts, vars
  <2> QED
    BY <1>2, <2>6, <2>7, <2>8 DEF Next
<1> QED
  BY <1>1, <1>2, PTL DEF Spec

LEMMA WallsKeptUnlessMoved ==
  ASSUME SoundPlay, CallsCounted, Next, ~Moved
  PROVE  engine.walls \subseteq engine'.walls
<1>0. Sound(engine) /\ engine \in EngineType /\ play \in Plays
  BY DEF SoundPlay, Sound
<1>1. ASSUME NEW from, NEW to, NEW r, Called("move", from, to, r)
      PROVE  FALSE
  <2>1. call'.at = calls + 1 /\ call'.op = "move"
    BY <1>1 DEF Called, Counted
  <2>2. call'.at # call.at
    BY <2>1 DEF CallsCounted
  <2> QED
    BY <2>1, <2>2 DEF Moved
<1>2. ASSUME NEW c \in Clicks[play], MovePiece(c[1], c[2])
      PROVE  FALSE
  BY <1>1, <1>2 DEF MovePiece
<1>3. ASSUME NEW c \in WallClicks[play], BuildWall(c[1], c[2])
      PROVE  engine.walls \subseteq engine'.walls
  <2>1. c[1] \in Square /\ c[2] \in Square
    BY <1>0, ClicksAssumption
  <2>2. engine' = build_wall(engine, c[1], c[2])[1]
    BY <1>1, <1>3 DEF BuildWall, Called
  <2> QED
    BY <1>0, <2>1, <2>2, BuildOutcome DEF OnlyWalls
<1>4. ASSUME NEW kind \in Promotions, Promote(kind)
      PROVE  engine.walls \subseteq engine'.walls
  <2>1. engine.waiting # NoPromotion /\ engine' = promote(engine, kind)
    BY <1>4 DEF Promote, Called
  <2>2. engine.waiting.to \in Square
    BY <1>0, <2>1 DEF Sound, WaitsOnBoard
  <2> QED
    BY <1>0, <2>1, <2>2, PromoteOutcome
<1>5. ASSUME NEW c \in OpponentMoves[play], OpponentMove(c[1], c[2])
      PROVE  engine.walls \subseteq engine'.walls
  <2>1. c[1] \in Square /\ c[2] \in Square
    BY <1>0, ClicksAssumption
  <2>2. engine' = move_piece_no_check(engine, c[1], c[2])
    BY <1>5 DEF OpponentMove, Message, opponent_move
  <2> QED
    BY <1>0, <2>1, <2>2, NoCheck
<1>6. ASSUME NEW s \in Opportunities[play], OpponentDoubleStep(s)
      PROVE  engine.walls \subseteq engine'.walls
  <2> DEFINE to == s + 2 * Down
             under == Reverse(get_under_position_of(Reverse(to)))
             given == add_en_passent_oppertunity(engine, under, engine.moves + 1)
  <2>1. s \in Square /\ Row(s) = 1
    BY <1>0, ClicksAssumption
  <2>2. to \in Square /\ under \in Square
    BY <2>1, UnderADoubleStep
  <2>3. engine' = move_piece_no_check(given, s, to)
    BY <1>6 DEF OpponentDoubleStep, Message, opponent_move
  <2> HIDE DEF to, under
  <2>4. under \in Int /\ engine.moves + 1 \in Nat
    <3>1. engine.moves \in Nat
      BY <1>0, EngineFields
    <3>2. under \in Int
      BY <2>2 DEF Square
    <3> QED
      BY <3>1, <3>2
  <2>5. given \in EngineType /\ given.walls = engine.walls
    BY <1>0, <2>4, OpportunityOutcome
  <2> HIDE DEF given
  <2> QED
    BY <2>1, <2>2, <2>3, <2>5, NoCheck
<1>7. ASSUME NEW c \in OpponentWalls[play], OpponentWall(c[1], c[2])
      PROVE  engine.walls \subseteq engine'.walls
  <2>1. c[1] \in Square /\ c[2] \in Square
    BY <1>0, ClicksAssumption
  <2>2. engine' = build_wall_opponent(engine, c[1], c[2])
    BY <1>7 DEF OpponentWall, Message
  <2> QED
    BY <1>0, <2>1, <2>2, BuildOpponentOutcome DEF OnlyWalls
<1>8. ASSUME NEW c \in OpponentMoves[play], NEW kind \in Promotions,
             OpponentPromote(c[1], c[2], kind)
      PROVE  engine.walls \subseteq engine'.walls
  <2>1. c[1] \in Square /\ c[2] \in Square
    BY <1>0, ClicksAssumption
  <2>2. engine' = opponent_promote(engine, c[1], c[2], kind)
    BY <1>8 DEF OpponentPromote, Message
  <2> QED
    BY <1>0, <2>1, <2>2, OpponentPromoteOutcome
<1>9. ASSUME CheckTimeouts
      PROVE  engine.walls \subseteq engine'.walls
  <2>1. PICK n \in 1..Len(engine.timeOuts) : engine' = check_timeouts(engine, n)
    BY <1>9 DEF CheckTimeouts
  <2>2. n \in 0..Len(engine.timeOuts)
    BY <1>0, EngineFields
  <2> QED
    BY <1>0, <2>1, <2>2, CheckTimeoutsOutcome
<1> QED
  BY <1>2, <1>3, <1>4, <1>5, <1>6, <1>7, <1>8, <1>9 DEF Next

(* Only a rook of the player's that was moved breaks walls, and it breaks none
   but those on its way (engine.cpp:719, 847-877).                            *)
THEOREM RooksBreakWalls == Spec => WallsGoByRook
<1> DEFINE A == \A w \in engine.walls \ engine'.walls :
          /\ Moved
          /\ engine.board[call'.from] = <<engine.player, "ROOK">>
          /\ OnLine(call'.from, call'.to)
          /\ \E i \in 1..Steps(call'.from, call'.to) :
                w = {Line(call'.from, call'.to)[i - 1],
                     Line(call'.from, call'.to)[i]}
<1>1. SoundPlay /\ CallsCounted /\ Next => A
  <2> SUFFICES ASSUME SoundPlay, CallsCounted, Next, NEW w \in engine.walls \ engine'.walls
               PROVE  /\ Moved
                      /\ engine.board[call'.from] = <<engine.player, "ROOK">>
                      /\ OnLine(call'.from, call'.to)
                      /\ \E i \in 1..Steps(call'.from, call'.to) :
                            w = {Line(call'.from, call'.to)[i - 1],
                                 Line(call'.from, call'.to)[i]}
    OBVIOUS
  <2>1. Moved
    BY WallsKeptUnlessMoved
  <2>2. /\ call'.from \in Square /\ call'.to \in Square /\ call'.from # call'.to
        /\ engine' = move_piece(engine, call'.from, call'.to)[1]
        /\ Outcome(engine, engine', call'.res, call'.from, call'.to)
    BY <2>1, MovedOutcome
  <2>3. engine \in EngineType
    BY DEF SoundPlay, Sound
  <2>4. engine.board[call'.from] = <<engine.player, "ROOK">>
    BY <2>2 DEF Outcome, Always
  <2>5. /\ Row(call'.from) = Row(call'.to) \/ Col(call'.from) = Col(call'.to)
        /\ w \in Broken(engine, call'.from, call'.to)
    BY <2>2, <2>3, <2>4, RookBreaks
  <2>6. OnLine(call'.from, call'.to)
    <3>1. 0 \in 0..Steps(call'.from, call'.to)
      BY <2>2, StepsBound
    <3> QED
      BY <2>2, <2>5, <3>1, StraightLine
  <2>7. \E i \in 1..Steps(call'.from, call'.to) :
            w = {Line(call'.from, call'.to)[i - 1], Line(call'.from, call'.to)[i]}
    BY <2>2, <2>5, BrokenOnTheWay
  <2> QED
    BY <2>1, <2>4, <2>6, <2>7
<1>2. UNCHANGED vars => A
  BY DEF vars
<1>3. SoundPlay /\ CallsCounted /\ [Next]_vars => A
  BY <1>1, <1>2
<1>4. Spec => [][A]_vars
  BY <1>3, AlwaysSound, AlwaysCounted, PTL DEF Spec
<1> QED
  BY <1>4 DEF WallsGoByRook

-----------------------------------------------------------------------------
(* The rules of the moves.                                                    *)

(* What stands in the way of none of the steps is no own piece at the end.    *)
LEMMA Taken ==
  ASSUME NEW e \in EngineType, NEW from \in Square, NEW to \in Square
  PROVE  TakeOrStep(e, from, to)[2] # "INVALID" <=> e.board[to][1] # e.player
<1>1. /\ e.player \in Player /\ Other(e.player) # e.player
      /\ \/ e.board[to] = Empty /\ e.board[to][1] = ""
         \/ e.board[to] # Empty /\ e.board[to][1] \in Player
  BY EngineFields, PieceCases, OtherPlayer
<1>2. CASE is_other_player_piece(e, to)
  <2>1. e.board[to] # Empty
    BY <1>1, <1>2 DEF is_other_player_piece, Player, Other
  <2>2. TakeOrStep(e, from, to)[2] = "CAPTURE"
    BY <1>2, <2>1 DEF TakeOrStep
  <2> QED
    BY <1>1, <1>2, <2>2 DEF is_other_player_piece
<1>3. CASE e.board[to] = Empty
  <2>1. ~is_other_player_piece(e, to)
    BY <1>1, <1>3 DEF is_other_player_piece, Player, Other
  <2>2. TakeOrStep(e, from, to)[2] = "SUCCESS"
    BY <1>3, <2>1 DEF TakeOrStep
  <2> QED
    BY <1>1, <1>3, <2>2 DEF Player
<1>4. CASE ~is_other_player_piece(e, to) /\ e.board[to] # Empty
  <2>1. TakeOrStep(e, from, to)[2] = "INVALID"
    BY <1>4 DEF TakeOrStep
  <2>2. e.board[to][1] = e.player
    BY <1>1, <1>4 DEF is_other_player_piece, Player, Other
  <2> QED
    BY <2>1, <2>2
<1> QED
  BY <1>2, <1>3, <1>4

(* A slider arrives unless it is stopped on the way.                          *)
LEMMA WalkArrives ==
  ASSUME NEW e, NEW from \in Square, NEW to \in Square, NEW step,
         NEW walled, walled \subseteq 0..(Steps(from, to) - 1)
  PROVE  Walk(e, from, to, step, walled) = Steps(from, to) <=>
             /\ walled = {}
             /\ \A i \in 0..(Steps(from, to) - 1) : ~Blocked(e, from + i * step, step, to)
<1> DEFINE n == Steps(from, to)
           blocked == {i \in 0..(n - 1) : Blocked(e, from + i * step, step, to)}
           stops == walled \cup blocked
           first == CHOOSE i \in stops : \A j \in stops : i <= j
<1>1. n \in 0..7
  BY StepsBound
<1>2. Walk(e, from, to, step, walled) = IF stops = {} THEN n ELSE first
  BY DEF Walk
<1>3. stops = {} <=> walled = {} /\ \A i \in 0..(n - 1) : ~Blocked(e, from + i * step, step, to)
  OBVIOUS
<1>4. stops \subseteq 0..(n - 1)
  OBVIOUS
<1> HIDE DEF n, stops
<1>5. CASE stops # {}
  <2>1. stops \subseteq 0..6
    BY <1>1, <1>4
  <2>2. \E i \in stops : \A j \in stops : i <= j
    BY <1>5, <2>1, FirstOf
  <2>3. first \in stops
    BY <2>2
  <2> HIDE DEF first
  <2>4. first # n
    BY <1>1, <1>4, <2>3
  <2> QED
    BY <1>2, <1>3, <1>5, <2>4 DEF n
<1>6. CASE stops = {}
  BY <1>2, <1>3, <1>6 DEF n
<1> QED
  BY <1>5, <1>6

(* A line, by row and column.                                                 *)
LEMMA SignCases ==
  ASSUME NEW a \in 0..7, NEW b \in 0..7, NEW i \in Nat, i <= Abs(b - a) \/ b = a
  PROVE  /\ Sign(b - a) \in {-1, 0, 1}
         /\ a + i * Sign(b - a) \in 0..7
         /\ a + i * Sign(b - a) = IF b > a THEN a + i ELSE IF b < a THEN a - i ELSE a
<1>1. CASE b > a
  <2>1. Sign(b - a) = 1 /\ Abs(b - a) = b - a
    BY <1>1 DEF Sign, Abs
  <2> QED
    BY <1>1, <2>1
<1>2. CASE b < a
  <2>1. Sign(b - a) = -1 /\ Abs(b - a) = a - b
    BY <1>2 DEF Sign, Abs
  <2>2. i * (-1) = -i
    OBVIOUS
  <2> QED
    BY <1>2, <2>1, <2>2
<1>3. CASE b = a
  <2>1. Sign(b - a) = 0
    BY <1>3 DEF Sign
  <2> QED
    BY <1>3, <2>1
<1> QED
  BY <1>1, <1>2, <1>3

LEMMA LinePoint ==
  ASSUME NEW from \in Square, NEW to \in Square, OnLine(from, to),
         NEW i \in 0..Steps(from, to)
  PROVE  LET s == Line(from, to)[i]
             dr == Sign(Row(to) - Row(from))
             dc == Sign(Col(to) - Col(from))
         IN  /\ s \in Square
             /\ Row(s) = Row(from) + i * dr /\ Col(s) = Col(from) + i * dc
             /\ dr \in {-1, 0, 1} /\ dc \in {-1, 0, 1}
<1>1. /\ Row(from) \in 0..7 /\ Col(from) \in 0..7
      /\ Row(to) \in 0..7 /\ Col(to) \in 0..7
  BY RowCol
<1>2. Steps(from, to) \in 0..7 /\ i \in Nat
  BY StepsBound
<1>3. /\ i <= Abs(Row(to) - Row(from)) \/ Row(to) = Row(from)
      /\ i <= Abs(Col(to) - Col(from)) \/ Col(to) = Col(from)
  BY <1>1, <1>2 DEF OnLine, Steps, Abs
<1> DEFINE dr == Sign(Row(to) - Row(from))
           dc == Sign(Col(to) - Col(from))
           r == Row(from) + i * dr
           c == Col(from) + i * dc
<1>4. r \in 0..7 /\ c \in 0..7 /\ dr \in {-1, 0, 1} /\ dc \in {-1, 0, 1}
  BY <1>1, <1>2, <1>3, SignCases
<1>5. Line(from, to)[i] = At(r, c)
  BY DEF Line
<1> HIDE DEF dr, dc, r, c
<1>6. At(r, c) \in Square /\ Row(At(r, c)) = r /\ Col(At(r, c)) = c
  BY <1>4, AtSquare
<1> QED
  BY <1>4, <1>5, <1>6 DEF dr, dc, r, c

(* The difference between a square and the next one of a line.                *)
Unit(from, to) == 8 * Sign(Row(to) - Row(from)) + Sign(Col(to) - Col(from))

LEMMA UnitCases ==
  ASSUME NEW from \in Square, NEW to \in Square
  PROVE  /\ Unit(from, to) \in -9..9
         /\ from # to => Unit(from, to) # 0
<1>1. /\ Row(from) \in 0..7 /\ Col(from) \in 0..7 /\ from = 8 * Row(from) + Col(from)
      /\ Row(to) \in 0..7 /\ Col(to) \in 0..7 /\ to = 8 * Row(to) + Col(to)
  BY RowCol
<1>2. Sign(Row(to) - Row(from)) = IF Row(to) < Row(from) THEN -1
                                  ELSE IF Row(to) > Row(from) THEN 1 ELSE 0
  BY <1>1 DEF Sign
<1>3. Sign(Col(to) - Col(from)) = IF Col(to) < Col(from) THEN -1
                                  ELSE IF Col(to) > Col(from) THEN 1 ELSE 0
  BY <1>1 DEF Sign
<1> QED
  BY <1>1, <1>2, <1>3 DEF Unit

LEMMA LineByUnits ==
  ASSUME NEW from \in Square, NEW to \in Square, OnLine(from, to),
         NEW i \in 0..Steps(from, to)
  PROVE  Line(from, to)[i] = from + i * Unit(from, to) /\ Line(from, to)[i] \in Square
<1> DEFINE s == Line(from, to)[i]
           dr == Sign(Row(to) - Row(from))
           dc == Sign(Col(to) - Col(from))
<1>1. /\ s \in Square /\ Row(s) = Row(from) + i * dr /\ Col(s) = Col(from) + i * dc
      /\ dr \in {-1, 0, 1} /\ dc \in {-1, 0, 1}
  BY LinePoint
<1>2. /\ Row(from) \in 0..7 /\ Col(from) \in 0..7 /\ from = 8 * Row(from) + Col(from)
  BY RowCol
<1>3. Unit(from, to) = 8 * dr + dc
  BY DEF Unit
<1>4. i \in Nat
  BY StepsBound
<1> HIDE DEF s, dr, dc
<1>5. s = 8 * Row(s) + Col(s)
  BY <1>1, RowCol
<1>6. i * (8 * dr + dc) = 8 * (i * dr) + i * dc
  BY <1>1, <1>4
<1>7. i * dr \in Int /\ i * dc \in Int
  BY <1>1, <1>4
<1>8. \A a, b \in Int : 8 * (Row(from) + a) + (Col(from) + b) = from + (8 * a + b)
  BY <1>2
<1>9. s = from + i * Unit(from, to)
  BY <1>1, <1>3, <1>5, <1>6, <1>7, <1>8
<1> QED
  BY <1>1, <1>9 DEF s

LEMMA LineEnds ==
  ASSUME NEW from \in Square, NEW to \in Square, OnLine(from, to)
  PROVE  Line(from, to)[0] = from /\ Line(from, to)[Steps(from, to)] = to
<1> DEFINE n == Steps(from, to)
           s == Line(from, to)[n]
<1>1. /\ Row(from) \in 0..7 /\ Col(from) \in 0..7 /\ Row(to) \in 0..7 /\ Col(to) \in 0..7
      /\ to = 8 * Row(to) + Col(to)
  BY RowCol
<1>2. n \in 0..7
  BY StepsBound
<1>3. Line(from, to)[0] = from + 0 * Unit(from, to)
  BY <1>2, LineByUnits
<1>4. n = Abs(Row(to) - Row(from)) \/ Row(to) = Row(from)
  BY <1>1 DEF OnLine, Steps, Abs
<1>5. n = Abs(Col(to) - Col(from)) \/ Col(to) = Col(from)
  BY <1>1 DEF OnLine, Steps, Abs
<1>6. /\ Row(s) = Row(from) + n * Sign(Row(to) - Row(from))
      /\ Col(s) = Col(from) + n * Sign(Col(to) - Col(from))
      /\ s \in Square
  BY <1>2, LinePoint
<1> HIDE DEF n, s
<1>7. Row(s) = Row(to)
  BY <1>1, <1>2, <1>4, <1>6, SignCases DEF Abs
<1>8. Col(s) = Col(to)
  BY <1>1, <1>2, <1>5, <1>6, SignCases DEF Abs
<1>9. s = to
  BY <1>1, <1>6, <1>7, <1>8, RowCol
<1>10. Line(from, to)[0] = from
  <2>1. Unit(from, to) \in -9..9
    BY UnitCases
  <2>2. from \in Int
    BY DEF Square
  <2> QED
    BY <1>3, <2>1, <2>2
<1> QED
  BY <1>9, <1>10 DEF n, s

(* A slider is not stopped by a piece if nothing is strictly between.         *)
LEMMA ClearWay ==
  ASSUME NEW e, NEW from \in Square, NEW to \in Square, from # to, OnLine(from, to)
  PROVE  (\A i \in 0..(Steps(from, to) - 1) :
              ~Blocked(e, from + i * Unit(from, to), Unit(from, to), to))
         <=> Clear(e, from, to)
<1> DEFINE n == Steps(from, to)
           u == Unit(from, to)
           line == Line(from, to)
<1>1. n \in 0..7 /\ u \in -9..9 /\ u # 0 /\ from \in 0..63 /\ to \in 0..63
  BY StepsBound, UnitCases DEF Square
<1>2. \A i \in 0..n : line[i] = from + i * u
  BY LineByUnits
<1>3. to = from + n * u
  BY <1>1, <1>2, LineEnds
<1>4. Clear(e, from, to) <=> \A i \in 1..(n - 1) : e.board[line[i]] = Empty
  BY DEF Clear
<1> HIDE DEF n, u, line
<1>5. ASSUME NEW i \in 0..(n - 1)
      PROVE  Blocked(e, from + i * u, u, to) <=> (i + 1 # n /\ e.board[line[i + 1]] # Empty)
  <2>1. i + 1 \in 0..n /\ i \in Int
    BY <1>1
  <2>2. line[i + 1] = from + (i + 1) * u
    BY <1>2, <2>1
  <2>3. (from + i * u) + u = from + (i + 1) * u
    BY <1>1, <2>1
  <2>4. from + (i + 1) * u = from + n * u <=> i + 1 = n
    BY <1>1, <2>1
  <2> QED
    BY <1>3, <2>2, <2>3, <2>4 DEF Blocked, piece_exists
<1>6. ASSUME NEW i \in 1..(n - 1)
      PROVE  i - 1 \in 0..(n - 1) /\ (i - 1) + 1 = i /\ i # n
  BY <1>1
<1>7. ASSUME NEW i \in 0..(n - 1), i + 1 # n
      PROVE  i + 1 \in 1..(n - 1)
  BY <1>1, <1>7
<1>8. ASSUME \A i \in 0..(n - 1) : ~Blocked(e, from + i * u, u, to), NEW i \in 1..(n - 1)
      PROVE  e.board[line[i]] = Empty
  BY <1>5, <1>6, <1>8
<1>9. ASSUME \A i \in 1..(n - 1) : e.board[line[i]] = Empty, NEW i \in 0..(n - 1)
      PROVE  ~Blocked(e, from + i * u, u, to)
  BY <1>5, <1>7, <1>9
<1> QED
  BY <1>4, <1>8, <1>9 DEF n, u, line

(* One step is stopped by walls just if it is not open.                       *)
LEMMA StraightOpen ==
  ASSUME NEW e, NEW s \in Square, NEW t \in Square, NEW dir \in Sides, t = s + dir,
         Row(s) = Row(t) \/ Col(s) = Col(t), Row(s) = Row(t) <=> dir \in {Left, Right}
  PROVE  can_move_straight_wall_check(e, s, dir) <=> Open(e, s, t)
<1>1. /\ Row(s) \in 0..7 /\ Col(s) \in 0..7 /\ s = 8 * Row(s) + Col(s)
      /\ Row(t) \in 0..7 /\ Col(t) \in 0..7 /\ t = 8 * Row(t) + Col(t)
  BY RowCol
<1>2. ~OnEdge(s, dir)
  <2>1. dir = -8 \/ dir = 8 \/ dir = -1 \/ dir = 1
    BY DEF Sides, Up, Down, Left, Right
  <2>2. Row(s) = Row(t) <=> dir = -1 \/ dir = 1
    BY <2>1 DEF Left, Right
  <2>3. /\ dir = -8 => Row(s) # 0
        /\ dir = 8 => Row(s) # 7
        /\ dir = -1 => Col(s) # 0
        /\ dir = 1 => Col(s) # 7
    BY <1>1, <2>2
  <2> QED
    BY <2>1, <2>3 DEF OnEdge, Up, Down, Left, Right
<1>3. Open(e, s, t) <=> {s, t} \notin e.walls
  BY DEF Open
<1> QED
  BY <1>2, <1>3 DEF can_move_straight_wall_check, WallExists, Wall

LEMMA DiagonalOpen ==
  ASSUME NEW e, NEW s \in Square, NEW t \in Square, NEW v \in {Up, Down},
         NEW h \in {Left, Right},
         Row(t) = Row(s) + (IF v = Down THEN 1 ELSE -1), Col(t) = Col(s) + h
  PROVE  can_move_diagonal_wall_check(e, s, v, h) <=> Open(e, s, t)
<1> DEFINE a == At(Row(t), Col(s))
           b == At(Row(s), Col(t))
<1>1. /\ Row(s) \in 0..7 /\ Col(s) \in 0..7 /\ s = 8 * Row(s) + Col(s)
      /\ Row(t) \in 0..7 /\ Col(t) \in 0..7 /\ t = 8 * Row(t) + Col(t)
  BY RowCol
<1>2. s + v = a /\ s + h = b /\ s + v + h = t /\ t + (-v) = b /\ t + (-h) = a
  BY <1>1 DEF At, Up, Down, Left, Right
<1>3. ~OnEdge(s, v) /\ ~OnEdge(s, h) /\ ~OnEdge(t, -v) /\ ~OnEdge(t, -h)
  BY <1>1 DEF OnEdge, Up, Down, Left, Right
<1>4. Row(s) # Row(t) /\ Col(s) # Col(t)
  BY <1>1 DEF Left, Right
<1>5. Open(e, s, t) <=> \/ {s, a} \notin e.walls /\ {a, t} \notin e.walls
                        \/ {s, b} \notin e.walls /\ {b, t} \notin e.walls
  BY <1>4 DEF Open
<1> HIDE DEF a, b
<1>6. /\ WallExists(e, s, v) <=> {s, a} \in e.walls
      /\ WallExists(e, s, h) <=> {s, b} \in e.walls
      /\ WallExists(e, t, -v) <=> {t, b} \in e.walls
      /\ WallExists(e, t, -h) <=> {t, a} \in e.walls
  BY <1>2, <1>3 DEF WallExists, Wall
<1>7. {t, b} = {b, t} /\ {t, a} = {a, t}
  OBVIOUS
<1> QED
  BY <1>2, <1>5, <1>6, <1>7 DEF can_move_diagonal_wall_check

LEMMA NextOnLine ==
  ASSUME NEW from \in Square, NEW to \in Square, OnLine(from, to), from # to,
         NEW i \in 0..(Steps(from, to) - 1)
  PROVE  LET s == Line(from, to)[i]
             t == Line(from, to)[i + 1]
         IN  /\ s \in Square /\ t \in Square
             /\ s = from + i * Unit(from, to) /\ t = s + Unit(from, to)
             /\ Row(t) = Row(s) + Sign(Row(to) - Row(from))
             /\ Col(t) = Col(s) + Sign(Col(to) - Col(from))
<1> DEFINE n == Steps(from, to)
           s == Line(from, to)[i]
           t == Line(from, to)[i + 1]
           dr == Sign(Row(to) - Row(from))
           dc == Sign(Col(to) - Col(from))
           u == Unit(from, to)
<1>1. n \in 0..7 /\ i \in 0..n /\ i + 1 \in 0..n /\ i \in Nat
  BY StepsBound
<1>2. /\ s \in Square /\ Row(s) = Row(from) + i * dr /\ Col(s) = Col(from) + i * dc
      /\ dr \in {-1, 0, 1} /\ dc \in {-1, 0, 1}
  BY <1>1, LinePoint
<1>3. t \in Square /\ Row(t) = Row(from) + (i + 1) * dr /\ Col(t) = Col(from) + (i + 1) * dc
  BY <1>1, LinePoint
<1>4. s = from + i * u /\ t = from + (i + 1) * u
  BY <1>1, LineByUnits
<1>5. u \in -9..9 /\ from \in 0..63 /\ Row(from) \in 0..7 /\ Col(from) \in 0..7
  BY UnitCases, RowCol DEF Square
<1> HIDE DEF s, t, dr, dc, u, n
<1>6. /\ (i + 1) * dr = i * dr + dr /\ i * dr \in Int
      /\ (i + 1) * dc = i * dc + dc /\ i * dc \in Int
      /\ (i + 1) * u = i * u + u /\ i * u \in Int
  BY <1>1, <1>2, <1>5
<1>7. t = s + u
  BY <1>4, <1>5, <1>6
<1>8. Row(t) = Row(s) + dr /\ Col(t) = Col(s) + dc
  BY <1>2, <1>3, <1>5, <1>6
<1> QED
  BY <1>2, <1>3, <1>4, <1>7, <1>8 DEF s, t, dr, dc, u

(* What holds of each step of a line, by its first square or by its last.     *)
LEMMA AllOpenFrom ==
  ASSUME NEW e, NEW from \in Square, NEW to \in Square
  PROVE  AllOpen(e, from, to) <=>
            \A i \in 0..(Steps(from, to) - 1) :
                Open(e, Line(from, to)[i], Line(from, to)[i + 1])
<1> DEFINE n == Steps(from, to)
           P(i) == Open(e, Line(from, to)[i], Line(from, to)[i + 1])
<1>1. n \in 0..7
  BY StepsBound
<1>2. AllOpen(e, from, to) <=> \A i \in 1..n : Open(e, Line(from, to)[i - 1], Line(from, to)[i])
  BY DEF AllOpen
<1> HIDE DEF n
<1>3. ASSUME NEW i \in 1..n
      PROVE  i - 1 \in 0..(n - 1) /\ (i - 1) + 1 = i
  BY <1>1
<1>4. ASSUME NEW i \in 0..(n - 1)
      PROVE  i + 1 \in 1..n /\ (i + 1) - 1 = i
  BY <1>1
<1>5. ASSUME \A i \in 0..(n - 1) : P(i), NEW i \in 1..n
      PROVE  Open(e, Line(from, to)[i - 1], Line(from, to)[i])
  <2>1. P(i - 1)
    BY <1>3, <1>5
  <2> QED
    BY <1>3, <2>1
<1>6. ASSUME \A i \in 1..n : Open(e, Line(from, to)[i - 1], Line(from, to)[i]),
             NEW i \in 0..(n - 1)
      PROVE  P(i)
  <2>1. Open(e, Line(from, to)[(i + 1) - 1], Line(from, to)[i + 1])
    BY <1>4, <1>6
  <2> QED
    BY <1>4, <2>1
<1> QED
  BY <1>2, <1>5, <1>6 DEF n

(* The engine's directions are those of the line.                             *)
LEMMA StraightUnit ==
  ASSUME NEW from \in Square, NEW to \in Square, from # to,
         Row(from) = Row(to) \/ Col(from) = Col(to)
  PROVE  /\ OnLine(from, to)
         /\ Straight(from, to) = Unit(from, to) /\ Straight(from, to) \in Sides
         /\ Straight(from, to) \in {Left, Right} <=> Sign(Row(to) - Row(from)) = 0
         /\ Sign(Row(to) - Row(from)) = 0 \/ Sign(Col(to) - Col(from)) = 0
<1>1. /\ Row(from) \in 0..7 /\ Col(from) \in 0..7 /\ from = 8 * Row(from) + Col(from)
      /\ Row(to) \in 0..7 /\ Col(to) \in 0..7 /\ to = 8 * Row(to) + Col(to)
  BY RowCol
<1>2. Sign(Row(to) - Row(from)) = IF Row(to) < Row(from) THEN -1
                                  ELSE IF Row(to) > Row(from) THEN 1 ELSE 0
  BY <1>1 DEF Sign
<1>3. Sign(Col(to) - Col(from)) = IF Col(to) < Col(from) THEN -1
                                  ELSE IF Col(to) > Col(from) THEN 1 ELSE 0
  BY <1>1 DEF Sign
<1>4. Straight(from, to) = IF Row(from) = Row(to) THEN IF Col(to) > Col(from) THEN 1 ELSE -1
                           ELSE IF Row(to) > Row(from) THEN 8 ELSE -8
  BY DEF Straight, Up, Down, Left, Right
<1>5. OnLine(from, to)
  BY <1>1 DEF OnLine, Abs
<1>6. Unit(from, to) = 8 * Sign(Row(to) - Row(from)) + Sign(Col(to) - Col(from))
  BY DEF Unit
<1> QED
  BY <1>1, <1>2, <1>3, <1>4, <1>5, <1>6 DEF Sides, Up, Down, Left, Right

LEMMA DiagonalUnit ==
  ASSUME NEW from \in Square, NEW to \in Square, from # to,
         Abs(Row(to) - Row(from)) = Abs(Col(to) - Col(from))
  PROVE  LET v == IF Row(to) - Row(from) > 0 THEN Down ELSE Up
             h == IF Col(to) - Col(from) > 0 THEN Right ELSE Left
         IN  /\ OnLine(from, to) /\ Row(from) # Row(to) /\ Col(from) # Col(to)
             /\ Steps(from, to) = Abs(Row(to) - Row(from))
             /\ v + h = Unit(from, to)
             /\ Sign(Row(to) - Row(from)) = IF v = Down THEN 1 ELSE -1
             /\ Sign(Col(to) - Col(from)) = h
<1>1. /\ Row(from) \in 0..7 /\ Col(from) \in 0..7 /\ from = 8 * Row(from) + Col(from)
      /\ Row(to) \in 0..7 /\ Col(to) \in 0..7 /\ to = 8 * Row(to) + Col(to)
  BY RowCol
<1>2. Row(from) # Row(to) /\ Col(from) # Col(to)
  BY <1>1 DEF Abs
<1>3. OnLine(from, to) /\ Steps(from, to) = Abs(Row(to) - Row(from))
  BY DEF OnLine, Steps
<1>4. Sign(Row(to) - Row(from)) = IF Row(to) < Row(from) THEN -1 ELSE 1
  BY <1>1, <1>2 DEF Sign
<1>5. Sign(Col(to) - Col(from)) = IF Col(to) < Col(from) THEN -1 ELSE 1
  BY <1>1, <1>2 DEF Sign
<1> QED
  BY <1>1, <1>2, <1>3, <1>4, <1>5 DEF Unit, Up, Down, Left, Right

(* What move_up_down_left_right accepts, for the rook and for the queen.      *)
LEMMA StraightAccepts ==
  ASSUME NEW e \in EngineType, NEW from \in Square, NEW to \in Square, from # to,
         NEW canBreakWalls \in BOOLEAN
  PROVE  move_up_down_left_right(e, from, to, canBreakWalls)[2] # "INVALID" <=>
            /\ ~is_in_timeout(e, from) /\ e.board[to][1] # e.player
            /\ Row(from) = Row(to) \/ Col(from) = Col(to)
            /\ Clear(e, from, to) /\ (canBreakWalls \/ AllOpen(e, from, to))
<1> DEFINE dir == Straight(from, to)
           n == Steps(from, to)
           walled == {i \in 0..(n - 1) :
                        /\ ~canBreakWalls
                        /\ ~can_move_straight_wall_check(e, from + i * dir, dir)}
           walked == Walk(e, from, to, dir, walled)
           ws == e.walls \ {Wall(from + i * dir, dir) : i \in 0..(walked - 1)}
           after == IF canBreakWalls THEN [e EXCEPT !.walls = ws] ELSE e
           r == move_up_down_left_right(e, from, to, canBreakWalls)
<1> SUFFICES r[2] # "INVALID" <=>
            /\ ~is_in_timeout(e, from) /\ e.board[to][1] # e.player
            /\ Row(from) = Row(to) \/ Col(from) = Col(to)
            /\ Clear(e, from, to) /\ (canBreakWalls \/ AllOpen(e, from, to))
  OBVIOUS
<1>1. Resting(e, from, to) <=> is_in_timeout(e, from)
  BY DEF Resting
<1>2. CASE is_in_timeout(e, from) \/ (Row(from) # Row(to) /\ Col(from) # Col(to))
  <2>1. r = <<e, "INVALID">>
    BY <1>1, <1>2 DEF move_up_down_left_right
  <2> QED
    BY <1>2, <2>1
<1>3. CASE ~is_in_timeout(e, from) /\ (Row(from) = Row(to) \/ Col(from) = Col(to))
  <2>1. /\ OnLine(from, to) /\ dir = Unit(from, to) /\ dir \in Sides
        /\ dir \in {Left, Right} <=> Sign(Row(to) - Row(from)) = 0
        /\ Sign(Row(to) - Row(from)) = 0 \/ Sign(Col(to) - Col(from)) = 0
    BY <1>3, StraightUnit
  <2>2. ASSUME NEW i \in 0..(n - 1)
        PROVE  can_move_straight_wall_check(e, from + i * dir, dir) <=>
                   Open(e, Line(from, to)[i], Line(from, to)[i + 1])
    <3> DEFINE s == Line(from, to)[i]
               t == Line(from, to)[i + 1]
    <3>1. /\ s \in Square /\ t \in Square /\ s = from + i * dir /\ t = s + dir
          /\ Row(t) = Row(s) + Sign(Row(to) - Row(from))
          /\ Col(t) = Col(s) + Sign(Col(to) - Col(from))
      BY <2>1, NextOnLine
    <3> HIDE DEF s, t, dir
    <3>2. Row(s) \in 0..7 /\ Col(s) \in 0..7
      BY <3>1, RowCol
    <3>3. Sign(Row(to) - Row(from)) \in {-1, 0, 1}
      BY DEF Sign
    <3>4. Row(s) = Row(t) <=> dir \in {Left, Right}
      BY <2>1, <3>1, <3>2, <3>3
    <3>5. Row(s) = Row(t) \/ Col(s) = Col(t)
      BY <2>1, <3>1, <3>2
    <3>6. can_move_straight_wall_check(e, s, dir) <=> Open(e, s, t)
      BY <2>1, <3>1, <3>4, <3>5, StraightOpen
    <3> QED
      BY <3>1, <3>6 DEF s, t
  <2>3. walled = {} <=> canBreakWalls \/ AllOpen(e, from, to)
    BY <2>2, AllOpenFrom
  <2>4. walled \subseteq 0..(n - 1)
    OBVIOUS
  <2> DEFINE free == \A i \in 0..(n - 1) : ~Blocked(e, from + i * dir, dir, to)
  <2>5. free <=> Clear(e, from, to)
    BY <2>1, ClearWay
  <2> HIDE DEF walled
  <2>6. walked = n <=> walled = {} /\ free
    BY <2>4, WalkArrives
  <2>7. r = IF walked = n THEN TakeOrStep(after, from, to) ELSE <<after, "INVALID">>
    BY <1>1, <1>3 DEF move_up_down_left_right, walled
  <2>8. ws \in SUBSET AllWalls
    BY EngineFields
  <2> HIDE DEF ws, walked, r, free
  <2>9. after \in EngineType /\ after.board = e.board /\ after.player = e.player
    BY <2>8, WriteWalls
  <2> HIDE DEF after
  <2>10. TakeOrStep(after, from, to)[2] # "INVALID" <=> e.board[to][1] # e.player
    BY <2>9, Taken
  <2> QED
    BY <1>3, <2>3, <2>5, <2>6, <2>7, <2>10
<1> QED
  BY <1>2, <1>3

(* What handle_bishop_move accepts, for the bishop and for the queen.         *)
LEMMA DiagonalAccepts ==
  ASSUME NEW e \in EngineType, NEW from \in Square, NEW to \in Square, from # to
  PROVE  handle_bishop_move(e, from, to)[2] # "INVALID" <=>
            /\ ~is_in_timeout(e, from) /\ e.board[to][1] # e.player
            /\ Abs(Row(to) - Row(from)) = Abs(Col(to) - Col(from))
            /\ Clear(e, from, to) /\ AllOpen(e, from, to)
<1> DEFINE dr == Row(to) - Row(from)
           dc == Col(to) - Col(from)
           v == IF dr > 0 THEN Down ELSE Up
           h == IF dc > 0 THEN Right ELSE Left
           n == Steps(from, to)
           walled == {i \in 0..(n - 1) :
                        ~can_move_diagonal_wall_check(e, from + i * (v + h), v, h)}
           walked == Walk(e, from, to, v + h, walled)
           r == handle_bishop_move(e, from, to)
<1> SUFFICES r[2] # "INVALID" <=>
            /\ ~is_in_timeout(e, from) /\ e.board[to][1] # e.player
            /\ Abs(dr) = Abs(dc)
            /\ Clear(e, from, to) /\ AllOpen(e, from, to)
  OBVIOUS
<1>1. Resting(e, from, to) <=> is_in_timeout(e, from)
  BY DEF Resting
<1>2. r = IF ~is_in_timeout(e, from) /\ Abs(dr) = Abs(dc) /\ walked = Abs(dr)
          THEN TakeOrStep(e, from, to) ELSE <<e, "INVALID">>
  BY <1>1 DEF handle_bishop_move
<1>3. CASE is_in_timeout(e, from) \/ Abs(dr) # Abs(dc)
  <2>1. r = <<e, "INVALID">>
    BY <1>2, <1>3
  <2> QED
    BY <1>3, <2>1
<1>4. CASE ~is_in_timeout(e, from) /\ Abs(dr) = Abs(dc)
  <2>1. /\ OnLine(from, to) /\ n = Abs(dr) /\ v + h = Unit(from, to)
        /\ Sign(dr) = (IF v = Down THEN 1 ELSE -1) /\ Sign(dc) = h
    BY <1>4, DiagonalUnit
  <2>2. v \in {Up, Down} /\ h \in {Left, Right}
    OBVIOUS
  <2> HIDE DEF v, h
  <2>3. ASSUME NEW i \in 0..(n - 1)
        PROVE  can_move_diagonal_wall_check(e, from + i * (v + h), v, h) <=>
                   Open(e, Line(from, to)[i], Line(from, to)[i + 1])
    <3> DEFINE s == Line(from, to)[i]
               t == Line(from, to)[i + 1]
    <3>1. /\ s \in Square /\ t \in Square /\ s = from + i * (v + h)
          /\ Row(t) = Row(s) + Sign(dr) /\ Col(t) = Col(s) + Sign(dc)
      BY <2>1, NextOnLine
    <3> HIDE DEF s, t, dr, dc
    <3>2. can_move_diagonal_wall_check(e, s, v, h) <=> Open(e, s, t)
      BY <2>1, <2>2, <3>1, DiagonalOpen
    <3> QED
      BY <3>1, <3>2 DEF s, t
  <2>4. walled = {} <=> AllOpen(e, from, to)
    BY <2>3, AllOpenFrom
  <2>5. walled \subseteq 0..(n - 1)
    OBVIOUS
  <2> DEFINE free == \A i \in 0..(n - 1) : ~Blocked(e, from + i * (v + h), v + h, to)
  <2>6. free <=> Clear(e, from, to)
    BY <2>1, ClearWay
  <2> HIDE DEF walled
  <2>7. walked = n <=> walled = {} /\ free
    BY <2>5, WalkArrives
  <2> HIDE DEF walked, r, free
  <2>8. TakeOrStep(e, from, to)[2] # "INVALID" <=> e.board[to][1] # e.player
    BY Taken
  <2>9. r = IF walked = n THEN TakeOrStep(e, from, to) ELSE <<e, "INVALID">>
    BY <1>2, <1>4, <2>1
  <2> QED
    BY <1>4, <2>4, <2>6, <2>7, <2>8, <2>9
<1> QED
  BY <1>3, <1>4

LEMMA KnightAccepts ==
  ASSUME NEW e \in EngineType, NEW from \in Square, NEW to \in Square, from # to
  PROVE  handle_knight_move(e, from, to)[2] # "INVALID" <=>
            /\ ~is_in_timeout(e, from) /\ e.board[to][1] # e.player
            /\ Steps(from, to) = 2 /\ ~OnLine(from, to)
<1> DEFINE a == Abs(Row(to) - Row(from))
           b == Abs(Col(to) - Col(from))
           r == handle_knight_move(e, from, to)
<1>1. a \in 0..7 /\ b \in 0..7
  BY RowCol DEF Abs
<1>2. Steps(from, to) = (IF a > b THEN a ELSE b) /\ (OnLine(from, to) <=> a = 0 \/ b = 0 \/ a = b)
  BY DEF Steps, OnLine
<1>3. r = IF ~is_in_timeout(e, from) /\ {a, b} = {1, 2}
          THEN TakeOrStep(e, from, to) ELSE <<e, "INVALID">>
  BY DEF handle_knight_move, Resting
<1>4. TakeOrStep(e, from, to)[2] # "INVALID" <=> e.board[to][1] # e.player
  BY Taken
<1> HIDE DEF a, b, r
<1>5. {a, b} = {1, 2} <=> (a = 1 /\ b = 2) \/ (a = 2 /\ b = 1)
  <2>1. ASSUME {a, b} = {1, 2}
        PROVE  (a = 1 /\ b = 2) \/ (a = 2 /\ b = 1)
    <3>1. a \in {1, 2} /\ b \in {1, 2} /\ 1 \in {a, b} /\ 2 \in {a, b}
      BY <2>1
    <3> QED
      BY <3>1
  <2>2. (a = 1 /\ b = 2) \/ (a = 2 /\ b = 1) => {a, b} = {1, 2}
    OBVIOUS
  <2> QED
    BY <2>1, <2>2
<1>6. {a, b} = {1, 2} <=> Steps(from, to) = 2 /\ ~OnLine(from, to)
  BY <1>1, <1>2, <1>5
<1>7. CASE ~is_in_timeout(e, from) /\ {a, b} = {1, 2}
  BY <1>3, <1>4, <1>6, <1>7 DEF r
<1>8. CASE is_in_timeout(e, from) \/ {a, b} # {1, 2}
  <2>1. r = <<e, "INVALID">>
    BY <1>3, <1>8
  <2> QED
    BY <1>6, <1>8, <2>1 DEF r
<1> QED
  BY <1>7, <1>8

(* A king that is marked as moved has no castling to fall back on.            *)
LEMMA KingAccepts ==
  ASSUME NEW e \in EngineType, NEW from \in Square, NEW to \in Square, from # to,
         e.kingMoved
  PROVE  handle_king_move(e, from, to)[2] # "INVALID" <=>
            /\ ~is_in_timeout(e, from) /\ e.board[to][1] # e.player
            /\ Steps(from, to) = 1
<1> DEFINE near == /\ Abs(Row(to) - Row(from)) <= 1
                   /\ Abs(Col(to) - Col(from)) <= 1
           was == e.kingMoved \/ near
           marked == [e EXCEPT !.kingMoved = was]
           step == TakeOrStep(marked, from, to)
           r == handle_king_move(e, from, to)
<1>1. Resting(e, from, to) <=> is_in_timeout(e, from)
  BY DEF Resting
<1>2. r = CASE Resting(e, from, to) -> <<e, "INVALID">>
            [] ~Resting(e, from, to) /\ near /\ step[2] # "INVALID" -> step
            [] OTHER -> handle_castling(marked, to)
  BY DEF handle_king_move
<1>3. near <=> Steps(from, to) = 1
  <2>1. /\ Row(from) \in 0..7 /\ Col(from) \in 0..7 /\ from = 8 * Row(from) + Col(from)
        /\ Row(to) \in 0..7 /\ Col(to) \in 0..7 /\ to = 8 * Row(to) + Col(to)
    BY RowCol
  <2> QED
    BY <2>1 DEF Steps, Abs
<1> HIDE DEF near
<1>4. was \in BOOLEAN /\ was
  OBVIOUS
<1> HIDE DEF was
<1>5. /\ marked \in EngineType /\ marked.kingMoved
      /\ marked.board = e.board /\ marked.player = e.player
  BY <1>4, WriteKingMoved
<1> HIDE DEF marked
<1>6. step[2] # "INVALID" <=> e.board[to][1] # e.player
  BY <1>5, Taken
<1>7. handle_castling(marked, to) = <<marked, "INVALID">>
  BY <1>5 DEF handle_castling
<1> HIDE DEF step, r
<1>8. CASE is_in_timeout(e, from)
  <2>1. r = <<e, "INVALID">>
    BY <1>1, <1>2, <1>8
  <2> QED
    BY <1>8, <2>1 DEF r
<1>9. CASE ~is_in_timeout(e, from) /\ near /\ step[2] # "INVALID"
  <2>1. r = step
    BY <1>1, <1>2, <1>9
  <2> QED
    BY <1>3, <1>6, <1>9, <2>1 DEF r
<1>10. CASE ~is_in_timeout(e, from) /\ ~(near /\ step[2] # "INVALID")
  <2>1. r = <<marked, "INVALID">>
    BY <1>1, <1>2, <1>7, <1>10
  <2> QED
    BY <1>3, <1>6, <1>10, <2>1 DEF r
<1> QED
  BY <1>8, <1>9, <1>10

(* The engine's way of telling a straight move from a diagonal one is OnLine's. *)
LEMMA LineKinds ==
  ASSUME NEW from \in Square, NEW to \in Square, from # to
  PROVE  LET diagonal == Row(from) # Row(to) /\ Col(from) # Col(to)
             even == Abs(Row(to) - Row(from)) = Abs(Col(to) - Col(from))
         IN  /\ OnLine(from, to) /\ ~diagonal <=> Row(from) = Row(to) \/ Col(from) = Col(to)
             /\ OnLine(from, to) /\ diagonal <=> even
             /\ even => diagonal
<1>1. /\ Row(from) \in 0..7 /\ Col(from) \in 0..7 /\ from = 8 * Row(from) + Col(from)
      /\ Row(to) \in 0..7 /\ Col(to) \in 0..7 /\ to = 8 * Row(to) + Col(to)
  BY RowCol
<1> QED
  BY <1>1 DEF OnLine, Abs

(* All in all, what move_piece accepts is what the rules allow.               *)
LEMMA AcceptsLegal ==
  ASSUME NEW e \in EngineType, NEW from \in Square, NEW to \in Square, from # to,
         e.board[from][2] # "PAWN", e.kingMoved \/ e.board[from][2] # "KING"
  PROVE  move_piece(e, from, to)[2] # "INVALID" <=> Legal(e, from, to)
<1> DEFINE kind == e.board[from][2]
           diagonal == Row(from) # Row(to) /\ Col(from) # Col(to)
           r == move_piece(e, from, to)
           ready == ~is_in_timeout(e, from) /\ e.board[to][1] # e.player
<1>1. CASE e.board[from][1] # e.player
  <2>1. r = <<e, "INVALID">>
    BY <1>1 DEF move_piece, valid_piece
  <2> QED
    BY <1>1, <2>1 DEF Legal
<1>2. CASE e.board[from][1] = e.player
  <2>1. kind \in {"KING", "QUEEN", "BISHOP", "KNIGHT", "ROOK"}
    <3>1. e.board[from] \in Pieces /\ e.player \in Player
      BY EngineFields
    <3> QED
      BY <1>2, <3>1, PieceCases DEF Player, Kind
  <2>2. /\ OnLine(from, to) /\ ~diagonal <=> Row(from) = Row(to) \/ Col(from) = Col(to)
        /\ OnLine(from, to) /\ diagonal <=> Abs(Row(to) - Row(from)) = Abs(Col(to) - Col(from))
    BY LineKinds
  <2>3. Legal(e, from, to) <=> /\ ready
           /\ \/ kind = "ROOK" /\ OnLine(from, to) /\ ~diagonal /\ Clear(e, from, to)
              \/ /\ kind = "BISHOP" /\ OnLine(from, to) /\ diagonal
                 /\ Clear(e, from, to) /\ AllOpen(e, from, to)
              \/ /\ kind = "QUEEN" /\ OnLine(from, to)
                 /\ Clear(e, from, to) /\ AllOpen(e, from, to)
              \/ kind = "KING" /\ Steps(from, to) = 1
              \/ kind = "KNIGHT" /\ Steps(from, to) = 2 /\ ~OnLine(from, to)
    BY <1>2 DEF Legal
  <2>4. r = CASE kind = "ROOK" -> move_up_down_left_right(e, from, to, TRUE)
              [] kind = "KNIGHT" -> handle_knight_move(e, from, to)
              [] kind = "BISHOP" -> handle_bishop_move(e, from, to)
              [] kind = "QUEEN" -> handle_queen_move(e, from, to)
              [] kind = "KING" -> handle_king_move(e, from, to)
    BY <1>2, <2>1 DEF move_piece, valid_piece
  <2> SUFFICES r[2] # "INVALID" <=> Legal(e, from, to)
    OBVIOUS
  <2> HIDE DEF r
  <2>5. CASE kind = "ROOK"
    <3>1. r = move_up_down_left_right(e, from, to, TRUE)
      BY <2>4, <2>5
    <3>2. r[2] # "INVALID" <=> /\ ready /\ Clear(e, from, to)
                               /\ Row(from) = Row(to) \/ Col(from) = Col(to)
      BY <3>1, StraightAccepts
    <3> QED
      BY <2>2, <2>3, <2>5, <3>2
  <2>6. CASE kind = "KNIGHT"
    <3>1. r = handle_knight_move(e, from, to)
      BY <2>4, <2>6
    <3> QED
      BY <2>3, <2>6, <3>1, KnightAccepts
  <2>7. CASE kind = "BISHOP"
    <3>1. r = handle_bishop_move(e, from, to)
      BY <2>4, <2>7
    <3>2. r[2] # "INVALID" <=> /\ ready /\ OnLine(from, to) /\ diagonal
                               /\ Clear(e, from, to) /\ AllOpen(e, from, to)
      BY <2>2, <3>1, DiagonalAccepts
    <3> QED
      BY <2>3, <2>7, <3>2
  <2>8. CASE kind = "QUEEN" /\ ~diagonal
    <3>1. r = move_up_down_left_right(e, from, to, FALSE)
      BY <2>4, <2>8 DEF handle_queen_move
    <3>2. r[2] # "INVALID" <=> /\ ready /\ OnLine(from, to)
                               /\ Clear(e, from, to) /\ AllOpen(e, from, to)
      BY <2>2, <2>8, <3>1, StraightAccepts
    <3> QED
      BY <2>3, <2>8, <3>2
  <2>9. CASE kind = "QUEEN" /\ diagonal
    <3>1. r = handle_bishop_move(e, from, to)
      BY <2>4, <2>9 DEF handle_queen_move
    <3>2. r[2] # "INVALID" <=> /\ ready /\ OnLine(from, to)
                               /\ Clear(e, from, to) /\ AllOpen(e, from, to)
      BY <2>2, <2>9, <3>1, DiagonalAccepts
    <3> QED
      BY <2>3, <2>9, <3>2
  <2>10. CASE kind = "KING"
    <3>1. r = handle_king_move(e, from, to)
      BY <2>4, <2>10
    <3> QED
      BY <2>3, <2>10, <3>1, KingAccepts
  <2> QED
    BY <2>1, <2>5, <2>6, <2>7, <2>8, <2>9, <2>10
<1> QED
  BY <1>1, <1>2

(* Rook, bishop, queen, knight, and a king past castling, go where the rules
   let them and nowhere else (engine.cpp:463-595, 681-845).                   *)
THEOREM MovesLegal == Spec => MovesAreLegal
<1> DEFINE A == Moved /\ engine.board[call'.from][2] # "PAWN"
                      /\ (engine.kingMoved \/ engine.board[call'.from][2] # "KING") =>
                    (call'.res # "INVALID" <=> Legal(engine, call'.from, call'.to))
<1>1. SoundPlay /\ Next => A
  <2> SUFFICES ASSUME SoundPlay, Next, Moved, engine.board[call'.from][2] # "PAWN",
                      engine.kingMoved \/ engine.board[call'.from][2] # "KING"
               PROVE  call'.res # "INVALID" <=> Legal(engine, call'.from, call'.to)
    OBVIOUS
  <2>1. /\ call'.from \in Square /\ call'.to \in Square /\ call'.from # call'.to
        /\ call'.res = move_piece(engine, call'.from, call'.to)[2]
    BY MovedOutcome
  <2>2. engine \in EngineType
    BY DEF SoundPlay, Sound
  <2> QED
    BY <2>1, <2>2, AcceptsLegal
<1>2. UNCHANGED vars => A
  BY DEF vars, Moved
<1>3. SoundPlay /\ [Next]_vars => A
  BY <1>1, <1>2
<1>4. Spec => [][A]_vars
  BY <1>3, AlwaysSound, PTL DEF Spec
<1> QED
  BY <1>4 DEF MovesAreLegal

=============================================================================
