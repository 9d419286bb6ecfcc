------------------------------ MODULE WallGrid ------------------------------
(* How chess::ChessEngine stores the walls: chessBorders is one array of bools,
   and each square holds, for each of its sides, a reference to one of them or
   nothing.  reset_board hands the cells out square by square and lets a square
   take over the references of its left and upper neighbours
   (engine.cpp:59-90); building and breaking write through the references.

   The board is Size by Size squares, 8 in the code, and a square is its row
   and column.                                                                *)
EXTENDS Naturals

CONSTANTS
    Size,       \* squares in a row
    NoWall      \* nullopt: no wall can stand there

ASSUME SizeAssumption == Size \in Nat /\ Size > 1
ASSUME NoWallAssumption == NoWall \notin Nat

VARIABLES
    row, col,   \* the square the loop of reset_board is at
    next,       \* the first cell not handed out
    ref,        \* boardSetup[square].walls[side]: the cell referred to
    border      \* chessBorders

vars == <<row, col, next, ref, border>>

Index == 0..(Size - 1)
Square == Index \X Index
Side == {"UP", "DOWN", "LEFT", "RIGHT"}

(* 112 on the board of 8 by 8: the size chessBorders is declared with.        *)
Cells == 2 * Size * (Size - 1)
Cell == 0..(Cells - 1)

OnBoard(s, d) ==
    \/ d = "UP" /\ s[1] > 0
    \/ d = "DOWN" /\ s[1] < Size - 1
    \/ d = "LEFT" /\ s[2] > 0
    \/ d = "RIGHT" /\ s[2] < Size - 1

Neighbour(s, d) ==
    CASE d = "UP" -> <<s[1] - 1, s[2]>>
      [] d = "DOWN" -> <<s[1] + 1, s[2]>>
      [] d = "LEFT" -> <<s[1], s[2] - 1>>
      [] d = "RIGHT" -> <<s[1], s[2] + 1>>

Opposite(d) ==
    CASE d = "UP" -> "DOWN"
      [] d = "DOWN" -> "UP"
      [] d = "LEFT" -> "RIGHT"
      [] d = "RIGHT" -> "LEFT"

Done == row = Size

Init ==
    /\ row = 0 /\ col = 0 /\ next = 0
    /\ ref = [s \in Square |-> [d \in Side |-> NoWall]]
    /\ border = [k \in Cell |-> FALSE]

-----------------------------------------------------------------------------

(* The right side takes the next cell, the lower side the one after it.       *)
RightCell == IF col < Size - 1 THEN next ELSE NoWall
AfterRight == IF col < Size - 1 THEN next + 1 ELSE next
DownCell == IF row < Size - 1 THEN AfterRight ELSE NoWall
(* Mutant: the last row takes cells below itself too.                         *)
AfterDownAlways == AfterRight + 1

AfterDown == IF row < Size - 1 THEN AfterRight + 1 ELSE AfterRight

LeftCell == IF col > 0 THEN ref[<<row, col - 1>>]["RIGHT"] ELSE NoWall
(* Mutant: the upper side takes the neighbour's right side.                   *)
UpCellRight == IF row > 0 THEN ref[<<row - 1, col>>]["RIGHT"] ELSE NoWall

UpCell == IF row > 0 THEN ref[<<row - 1, col>>]["DOWN"] ELSE NoWall

(* One round of the loop of reset_board.                                      *)
ResetSquare ==
    /\ ~Done
    /\ ref' = [ref EXCEPT ![<<row, col>>] =
                  [d \in Side |-> CASE d = "LEFT" -> LeftCell
                                    [] d = "RIGHT" -> RightCell
                                    [] d = "UP" -> UpCell
                                    [] d = "DOWN" -> DownCell]]
    /\ next' = AfterDown
    /\ \/ col < Size - 1 /\ col' = col + 1 /\ row' = row
       \/ col = Size - 1 /\ col' = 0 /\ row' = row + 1
    /\ UNCHANGED border

(* build_wall and build_wall_opponent, once they have found the side.         *)
BuildWall(s, d) ==
    /\ Done /\ ref[s][d] # NoWall
    /\ border' = [border EXCEPT ![ref[s][d]] = TRUE]
    /\ UNCHANGED <<row, col, next, ref>>

(* Mutant: the wall behind the rook breaks.                                   *)
BreakWallBehind(s, d) ==
    /\ Done /\ OnBoard(s, d)
    /\ border' = [k \in Cell |->
                    IF k = ref[s][Opposite(d)] THEN FALSE ELSE border[k]]
    /\ UNCHANGED <<row, col, next, ref>>

(* Mutant: the neighbour's reference is the one on its far side.              *)
BreakWallFarSide(s, d) ==
    /\ Done /\ OnBoard(s, d)
    /\ border' = [k \in Cell |->
                    IF k \in {ref[s][d], ref[Neighbour(s, d)][d]}
                    THEN FALSE ELSE border[k]]
    /\ UNCHANGED <<row, col, next, ref>>

(* break_wall_if_encoutered: through the references of both squares.          *)
BreakWall(s, d) ==
    /\ Done /\ OnBoard(s, d)
    /\ border' = [k \in Cell |->
                    IF k \in {ref[s][d], ref[Neighbour(s, d)][Opposite(d)]}
                    THEN FALSE ELSE border[k]]
    /\ UNCHANGED <<row, col, next, ref>>

Next ==
    \/ ResetSquare
    \/ \E s \in Square, d \in Side : BuildWall(s, d) \/ BreakWall(s, d)

Spec == Init /\ [][Next]_vars

-----------------------------------------------------------------------------
(* Properties.                                                                *)

(* A cell is handed out only while there is one left, and references are to
   cells of the array (engine.cpp:59, 74, 86; engine.h:205).                  *)
TypeOK ==
    /\ row \in 0..Size /\ col \in Index
    /\ next \in 0..Cells
    /\ ref \in [Square -> [Side -> Cell \cup {NoWall}]]
    /\ border \in [Cell -> BOOLEAN]

(* The squares the loop has been at.                                          *)
Reset(s) == s[1] < row \/ (s[1] = row /\ s[2] < col)

(* Two neighbours refer to the same cell for the side between them, and there
   is none beyond the edge: has_value() and the reads of one wall from its two
   sides agree (engine.cpp:65-89, 207).                                       *)
SidesShareCell ==
    \A s \in Square, d \in Side :
        IF OnBoard(s, d)
        THEN Reset(s) /\ Reset(Neighbour(s, d)) =>
                ref[s][d] \in Cell /\ ref[s][d] = ref[Neighbour(s, d)][Opposite(d)]
        ELSE ref[s][d] = NoWall

(* Sides that are not the same side of a wall refer to different cells: no
   wall appears or breaks with another one.                                   *)
CellsAreDistinct ==
    \A s, t \in Square, d, e \in Side :
        ref[s][d] # NoWall /\ ref[s][d] = ref[t][e] =>
            \/ s = t /\ d = e
            \/ t = Neighbour(s, d) /\ e = Opposite(d)

-----------------------------------------------------------------------------
(* The inductive strengthening.                                               *)

Forward == {"RIGHT", "DOWN"}        \* the sides a square takes new cells for

(* Before square <<row, col>>, each full row has handed out a cell for every
   square to its right but the last and one below every square, and the last
   row has none below.                                                        *)
NextInv ==
    /\ row < Size - 1 => next = row * (2 * Size - 1) + 2 * col
    /\ row = Size - 1 => next = (Size - 1) * (2 * Size - 1) + col
    /\ Done => col = 0 /\ next = Cells

RefInv ==
    \A s \in Square, d \in Side :
        /\ ref[s][d] # NoWall => ref[s][d] < next /\ Reset(s) /\ OnBoard(s, d)
        /\ Reset(s) /\ OnBoard(s, d) /\ d \in Forward => ref[s][d] # NoWall
        /\ Reset(s) /\ OnBoard(s, d) /\ d \notin Forward =>
                ref[s][d] = ref[Neighbour(s, d)][Opposite(d)]

ForwardDistinct ==
    \A s, t \in Square, d, e \in Forward :
        ref[s][d] # NoWall /\ ref[s][d] = ref[t][e] => s = t /\ d = e

(* No wall stands before the references are in place.                         *)
BorderInv == ~Done => \A k \in Cell : ~border[k]

IInv == TypeOK /\ NextInv /\ RefInv /\ ForwardDistinct /\ BorderInv

-----------------------------------------------------------------------------
(* The cells implement the walls.                                             *)

Edge(s, d) == {s, Neighbour(s, d)}

InnerSides == {x \in Square \X Side : OnBoard(x[1], x[2])}

EdgeSet == {Edge(x[1], x[2]) : x \in InnerSides}

StandingWalls ==
    {Edge(x[1], x[2]) : x \in
        {y \in InnerSides : ref[y[1]][y[2]] # NoWall /\ border[ref[y[1]][y[2]]]}}

AbstractWalls == INSTANCE Walls WITH Edges <- EdgeSet, walls <- StandingWalls

(* What writing through references does to the walls is what Walls allows: one
   of them, between two neighbours, appears or goes at a time, and none stands
   before the first is built (engine.cpp:59-90, 243-256, 847-877).            *)
ImplementsWalls == AbstractWalls!Spec

(* Of all walls, the one that appears or goes is the one between the square and
   the side that was asked for, whichever of its two squares asked
   (engine.cpp:243-256, 847-877).                                             *)
WritesOwnWall ==
    [][border' # border => \A s \in Square, d \in Side :
          /\ BuildWall(s, d) => StandingWalls' = StandingWalls \cup {Edge(s, d)}
          /\ BreakWall(s, d) => StandingWalls' = StandingWalls \ {Edge(s, d)}]_vars

=============================================================================
