--------------------------- MODULE WallGridProofs ---------------------------
(* Proofs about WallGrid for a board of any size: the references reset_board
   hands out stay inside the array, two neighbours share one cell and no other
   sides do, and building and breaking through them implements Walls.         *)
EXTENDS WallGrid, Integers, TLAPS

-----------------------------------------------------------------------------
(* Squares and sides.                                                         *)

(* The neighbour of a square across a side that is not the edge of the board is
   a square, whose neighbour across the opposite side is the first one.       *)
LEMMA NeighbourFacts ==
    ASSUME NEW s \in Square, NEW d \in Side, OnBoard(s, d)
    PROVE  /\ Neighbour(s, d) \in Square /\ Opposite(d) \in Side
           /\ OnBoard(Neighbour(s, d), Opposite(d))
           /\ Neighbour(Neighbour(s, d), Opposite(d)) = s
           /\ Opposite(Opposite(d)) = d
           /\ d \in Forward <=> Opposite(d) \notin Forward
<1>1. PICK r \in Index, c \in Index : s = <<r, c>>
  BY DEF Square
<1>2. r \in 0..(Size - 1) /\ c \in 0..(Size - 1) /\ Size \in Nat
  BY SizeAssumption DEF Index
<1>3. CASE d = "UP"
  BY <1>1, <1>2, <1>3 DEF OnBoard, Neighbour, Opposite, Square, Index, Side, Forward
<1>4. CASE d = "DOWN"
  BY <1>1, <1>2, <1>4 DEF OnBoard, Neighbour, Opposite, Square, Index, Side, Forward
<1>5. CASE d = "LEFT"
  BY <1>1, <1>2, <1>5 DEF OnBoard, Neighbour, Opposite, Square, Index, Side, Forward
<1>6. CASE d = "RIGHT"
  BY <1>1, <1>2, <1>6 DEF OnBoard, Neighbour, Opposite, Square, Index, Side, Forward
<1> QED
  BY <1>3, <1>4, <1>5, <1>6 DEF Side

(* A wall has two names: a side of a square and the opposite side of its
   neighbour.                                                                 *)
LEMMA TwoNames ==
    ASSUME NEW s \in Square, NEW d \in Side, OnBoard(s, d),
           NEW t \in Square, NEW e \in Side, OnBoard(t, e)
    PROVE  Edge(s, d) = Edge(t, e) <=>
              \/ s = t /\ d = e
              \/ t = Neighbour(s, d) /\ e = Opposite(d)
<1>1. PICK r \in Index, c \in Index : s = <<r, c>>
  BY DEF Square
<1>2. PICK q \in Index, b \in Index : t = <<q, b>>
  BY DEF Square
<1>3. /\ r \in Int /\ c \in Int /\ q \in Int /\ b \in Int
  BY SizeAssumption DEF Index
<1>4. Edge(s, d) = Edge(t, e) <=>
         \/ s = t /\ Neighbour(s, d) = Neighbour(t, e)
         \/ s = Neighbour(t, e) /\ Neighbour(s, d) = t
  BY Zenon DEF Edge
<1>5. s = t /\ Neighbour(s, d) = Neighbour(t, e) <=> s = t /\ d = e
  BY <1>1, <1>2, <1>3 DEF Neighbour, Side
<1>6. s = Neighbour(t, e) /\ Neighbour(s, d) = t <=>
         t = Neighbour(s, d) /\ e = Opposite(d)
  <2>1. ASSUME s = Neighbour(t, e), Neighbour(s, d) = t
        PROVE  e = Opposite(d)
    BY <2>1, <1>1, <1>2, <1>3 DEF Neighbour, Side, Opposite
  <2>2. ASSUME t = Neighbour(s, d), e = Opposite(d)
        PROVE  s = Neighbour(t, e)
    BY <2>2, NeighbourFacts
  <2> QED
    BY <2>1, <2>2
<1> QED
  BY <1>4, <1>5, <1>6

-----------------------------------------------------------------------------
(* Counting cells.                                                            *)

(* A full row further down leaves room for one more full row.                 *)
LEMMA RowsGrow ==
    ASSUME NEW a \in Nat, NEW b \in Nat, a < b, NEW w \in Nat
    PROVE  (a + 1) * w <= b * w /\ (a + 1) * w = a * w + w
<1>1. PICK k \in Nat : b = (a + 1) + k
  <2>1. b - (a + 1) \in Nat /\ b = (a + 1) + (b - (a + 1))
    OBVIOUS
  <2> QED
    BY <2>1
<1>2. b * w = (a + 1) * w + k * w /\ k * w \in Nat /\ (a + 1) * w = a * w + w
      /\ (a + 1) * w \in Nat
  BY <1>1
<1> QED
  BY <1>2

(* The size of the array, in the terms NextInv counts in.                     *)
LEMMA CellCount ==
    /\ Cells \in Nat
    /\ (Size - 1) * (2 * Size - 1) + (Size - 1) = Cells
    /\ 2 * Size - 1 \in Nat
BY SizeAssumption DEF Cells

(* One square: what it takes fits into the array, and NextInv holds at the next
   square.                                                                    *)
LEMMA Counting ==
    ASSUME TypeOK, NextInv, ResetSquare
    PROVE  /\ next' \in 0..Cells /\ next <= next' /\ NextInv'
           /\ row' \in 0..Size /\ col' \in Index
           /\ col < Size - 1 => next < Cells
           /\ row < Size - 1 => AfterRight < Cells /\ AfterRight \in Nat
<1> DEFINE w == 2 * Size - 1
<1>1. /\ row \in 0..Size /\ col \in 0..(Size - 1) /\ row # Size /\ next \in Nat
      /\ Size \in Nat /\ Size > 1
  BY SizeAssumption DEF TypeOK, ResetSquare, Done, Index, Cell
<1>2. /\ next' = AfterDown
      /\ \/ col < Size - 1 /\ col' = col + 1 /\ row' = row
         \/ col = Size - 1 /\ col' = 0 /\ row' = row + 1
  BY DEF ResetSquare
<1>3. CASE row < Size - 1
  <2>1. next = row * w + 2 * col /\ row * w \in Nat
    BY <1>1, <1>3 DEF NextInv
  <2>2. (row + 1) * w <= (Size - 1) * w /\ (row + 1) * w = row * w + w
    BY <1>1, <1>3, CellCount, RowsGrow
  <2> HIDE DEF w
  <2>3. row * w + w + (Size - 1) <= Cells /\ Cells \in Nat /\ w = 2 * Size - 1
        /\ (Size - 1) * w \in Nat
    BY <2>1, <2>2, <1>1, CellCount DEF w
  <2>4. CASE col < Size - 1
    <3>1. AfterRight = next + 1 /\ next' = next + 2 /\ row' = row /\ col' = col + 1
      BY <2>4, <1>1, <1>2, <1>3 DEF AfterRight, AfterDown
    <3>2. next' = row' * w + 2 * col'
      BY <3>1, <2>1, <1>1
    <3>3. NextInv'
      BY <3>1, <3>2, <1>1, <1>3 DEF NextInv, Done, w
    <3> QED
      BY <3>1, <3>3, <2>1, <2>3, <2>4, <1>1, <1>3 DEF Index
  <2>5. CASE col = Size - 1
    <3>1. AfterRight = next /\ next' = next + 1 /\ row' = row + 1 /\ col' = 0
      BY <2>5, <1>1, <1>2, <1>3 DEF AfterRight, AfterDown
    <3>2. next' = row' * w + 2 * col'
      BY <3>1, <2>1, <2>2, <2>3, <2>5, <1>1
    <3>3. row' = Size - 1 => next' = (Size - 1) * w + col'
      BY <3>1, <3>2, <1>1
    <3>4. NextInv'
      BY <3>1, <3>2, <3>3, <1>1, <1>3 DEF NextInv, Done, w
    <3> QED
      BY <3>1, <3>4, <2>1, <2>3, <2>5, <1>1, <1>3 DEF Index
  <2> QED
    BY <2>4, <2>5, <1>1
<1>4. CASE row = Size - 1
  <2>1. next = (Size - 1) * w + col /\ (Size - 1) * w \in Nat
        /\ (Size - 1) * w + (Size - 1) = Cells /\ Cells \in Nat
    BY <1>1, <1>4, CellCount DEF NextInv
  <2> HIDE DEF w
  <2>2. CASE col < Size - 1
    <3>1. next' = next + 1 /\ row' = row /\ col' = col + 1
      BY <2>2, <1>1, <1>2, <1>4 DEF AfterRight, AfterDown
    <3>2. next' = (Size - 1) * w + col' /\ next' <= Cells /\ next < Cells
      BY <3>1, <2>1, <2>2, <1>1
    <3>3. NextInv'
      BY <3>1, <3>2, <1>1, <1>4 DEF NextInv, Done, w
    <3> QED
      BY <3>1, <3>2, <3>3, <2>1, <2>2, <1>1, <1>4 DEF Index
  <2>3. CASE col = Size - 1
    <3>1. next' = next /\ row' = Size /\ col' = 0
      BY <2>3, <1>1, <1>2, <1>4 DEF AfterRight, AfterDown
    <3>2. next' = Cells
      BY <3>1, <2>1, <2>3, <1>1
    <3>3. NextInv'
      BY <3>1, <3>2, <1>1, <1>4 DEF NextInv, Done
    <3> QED
      BY <3>1, <3>2, <3>3, <2>1, <2>3, <1>1, <1>4 DEF Index
  <2> QED
    BY <2>2, <2>3, <1>1
<1> QED
  BY <1>1, <1>3, <1>4

-----------------------------------------------------------------------------
(* The invariant.                                                             *)

(* Nothing is handed out and no wall stands when reset_board begins.          *)
LEMMA IInvInit == Init => IInv
<1> SUFFICES ASSUME Init PROVE IInv
  OBVIOUS
<1>1. Cells \in Nat /\ Size \in Nat /\ Size > 1
  BY CellCount, SizeAssumption
<1>2. TypeOK
  BY <1>1 DEF Init, TypeOK, Index
<1>3. NextInv
  BY <1>1 DEF Init, NextInv, Done
<1>4. \A s \in Square, d \in Side : ref[s][d] = NoWall
  BY DEF Init
<1>5. \A s \in Square : ~Reset(s)
  BY <1>1 DEF Init, Reset, Square, Index
<1>6. RefInv
  BY <1>4, <1>5 DEF RefInv
<1>7. ForwardDistinct
  BY <1>4 DEF ForwardDistinct, Forward, Side
<1>8. BorderInv
  BY DEF Init, BorderInv
<1> QED
  BY <1>2, <1>3, <1>6, <1>7, <1>8 DEF IInv

(* What the loop writes at its square, side by side.                          *)
LEMMA WrittenSides ==
    ASSUME TypeOK, RefInv, NextInv, ResetSquare
    PROVE  /\ <<row, col>> \in Square
           /\ \A s \in Square, d \in Side : s # <<row, col>> => ref'[s][d] = ref[s][d]
           /\ ref'[<<row, col>>]["RIGHT"] = RightCell
           /\ ref'[<<row, col>>]["DOWN"] = DownCell
           /\ ref'[<<row, col>>]["LEFT"] = LeftCell
           /\ ref'[<<row, col>>]["UP"] = UpCell
           /\ {RightCell, DownCell, LeftCell, UpCell} \subseteq Cell \cup {NoWall}
           /\ ref' \in [Square -> [Side -> Cell \cup {NoWall}]]
<1>1. /\ row \in 0..Size /\ col \in Index /\ row # Size
      /\ ref \in [Square -> [Side -> Cell \cup {NoWall}]] /\ Size \in Nat /\ Size > 1
      /\ next \in 0..Cells /\ Cells \in Nat
  BY SizeAssumption, CellCount DEF TypeOK, ResetSquare, Done
<1>2. row \in Index /\ <<row, col>> \in Square
  BY <1>1 DEF Index, Square
<1>3. RightCell \in Cell \cup {NoWall} /\ DownCell \in Cell \cup {NoWall}
  BY <1>1, Counting DEF RightCell, DownCell, Cell
<1>4. LeftCell \in Cell \cup {NoWall} /\ UpCell \in Cell \cup {NoWall}
  <2>1. col > 0 => <<row, col - 1>> \in Square
    BY <1>1, <1>2 DEF Square, Index
  <2>2. row > 0 => <<row - 1, col>> \in Square
    BY <1>1, <1>2 DEF Square, Index
  <2> QED
    BY <1>1, <2>1, <2>2 DEF LeftCell, UpCell, Side
<1> DEFINE new == [d \in Side |-> CASE d = "LEFT" -> LeftCell
                                    [] d = "RIGHT" -> RightCell
                                    [] d = "UP" -> UpCell
                                    [] d = "DOWN" -> DownCell]
<1>5. ref' = [ref EXCEPT ![<<row, col>>] = new]
  BY DEF ResetSquare
<1>6. /\ new["RIGHT"] = RightCell /\ new["DOWN"] = DownCell
      /\ new["LEFT"] = LeftCell /\ new["UP"] = UpCell
  BY DEF Side
<1>7. new \in [Side -> Cell \cup {NoWall}]
  BY <1>3, <1>4 DEF Side
<1> HIDE DEF new
<1>8. ref'[<<row, col>>] = new
  BY <1>1, <1>2, <1>5
<1>9. \A s \in Square : s # <<row, col>> => ref'[s] = ref[s]
  BY <1>1, <1>5
<1>10. ref' \in [Square -> [Side -> Cell \cup {NoWall}]]
  BY <1>1, <1>2, <1>5, <1>7
<1> QED
  BY <1>2, <1>3, <1>4, <1>6, <1>8, <1>9, <1>10

(* After its round the loop has been at one more square.                      *)
LEMMA OneMore ==
    ASSUME TypeOK, ResetSquare
    PROVE  /\ \A s \in Square : Reset(s)' <=> Reset(s) \/ s = <<row, col>>
           /\ ~Reset(<<row, col>>)
<1>1. /\ row \in 0..Size /\ col \in 0..(Size - 1) /\ row # Size /\ Size \in Nat /\ Size > 1
  BY SizeAssumption DEF TypeOK, ResetSquare, Done, Index
<1>2. \/ col < Size - 1 /\ col' = col + 1 /\ row' = row
      \/ col = Size - 1 /\ col' = 0 /\ row' = row + 1
  BY DEF ResetSquare
<1>3. ~Reset(<<row, col>>)
  BY <1>1 DEF Reset
<1>4. ASSUME NEW s \in Square
      PROVE  Reset(s)' <=> Reset(s) \/ s = <<row, col>>
  <2>1. PICK r \in Index, c \in Index : s = <<r, c>>
    BY DEF Square
  <2>2. r \in 0..(Size - 1) /\ c \in 0..(Size - 1) /\ s[1] = r /\ s[2] = c
    BY <2>1 DEF Index
  <2> QED
    BY <1>1, <1>2, <2>1, <2>2 DEF Reset
<1> QED
  BY <1>3, <1>4

(* A round of the loop keeps what is known of the references.                 *)
LEMMA RefStep ==
    ASSUME TypeOK, NextInv, RefInv, ResetSquare
    PROVE  RefInv'
<1> DEFINE here == <<row, col>>
<1>1. /\ row \in Index /\ col \in Index /\ next \in Nat /\ next <= next'
      /\ next' = AfterDown /\ Size \in Nat /\ Size > 1 /\ next' \in Nat
  <2>1. next <= next' /\ next' \in 0..Cells
    BY Counting
  <2>2. next' = AfterDown /\ row # Size
    BY DEF ResetSquare, Done
  <2>3. row \in 0..Size /\ col \in Index /\ next \in 0..Cells
    BY DEF TypeOK
  <2> QED
    BY <2>1, <2>2, <2>3, SizeAssumption, CellCount DEF Index
<1>2. NoWall \notin Nat
  BY NoWallAssumption
<1> SUFFICES ASSUME NEW s \in Square, NEW d \in Side
             PROVE  /\ ref'[s][d] # NoWall =>
                            ref'[s][d] < next' /\ Reset(s)' /\ OnBoard(s, d)
                    /\ Reset(s)' /\ OnBoard(s, d) /\ d \in Forward =>
                            ref'[s][d] # NoWall
                    /\ Reset(s)' /\ OnBoard(s, d) /\ d \notin Forward =>
                            ref'[s][d] = ref'[Neighbour(s, d)][Opposite(d)]
  BY DEF RefInv, OnBoard, Neighbour, Opposite
<1>3. CASE s # here
  <2>1. ref'[s][d] = ref[s][d] /\ (Reset(s)' <=> Reset(s))
    BY <1>3, WrittenSides, OneMore
  <2>2. ref[s][d] # NoWall => ref[s][d] \in Nat
    BY DEF TypeOK, Cell
  <2>3. ASSUME Reset(s), OnBoard(s, d), d \notin Forward
        PROVE  /\ Neighbour(s, d) \in Square /\ Opposite(d) \in Side
               /\ Neighbour(s, d) # here
    <3>1. PICK r \in Index, c \in Index : s = <<r, c>>
      BY DEF Square
    <3>2. d \in {"LEFT", "UP"}
      BY <2>3 DEF Side, Forward
    <3> QED
      BY <2>3, <3>1, <3>2, <1>1, NeighbourFacts DEF Reset, Neighbour, Index
  <2>4. Reset(s) /\ OnBoard(s, d) /\ d \notin Forward =>
           ref'[Neighbour(s, d)][Opposite(d)] = ref[Neighbour(s, d)][Opposite(d)]
    BY <2>3, WrittenSides
  <2> QED
    BY <2>1, <2>2, <2>4, <1>1 DEF RefInv
<1>4. CASE s = here
  <2>1. Reset(s)' /\ s[1] = row /\ s[2] = col
    BY <1>4, OneMore
  <2>2. CASE d = "RIGHT"
    <3>1. ref'[s][d] = IF col < Size - 1 THEN next ELSE NoWall
      BY <1>4, <2>2, WrittenSides DEF RightCell
    <3>2. col < Size - 1 => next < next'
      BY <1>1 DEF AfterDown, AfterRight
    <3> QED
      BY <2>1, <2>2, <3>1, <3>2, <1>1, <1>2 DEF OnBoard, Forward
  <2>3. CASE d = "DOWN"
    <3>1. ref'[s][d] = IF row < Size - 1 THEN AfterRight ELSE NoWall
      BY <1>4, <2>3, WrittenSides DEF DownCell
    <3>2. row < Size - 1 => AfterRight < next' /\ AfterRight \in Nat
      BY <1>1 DEF AfterDown, AfterRight
    <3> QED
      BY <2>1, <2>3, <3>1, <3>2, <1>1, <1>2 DEF OnBoard, Forward
  <2>4. CASE d = "LEFT"
    <3>1. ref'[s][d] = IF col > 0 THEN ref[<<row, col - 1>>]["RIGHT"] ELSE NoWall
      BY <1>4, <2>4, WrittenSides DEF LeftCell
    <3>2. col > 0 => /\ <<row, col - 1>> \in Square /\ <<row, col - 1>> # here
                     /\ Reset(<<row, col - 1>>)
                     /\ OnBoard(<<row, col - 1>>, "RIGHT")
      BY <1>1 DEF Square, Index, Reset, OnBoard
    <3>3. col > 0 => /\ ref'[<<row, col - 1>>]["RIGHT"] = ref[<<row, col - 1>>]["RIGHT"]
                     /\ ref[<<row, col - 1>>]["RIGHT"] < next
                     /\ ref[<<row, col - 1>>]["RIGHT"] \in Nat
      BY <3>2, WrittenSides DEF RefInv, Side, Forward, TypeOK, Cell
    <3>4. col > 0 => Neighbour(s, d) = <<row, col - 1>> /\ Opposite(d) = "RIGHT"
      BY <2>1, <2>4 DEF Neighbour, Opposite
    <3> QED
      BY <2>1, <2>4, <3>1, <3>3, <3>4, <1>1 DEF OnBoard, Forward, Index
  <2>5. CASE d = "UP"
    <3>1. ref'[s][d] = IF row > 0 THEN ref[<<row - 1, col>>]["DOWN"] ELSE NoWall
      BY <1>4, <2>5, WrittenSides DEF UpCell
    <3>2. row > 0 => /\ <<row - 1, col>> \in Square /\ <<row - 1, col>> # here
                     /\ Reset(<<row - 1, col>>)
                     /\ OnBoard(<<row - 1, col>>, "DOWN")
      BY <1>1 DEF Square, Index, Reset, OnBoard
    <3>3. row > 0 => /\ ref'[<<row - 1, col>>]["DOWN"] = ref[<<row - 1, col>>]["DOWN"]
                     /\ ref[<<row - 1, col>>]["DOWN"] < next
                     /\ ref[<<row - 1, col>>]["DOWN"] \in Nat
      BY <3>2, WrittenSides DEF RefInv, Side, Forward, TypeOK, Cell
    <3>4. row > 0 => Neighbour(s, d) = <<row - 1, col>> /\ Opposite(d) = "DOWN"
      BY <2>1, <2>5 DEF Neighbour, Opposite
    <3> QED
      BY <2>1, <2>5, <3>1, <3>3, <3>4, <1>1 DEF OnBoard, Forward, Index
  <2> QED
    BY <2>2, <2>3, <2>4, <2>5 DEF Side
<1> QED
  BY <1>3, <1>4

(* The cells handed out in a round are new, and two of them differ.           *)
LEMMA DistinctStep ==
    ASSUME TypeOK, NextInv, RefInv, ForwardDistinct, ResetSquare
    PROVE  ForwardDistinct'
<1> DEFINE here == <<row, col>>
<1>1. next \in Nat /\ Size \in Nat
  BY SizeAssumption, CellCount DEF TypeOK
<1>2. \A s \in Square, d \in Forward :
         s # here => ref'[s][d] = ref[s][d] /\ (ref[s][d] # NoWall => ref[s][d] < next)
  BY WrittenSides DEF RefInv, Forward, Side
<1>3. \A d \in Forward : ref'[here][d] # NoWall => ref'[here][d] >= next
  BY WrittenSides, <1>1 DEF Forward, RightCell, DownCell, AfterRight
<1>4. ref'[here]["RIGHT"] # NoWall => ref'[here]["RIGHT"] # ref'[here]["DOWN"]
  BY WrittenSides, <1>1 DEF RightCell, DownCell, AfterRight
<1>5. \A s \in Square, d \in Forward :
         /\ ref'[s][d] # NoWall => ref'[s][d] \in Nat
         /\ ref[s][d] # NoWall => ref[s][d] \in Nat
  BY WrittenSides DEF TypeOK, Forward, Side, Cell
<1> SUFFICES ASSUME NEW s \in Square, NEW t \in Square,
                    NEW d \in Forward, NEW e \in Forward,
                    ref'[s][d] # NoWall, ref'[s][d] = ref'[t][e]
             PROVE  s = t /\ d = e
  BY DEF ForwardDistinct
<1>6. CASE s # here /\ t # here
  BY <1>2, <1>6 DEF ForwardDistinct
<1>7. CASE s = here /\ t # here
  BY <1>1, <1>2, <1>3, <1>5, <1>7
<1>8. CASE s # here /\ t = here
  BY <1>1, <1>2, <1>3, <1>5, <1>8
<1>9. CASE s = here /\ t = here
  BY <1>4, <1>9 DEF Forward
<1> QED
  BY <1>6, <1>7, <1>8, <1>9

(* Building and breaking keep the references; only the loop changes them.     *)
LEMMA IInvStep == IInv /\ [Next]_vars => IInv'
<1> SUFFICES ASSUME IInv, [Next]_vars PROVE IInv'
  OBVIOUS
<1> USE DEF IInv
<1>1. CASE ResetSquare
  <2>1. TypeOK'
    BY <1>1, Counting, WrittenSides DEF TypeOK, ResetSquare
  <2>2. BorderInv'
    BY <1>1 DEF ResetSquare, BorderInv
  <2> QED
    BY <1>1, <2>1, <2>2, Counting, RefStep, DistinctStep
<1>2. ASSUME Done, border' \in [Cell -> BOOLEAN], UNCHANGED <<row, col, next, ref>>
      PROVE  IInv'
  <2>1. TypeOK'
    BY <1>2 DEF TypeOK
  <2>2. NextInv' /\ BorderInv'
    BY <1>2 DEF NextInv, BorderInv, Done
  <2>3. RefInv' /\ ForwardDistinct'
    BY <1>2 DEF RefInv, ForwardDistinct, Reset
  <2> QED
    BY <2>1, <2>2, <2>3
<1>3. ASSUME NEW s \in Square, NEW d \in Side, BuildWall(s, d)
      PROVE  IInv'
  BY <1>2, <1>3 DEF BuildWall, TypeOK
<1>4. ASSUME NEW s \in Square, NEW d \in Side, BreakWall(s, d)
      PROVE  IInv'
  BY <1>2, <1>4 DEF BreakWall, TypeOK
<1>5. CASE UNCHANGED vars
  BY <1>5 DEF vars, TypeOK, NextInv, RefInv, ForwardDistinct, BorderInv, Done, Reset
<1> QED
  BY <1>1, <1>3, <1>4, <1>5 DEF Next

(* The invariant holds throughout.                                            *)
LEMMA Inductive == Spec => []IInv
BY IInvInit, IInvStep, PTL DEF Spec

(* The cells are never handed out beyond the array, on a board of any size.   *)
THEOREM TypeCorrect == Spec => []TypeOK
<1>1. IInv => TypeOK
  BY DEF IInv
<1> QED
  BY <1>1, Inductive, PTL

(* Two neighbours refer to one cell for the side between them.                *)
LEMMA Shared == IInv => SidesShareCell
<1> SUFFICES ASSUME IInv, NEW s \in Square, NEW d \in Side
             PROVE  IF OnBoard(s, d)
                    THEN Reset(s) /\ Reset(Neighbour(s, d)) =>
                            /\ ref[s][d] \in Cell
                            /\ ref[s][d] = ref[Neighbour(s, d)][Opposite(d)]
                    ELSE ref[s][d] = NoWall
  BY DEF SidesShareCell
<1>1. CASE ~OnBoard(s, d)
  BY <1>1 DEF IInv, RefInv
<1>2. ASSUME OnBoard(s, d), Reset(s), Reset(Neighbour(s, d))
      PROVE  ref[s][d] \in Cell /\ ref[s][d] = ref[Neighbour(s, d)][Opposite(d)]
  <2> DEFINE t == Neighbour(s, d)
             e == Opposite(d)
  <2>1. /\ t \in Square /\ e \in Side /\ OnBoard(t, e)
        /\ Neighbour(t, e) = s /\ Opposite(e) = d
        /\ (d \in Forward <=> e \notin Forward)
    BY <1>2, NeighbourFacts
  <2> HIDE DEF t, e
  <2>2. ref[s][d] = ref[t][e]
    BY <1>2, <2>1 DEF IInv, RefInv, t, e
  <2>3. ref[s][d] # NoWall
    BY <1>2, <2>1, <2>2 DEF IInv, RefInv, t
  <2> QED
    BY <2>2, <2>3 DEF IInv, TypeOK, t, e
<1> QED
  BY <1>1, <1>2

(* No other two sides refer to the same cell.                                 *)
LEMMA Distinct == IInv => CellsAreDistinct
<1> SUFFICES ASSUME IInv, NEW s \in Square, NEW t \in Square,
                    NEW d \in Side, NEW e \in Side,
                    ref[s][d] # NoWall, ref[s][d] = ref[t][e]
             PROVE  \/ s = t /\ d = e
                    \/ t = Neighbour(s, d) /\ e = Opposite(d)
  BY DEF CellsAreDistinct
<1>1. OnBoard(s, d) /\ Reset(s) /\ OnBoard(t, e) /\ Reset(t)
  BY DEF IInv, RefInv
<1>2. /\ Neighbour(s, d) \in Square /\ Opposite(d) \in Side
      /\ Neighbour(Neighbour(s, d), Opposite(d)) = s /\ Opposite(Opposite(d)) = d
      /\ (d \in Forward <=> Opposite(d) \notin Forward)
      /\ Neighbour(t, e) \in Square /\ Opposite(e) \in Side
      /\ Neighbour(Neighbour(t, e), Opposite(e)) = t /\ Opposite(Opposite(e)) = e
      /\ (e \in Forward <=> Opposite(e) \notin Forward)
  BY <1>1, NeighbourFacts
<1>3. /\ d \notin Forward => ref[s][d] = ref[Neighbour(s, d)][Opposite(d)]
                             /\ Opposite(d) \in Forward
      /\ e \notin Forward => ref[t][e] = ref[Neighbour(t, e)][Opposite(e)]
                             /\ Opposite(e) \in Forward
  BY <1>1, <1>2 DEF IInv, RefInv, Forward, Side
<1>4. CASE d \in Forward /\ e \in Forward
  BY <1>4 DEF IInv, ForwardDistinct
<1>5. CASE d \notin Forward /\ e \in Forward
  BY <1>2, <1>3, <1>5 DEF IInv, ForwardDistinct
<1>6. CASE d \in Forward /\ e \notin Forward
  BY <1>2, <1>3, <1>6 DEF IInv, ForwardDistinct
<1>7. CASE d \notin Forward /\ e \notin Forward
  <2>1. Neighbour(s, d) = Neighbour(t, e) /\ Opposite(d) = Opposite(e)
    BY <1>2, <1>3, <1>7 DEF IInv, ForwardDistinct
  <2> QED
    BY <1>2, <2>1
<1> QED
  BY <1>4, <1>5, <1>6, <1>7

(* Every wall has one cell of its own, which its two squares share, on a board
   of any size.                                                               *)
THEOREM CellsMatchWalls == Spec => [](SidesShareCell /\ CellsAreDistinct)
<1>1. IInv => SidesShareCell /\ CellsAreDistinct
  BY Shared, Distinct
<1> QED
  BY <1>1, Inductive, PTL

-----------------------------------------------------------------------------
(* Implementing Walls.                                                        *)

(* A side of a square on the board belongs to a wall that stands just when the
   cell of that side is set.                                                  *)
LEMMA Standing ==
    ASSUME IInv, Done, NEW s \in Square, NEW d \in Side, OnBoard(s, d)
    PROVE  /\ ref[s][d] \in Cell
           /\ Neighbour(s, d) \in Square /\ Opposite(d) \in Side
           /\ ref[Neighbour(s, d)][Opposite(d)] = ref[s][d]
           /\ Edge(s, d) \in EdgeSet
<1>1. \A t \in Square : Reset(t)
  BY SizeAssumption DEF Done, Reset, Square, Index
<1>2. SidesShareCell
  BY Shared
<1>3. Neighbour(s, d) \in Square /\ Opposite(d) \in Side
  BY NeighbourFacts
<1>4. Edge(s, d) \in EdgeSet
  <2>1. <<s, d>> \in InnerSides
    BY DEF InnerSides
  <2> QED
    BY <2>1 DEF EdgeSet
<1> QED
  BY <1>1, <1>2, <1>3, <1>4 DEF SidesShareCell

(* The walls that stand, named without InnerSides.                            *)
LEMMA StandingMeaning ==
    ASSUME NEW w
    PROVE  w \in StandingWalls <=>
              \E s \in Square, d \in Side :
                  /\ OnBoard(s, d) /\ w = Edge(s, d)
                  /\ ref[s][d] # NoWall /\ border[ref[s][d]]
<1>1. ASSUME w \in StandingWalls
      PROVE  \E s \in Square, d \in Side :
                  /\ OnBoard(s, d) /\ w = Edge(s, d)
                  /\ ref[s][d] # NoWall /\ border[ref[s][d]]
  <2>1. PICK y \in InnerSides :
              w = Edge(y[1], y[2]) /\ ref[y[1]][y[2]] # NoWall /\ border[ref[y[1]][y[2]]]
    BY <1>1 DEF StandingWalls
  <2>2. y[1] \in Square /\ y[2] \in Side /\ OnBoard(y[1], y[2])
    BY DEF InnerSides
  <2> QED
    BY <2>1, <2>2
<1>2. ASSUME NEW s \in Square, NEW d \in Side,
             OnBoard(s, d), w = Edge(s, d), ref[s][d] # NoWall, border[ref[s][d]]
      PROVE  w \in StandingWalls
  <2> DEFINE y == <<s, d>>
  <2>1. y \in Square \X Side /\ y[1] = s /\ y[2] = d
    OBVIOUS
  <2> HIDE DEF y
  <2>2. y \in InnerSides
    BY <2>1, <1>2 DEF InnerSides
  <2> QED
    BY <2>1, <2>2, <1>2 DEF StandingWalls
<1> QED
  BY <1>1, <1>2

(* The same of the next state.                                                *)
LEMMA StandingPrimed ==
    ASSUME NEW w
    PROVE  w \in StandingWalls' <=>
              \E s \in Square, d \in Side :
                  /\ OnBoard(s, d) /\ w = Edge(s, d)
                  /\ ref'[s][d] # NoWall /\ border'[ref'[s][d]]
<1>1. ASSUME w \in StandingWalls'
      PROVE  \E s \in Square, d \in Side :
                  /\ OnBoard(s, d) /\ w = Edge(s, d)
                  /\ ref'[s][d] # NoWall /\ border'[ref'[s][d]]
  <2>1. PICK y \in InnerSides :
              w = Edge(y[1], y[2]) /\ ref'[y[1]][y[2]] # NoWall /\ border'[ref'[y[1]][y[2]]]
    BY <1>1 DEF StandingWalls
  <2>2. y[1] \in Square /\ y[2] \in Side /\ OnBoard(y[1], y[2])
    BY DEF InnerSides
  <2> QED
    BY <2>1, <2>2
<1>2. ASSUME NEW s \in Square, NEW d \in Side,
             OnBoard(s, d), w = Edge(s, d), ref'[s][d] # NoWall, border'[ref'[s][d]]
      PROVE  w \in StandingWalls'
  <2> DEFINE y == <<s, d>>
  <2>1. y \in Square \X Side /\ y[1] = s /\ y[2] = d
    OBVIOUS
  <2> HIDE DEF y
  <2>2. y \in InnerSides
    BY <2>1, <1>2 DEF InnerSides
  <2> QED
    BY <2>1, <2>2, <1>2 DEF StandingWalls
<1> QED
  BY <1>1, <1>2

(* Once the references are in place, two sides share a cell just when they are
   sides of the same wall.                                                    *)
LEMMA SameCell ==
    ASSUME IInv, Done, NEW s \in Square, NEW d \in Side, OnBoard(s, d),
           NEW t \in Square, NEW e \in Side, OnBoard(t, e)
    PROVE  ref[t][e] = ref[s][d] <=> Edge(t, e) = Edge(s, d)
<1>1. ref[s][d] \in Cell /\ ref[Neighbour(s, d)][Opposite(d)] = ref[s][d]
  BY Standing
<1>2. ref[s][d] # NoWall
  BY <1>1, NoWallAssumption DEF Cell
<1>3. Edge(s, d) = Edge(t, e) <=>
         (s = t /\ d = e) \/ (t = Neighbour(s, d) /\ e = Opposite(d))
  BY TwoNames
<1>4. ref[s][d] = ref[t][e] =>
         (s = t /\ d = e) \/ (t = Neighbour(s, d) /\ e = Opposite(d))
  BY <1>2, Distinct DEF CellsAreDistinct
<1> QED
  BY <1>1, <1>3, <1>4

(* The initial states of the grid are those of Walls: there is no wall.       *)
LEMMA NoWallsAtFirst == Init => AbstractWalls!Init
<1> SUFFICES ASSUME Init, NEW w \in StandingWalls PROVE FALSE
  BY DEF AbstractWalls!Init
<1>1. PICK s \in Square, d \in Side : ref[s][d] # NoWall
  BY StandingMeaning
<1> QED
  BY <1>1 DEF Init

(* Building through the reference of a side makes its wall stand and changes no
   other wall.                                                                *)
LEMMA BuildMaps ==
    ASSUME IInv, NEW s \in Square, NEW d \in Side, BuildWall(s, d)
    PROVE  /\ Edge(s, d) \in EdgeSet
           /\ StandingWalls' = StandingWalls \cup {Edge(s, d)}
<1>1. Done /\ ref[s][d] # NoWall /\ ref' = ref /\ OnBoard(s, d)
  BY DEF BuildWall, IInv, RefInv
<1>2. border' = [border EXCEPT ![ref[s][d]] = TRUE] /\ border \in [Cell -> BOOLEAN]
  BY DEF BuildWall, IInv, TypeOK
<1>3. /\ ref[s][d] \in Cell /\ Edge(s, d) \in EdgeSet
      /\ Neighbour(s, d) \in Square /\ Opposite(d) \in Side
  BY <1>1, Standing
<1>4. ASSUME NEW w PROVE w \in StandingWalls' <=> w \in StandingWalls \/ w = Edge(s, d)
  <2>1. w \in StandingWalls' <=>
            \E t \in Square, e \in Side :
                /\ OnBoard(t, e) /\ w = Edge(t, e)
                /\ ref[t][e] # NoWall /\ border'[ref[t][e]]
    BY <1>1, StandingPrimed
  <2>2. ASSUME NEW t \in Square, NEW e \in Side, OnBoard(t, e)
        PROVE  border'[ref[t][e]] <=> border[ref[t][e]] \/ Edge(t, e) = Edge(s, d)
    <3>1. ref[t][e] \in Cell
      BY <1>1, <2>2, Standing
    <3>2. ref[t][e] = ref[s][d] <=> Edge(t, e) = Edge(s, d)
      BY <1>1, <2>2, SameCell
    <3> QED
      BY <1>2, <3>1, <3>2
  <2>3. w = Edge(s, d) => w \in StandingWalls'
    BY <2>1, <2>2, <1>1
  <2> QED
    BY <2>1, <2>2, <2>3, <1>1, StandingMeaning
<1>5. StandingWalls' = StandingWalls \cup {Edge(s, d)}
  BY <1>4
<1> QED
  BY <1>3, <1>5

(* Breaking through the references of both squares takes that wall away and
   changes no other.                                                          *)
LEMMA BreakMaps ==
    ASSUME IInv, NEW s \in Square, NEW d \in Side, BreakWall(s, d)
    PROVE  /\ Edge(s, d) \in EdgeSet
           /\ StandingWalls' = StandingWalls \ {Edge(s, d)}
<1>1. Done /\ ref' = ref /\ OnBoard(s, d)
  BY DEF BreakWall
<1>2. /\ ref[s][d] \in Cell /\ Edge(s, d) \in EdgeSet
      /\ ref[Neighbour(s, d)][Opposite(d)] = ref[s][d]
  BY <1>1, Standing
<1>3. border' = [k \in Cell |-> IF k = ref[s][d] THEN FALSE ELSE border[k]]
  BY <1>2 DEF BreakWall
<1>4. ASSUME NEW w PROVE w \in StandingWalls' <=> w \in StandingWalls /\ w # Edge(s, d)
  <2>1. w \in StandingWalls' <=>
            \E t \in Square, e \in Side :
                /\ OnBoard(t, e) /\ w = Edge(t, e)
                /\ ref[t][e] # NoWall /\ border'[ref[t][e]]
    BY <1>1, StandingPrimed
  <2>2. ASSUME NEW t \in Square, NEW e \in Side, OnBoard(t, e)
        PROVE  border'[ref[t][e]] <=> border[ref[t][e]] /\ Edge(t, e) # Edge(s, d)
    <3>1. ref[t][e] \in Cell
      BY <1>1, <2>2, Standing
    <3>2. ref[t][e] = ref[s][d] <=> Edge(t, e) = Edge(s, d)
      BY <1>1, <2>2, SameCell
    <3> QED
      BY <1>3, <3>1, <3>2
  <2> QED
    BY <2>1, <2>2, StandingMeaning
<1>5. StandingWalls' = StandingWalls \ {Edge(s, d)}
  BY <1>4
<1> QED
  BY <1>2, <1>5

(* While reset_board runs no wall stands.                                     *)
LEMMA ResetMaps ==
    ASSUME IInv, ResetSquare, IInv'
    PROVE  StandingWalls' = StandingWalls
<1>1. border' = border /\ \A k \in Cell : ~border[k]
  BY DEF ResetSquare, IInv, BorderInv
<1>2. \A w : w \notin StandingWalls
  BY <1>1, StandingMeaning DEF IInv, TypeOK
<1>3. \A w : w \notin StandingWalls'
  <2> SUFFICES ASSUME NEW w \in StandingWalls' PROVE FALSE
    OBVIOUS
  <2>1. PICK s \in Square, d \in Side : ref'[s][d] # NoWall /\ border'[ref'[s][d]]
    BY StandingPrimed
  <2> QED
    BY <2>1, <1>1 DEF IInv, TypeOK
<1> QED
  BY <1>2, <1>3

(* The cells and references implement the walls, on a board of any size.      *)
THEOREM GridImplementsWalls == Spec => ImplementsWalls
<1>1. Init => AbstractWalls!Init
  BY NoWallsAtFirst
<1>2. IInv /\ IInv' /\ [Next]_vars => [AbstractWalls!Next]_StandingWalls
  <2> SUFFICES ASSUME IInv, IInv', [Next]_vars
               PROVE  [AbstractWalls!Next]_StandingWalls
    OBVIOUS
  <2>1. CASE ResetSquare
    BY <2>1, ResetMaps
  <2>2. ASSUME NEW s \in Square, NEW d \in Side, BuildWall(s, d) \/ BreakWall(s, d)
        PROVE  AbstractWalls!Next
    <3>1. CASE BuildWall(s, d)
      BY <3>1, BuildMaps DEF AbstractWalls!Next, AbstractWalls!Build
    <3>2. CASE BreakWall(s, d)
      BY <3>2, BreakMaps DEF AbstractWalls!Next, AbstractWalls!Break
    <3> QED
      BY <2>2, <3>1, <3>2
  <2>3. CASE UNCHANGED vars
    BY <2>3 DEF vars, StandingWalls, InnerSides
  <2> QED
    BY <2>1, <2>2, <2>3 DEF Next
<1> QED
  BY <1>1, <1>2, Inductive, PTL DEF Spec, ImplementsWalls, AbstractWalls!Spec

(* Each step of the grid changes the wall it is about and no other, on a board
   of any size.                                                               *)
THEOREM WallsKeptApart == Spec => WritesOwnWall
<1>1. IInv /\ IInv' /\ [Next]_vars =>
        [border' # border => \A s \in Square, d \in Side :
            /\ BuildWall(s, d) => StandingWalls' = StandingWalls \cup {Edge(s, d)}
            /\ BreakWall(s, d) => StandingWalls' = StandingWalls \ {Edge(s, d)}]_vars
  BY BuildMaps, BreakMaps
<1> QED
  BY <1>1, Inductive, PTL DEF Spec, WritesOwnWall

=============================================================================
