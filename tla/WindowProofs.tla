---------------------------- MODULE WindowProofs ----------------------------
(* Proofs about Window, for any board, any sizes a window may be given and any
   squares of the player's: what a press is taken for.                        *)
EXTENDS Window, TLAPS

-----------------------------------------------------------------------------
(* Division, of coordinates and of squares.                                   *)

LEMMA DivMod ==
    ASSUME NEW a \in Nat, NEW n \in Nat \ {0}
    PROVE  /\ a \div n \in Nat /\ a % n \in Nat /\ a % n < n
           /\ a = (a \div n) * n + (a % n)
  OBVIOUS

LEMMA DivBelow ==
    ASSUME NEW x \in Nat, NEW c \in Nat \ {0}, NEW n \in Nat, x < n * c
    PROVE  x \div c \in Nat /\ x \div c < n
  OBVIOUS

LEMMA RowBelow ==
    ASSUME NEW q \in Nat, NEW r \in Nat, NEW n \in Nat, q < n, r < n
    PROVE  q * n + r \in 0..(n * n - 1)
  OBVIOUS

-----------------------------------------------------------------------------
(* The size is one the window has been given, and in a frame's input the one
   that is drawn; a second click is one of this frame, made in a window that has
   kept its size since.                                                       *)
SizeInv ==
    /\ size \in Nat /\ size >= MinSize
    /\ window[1] \in Nat /\ window[2] \in Nat
    /\ stage = "input" => drawn = size

SecondInv ==
    click.state = "SECOND_CLICK" =>
        /\ stage = "render"
        /\ \E p \in Pixel : InWindow(p, window) /\ click.second = Index(p, size)

(* Types of the click and of the mark for a lookup off the board.              *)
Click == [state : {"NO_CLICK", "FIRST_CLICK", "SECOND_CLICK"}, first : Int, second : Int,
          wall : BOOLEAN]

TypeInv == click \in Click /\ undefined \in BOOLEAN

IInv == TypeInv /\ SizeInv /\ SecondInv

LEMMA PixelIsNat ==
    ASSUME NEW p \in Pixel
    PROVE  p[1] \in Nat /\ p[2] \in Nat
<1> DEFINE m == CHOOSE m \in Sizes : \A s \in Sizes : s <= m
<1>1. m \in Sizes /\ m \in Nat
  BY SizesAssumption
<1> HIDE DEF m
<1>2. \A x \in 0..(m - 1) : x \in Nat
  BY <1>1
<1>3. PICK x \in 0..(m - 1), y \in 0..(m - 1) : p = <<x, y>>
  BY DEF Pixel, m
<1> QED
  BY <1>2, <1>3

(* A square is drawn at the pixels that are taken for it.                     *)
LEMMA DrawnIsIndex ==
    ASSUME NEW p, NEW s, DrawnAt(p, s) # {}
    PROVE  Index(p, s) \in DrawnAt(p, s)
<1>1. PICK i \in Board : p[1] \div Cell(s) = i % N /\ p[2] \div Cell(s) = i \div N
  BY DEF DrawnAt
<1>2. i \in Nat /\ N \in Nat \ {0}
  BY SizesAssumption DEF Board
<1>3. Index(p, s) = (i \div N) * N + (i % N)
  BY <1>1 DEF Index
<1>4. Index(p, s) = i
  BY <1>2, <1>3, DivMod
<1> QED
  BY <1>1, <1>4 DEF DrawnAt

(* Where the board fills the window every pixel is of a square.               *)
LEMMA IndexOnBoard ==
    ASSUME IInv, Fills, NEW p \in Pixel, InWindow(p, window)
    PROVE  Index(p, size) \in Board
<1> DEFINE c == size \div N
<1>1. N \in Nat \ {0} /\ size \in Nat /\ size >= N /\ size % N = 0
  BY SizesAssumption DEF IInv, SizeInv, Fills
<1>2. c \in Nat /\ size = c * N
  BY <1>1, DivMod
<1>3. p[1] \in Nat /\ p[2] \in Nat /\ p[1] < size /\ p[2] < size
  BY PixelIsNat DEF IInv, SizeInv, Fills, InWindow
<1> HIDE DEF c
<1>4. c \in Nat \ {0} /\ p[1] < N * c /\ p[2] < N * c
  BY <1>1, <1>2, <1>3
<1> DEFINE col == p[1] \div c
           row == p[2] \div c
<1>5. col \in Nat /\ col < N /\ row \in Nat /\ row < N
  BY <1>1, <1>3, <1>4, DivBelow
<1> HIDE DEF col, row
<1>6. row * N + col \in 0..(N * N - 1)
  BY <1>1, <1>5, RowBelow
<1>7. Index(p, size) = row * N + col
  BY DEF Index, Cell, c, row, col
<1> QED
  BY <1>6, <1>7 DEF Board

-----------------------------------------------------------------------------
(* What the parts of a frame do.                                              *)

LEMMA NewSizeIs ==
    ASSUME SizeInv
    PROVE  NewSize \in Nat /\ NewSize >= MinSize
<1>1. MinSize \in Nat
  BY SizesAssumption
<1> QED
  BY <1>1 DEF SizeInv, NewSize, Least

LEMMA ResizeStep ==
    ASSUME SizeInv, NEW c, HandleResize(c)
    PROVE  /\ size' \in Nat /\ size' >= MinSize /\ window'[1] \in Nat /\ window'[2] \in Nat
           /\ \/ click' = NoClick
              \/ click' = c /\ UNCHANGED <<size, window>>
  BY NewSizeIs DEF HandleResize, SizeInv

(* What a press makes of the click.                                           *)
LEMMA ClickStep ==
    ASSUME NEW p, NEW b, NEW backspace, stage = "input", SecondInv
    PROVE  LET c == HandleClicks(p, b, backspace)
           IN  /\ c.state = "SECOND_CLICK" => p # None /\ c.second = Index(p, size)
               /\ p # None /\ c # click /\ c.state = "FIRST_CLICK" => c.first = Index(p, size)
  BY DEF HandleClicks, Keyed, Pressed, SecondInv, NoClick

(* The squares of a click are those of pixels.                                *)
LEMMA IndexIsInt ==
    ASSUME SizeInv, NEW p \in Pixel
    PROVE  Index(p, size) \in Int
<1>1. N \in Nat \ {0} /\ size \in Nat /\ size >= N
  BY SizesAssumption DEF SizeInv
<1> DEFINE c == size \div N
<1>2. c \in Nat \ {0}
  BY <1>1
<1> HIDE DEF c
<1>3. p[1] \div c \in Int /\ p[2] \div c \in Int
  BY <1>2, PixelIsNat
<1>4. (p[2] \div c) * N + p[1] \div c \in Int
  BY <1>1, <1>3
<1> QED
  BY <1>4 DEF Index, Cell, c

LEMMA ClickType ==
    ASSUME IInv, NEW p \in Presses, NEW b \in BOOLEAN, NEW backspace \in BOOLEAN
    PROVE  HandleClicks(p, b, backspace) \in Click
<1> DEFINE i == Index(p, size)
<1>1. p # None => i \in Int
  BY IndexIsInt DEF Presses, IInv
<1>2. NoClick \in Click /\ click \in Click
  BY DEF NoClick, Click, IInv, TypeInv
<1> HIDE DEF i
<1>3. p # None => Pressed(p) \in Click
  BY <1>1, <1>2 DEF Pressed, i, Click
<1>4. \A c \in Click : Keyed(c, b /\ p = None, backspace) \in Click
  BY <1>2 DEF Keyed, Click
<1> QED
  BY <1>2, <1>3, <1>4 DEF HandleClicks

LEMMA IInvInit == Init => IInv
<1> SUFFICES ASSUME Init
             PROVE  IInv
  OBVIOUS
<1>1. NoClick \in Click /\ NoClick.state # "SECOND_CLICK"
  BY DEF Click, NoClick
<1>2. SizeInv
  BY SizesAssumption DEF Init, SizeInv
<1> QED
  BY <1>1, <1>2 DEF Init, IInv, TypeInv, SecondInv

LEMMA TypeStep ==
    ASSUME IInv, [Next]_vars
    PROVE  TypeInv'
<1>1. click \in Click /\ NoClick \in Click /\ undefined \in BOOLEAN
  BY DEF IInv, TypeInv, NoClick, Click
<1>2. undefined' \in BOOLEAN
  BY <1>1 DEF Next, vars, Resizes, Input, Choose, Promote, Render, Decide
<1>3. ASSUME NEW c \in Click, HandleResize(c)
      PROVE  click' \in Click
  BY <1>1, <1>3, ResizeStep DEF IInv
<1>4. CASE Input
  BY <1>2, <1>3, <1>4, ClickType DEF Input, TypeInv
<1>5. CASE Choose \/ Promote
  BY <1>1, <1>2, <1>3, <1>5 DEF Choose, Promote, TypeInv
<1>6. CASE Resizes \/ Render \/ Decide \/ UNCHANGED vars
  <2>1. click' \in Click
    BY <1>1, <1>6 DEF Resizes, Render, Decide, vars, Click
  <2> QED
    BY <1>2, <2>1 DEF TypeInv
<1> QED
  BY <1>4, <1>5, <1>6 DEF Next

LEMMA IInvStep == IInv /\ [Next]_vars => IInv'
<1> SUFFICES ASSUME IInv, [Next]_vars
             PROVE  IInv'
  OBVIOUS
<1> SUFFICES SizeInv' /\ SecondInv'
  BY TypeStep DEF IInv
<1> USE DEF IInv
<1>1. CASE Resizes
  <2>1. window'[1] \in Nat /\ window'[2] \in Nat
    BY <1>1, SizesAssumption DEF Resizes
  <2> QED
    BY <1>1, <2>1 DEF Resizes, SizeInv, SecondInv
<1>2. CASE Input
  <2>1. PICK p \in Presses, b \in BOOLEAN, backspace \in BOOLEAN :
            HandleResize(HandleClicks(p, b, backspace))
    BY <1>2 DEF Input
  <2> DEFINE c == HandleClicks(p, b, backspace)
  <2>2. HandleResize(c)
    BY <2>1
  <2>3. stage = "input" /\ stage' = "render"
    BY <1>2 DEF Input
  <2>4. c.state = "SECOND_CLICK" => p # None /\ c.second = Index(p, size)
    BY <2>3, ClickStep
  <2> HIDE DEF c
  <2>5. /\ size' \in Nat /\ size' >= MinSize /\ window'[1] \in Nat /\ window'[2] \in Nat
        /\ click' = NoClick \/ (click' = c /\ UNCHANGED <<size, window>>)
    BY <2>2, ResizeStep
  <2>6. SecondInv'
    <3>1. SUFFICES ASSUME click'.state = "SECOND_CLICK"
                   PROVE  \E q \in Pixel : InWindow(q, window') /\ click'.second = Index(q, size')
      BY <2>3 DEF SecondInv, InWindow, Index, Cell
    <3>2. click' = c /\ UNCHANGED <<size, window>>
      BY <2>5, <3>1 DEF NoClick
    <3>3. p \in Pixel /\ InWindow(p, window) /\ c.second = Index(p, size)
      BY <2>4, <3>1, <3>2 DEF Presses
    <3> QED
      BY <3>2, <3>3
  <2> QED
    BY <2>3, <2>5, <2>6 DEF SizeInv
<1>3. CASE Choose \/ Promote
  <2>1. HandleResize(click) /\ stage = "input" /\ stage' = "render"
    BY <1>3 DEF Choose, Promote
  <2>2. click'.state # "SECOND_CLICK"
    BY <2>1, ResizeStep DEF SecondInv, NoClick
  <2> QED
    BY <2>1, <2>2, ResizeStep DEF SizeInv, SecondInv
<1>4. CASE Render \/ Decide
  <2>1. Rendered /\ click'.state # "SECOND_CLICK"
    BY <1>4 DEF Render, Decide, Rendered, NoClick, TypeInv, Click
  <2> QED
    BY <2>1 DEF Rendered, SizeInv, SecondInv
<1>5. CASE UNCHANGED vars
  BY <1>5 DEF vars, SizeInv, SecondInv, InWindow, Index, Cell
<1> QED
  BY <1>1, <1>2, <1>3, <1>4, <1>5 DEF Next

LEMMA Inductive == Spec => []IInv
  BY IInvInit, IInvStep, PTL DEF Spec

-----------------------------------------------------------------------------

(* What has been clicked where something is drawn is what is drawn there.     *)
LEMMA ClickIsIndex ==
    ASSUME IInv, [Next]_vars, press' # None, click' # click
    PROVE  /\ click'.state = "FIRST_CLICK" => click'.first = Index(press', drawn)
           /\ click'.state = "SECOND_CLICK" => click'.second = Index(press', drawn)
<1>1. CASE Input
  <2>1. PICK p \in Presses, b \in BOOLEAN, backspace \in BOOLEAN :
            press' = p /\ HandleResize(HandleClicks(p, b, backspace))
    BY <1>1 DEF Input
  <2> DEFINE c == HandleClicks(p, b, backspace)
  <2>2. stage = "input" /\ drawn = size
    BY <1>1 DEF Input, IInv, SizeInv
  <2>3. /\ c.state = "SECOND_CLICK" => c.second = Index(p, size)
        /\ c # click /\ c.state = "FIRST_CLICK" => c.first = Index(p, size)
    BY <2>1, <2>2, ClickStep DEF IInv
  <2>4. HandleResize(c)
    BY <2>1
  <2> HIDE DEF c
  <2>5. click' = NoClick \/ click' = c
    BY <2>4, ResizeStep DEF IInv
  <2> QED
    BY <2>1, <2>2, <2>3, <2>5 DEF NoClick
<1>2. CASE Choose \/ Promote
  <2>1. click' = NoClick
    BY <1>2, ResizeStep DEF Choose, Promote, IInv
  <2> QED
    BY <2>1 DEF NoClick
<1>3. CASE Resizes \/ Render \/ Decide \/ UNCHANGED vars
  BY <1>3 DEF Resizes, Render, Decide, Rendered, vars
<1> QED
  BY <1>1, <1>2, <1>3 DEF Next

(* A press on the board that the player sees is taken for the square that is
   drawn there, also in the frame in which the window changes its size
   (game.cpp:123-146, 362-402, 518-528).                                      *)
THEOREM PressHitsDrawn == Spec => ClickHitsDrawn
<1>1. IInv /\ [Next]_vars =>
        [/\ Clicks /\ click'.state = "FIRST_CLICK" => click'.first \in DrawnAt(press', drawn)
         /\ Clicks /\ click'.state = "SECOND_CLICK" => click'.second \in DrawnAt(press', drawn)
        ]_vars
  BY ClickIsIndex, DrawnIsIndex DEF Clicks
<1> QED
  BY <1>1, Inductive, PTL DEF Spec, ClickHitsDrawn

(* Where the board fills the window, no square off the board is looked up, be it
   for the piece on a first click or for the move of a second.                *)
THEOREM LookupsOnBoard == Spec => OffBoardOnlyBeyond
<1>1. ASSUME IInv, [Next]_vars, Fills
      PROVE  undefined' = undefined
  <2> undefined \in BOOLEAN
    BY <1>1 DEF IInv, TypeInv
  <2>1. CASE Input
    <3>1. PICK p \in Presses : undefined' = (undefined \/ LooksOff(p))
      BY <1>1, <2>1 DEF Input
    <3>2. LooksOff(p) => p \in Pixel /\ InWindow(p, window) /\ Index(p, size) \notin Board
      BY DEF LooksOff, Presses
    <3>3. ~LooksOff(p)
      BY <1>1, <3>2, IndexOnBoard
    <3> QED
      BY <3>1, <3>3
  <2>2. CASE Decide
    <3>1. click.second \in Board
      BY <1>1, <2>2, IndexOnBoard DEF Decide, IInv, SecondInv
    <3> QED
      BY <2>2, <3>1 DEF Decide
  <2>3. CASE Resizes \/ Choose \/ Promote \/ Render \/ UNCHANGED vars
    BY <2>3 DEF Resizes, Choose, Promote, Render, vars
  <2> QED
    BY <1>1, <2>1, <2>2, <2>3 DEF Next
<1>2. IInv /\ [Next]_vars => [undefined' # undefined => ~Fills]_vars
  BY <1>1
<1> QED
  BY <1>2, Inductive, PTL DEF Spec, OffBoardOnlyBeyond

=============================================================================
