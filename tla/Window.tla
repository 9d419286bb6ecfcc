------------------------------- MODULE Window -------------------------------
(* The window of Client/src/game.cpp: frames of input and drawing, a board that
   is drawn in cells of screenSize / 8 pixels, clicks that are turned back into
   squares, a window that the player may resize at any time, and the dialogue
   that decides a promotion.

   One frame is process_input and then render_board.  Of the engine is left
   which squares hold pieces of the player's and what a decided click comes to,
   of the dialogue whether a press hits one of its boxes.  Board and pixels are
   scaled down by the constants.                         *)
EXTENDS Integers

CONSTANTS
    N,          \* cells in a row: 8 in the code
    Sizes,      \* widths and heights a window may be given
    StartSize,  \* the first screenSize: 1000 in the code
    MinSize,    \* minSize: 900 in the code
    Own         \* squares with a piece of the player's

ASSUME SizesAssumption ==
    /\ N \in Nat \ {0} /\ StartSize >= MinSize /\ MinSize >= N
    /\ {StartSize, MinSize} \subseteq Sizes /\ \A s \in Sizes : s \in Nat \ {0}
    /\ \E m \in Sizes : \A s \in Sizes : s <= m           \* that of the screen

ASSUME OwnAssumption == Own \subseteq 0..(N * N - 1)

Pixel == {<<x, y>> : x, y \in 0..(CHOOSE m \in Sizes : \A s \in Sizes : s <= m) - 1}
InWindow(p, w) == p[1] < w[1] /\ p[2] < w[2]

VARIABLES
    window,     \* width and height of the window
    resized,    \* IsWindowResized() in this frame
    size,       \* screenSize
    drawn,      \* screenSize of the frame the player sees
    press,      \* where the mouse was pressed in this frame, or None
    click,      \* the squares clicked
    promotion,  \* promotion.stateActive
    undefined,  \* a square off the board was looked up
    stage       \* the frame is at its "input" or at its "render"

vars == <<window, resized, size, drawn, press, click, promotion, undefined, stage>>

None == <<>>
NoClick == [state |-> "NO_CLICK", first |-> -1, second |-> -1, wall |-> FALSE]

Board == 0..(N * N - 1)

Init ==
    /\ window = <<StartSize, StartSize>> /\ resized = FALSE
    /\ size = StartSize /\ drawn = StartSize
    /\ press = None
    /\ click = NoClick
    /\ promotion = "INACTIVE"
    /\ undefined = FALSE
    /\ stage = "input"

-----------------------------------------------------------------------------

Cell(s) == s \div N

(* get_index_from_mouse_pos: behind the last column the index goes on with the
   next row, and below the last row it leaves the board.                      *)
Index(p, s) == (p[2] \div Cell(s)) * N + p[1] \div Cell(s)

(* What render_board draws at a pixel: the square, or nothing.                *)
DrawnAt(p, s) ==
    {i \in Board : /\ p[1] \div Cell(s) = i % N
                   /\ p[2] \div Cell(s) = i \div N}

(* handle_clicks, the mouse: the first click takes a piece of the player's, the
   second another square.                                                     *)
Pressed(p) ==
    LET i == Index(p, size)
    IN  CASE click.state = "NO_CLICK" /\ i \in Own ->
                [click EXCEPT !.state = "FIRST_CLICK", !.first = i]
          [] click.state = "FIRST_CLICK" /\ i # click.first ->
                [click EXCEPT !.state = "SECOND_CLICK", !.second = i]
          [] click.state = "SECOND_CLICK" -> NoClick
          [] OTHER -> click

(* handle_clicks, the keys: B for a wall, backspace to take the click back.   *)
Keyed(c, b, backspace) ==
    CASE c.state = "FIRST_CLICK" /\ backspace -> NoClick
      [] c.state = "FIRST_CLICK" /\ b /\ ~backspace -> [c EXCEPT !.wall = TRUE]
      [] OTHER -> c

(* A key B is looked at only in a frame without a press.                      *)
HandleClicks(p, b, backspace) ==
    Keyed(IF p = None THEN click ELSE Pressed(p), b /\ p = None, backspace)

(* A square off the board is looked up for the piece on it.                   *)
LooksOff(p) ==
    p # None /\ click.state = "NO_CLICK" /\ Index(p, size) \notin Board

Least(a, b) == IF a < b THEN a ELSE b

NewSize ==
    LET s == Least(window[1], window[2]) IN IF s < MinSize THEN MinSize ELSE s

(* Mutant: what has been clicked is kept.                                     *)
ResizeKeepsClick(c) ==
    IF resized
    THEN /\ IF window[1] # window[2]
            THEN /\ size' = NewSize
                 /\ window' = <<NewSize, NewSize>>
                 /\ resized' \in BOOLEAN
            ELSE UNCHANGED <<size, window>> /\ resized' = FALSE
         /\ click' = c
    ELSE UNCHANGED <<size, window, resized>> /\ click' = c

(* handle_resize, with the click of this frame: only a window that is not
   square changes the size; whether setting it back is reported as another
   resizing is the window system's.                                           *)
HandleResize(c) ==
    IF resized
    THEN /\ IF window[1] # window[2]
            THEN /\ size' = NewSize
                 /\ window' = <<NewSize, NewSize>>
                 /\ resized' \in BOOLEAN
            ELSE UNCHANGED <<size, window>> /\ resized' = FALSE
         /\ click' = NoClick
    ELSE UNCHANGED <<size, window, resized>> /\ click' = c

-----------------------------------------------------------------------------
(* The frames.                                                                *)

Resizes ==
    /\ stage = "input"
    /\ window' \in Sizes \X Sizes /\ window' # window
    /\ resized' = TRUE
    /\ UNCHANGED <<size, drawn, press, click, promotion, undefined, stage>>

Presses == {None} \cup {p \in Pixel : InWindow(p, window)}

(* Mutant: the resizing comes before the clicks.                              *)
InputAfterResize ==
    /\ stage = "input" /\ promotion = "INACTIVE"
    /\ size' = IF resized /\ window[1] # window[2] THEN NewSize ELSE size
    /\ window' = IF size' # size THEN <<size', size'>> ELSE window
    /\ resized' = FALSE
    /\ \E p \in Presses :
        /\ press' = p
        /\ click' = IF p # None /\ Index(p, size') \in Own
                    THEN [NoClick EXCEPT !.state = "FIRST_CLICK",
                                         !.first = Index(p, size')]
                    ELSE NoClick
    /\ stage' = "render"
    /\ UNCHANGED <<drawn, promotion, undefined>>

(* process_input while nothing is being promoted.                             *)
Input ==
    /\ stage = "input" /\ promotion = "INACTIVE"
    /\ \E p \in Presses, b, backspace \in BOOLEAN :
        /\ press' = p
        /\ undefined' = (undefined \/ LooksOff(p))
        /\ HandleResize(HandleClicks(p, b, backspace))
    /\ stage' = "render"
    /\ UNCHANGED <<drawn, promotion>>

(* process_input while a promotion is being decided: the press is in one of the
   boxes or beside them.                                                      *)
Choose ==
    /\ stage = "input" /\ promotion = "DECIDING"
    /\ press' \in Presses
    /\ promotion' \in IF press' = None THEN {promotion} ELSE {promotion, "DECIDED"}
    /\ HandleResize(click)
    /\ stage' = "render"
    /\ UNCHANGED <<drawn, undefined>>

(* process_input in the frame after: the promotion is sent and made.          *)
Promote ==
    /\ stage = "input" /\ promotion = "DECIDED"
    /\ promotion' = "INACTIVE"
    /\ press' = None
    /\ HandleResize(click)
    /\ stage' = "render"
    /\ UNCHANGED <<drawn, undefined>>

Rendered ==
    /\ stage = "render" /\ stage' = "input"
    /\ drawn' = size
    /\ press' = None
    /\ UNCHANGED <<window, resized, size>>

Render ==
    /\ Rendered /\ click.state # "SECOND_CLICK"
    /\ UNCHANGED <<click, promotion, undefined>>

(* The second click is decided in the frame it was made in: moved or built,
   waiting for promotion, or refused, when the first click stays.             *)
Decide ==
    /\ Rendered /\ click.state = "SECOND_CLICK"
    /\ undefined' = (undefined \/ click.second \notin Board)
    /\ \/ click' = NoClick /\ promotion' \in {promotion, "DECIDING"}
       \/ click' = [click EXCEPT !.state = "FIRST_CLICK"] /\ UNCHANGED promotion

Next == Resizes \/ Input \/ Choose \/ Promote \/ Render \/ Decide

Spec == Init /\ [][Next]_vars

-----------------------------------------------------------------------------
(* Properties.                                                                *)

(* A press on the board that the player sees is taken for the square that is
   drawn there, also in the frame in which the window changes its size
   (game.cpp:123-146, 362-402, 518-528).                                      *)
Clicks == press' # None /\ click' # click /\ DrawnAt(press', drawn) # {}

ClickHitsDrawn ==
    [][/\ Clicks /\ click'.state = "FIRST_CLICK" => click'.first \in DrawnAt(press', drawn)
       /\ Clicks /\ click'.state = "SECOND_CLICK" => click'.second \in DrawnAt(press', drawn)
      ]_vars

(* A square off the board is looked up only where the board does not fill the
   window: its size is not a multiple of the cells, or the window was made
   square and larger by the player, which leaves screenSize as it was
   (game.cpp:380-402, 518-528).                                               *)
Fills == size % N = 0 /\ window[1] <= size /\ window[2] <= size

OffBoardOnlyBeyond ==
    [][undefined' # undefined => ~Fills]_vars

=============================================================================
