-------------------------------- MODULE Match --------------------------------
(* Two games of Client/src/game.cpp playing each other: each has an engine with
   its own copy of the board, a frame loop that decides clicks, moves at once
   and then tells the other, and an I/O thread that applies what the other
   sent.  There is no turn order and no lock.

   The relay is two channels that keep the order (GameServer's RelayPromise).
   Messages are not framed: one read returns the text of one or several of
   them, glued together, and the handler takes it for one message.

   Calls on an engine do not overlap here; between any two of them the other
   thread may run.  Both games have been told their colours.                  *)
EXTENDS ChessEngine

CONSTANTS
    Starts,     \* positions to start from: White's engine
    Clicks,     \* [Player -> pairs of squares clicked for a move]
    WallClicks, \* [Player -> pairs of squares clicked for a wall]
    Overwrites, \* sets of walls that overwritten memory may read as
    MaxClicks,  \* bound on the clicks of each player
    MaxGlued    \* bound on the messages one read returns

ASSUME ClicksAssumption ==
    /\ Clicks \in [Player -> SUBSET (Square \X Square)]
    /\ WallClicks \in [Player -> SUBSET (Square \X Square)]
    /\ Overwrites \subseteq SUBSET AllWalls

(* The same position from the other side.                                     *)
MirrorBoard(b) == [s \in Square |-> b[Reverse(s)]]
MirrorWalls(ws) == {{Reverse(s) : s \in w} : w \in ws}

Opposite(e) ==
    [e EXCEPT !.player = Other(e.player), !.board = MirrorBoard(e.board),
              !.walls = MirrorWalls(e.walls)]

Kings(e, c) == Squares(e, <<c, "KING">>)

ASSUME StartsAssumption == \A e \in Starts :
    /\ Playable(e) /\ Playable(Opposite(e)) /\ e.player = "W"
    /\ \A c \in Player : Cardinality(Kings(e, c)) <= 1

ASSUME BoundsAssumption == MaxClicks \in Nat /\ MaxGlued \in Nat \ {0}

VARIABLES
    engine,     \* engine[p]: chessEngine
    net,        \* net[p]: messages on their way to p
    stage,      \* stage[p]: where the frame loop is
    click,      \* click[p]: the squares clicked, and whether for a wall
    over,       \* over[p]: isGameOver
    reading,    \* reading[p]: the I/O thread is alive
    clicks,     \* clicks[p]: how many clicks there have been
    promoted,   \* promoted[p]: how many promotions there have been
    slips       \* what has happened that may take the two boards apart

vars == <<engine, net, stage, click, over, reading, clicks, promoted, slips>>

(* A promotion that has been sent and not made yet is a stage by its kind.     *)
Stages ==
    {"idle", "clicked", "sendOpportunity", "sendMove", "sendWall", "check"} \cup Promotions
Untold == {"sendOpportunity", "sendMove", "sendWall"}

Slips == {"crossed", "castled", "enPassant", "void", "wallBroken", "glued",
          "overwritten", "overtaken"}

NoClick == [from |-> 0, to |-> 0, wall |-> FALSE]

Init ==
    /\ \E e \in Starts : engine = [p \in Player |-> IF p = "W" THEN e ELSE Opposite(e)]
    /\ net = [p \in Player |-> <<>>]
    /\ stage = [p \in Player |-> "idle"]
    /\ click = [p \in Player |-> NoClick]
    /\ over = [p \in Player |-> FALSE]
    /\ reading = [p \in Player |-> TRUE]
    /\ clicks = [p \in Player |-> 0]
    /\ promoted = [p \in Player |-> 0]
    /\ slips = {}

-----------------------------------------------------------------------------
(* Messages.                                                                  *)

Msg(op, a, b, kind) == [op |-> op, a |-> a, b |-> b, kind |-> kind]

(* A message between squares is sent as the other player sees them.           *)
Seen(op, from, to, kind) == Msg(op, Reverse(from), Reverse(to), kind)

Lose == Msg("LOSE", 0, 0, "")

Send(p, m) == net' = [net EXCEPT ![Other(p)] = Append(@, m)]

Has(text, op) == \E i \in DOMAIN text : text[i].op = op

(* Mutant: the opportunity's name is not looked for.                          *)
HandledNoOpportunity(e, text) ==
    LET m == Head(text)
    IN  CASE m.op = "PROM" -> <<opponent_promote(e, m.a, m.b, m.kind), "ok">>
          [] m.op = "TO" -> <<opponent_move(e, m.a, m.b), "ok">>
          [] m.op = "WALL" -> <<build_wall_opponent(e, m.a, m.b), "ok">>
          [] OTHER -> <<e, "lost">>

(* What the handler makes of one read: it looks for the names of messages
   anywhere in the text, PROM first, and takes the operands from a fixed place
   near its beginning.  The engine, and "ok", "lost" or "throws".             *)
Handled(e, text) ==
    LET m == Head(text)
    IN  CASE Has(text, "PROM") ->
                CASE Len(text) = 1 -> <<opponent_promote(e, m.a, m.b, m.kind), "ok">>
                  [] Len(text) > 1 /\ m.op = "TO" /\ m.a >= 10 -> <<e, "throws">>
                  [] OTHER -> <<e, "ok">>       \* not the name of a piece
          [] ~Has(text, "PROM") /\ Has(text, "TO") ->
                IF m.op = "TO" THEN <<opponent_move(e, m.a, m.b), "ok">>
                ELSE <<e, "throws">>            \* a letter for a number
          [] ~Has(text, "PROM") /\ ~Has(text, "TO") /\ Has(text, "WALL") ->
                <<build_wall_opponent(e, m.a, m.b), "ok">>
          [] /\ ~Has(text, "PROM") /\ ~Has(text, "TO") /\ ~Has(text, "WALL")
             /\ m.op = "ENPS" -> <<add_en_passent_oppertunity(e, m.a, m.b), "ok">>
          [] OTHER -> <<e, "lost">>

(* The other player's answer to a promotion is about the square, and is here
   before the promotion is made there.                                        *)
Overtakes(p, m) ==
    /\ stage[p] \in Promotions /\ m.op \in {"TO", "PROM"}
    /\ engine[p].waiting.to \in {m.a, m.b}

(* The I/O thread: one read, of one message or several.                       *)
Receive(p, n) ==
    /\ reading[p] /\ n <= Len(net[p])
    /\ LET r == Handled(engine[p], SubSeq(net[p], 1, n))
       IN  /\ engine' = [engine EXCEPT ![p] = r[1]]
           /\ over' = [over EXCEPT ![p] = @ \/ r[2] = "lost"]
           /\ reading' = [reading EXCEPT ![p] = r[2] # "throws"]
           /\ slips' = slips \cup (IF n > 1 THEN {"glued"} ELSE {})
                             \cup (IF Overtakes(p, Head(net[p])) THEN {"overtaken"} ELSE {})
    /\ net' = [net EXCEPT ![p] = SubSeq(@, n + 1, Len(@))]
    /\ UNCHANGED <<stage, click, clicks, promoted>>

-----------------------------------------------------------------------------
(* The frame loop.                                                            *)

(* The second click.  The first one was on a piece of the player's, or stayed
   when the move before was refused; then nobody looks what stands there now,
   and a click for a wall stays one.                                          *)
Click(p, from, to, wall) ==
    /\ stage[p] = "idle" /\ ~over[p] /\ engine[p].waiting = NoPromotion
    /\ clicks[p] < MaxClicks
    /\ from # to
    /\ \/ valid_piece(engine[p], from)
       \/ click[p] # NoClick /\ from = click[p].from /\ (click[p].wall => wall)
    /\ click' = [click EXCEPT ![p] = [from |-> from, to |-> to, wall |-> wall]]
    /\ stage' = [stage EXCEPT ![p] = "clicked"]
    /\ clicks' = [clicks EXCEPT ![p] = @ + 1]
    /\ UNCHANGED <<engine, net, over, reading, promoted, slips>>

(* The engine was assigned from a temporary: its references to walls lead into
   the array of the one that is gone, memory that any call may write over.
   Walls matter when a click is decided.  This is what reading them may give;
   what building and breaking may write over there is not followed.           *)
WallsOverwritten(p) ==
    /\ stage[p] = "clicked" /\ "overwritten" \notin slips
    /\ \E walls \in Overwrites : engine' = [engine EXCEPT ![p].walls = walls]
    /\ slips' = slips \cup {"overwritten"}
    /\ UNCHANGED <<net, stage, click, over, reading, clicks, promoted>>

(* The other player has done something this one has not been told yet.        *)
Behind(p) ==
    \/ net[p] # <<>>
    \/ stage[Other(p)] \in Untold
    \/ engine[Other(p)].waiting # NoPromotion /\ stage[Other(p)] \notin Promotions

(* How a move may take the boards apart: what TO says of it is not all.       *)
MoveSlips(e, from, to, r) ==
    {x \in Slips :
        \/ x = "castled" /\ e.board[from][2] = "KING" /\ r[2] # "INVALID"
                         /\ Steps(from, to) > 1
        \/ x = "void" /\ r[2] = "CAPTURE" /\ r[1] = e
        \/ x = "enPassant" /\ r[2] = "CAPTURE" /\ r[1] # e
                           /\ e.board[from][2] = "PAWN" /\ en_passent_avalible(e, to)
        \/ x = "wallBroken" /\ r[1].walls # e.walls}

Crossing(p) == IF Behind(p) THEN {"crossed"} ELSE {}

AfterMove(res) ==
    CASE res = "EN_PASSENT_OPPORTUNITY" -> "sendOpportunity"
      [] res \in {"SUCCESS", "CAPTURE"} -> "sendMove"
      [] OTHER -> "check"

(* A click for a wall that is refused is a click for a move.                  *)
Decide(p) ==
    /\ stage[p] = "clicked"
    /\ LET e == engine[p]
           from == click[p].from
           to == click[p].to
           built == build_wall(e, from, to)
           moved == move_piece(e, from, to)
       IN  \/ /\ click[p].wall /\ built[2] = "SUCCESS"
              /\ engine' = [engine EXCEPT ![p] = built[1]]
              /\ stage' = [stage EXCEPT ![p] = "sendWall"]
              /\ slips' = slips \cup Crossing(p)
              /\ UNCHANGED click
           \/ /\ ~(click[p].wall /\ built[2] = "SUCCESS")
              /\ engine' = [engine EXCEPT ![p] = moved[1]]
              /\ stage' = [stage EXCEPT ![p] = AfterMove(moved[2])]
              /\ slips' = slips \cup Crossing(p) \cup MoveSlips(e, from, to, moved)
              /\ click' = IF moved[2] \in {"PROMOTION", "PROMOTION_CAPTURE"}
                          THEN [click EXCEPT ![p] = NoClick] ELSE click
    /\ UNCHANGED <<net, over, reading, clicks, promoted>>

(* The count of moves is read again: an opponent's move may have come between. *)
SendOpportunity(p) ==
    /\ stage[p] = "sendOpportunity"
    /\ Send(p, Msg("ENPS", Reverse(get_under_position_of(click[p].to)),
                   engine[p].moves, ""))
    /\ stage' = [stage EXCEPT ![p] = "sendMove"]
    /\ UNCHANGED <<engine, click, over, reading, clicks, promoted, slips>>

(* Mutant: the squares are sent as the sender sees them.                      *)
SendMoveAsSeen(p) ==
    /\ stage[p] = "sendMove"
    /\ Send(p, Msg("TO", click[p].from, click[p].to, ""))
    /\ stage' = [stage EXCEPT ![p] = "check"]
    /\ click' = [click EXCEPT ![p] = NoClick]
    /\ UNCHANGED <<engine, over, reading, clicks, promoted, slips>>

SendMove(p) ==
    /\ stage[p] = "sendMove"
    /\ Send(p, Seen("TO", click[p].from, click[p].to, ""))
    /\ stage' = [stage EXCEPT ![p] = "check"]
    /\ click' = [click EXCEPT ![p] = NoClick]
    /\ UNCHANGED <<engine, over, reading, clicks, promoted, slips>>

SendWall(p) ==
    /\ stage[p] = "sendWall"
    /\ Send(p, Seen("WALL", click[p].from, click[p].to, ""))
    /\ stage' = [stage EXCEPT ![p] = "check"]
    /\ click' = [click EXCEPT ![p] = NoClick]
    /\ UNCHANGED <<engine, over, reading, clicks, promoted, slips>>

(* Mutant: the winner tells nobody.                                           *)
CheckSilently(p) ==
    /\ stage[p] = "check"
    /\ stage' = [stage EXCEPT ![p] = "idle"]
    /\ over' = [over EXCEPT ![p] = @ \/ did_other_lose(engine[p])]
    /\ UNCHANGED <<engine, net, click, reading, clicks, promoted, slips>>

(* The end of the decision, after any click: the game is over if the other
   king is gone.                                                              *)
Check(p) ==
    /\ stage[p] = "check"
    /\ stage' = [stage EXCEPT ![p] = "idle"]
    /\ \/ /\ did_other_lose(engine[p])
          /\ Send(p, Lose)
          /\ over' = [over EXCEPT ![p] = TRUE]
       \/ /\ ~did_other_lose(engine[p])
          /\ UNCHANGED <<net, over>>
    /\ UNCHANGED <<engine, click, reading, clicks, promoted, slips>>

(* Mutant: it is not looked whether a promotion waits.                        *)
SendPromotionAnyway(p, kind) ==
    /\ stage[p] = "idle" /\ ~over[p] /\ promoted[p] = 0
    /\ Send(p, Seen("PROM", engine[p].waiting.from, engine[p].waiting.to, kind))
    /\ stage' = [stage EXCEPT ![p] = kind]
    /\ slips' = slips \cup Crossing(p)
    /\ UNCHANGED <<engine, click, over, reading, clicks, promoted>>

(* The chosen promotion is sent first: the answer to it may come before it is
   made.                                                                      *)
SendPromotion(p, kind) ==
    /\ stage[p] = "idle" /\ ~over[p] /\ engine[p].waiting # NoPromotion
    /\ Send(p, Seen("PROM", engine[p].waiting.from, engine[p].waiting.to, kind))
    /\ stage' = [stage EXCEPT ![p] = kind]
    /\ slips' = slips \cup Crossing(p)
    /\ UNCHANGED <<engine, click, over, reading, clicks, promoted>>

(* Mutant: the promotion made goes on waiting.                                *)
PromoteTwice(p) ==
    /\ stage[p] \in Promotions /\ promoted[p] < 2
    /\ engine' = [engine EXCEPT ![p].board[engine[p].waiting.to] = <<p, stage[p]>>]
    /\ stage' = [stage EXCEPT ![p] = "idle"]
    /\ promoted' = [promoted EXCEPT ![p] = @ + 1]
    /\ UNCHANGED <<net, click, over, reading, clicks, slips>>

Promote(p) ==
    /\ stage[p] \in Promotions
    /\ engine' = [engine EXCEPT ![p] = promote(@, stage[p])]
    /\ stage' = [stage EXCEPT ![p] = "idle"]
    /\ promoted' = [promoted EXCEPT ![p] = @ + 1]
    /\ UNCHANGED <<net, click, over, reading, clicks, slips>>

(* The time-outs of both players' pieces end; a frame may come late for it.   *)
CheckTimeouts(p) ==
    /\ engine[p].timeOuts # <<>>
    /\ engine' = [engine EXCEPT ![p] = check_timeouts(@, Len(@.timeOuts))]
    /\ UNCHANGED <<net, stage, click, over, reading, clicks, promoted, slips>>

Frame(p) ==
    \/ Decide(p) \/ SendOpportunity(p) \/ SendMove(p) \/ SendWall(p)
    \/ Check(p) \/ Promote(p)

Next ==
    \E p \in Player :
        \/ \E n \in 1..MaxGlued : Receive(p, n)
        \/ \E c \in Clicks[p] : Click(p, c[1], c[2], FALSE)
        \/ \E c \in WallClicks[p] : Click(p, c[1], c[2], TRUE)
        \/ Frame(p)
        \/ \E kind \in Promotions : SendPromotion(p, kind)
        \/ CheckTimeouts(p)
        \/ WallsOverwritten(p)

(* The frame loop finishes what it began, and what was sent arrives and is
   read; the players promise nothing.                                         *)
Fairness ==
    \A p \in Player :
        /\ WF_vars(Frame(p))
        /\ WF_vars(\E n \in 1..MaxGlued : Receive(p, n))

Spec == Init /\ [][Next]_vars

FairSpec == Spec /\ Fairness

-----------------------------------------------------------------------------
(* Properties.                                                                *)

(* Every variable keeps its type; in particular every square in a message is
   one of the board, promotions and opportunities included (game.cpp:219-223,
   372-377).                                                                  *)
TypeOK ==
    /\ engine \in [Player -> EngineType]
    /\ \A p \in Player : \A i \in DOMAIN net[p] :
          LET m == net[p][i]
          IN  /\ m.op \in {"TO", "WALL", "ENPS", "PROM", "LOSE"}
              /\ m.a \in Square
              /\ m.b \in (IF m.op = "ENPS" THEN Nat ELSE Square)
    /\ stage \in [Player -> Stages]
    /\ click \in [Player -> [from : Square, to : Square, wall : BOOLEAN]]
    /\ over \in [Player -> BOOLEAN] /\ reading \in [Player -> BOOLEAN]
    /\ clicks \in [Player -> 0..MaxClicks]
    /\ promoted \in [Player -> 0..MaxClicks]
    /\ slips \subseteq Slips

(* On either board there is at most one king of a colour, whatever the moves
   that cross do to the other board, and whatever is lost of them: castling
   writes a king without looking where it was, and a stale TO moves whatever
   stands on its square (engine.cpp:29-32, 597-652; game.cpp:50-54).          *)
OneKing == \A p, c \in Player : Cardinality(Kings(engine[p], c)) <= 1

(* A game ends only when a king has been taken, on this board or on the
   other's: no text of whole messages, glued or not, is taken for the end
   (game.cpp:65-78, 252-258).                                                 *)
OverMeansKingTaken ==
    \A p \in Player : over[p] =>
        Kings(engine[p], Other(p)) = {} \/ Kings(engine[Other(p)], p) = {}

(* Nothing is under way between the two, and no promotion is half made.       *)
AtRest ==
    \A p \in Player : ~Behind(p) /\ reading[p] /\ stage[p] \notin Promotions

(* The pieces on the two boards are mirrors of each other whenever nothing is
   under way, unless moves crossed, or one of the moves happened that TO does
   not tell all of, or a read was glued, or the answer to a promotion took the
   new piece before it was there; and so they are whatever the dead memory
   behind the walls holds.  The walls are, too, if no rook broke any and that
   memory was left alone (game.cpp:31-37, 50-64, 206-238, 373-375).           *)
BoardsAgree ==
    /\ AtRest /\ slips \subseteq {"overwritten", "wallBroken"} =>
          engine["B"].board = MirrorBoard(engine["W"].board)
    /\ AtRest /\ slips = {} => engine["B"].walls = MirrorWalls(engine["W"].walls)

(* The counts that date the opportunities en passant differ just by the
   promotions, which the player who is told of one does not count: crossing,
   castling and all (engine.cpp:98-120, 795-811).                             *)
CountsAgree ==
    AtRest /\ slips \cap {"void", "glued"} = {} =>
        engine["W"].moves - promoted["W"] = engine["B"].moves - promoted["B"]

(* An opportunity en passant, dated by the player who gave it, runs out on the
   other board by the second move after it, as long as the two counts agree: no
   castling, no promotion, no move told that was none, nothing crossed or glued
   (game.cpp:217-223; engine.cpp:93-96, 795-811).                             *)
OpportunitiesExpire ==
    slips \cap {"crossed", "castled", "void", "glued"} = {} /\ (\A p \in Player : promoted[p] = 0) =>
        \A p \in Player : \A ep \in engine[p].enPassant :
            engine[p].moves <= ep.when + 1

(* What a player tells of as promoted is the own pawn that waits since it
   reached the last row, unless the opponent moved meanwhile; and what promote()
   replaces is that pawn still, unless the answer to PROM took it between the
   two calls (engine.cpp:316-338; game.cpp:372-377).                          *)
PromotesOwnPawn ==
    [][\A p \in Player :
          LET pawn == engine[p].board[engine[p].waiting.to] = <<p, "PAWN">>
          IN  /\ stage[p] = "idle" /\ stage'[p] \in Promotions => pawn \/ "crossed" \in slips'
              /\ promoted'[p] # promoted[p] =>
                    pawn \/ slips' \cap {"crossed", "overtaken"} # {}]_vars

(* A player whose king was taken is told so in the end: the winner sends LOSE
   for the other game to stop (game.cpp:69-73, 252-258).                      *)
LoserIsTold ==
    \A p \in Player :
        over[p] /\ Kings(engine[p], Other(p)) = {} ~> over[Other(p)]

=============================================================================
