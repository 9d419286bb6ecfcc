----------------------------- MODULE MatchProofs -----------------------------
(* The properties of Match for any positions to start from, any clicks of the
   two players, any memory behind the walls, and any bounds.

   First what every action does, in terms of what EngineProofs says of the
   calls on the engine; then one invariant for each of the properties, each
   stronger than the property: it speaks of what is on its way as well.       *)
EXTENDS Match, EngineProofs

-----------------------------------------------------------------------------
(* Types.                                                                     *)

Message ==
    [op : {"TO", "WALL", "ENPS", "PROM", "LOSE"}, a : Square, b : Nat,
     kind : Promotions \cup {""}]

(* Only an opportunity carries a number that is not a square; only a promotion
   says what to promote to.                                                   *)
Meant(m) ==
    /\ m.op # "ENPS" => m.b \in Square
    /\ m.op = "PROM" => m.kind \in Promotions

ClickType == [from : Square, to : Square, wall : BOOLEAN]

Shapes ==
    /\ engine \in [Player -> EngineType]
    /\ net \in [Player -> Seq(Message)]
    /\ stage \in [Player -> Stages]
    /\ click \in [Player -> ClickType]
    /\ over \in [Player -> BOOLEAN] /\ reading \in [Player -> BOOLEAN]
    /\ clicks \in [Player -> Nat]
    /\ promoted \in [Player -> Nat]
    /\ slips \subseteq Slips

Waiting(p) == engine[p].waiting # NoPromotion

One(b) == IF b THEN 1 ELSE 0

(* What waits is on the board, a click is not decided while something waits,
   something waits while a promotion is half made, an opportunity is given only
   by a double step, and a promotion takes a click of its own.                *)
Orderly(p) ==
    /\ engine[p].player = p
    /\ Waiting(p) => engine[p].waiting.from \in Square /\ engine[p].waiting.to \in Square
    /\ stage[p] = "clicked" => ~Waiting(p)
    /\ stage[p] \in Promotions => Waiting(p)
    /\ stage[p] = "sendOpportunity" => Row(click[p].to) = 4
    /\ promoted[p] + One(Waiting(p)) + One(stage[p] = "clicked") <= clicks[p]
    /\ clicks[p] <= MaxClicks

TypeInv ==
    /\ Shapes
    /\ \A p \in Player : Orderly(p) /\ \A i \in DOMAIN net[p] : Meant(net[p][i])

LEMMA SquareNat == \A s \in Square : s \in Nat /\ s \in Int
  BY DEF Square

LEMMA ZeroSquare == 0 \in Square
  BY DEF Square

LEMMA Fields ==
  ASSUME Shapes, NEW p \in Player
  PROVE  /\ engine[p] \in EngineType /\ net[p] \in Seq(Message) /\ stage[p] \in Stages
         /\ click[p] \in ClickType /\ click[p].from \in Square /\ click[p].to \in Square
         /\ click[p].wall \in BOOLEAN
         /\ over[p] \in BOOLEAN /\ reading[p] \in BOOLEAN
         /\ clicks[p] \in Nat /\ promoted[p] \in Nat
  BY DEF Shapes, ClickType

(* The stages that have names of their own are not the kinds of promotions.    *)
Steady == {"idle", "clicked", "sendOpportunity", "sendMove", "sendWall", "check"}

LEMMA StageNames == \A st \in Steady : st \notin Promotions
  BY DEF Steady, Promotions

LEMMA OneIs == \A b \in BOOLEAN : One(b) \in {0, 1} /\ (b => One(b) = 1) /\ (~b => One(b) = 0)
  BY DEF One

-----------------------------------------------------------------------------
(* What is on its way.                                                        *)

LEMMA Rest ==
  ASSUME NEW s \in Seq(Message), NEW n \in Nat, 1 <= n, n <= Len(s)
  PROVE  LET t == SubSeq(s, n + 1, Len(s))
         IN  /\ t \in Seq(Message) /\ Len(t) = Len(s) - n
             /\ \A i \in 1..Len(t) : i + n \in 1..Len(s) /\ t[i] = s[i + n]
  OBVIOUS

LEMMA Read ==
  ASSUME NEW s \in Seq(Message), NEW n \in Nat, 1 <= n, n <= Len(s)
  PROVE  LET t == SubSeq(s, 1, n)
         IN  /\ t \in Seq(Message) /\ Len(t) = n
             /\ \A i \in 1..n : t[i] = s[i]
             /\ Head(t) = s[1] /\ s[1] \in Message
<1> DEFINE t == SubSeq(s, 1, n)
<1>1. t \in Seq(Message) /\ Len(t) = n /\ \A i \in 1..n : t[i] = s[i]
  OBVIOUS
<1>2. t # <<>> /\ Head(t) = t[1]
  BY <1>1
<1> QED
  BY <1>1, <1>2

LEMMA Appended ==
  ASSUME NEW s \in Seq(Message), NEW m \in Message
  PROVE  LET t == Append(s, m)
         IN  /\ t \in Seq(Message) /\ Len(t) = Len(s) + 1
             /\ \A i \in 1..Len(s) : t[i] = s[i]
             /\ t[Len(s) + 1] = m
             /\ \A i \in DOMAIN t : t[i] = m \/ (i \in DOMAIN s /\ t[i] = s[i])
  OBVIOUS

(* A message as it is sent, and as it is.                                     *)
LEMMA Sent ==
  ASSUME NEW op \in {"TO", "WALL", "PROM"}, NEW from \in Square, NEW to \in Square,
         NEW kind \in Promotions \cup {""}, op = "PROM" => kind \in Promotions
  PROVE  LET m == Seen(op, from, to, kind)
         IN  m \in Message /\ Meant(m)
<1>1. Reverse(from) \in Square /\ Reverse(to) \in Square /\ Reverse(to) \in Nat
  BY ReverseSquare, SquareNat
<1> DEFINE x == Reverse(from)
           y == Reverse(to)
           m == [op |-> op, a |-> x, b |-> y, kind |-> kind]
<1>2. Seen(op, from, to, kind) = m
  BY DEF Seen, Msg
<1>3. m.op = op /\ m.a = x /\ m.b = y /\ m.kind = kind
  OBVIOUS
<1>4. x \in Square /\ y \in Square /\ y \in Nat
  BY <1>1
<1> HIDE DEF x, y
<1>5. m \in Message
  BY <1>4 DEF Message
<1> HIDE DEF m
<1>6. Meant(m)
  BY <1>3, <1>4 DEF Meant
<1> QED
  BY <1>2, <1>3, <1>5, <1>6 DEF x, y

-----------------------------------------------------------------------------
(* What the actions do: to one player, by way of the lemmas on the engine, and
   nothing to the other but, at most, send to him.                            *)

Untouched(q) ==
    /\ engine'[q] = engine[q] /\ stage'[q] = stage[q] /\ click'[q] = click[q]
    /\ over'[q] = over[q] /\ clicks'[q] = clicks[q] /\ promoted'[q] = promoted[q]

(* What a message read does to the engine when it is understood, or is not.   *)
Relocates(e, f, from, to) ==
    f.board = Relocated(e.board, from, to) /\ Counts(e, f, to)

SameBut(e, f) ==
    /\ f \in EngineType /\ f.player = e.player /\ f.kingMoved = e.kingMoved
    /\ f.waiting = e.waiting /\ f.walls = e.walls

Applied(e, f, res, m, n) ==
    \/ f = e /\ res # "lost" /\ n > 1
    \/ f = e /\ res = "lost" /\ m.op = "LOSE"
    \/ /\ m.op = "PROM" /\ res = "ok" /\ SameBut(e, f)
       /\ f.board = PromotedBoard(e.board, m.a, m.b, <<Other(e.player), m.kind>>)
       /\ f.moves = e.moves /\ f.enPassant = e.enPassant
    \/ m.op = "TO" /\ res = "ok" /\ SameBut(e, f) /\ Relocates(e, f, m.a, m.b)
    \/ m.op # "TO" /\ res = "ok" /\ OnlyWalls(e, f) /\ (n = 1 => m.op = "WALL")
    \/ /\ m.op = "ENPS" /\ res = "ok" /\ SameBut(e, f)
       /\ f.board = e.board /\ f.moves = e.moves
       /\ f.enPassant = e.enPassant \cup {[under |-> m.a, when |-> m.b]}

(* The handler takes the operands of the first message, whatever names it
   finds, and for the end of the game only a LOSE in front
   (game.cpp:206-258).                                                        *)
LEMMA HandledApplied ==
  ASSUME NEW e \in EngineType, NEW text \in Seq(Message), Len(text) >= 1,
         \A i \in DOMAIN text : Meant(text[i])
  PROVE  LET r == Handled(e, text) IN Applied(e, r[1], r[2], text[1], Len(text))
<1> DEFINE m == text[1]
           n == Len(text)
           r == Handled(e, text)
           P == Has(text, "PROM")
           T == Has(text, "TO")
           W == Has(text, "WALL")
<1> SUFFICES Applied(e, r[1], r[2], m, n)
  OBVIOUS
<1>1. Head(text) = m /\ m \in Message /\ Meant(m) /\ (n = 1 \/ n > 1) /\ 1 \in DOMAIN text
  <2>1. Len(text) \in Nat /\ 1 \in DOMAIN text /\ text # <<>>
    OBVIOUS
  <2>2. Head(text) = m /\ m \in Message /\ Meant(m)
    BY <2>1
  <2>3. n = 1 \/ n > 1
    <3> HIDE DEF m, r, P, T, W
    <3>1. n \in Nat /\ n >= 1
      BY <2>1
    <3> HIDE DEF n
    <3> QED
      BY <3>1
  <2> QED
    BY <2>1, <2>2, <2>3, Zenon
<1>2. m.op \in {"TO", "WALL", "ENPS", "PROM", "LOSE"} /\ m.a \in Square /\ m.b \in Nat
  BY <1>1 DEF Message
<1>3. /\ m.op = "PROM" => P
      /\ m.op = "TO" => T
      /\ m.op = "WALL" => W
  BY <1>1 DEF Has
<1>4. n = 1 => \A op : Has(text, op) <=> m.op = op
  BY <1>1 DEF Has
<1>5. m.a \in Square /\ m.b \in Nat /\ m.a \in Int
      /\ (m.op # "ENPS" => m.b \in Square) /\ (m.op = "PROM" => m.kind \in Promotions)
  BY <1>1, <1>2, SquareNat DEF Meant
<1>6. r = CASE P -> CASE n = 1 -> <<opponent_promote(e, m.a, m.b, m.kind), "ok">>
                      [] n > 1 /\ m.op = "TO" /\ m.a >= 10 -> <<e, "throws">>
                      [] OTHER -> <<e, "ok">>
            [] ~P /\ T -> IF m.op = "TO" THEN <<opponent_move(e, m.a, m.b), "ok">>
                          ELSE <<e, "throws">>
            [] ~P /\ ~T /\ W -> <<build_wall_opponent(e, m.a, m.b), "ok">>
            [] ~P /\ ~T /\ ~W /\ m.op = "ENPS" -> <<add_en_passent_oppertunity(e, m.a, m.b), "ok">>
            [] OTHER -> <<e, "lost">>
  BY <1>1 DEF Handled
<1> HIDE DEF m, n, r, P, T, W
<1>7. CASE P /\ n = 1
  <2>1. r = <<opponent_promote(e, m.a, m.b, m.kind), "ok">>
    BY <1>6, <1>7
  <2>2. m.op = "PROM" /\ m.b \in Square /\ m.kind \in Promotions
    BY <1>4, <1>5, <1>7 DEF P
  <2> DEFINE f == opponent_promote(e, m.a, m.b, m.kind)
  <2>3. /\ f \in EngineType
        /\ f.board = PromotedBoard(e.board, m.a, m.b, <<Other(e.player), m.kind>>)
        /\ f.player = e.player /\ f.walls = e.walls
        /\ f.enPassant = e.enPassant /\ f.kingMoved = e.kingMoved
        /\ f.moves = e.moves /\ f.waiting = e.waiting
    BY <1>5, <2>2, OpponentPromoteOutcome
  <2> HIDE DEF f
  <2>4. r[1] = f /\ r[2] = "ok"
    BY <2>1 DEF f
  <2> QED
    BY <2>2, <2>3, <2>4 DEF Applied, SameBut
<1>8. CASE P /\ n # 1
  <2>1. n > 1
    BY <1>1, <1>8
  <2>2. r \in {<<e, "throws">>, <<e, "ok">>}
    BY <1>6, <1>8, <2>1
  <2>3. r[1] = e /\ r[2] # "lost"
    BY <2>2
  <2> QED
    BY <2>1, <2>3 DEF Applied
<1>9. CASE ~P /\ T /\ m.op = "TO"
  <2>1. r = <<opponent_move(e, m.a, m.b), "ok">>
    BY <1>6, <1>9
  <2> DEFINE f == move_piece_no_check(e, m.a, m.b)
  <2>2. /\ f \in EngineType
        /\ f.board = Relocated(e.board, m.a, m.b) /\ Counts(e, f, m.b)
        /\ f.player = e.player /\ f.walls = e.walls /\ f.waiting = e.waiting
        /\ f.kingMoved = e.kingMoved /\ f.left = e.left
    BY <1>5, <1>9, NoCheck
  <2> HIDE DEF f
  <2>3. r[1] = f /\ r[2] = "ok"
    BY <2>1 DEF f, opponent_move
  <2> QED
    BY <1>9, <2>2, <2>3 DEF Applied, SameBut, Relocates
<1>10. CASE ~P /\ T /\ m.op # "TO"
  <2>1. r = <<e, "throws">>
    BY <1>6, <1>10
  <2>2. n > 1
    BY <1>1, <1>4, <1>10 DEF T
  <2> QED
    BY <2>1, <2>2 DEF Applied
<1>11. CASE ~P /\ ~T /\ W
  <2>1. r = <<build_wall_opponent(e, m.a, m.b), "ok">>
    BY <1>6, <1>11
  <2>2. OnlyWalls(e, build_wall_opponent(e, m.a, m.b))
    BY <1>5, BuildOpponentOutcome
  <2>3. m.op # "TO" /\ (n = 1 => m.op = "WALL")
    BY <1>3, <1>4, <1>11 DEF W
  <2> QED
    BY <2>1, <2>2, <2>3 DEF Applied
<1>12. CASE ~P /\ ~T /\ ~W /\ m.op = "ENPS"
  <2>1. r = <<add_en_passent_oppertunity(e, m.a, m.b), "ok">>
    BY <1>6, <1>12
  <2> DEFINE f == add_en_passent_oppertunity(e, m.a, m.b)
  <2>2. /\ f \in EngineType
        /\ f.enPassant = e.enPassant \cup {[under |-> m.a, when |-> m.b]}
        /\ f.player = e.player /\ f.walls = e.walls
        /\ f.board = e.board /\ f.kingMoved = e.kingMoved
        /\ f.moves = e.moves /\ f.waiting = e.waiting
    BY <1>5, OpportunityOutcome
  <2> HIDE DEF f
  <2>3. r[1] = f /\ r[2] = "ok"
    BY <2>1 DEF f
  <2> QED
    BY <1>12, <2>2, <2>3 DEF Applied, SameBut
<1>13. CASE ~P /\ ~T /\ ~W /\ m.op # "ENPS"
  <2>1. r = <<e, "lost">>
    BY <1>6, <1>13
  <2>2. m.op = "LOSE"
    BY <1>2, <1>3, <1>13
  <2> QED
    BY <2>1, <2>2 DEF Applied
<1> QED
  BY <1>7, <1>8, <1>9, <1>10, <1>11, <1>12, <1>13

(* The player who reads: his engine, what is on its way to him, and perhaps the
   end of his game.                                                           *)
LEMMA ReceiveStep ==
  ASSUME TypeInv, NEW p \in Player, NEW n \in 1..MaxGlued, Receive(p, n)
  PROVE  /\ Shapes' /\ Untouched(Other(p)) /\ net'[Other(p)] = net[Other(p)]
         /\ stage'[p] = stage[p] /\ click'[p] = click[p] /\ clicks'[p] = clicks[p]
         /\ promoted'[p] = promoted[p]
         /\ n \in 1..Len(net[p]) /\ net'[p] = SubSeq(net[p], n + 1, Len(net[p]))
         /\ slips \subseteq slips' /\ (n > 1 => "glued" \in slips')
         /\ Overtakes(p, net[p][1]) => "overtaken" \in slips'
         /\ \E res : /\ Applied(engine[p], engine'[p], res, net[p][1], n)
                     /\ over'[p] = (over[p] \/ res = "lost")
<1> DEFINE s == net[p]
           text == SubSeq(s, 1, n)
           r == Handled(engine[p], text)
           t == SubSeq(s, n + 1, Len(s))
<1>1. /\ engine[p] \in EngineType /\ s \in Seq(Message)
      /\ over[p] \in BOOLEAN /\ reading[p] \in BOOLEAN
  BY Fields DEF TypeInv
<1>2. /\ n \in Nat /\ 1 <= n /\ n <= Len(s) /\ n \in 1..Len(s)
  BY BoundsAssumption DEF Receive
<1>3. /\ text \in Seq(Message) /\ Len(text) = n /\ text[1] = s[1]
      /\ \A i \in DOMAIN text : Meant(text[i])
  <2>1. text \in Seq(Message) /\ Len(text) = n /\ \A i \in 1..n : text[i] = s[i]
    BY <1>1, <1>2, Read
  <2>2. \A i \in DOMAIN s : Meant(s[i])
    BY DEF TypeInv
  <2>3. DOMAIN text = 1..n /\ DOMAIN s = 1..Len(s) /\ 1 \in 1..n
    BY <1>1, <1>2, <2>1
  <2>4. \A i \in 1..n : i \in 1..Len(s)
    BY <1>1, <1>2
  <2> HIDE DEF text, s
  <2> QED
    BY <2>1, <2>2, <2>3, <2>4
<1>4. Applied(engine[p], r[1], r[2], s[1], n)
  <2>1. Len(text) >= 1
    BY <1>2, <1>3
  <2> HIDE DEF text
  <2>2. Applied(engine[p], r[1], r[2], text[1], Len(text))
    BY <1>1, <1>3, <2>1, HandledApplied
  <2> QED
    BY <1>3, <2>2
<1>5. t \in Seq(Message)
  BY <1>1, <1>2, Rest
<1>6. /\ engine' = [engine EXCEPT ![p] = r[1]]
      /\ over' = [over EXCEPT ![p] = over[p] \/ r[2] = "lost"]
      /\ reading' = [reading EXCEPT ![p] = r[2] # "throws"]
      /\ net' = [net EXCEPT ![p] = t]
      /\ slips' = slips \cup (IF n > 1 THEN {"glued"} ELSE {})
                        \cup (IF Overtakes(p, s[1]) THEN {"overtaken"} ELSE {})
      /\ UNCHANGED <<stage, click, clicks, promoted>>
  BY DEF Receive
<1> HIDE DEF text, r, t, s
<1>7. r[1] \in EngineType
  BY <1>1, <1>4 DEF Applied, SameBut, OnlyWalls
<1>8. Shapes'
  <2>1. Shapes
    BY DEF TypeInv
  <2>2. engine' \in [Player -> EngineType] /\ net' \in [Player -> Seq(Message)]
    BY <1>5, <1>6, <1>7, <2>1 DEF Shapes
  <2>3. over' \in [Player -> BOOLEAN] /\ reading' \in [Player -> BOOLEAN]
    BY <1>6, <2>1 DEF Shapes
  <2>4. slips' \subseteq Slips
    BY <1>6, <2>1 DEF Shapes, Slips
  <2> QED
    BY <1>6, <2>1, <2>2, <2>3, <2>4 DEF Shapes
<1>9. /\ engine'[p] = r[1] /\ net'[p] = t
      /\ over'[p] = (over[p] \/ r[2] = "lost")
  BY <1>6 DEF TypeInv, Shapes
<1>10. Untouched(Other(p)) /\ net'[Other(p)] = net[Other(p)]
  BY <1>6, OtherPlayer DEF TypeInv, Shapes, Untouched
<1>11. slips \subseteq slips' /\ (n > 1 => "glued" \in slips')
  BY <1>6
<1>13. Overtakes(p, s[1]) => "overtaken" \in slips'
  BY <1>6
<1>12. stage'[p] = stage[p] /\ click'[p] = click[p] /\ clicks'[p] = clicks[p]
       /\ promoted'[p] = promoted[p]
  BY <1>6
<1> QED
  BY <1>2, <1>4, <1>8, <1>9, <1>10, <1>11, <1>12, <1>13 DEF s, t


(* A click is taken only when the game is on and nothing waits.               *)
LEMMA ClickStep ==
  ASSUME TypeInv, NEW p \in Player, NEW from \in Square, NEW to \in Square,
         NEW wall \in BOOLEAN, Click(p, from, to, wall)
  PROVE  /\ Shapes' /\ Untouched(Other(p))
         /\ UNCHANGED <<engine, net, over, promoted, slips>>
         /\ stage[p] = "idle" /\ ~over[p] /\ ~Waiting(p)
         /\ stage'[p] = "clicked"
         /\ clicks'[p] = clicks[p] + 1 /\ clicks[p] < MaxClicks
<1>1. Shapes
  BY DEF TypeInv
<1>2. [from |-> from, to |-> to, wall |-> wall] \in ClickType
  BY DEF ClickType
<1>3. /\ click' = [click EXCEPT ![p] = [from |-> from, to |-> to, wall |-> wall]]
      /\ stage' = [stage EXCEPT ![p] = "clicked"]
      /\ clicks' = [clicks EXCEPT ![p] = @ + 1]
      /\ UNCHANGED <<engine, net, over, reading, promoted, slips>>
      /\ stage[p] = "idle" /\ ~over[p] /\ engine[p].waiting = NoPromotion
      /\ clicks[p] < MaxClicks
  BY DEF Click
<1>4. click' \in [Player -> ClickType]
  BY <1>1, <1>2, <1>3 DEF Shapes
<1>5. stage' \in [Player -> Stages]
  BY <1>1, <1>3 DEF Shapes, Stages
<1>6. clicks' \in [Player -> Nat]
  BY <1>1, <1>3 DEF Shapes
<1>7. Shapes'
  BY <1>1, <1>3, <1>4, <1>5, <1>6 DEF Shapes
<1>8. stage'[p] = "clicked" /\ clicks'[p] = clicks[p] + 1
  BY <1>1, <1>3 DEF Shapes
<1>9. Untouched(Other(p))
  BY <1>1, <1>3, OtherPlayer DEF Shapes, Untouched
<1> QED
  BY <1>3, <1>7, <1>8, <1>9 DEF Waiting

LEMMA WallsOverwrittenStep ==
  ASSUME TypeInv, NEW p \in Player, WallsOverwritten(p)
  PROVE  /\ Shapes' /\ Untouched(Other(p))
         /\ UNCHANGED <<net, stage, click, over, clicks, promoted>>
         /\ slips \subseteq slips'
         /\ engine'[p] \in EngineType /\ engine'[p].player = engine[p].player
         /\ engine'[p].board = engine[p].board /\ engine'[p].enPassant = engine[p].enPassant
         /\ engine'[p].waiting = engine[p].waiting
         /\ engine'[p].kingMoved = engine[p].kingMoved /\ engine'[p].moves = engine[p].moves
<1>1. Shapes /\ engine[p] \in EngineType
  BY Fields DEF TypeInv
<1>2. PICK walls \in Overwrites : engine' = [engine EXCEPT ![p].walls = walls]
  BY DEF WallsOverwritten
<1> DEFINE f == [engine[p] EXCEPT !.walls = walls]
<1>3. engine' = [engine EXCEPT ![p] = f]
  BY <1>2
<1>4. walls \in SUBSET AllWalls
  BY ClicksAssumption
<1>5. /\ f \in EngineType
      /\ f.player = engine[p].player /\ f.board = engine[p].board
      /\ f.enPassant = engine[p].enPassant /\ f.waiting = engine[p].waiting
      /\ f.kingMoved = engine[p].kingMoved /\ f.moves = engine[p].moves
  BY <1>1, <1>4, WriteWalls
<1> HIDE DEF f
<1>6. slips' = slips \cup {"overwritten"} /\ slips' \subseteq Slips
  BY <1>1 DEF WallsOverwritten, Shapes, Slips
<1>7. UNCHANGED <<net, stage, click, over, reading, clicks, promoted>>
  BY DEF WallsOverwritten
<1>8. Shapes'
  BY <1>1, <1>3, <1>5, <1>6, <1>7 DEF Shapes
<1>9. engine'[p] = f /\ engine'[Other(p)] = engine[Other(p)]
  BY <1>1, <1>3, OtherPlayer DEF Shapes
<1> QED
  BY <1>5, <1>6, <1>7, <1>8, <1>9 DEF Untouched

(* A decision made: a wall, or whatever comes of a move.                      *)
Moved(p, res) ==
    /\ Outcome(engine[p], engine'[p], res, click[p].from, click[p].to)
    /\ stage'[p] = AfterMove(res)
    /\ click'[p] = IF res \in {"PROMOTION", "PROMOTION_CAPTURE"} THEN NoClick ELSE click[p]
    /\ MoveSlips(engine[p], click[p].from, click[p].to, <<engine'[p], res>>) \subseteq slips'

LEMMA AfterMoveStages ==
  ASSUME NEW res
  PROVE  /\ res = "EN_PASSENT_OPPORTUNITY" => AfterMove(res) = "sendOpportunity"
         /\ res \in {"SUCCESS", "CAPTURE"} => AfterMove(res) = "sendMove"
         /\ res \notin {"EN_PASSENT_OPPORTUNITY", "SUCCESS", "CAPTURE"} => AfterMove(res) = "check"
         /\ AfterMove(res) \in {"sendOpportunity", "sendMove", "check"}
<1>1. CASE res = "EN_PASSENT_OPPORTUNITY"
  BY <1>1 DEF AfterMove
<1>2. CASE res \in {"SUCCESS", "CAPTURE"}
  BY <1>2 DEF AfterMove
<1>3. CASE res \notin {"EN_PASSENT_OPPORTUNITY", "SUCCESS", "CAPTURE"}
  BY <1>3 DEF AfterMove
<1> QED
  BY <1>1, <1>2, <1>3

LEMMA DecideStep ==
  ASSUME TypeInv, NEW p \in Player, Decide(p)
  PROVE  /\ Shapes' /\ Untouched(Other(p))
         /\ UNCHANGED <<net, over, clicks, promoted>>
         /\ stage[p] = "clicked"
         /\ slips \subseteq slips' /\ (Behind(p) => "crossed" \in slips')
         /\ \/ /\ OnlyWalls(engine[p], engine'[p])
               /\ stage'[p] = "sendWall" /\ click'[p] = click[p]
            \/ \E res : Moved(p, res)
<1> DEFINE e == engine[p]
           from == click[p].from
           to == click[p].to
           built == build_wall(e, from, to)
           moved == move_piece(e, from, to)
           S == MoveSlips(e, from, to, moved)
           C == click[p].wall /\ built[2] = "SUCCESS"
<1>1. /\ Shapes /\ e \in EngineType /\ from \in Square /\ to \in Square
      /\ OnlyWalls(e, built[1])
      /\ Outcome(e, moved[1], moved[2], from, to)
  <2>1. Shapes /\ e \in EngineType /\ from \in Square /\ to \in Square
    BY Fields DEF TypeInv
  <2>2. OnlyWalls(e, built[1])
    BY <2>1, BuildOutcome
  <2>3. Outcome(e, moved[1], moved[2], from, to)
    BY <2>1, MoveOutcome
  <2> QED
    BY <2>1, <2>2, <2>3
<1>2. S = MoveSlips(e, from, to, <<moved[1], moved[2]>>) /\ S \subseteq Slips
  BY DEF MoveSlips
<1>3. /\ stage[p] = "clicked" /\ UNCHANGED <<net, over, reading, clicks, promoted>>
      /\ \/ /\ engine' = [engine EXCEPT ![p] = built[1]]
            /\ stage' = [stage EXCEPT ![p] = "sendWall"]
            /\ slips' = slips \cup Crossing(p)
            /\ UNCHANGED click
         \/ /\ engine' = [engine EXCEPT ![p] = moved[1]]
            /\ stage' = [stage EXCEPT ![p] = AfterMove(moved[2])]
            /\ slips' = slips \cup Crossing(p) \cup S
            /\ click' = IF moved[2] \in {"PROMOTION", "PROMOTION_CAPTURE"}
                        THEN [click EXCEPT ![p] = NoClick] ELSE click
  BY DEF Decide
<1>4. Crossing(p) \subseteq Slips /\ (Behind(p) => "crossed" \in Crossing(p))
  BY DEF Crossing, Slips
<1> HIDE DEF built, moved, S
<1>5. CASE /\ engine' = [engine EXCEPT ![p] = built[1]]
           /\ stage' = [stage EXCEPT ![p] = "sendWall"]
           /\ slips' = slips \cup Crossing(p)
           /\ UNCHANGED click
  <2>1. built[1] \in EngineType
    BY <1>1 DEF OnlyWalls
  <2>2. engine' \in [Player -> EngineType]
    BY <1>1, <1>5, <2>1 DEF Shapes
  <2>3. stage' \in [Player -> Stages] /\ slips' \subseteq Slips
    BY <1>1, <1>4, <1>5 DEF Shapes, Stages
  <2>4. Shapes'
    BY <1>1, <1>3, <1>5, <2>2, <2>3 DEF Shapes
  <2>5. engine'[p] = built[1] /\ stage'[p] = "sendWall" /\ click'[p] = click[p]
    BY <1>1, <1>5 DEF Shapes
  <2>6. Untouched(Other(p))
    BY <1>1, <1>3, <1>5, OtherPlayer DEF Shapes, Untouched
  <2>7. slips \subseteq slips' /\ (Behind(p) => "crossed" \in slips')
    BY <1>4, <1>5
  <2> QED
    BY <1>1, <1>3, <2>4, <2>5, <2>6, <2>7
<1>6. CASE /\ engine' = [engine EXCEPT ![p] = moved[1]]
           /\ stage' = [stage EXCEPT ![p] = AfterMove(moved[2])]
           /\ slips' = slips \cup Crossing(p) \cup S
           /\ click' = IF moved[2] \in {"PROMOTION", "PROMOTION_CAPTURE"}
                       THEN [click EXCEPT ![p] = NoClick] ELSE click
  <2>1. moved[1] \in EngineType
    BY <1>1 DEF Outcome, Always
  <2>2. engine' \in [Player -> EngineType]
    BY <1>1, <1>6, <2>1 DEF Shapes
  <2>3. NoClick \in ClickType
    BY DEF NoClick, ClickType, Square
  <2>4. click' \in [Player -> ClickType]
    BY <1>1, <1>6, <2>3 DEF Shapes
  <2>5. AfterMove(moved[2]) \in Stages
    BY AfterMoveStages DEF Stages
  <2>6. stage' \in [Player -> Stages] /\ slips' \subseteq Slips
    BY <1>1, <1>2, <1>4, <1>6, <2>5 DEF Shapes
  <2>7. Shapes'
    BY <1>1, <1>3, <2>2, <2>4, <2>6 DEF Shapes
  <2>8. engine'[p] = moved[1] /\ stage'[p] = AfterMove(moved[2])
        /\ click'[p] = IF moved[2] \in {"PROMOTION", "PROMOTION_CAPTURE"} THEN NoClick
                       ELSE click[p]
    BY <1>1, <1>6 DEF Shapes
  <2>9. Untouched(Other(p))
    BY <1>1, <1>3, <1>6, OtherPlayer DEF Shapes, Untouched
  <2>10. slips \subseteq slips' /\ (Behind(p) => "crossed" \in slips') /\ S \subseteq slips'
    BY <1>4, <1>6
  <2>11. Moved(p, moved[2])
    BY <1>1, <1>2, <2>8, <2>10 DEF Moved
  <2> QED
    BY <1>3, <2>7, <2>9, <2>10, <2>11
<1> QED
  BY <1>3, <1>5, <1>6


LEMMA Sending ==
  ASSUME Shapes, NEW p \in Player, NEW m \in Message, Send(p, m)
  PROVE  /\ net' \in [Player -> Seq(Message)]
         /\ net'[Other(p)] = Append(net[Other(p)], m) /\ net'[p] = net[p]
<1>1. net \in [Player -> Seq(Message)] /\ Other(p) \in Player /\ Other(p) # p
  BY OtherPlayer DEF Shapes
<1>2. net' = [net EXCEPT ![Other(p)] = Append(net[Other(p)], m)]
  BY DEF Send
<1>3. Append(net[Other(p)], m) \in Seq(Message)
  BY <1>1
<1> QED
  BY <1>1, <1>2, <1>3

(* The opportunity is told of by a square of the board, since it was given by a
   double step (game.cpp:217-223).                                            *)
LEMMA SendOpportunityStep ==
  ASSUME TypeInv, NEW p \in Player, SendOpportunity(p)
  PROVE  /\ Shapes' /\ Untouched(Other(p))
         /\ UNCHANGED <<engine, click, over, clicks, promoted, slips>>
         /\ stage[p] = "sendOpportunity" /\ stage'[p] = "sendMove"
         /\ net'[p] = net[p]
         /\ \E m \in Message :
              /\ m.op = "ENPS" /\ m.b = engine[p].moves
              /\ net'[Other(p)] = Append(net[Other(p)], m)
<1> DEFINE to == click[p].to
           under == Reverse(get_under_position_of(to))
           moves == engine[p].moves
           m == [op |-> "ENPS", a |-> under, b |-> moves, kind |-> ""]
<1>1. Shapes /\ to \in Square /\ moves \in Nat
  BY Fields, EngineFields DEF TypeInv
<1>2. stage[p] = "sendOpportunity" /\ Send(p, m)
  BY DEF SendOpportunity, Msg
<1>3. under \in Square
  <2>1. Row(to) = 4
    BY <1>2 DEF TypeInv, Orderly
  <2>2. get_under_position_of(to) = to + 8 /\ to + 8 \in Square
    BY <1>1, <2>1 DEF get_under_position_of, Down, Square, Row
  <2> QED
    BY <2>2, ReverseSquare
<1>4. m.op = "ENPS" /\ m.b = moves
  OBVIOUS
<1> HIDE DEF to, under, moves
<1>5. m \in Message
  BY <1>1, <1>3 DEF Message
<1> HIDE DEF m
<1>6. /\ net' \in [Player -> Seq(Message)]
      /\ net'[Other(p)] = Append(net[Other(p)], m) /\ net'[p] = net[p]
  BY <1>1, <1>2, <1>5, Sending
<1>7. /\ stage' = [stage EXCEPT ![p] = "sendMove"]
      /\ UNCHANGED <<engine, click, over, reading, clicks, promoted, slips>>
  BY DEF SendOpportunity
<1>8. stage' \in [Player -> Stages]
  BY <1>1, <1>7 DEF Shapes, Stages
<1>9. Shapes'
  BY <1>1, <1>6, <1>7, <1>8 DEF Shapes
<1>10. stage'[p] = "sendMove" /\ Untouched(Other(p))
  BY <1>1, <1>7, OtherPlayer DEF Shapes, Untouched
<1> QED
  BY <1>2, <1>4, <1>5, <1>6, <1>7, <1>9, <1>10 DEF moves

(* What was clicked is sent as the other sees it, and forgotten.              *)
TellsClick(p, op) ==
    /\ net'[p] = net[p]
    /\ \E m \in Message :
         /\ m.op = op /\ m.a = Reverse(click[p].from) /\ m.b = Reverse(click[p].to)
         /\ Meant(m) /\ net'[Other(p)] = Append(net[Other(p)], m)

LEMMA SendClickStep ==
  ASSUME TypeInv, NEW p \in Player, NEW op \in {"TO", "WALL"},
         Send(p, Seen(op, click[p].from, click[p].to, "")),
         stage' = [stage EXCEPT ![p] = "check"],
         click' = [click EXCEPT ![p] = NoClick],
         UNCHANGED <<engine, over, reading, clicks, promoted, slips>>
  PROVE  /\ Shapes' /\ Untouched(Other(p))
         /\ UNCHANGED <<engine, over, clicks, promoted, slips>>
         /\ stage'[p] = "check" /\ TellsClick(p, op)
<1> DEFINE m == Seen(op, click[p].from, click[p].to, "")
<1>1. Shapes /\ click[p].from \in Square /\ click[p].to \in Square
  BY Fields DEF TypeInv
<1>2. /\ m \in Message /\ Meant(m)
      /\ m.op = op /\ m.a = Reverse(click[p].from) /\ m.b = Reverse(click[p].to)
  <2>1. /\ op \in {"TO", "WALL", "PROM"} /\ "" \in Promotions \cup {""}
        /\ op = "PROM" => "" \in Promotions
    OBVIOUS
  <2>2. m \in Message /\ Meant(m)
    BY <1>1, <2>1, Sent
  <2>3. m.op = op
    BY DEF Seen, Msg
  <2>4. m.a = Reverse(click[p].from) /\ m.b = Reverse(click[p].to)
    BY DEF Seen, Msg
  <2> HIDE DEF m
  <2> QED
    BY <2>2, <2>3, <2>4
<1> HIDE DEF m
<1>3. Send(p, m)
  BY DEF m
<1>4. /\ net' \in [Player -> Seq(Message)]
      /\ net'[Other(p)] = Append(net[Other(p)], m) /\ net'[p] = net[p]
  BY <1>1, <1>2, <1>3, Sending
<1>5. TellsClick(p, op)
  BY <1>2, <1>4 DEF TellsClick
<1>6. stage' \in [Player -> Stages]
  BY <1>1 DEF Shapes, Stages
<1>7. NoClick \in ClickType
  BY ZeroSquare DEF NoClick, ClickType
<1>8. click' \in [Player -> ClickType]
  BY <1>1, <1>7 DEF Shapes
<1>9. Shapes'
  BY <1>1, <1>4, <1>6, <1>8 DEF Shapes
<1>10. stage'[p] = "check" /\ Untouched(Other(p))
  BY <1>1, OtherPlayer DEF Shapes, Untouched
<1> QED
  BY <1>5, <1>9, <1>10

LEMMA SendMoveStep ==
  ASSUME TypeInv, NEW p \in Player, SendMove(p)
  PROVE  /\ Shapes' /\ Untouched(Other(p))
         /\ UNCHANGED <<engine, over, clicks, promoted, slips>>
         /\ stage[p] = "sendMove" /\ stage'[p] = "check" /\ TellsClick(p, "TO")
  BY SendClickStep DEF SendMove

LEMMA SendWallStep ==
  ASSUME TypeInv, NEW p \in Player, SendWall(p)
  PROVE  /\ Shapes' /\ Untouched(Other(p))
         /\ UNCHANGED <<engine, over, clicks, promoted, slips>>
         /\ stage[p] = "sendWall" /\ stage'[p] = "check" /\ TellsClick(p, "WALL")
  BY SendClickStep DEF SendWall

(* LOSE is sent, and the game is over, just when the other king is gone.      *)
LEMMA CheckStep ==
  ASSUME TypeInv, NEW p \in Player, Check(p)
  PROVE  /\ Shapes' /\ Untouched(Other(p))
         /\ UNCHANGED <<engine, click, clicks, promoted, slips>>
         /\ stage[p] = "check" /\ stage'[p] = "idle" /\ net'[p] = net[p]
         /\ \/ /\ did_other_lose(engine[p]) /\ over'[p]
               /\ Lose \in Message /\ net'[Other(p)] = Append(net[Other(p)], Lose)
            \/ ~did_other_lose(engine[p]) /\ net' = net /\ over' = over
<1>1. Shapes
  BY DEF TypeInv
<1>2. Lose \in Message
  <2> DEFINE m == [op |-> "LOSE", a |-> 0, b |-> 0, kind |-> ""]
  <2>1. m \in Message
    BY DEF Message, Square
  <2> QED
    BY <2>1 DEF Lose, Msg
<1>3. /\ stage[p] = "check" /\ stage' = [stage EXCEPT ![p] = "idle"]
      /\ UNCHANGED <<engine, click, reading, clicks, promoted, slips>>
  BY DEF Check
<1>4. stage' \in [Player -> Stages] /\ stage'[p] = "idle"
  BY <1>1, <1>3 DEF Shapes, Stages
<1>5. CASE /\ did_other_lose(engine[p]) /\ Send(p, Lose)
           /\ over' = [over EXCEPT ![p] = TRUE]
  <2>1. /\ net' \in [Player -> Seq(Message)]
        /\ net'[Other(p)] = Append(net[Other(p)], Lose) /\ net'[p] = net[p]
    BY <1>1, <1>2, <1>5, Sending
  <2>2. over' \in [Player -> BOOLEAN] /\ over'[p]
    BY <1>1, <1>5 DEF Shapes
  <2>3. Shapes'
    BY <1>1, <1>3, <1>4, <2>1, <2>2 DEF Shapes
  <2>4. Untouched(Other(p))
    BY <1>1, <1>3, <1>5, OtherPlayer DEF Shapes, Untouched
  <2> QED
    BY <1>2, <1>3, <1>4, <1>5, <2>1, <2>2, <2>3, <2>4
<1>6. CASE ~did_other_lose(engine[p]) /\ UNCHANGED <<net, over>>
  <2>1. Shapes'
    BY <1>1, <1>3, <1>4, <1>6 DEF Shapes
  <2>2. Untouched(Other(p))
    BY <1>1, <1>3, <1>6, OtherPlayer DEF Shapes, Untouched
  <2> QED
    BY <1>3, <1>4, <1>6, <2>1, <2>2
<1> QED
  BY <1>5, <1>6 DEF Check

(* What waits is told of as it waits, and as what it will be.                 *)
LEMMA SendPromotionStep ==
  ASSUME TypeInv, NEW p \in Player, NEW kind \in Promotions, SendPromotion(p, kind)
  PROVE  /\ Shapes' /\ Untouched(Other(p))
         /\ UNCHANGED <<engine, click, over, clicks, promoted>>
         /\ stage[p] = "idle" /\ ~over[p] /\ Waiting(p) /\ stage'[p] = kind
         /\ engine[p].waiting.to \in Square
         /\ slips \subseteq slips' /\ (Behind(p) => "crossed" \in slips')
         /\ net'[p] = net[p]
         /\ \E m \in Message :
              /\ m.op = "PROM" /\ m.kind = kind /\ Meant(m)
              /\ m.a = Reverse(engine[p].waiting.from) /\ m.b = Reverse(engine[p].waiting.to)
              /\ net'[Other(p)] = Append(net[Other(p)], m)
<1> DEFINE e == engine[p]
           m == Seen("PROM", e.waiting.from, e.waiting.to, kind)
<1>1. /\ Shapes /\ e \in EngineType
      /\ e.waiting # NoPromotion /\ stage[p] = "idle" /\ ~over[p]
      /\ e.waiting.from \in Square /\ e.waiting.to \in Square
  BY Fields DEF TypeInv, Orderly, Waiting, SendPromotion
<1>3. /\ m \in Message /\ Meant(m) /\ m.kind = kind
      /\ m.op = "PROM" /\ m.a = Reverse(e.waiting.from) /\ m.b = Reverse(e.waiting.to)
  <2>1. "PROM" \in {"TO", "WALL", "PROM"} /\ kind \in Promotions \cup {""}
    OBVIOUS
  <2>2. m \in Message /\ Meant(m)
    BY <1>1, <2>1, Sent
  <2>3. m.op = "PROM" /\ m.kind = kind
    BY DEF Seen, Msg
  <2>4. m.a = Reverse(e.waiting.from) /\ m.b = Reverse(e.waiting.to)
    BY DEF Seen, Msg
  <2> HIDE DEF m
  <2> QED
    BY <2>2, <2>3, <2>4
<1>4. /\ Send(p, m) /\ stage' = [stage EXCEPT ![p] = kind]
      /\ slips' = slips \cup Crossing(p)
      /\ UNCHANGED <<engine, click, over, reading, clicks, promoted>>
  BY DEF SendPromotion
<1> HIDE DEF m
<1>5. /\ net' \in [Player -> Seq(Message)]
      /\ net'[Other(p)] = Append(net[Other(p)], m) /\ net'[p] = net[p]
  BY <1>1, <1>3, <1>4, Sending
<1>6. stage' \in [Player -> Stages] /\ stage'[p] = kind
  BY <1>1, <1>4 DEF Shapes, Stages
<1>7. slips' \subseteq Slips /\ slips \subseteq slips' /\ (Behind(p) => "crossed" \in slips')
  BY <1>1, <1>4 DEF Shapes, Crossing, Slips
<1>8. Shapes'
  BY <1>1, <1>4, <1>5, <1>6, <1>7 DEF Shapes
<1>10. Untouched(Other(p))
  BY <1>1, <1>4, OtherPlayer DEF Shapes, Untouched
<1> QED
  BY <1>1, <1>3, <1>4, <1>5, <1>6, <1>7, <1>8, <1>10 DEF Waiting

LEMMA PromotionTold ==
  ASSUME TypeInv, NEW p \in Player, NEW kind \in Promotions, SendPromotion(p, kind)
  PROVE  \E m \in Message :
            /\ m.op = "PROM" /\ m.kind = kind /\ Meant(m)
            /\ m.a = Reverse(engine[p].waiting.from) /\ m.b = Reverse(engine[p].waiting.to)
            /\ net'[Other(p)] = Append(net[Other(p)], m)
  BY SendPromotionStep

(* What waited is promoted to what was told.                                  *)
LEMMA PromoteStep ==
  ASSUME TypeInv, NEW p \in Player, Promote(p)
  PROVE  /\ Shapes' /\ Untouched(Other(p))
         /\ UNCHANGED <<net, click, over, clicks, slips>>
         /\ stage[p] \in Promotions /\ Waiting(p) /\ stage'[p] = "idle"
         /\ engine[p].waiting.to \in Square
         /\ engine'[p] = promote(engine[p], stage[p])
         /\ LET e == engine[p]
                f == engine'[p]
            IN  /\ f.board = [e.board EXCEPT ![e.waiting.to] = <<e.player, stage[p]>>]
                /\ f.waiting = NoPromotion /\ f.player = e.player /\ f.walls = e.walls
                /\ f.enPassant = e.enPassant /\ f.kingMoved = e.kingMoved
                /\ f.moves = e.moves
         /\ promoted'[p] = promoted[p] + 1
<1> DEFINE e == engine[p]
           kind == stage[p]
           f == promote(e, kind)
<1>1. /\ Shapes /\ e \in EngineType /\ kind \in Promotions
      /\ e.waiting # NoPromotion
      /\ e.waiting.from \in Square /\ e.waiting.to \in Square
  BY Fields DEF TypeInv, Orderly, Waiting, Promote
<1>2. /\ f \in EngineType
      /\ f.board = [e.board EXCEPT ![e.waiting.to] = <<e.player, kind>>]
      /\ f.waiting = NoPromotion /\ f.player = e.player /\ f.walls = e.walls
      /\ f.enPassant = e.enPassant /\ f.kingMoved = e.kingMoved
      /\ f.moves = e.moves
  BY <1>1, PromoteOutcome
<1>4. /\ engine' = [engine EXCEPT ![p] = f]
      /\ stage' = [stage EXCEPT ![p] = "idle"]
      /\ promoted' = [promoted EXCEPT ![p] = @ + 1]
      /\ UNCHANGED <<net, click, over, reading, clicks, slips>>
  BY DEF Promote
<1>5. f = promote(engine[p], stage[p])
  OBVIOUS
<1> HIDE DEF f
<1>6. engine' \in [Player -> EngineType] /\ promoted' \in [Player -> Nat]
  BY <1>1, <1>2, <1>4 DEF Shapes
<1>7. stage' \in [Player -> Stages] /\ stage'[p] = "idle"
  BY <1>1, <1>4 DEF Shapes, Stages
<1>8. Shapes'
  BY <1>1, <1>4, <1>6, <1>7 DEF Shapes
<1>9. engine'[p] = f /\ promoted'[p] = promoted[p] + 1
  BY <1>1, <1>4 DEF Shapes
<1>10. Untouched(Other(p))
  BY <1>1, <1>4, OtherPlayer DEF Shapes, Untouched
<1> QED
  BY <1>1, <1>2, <1>4, <1>5, <1>7, <1>8, <1>9, <1>10 DEF Waiting

LEMMA CheckTimeoutsStep ==
  ASSUME TypeInv, NEW p \in Player, CheckTimeouts(p)
  PROVE  /\ Shapes' /\ Untouched(Other(p))
         /\ UNCHANGED <<net, stage, click, over, clicks, promoted, slips>>
         /\ engine'[p] \in EngineType /\ engine'[p].player = engine[p].player
         /\ engine'[p].board = engine[p].board /\ engine'[p].enPassant = engine[p].enPassant
         /\ engine'[p].waiting = engine[p].waiting
         /\ engine'[p].kingMoved = engine[p].kingMoved /\ engine'[p].moves = engine[p].moves
         /\ engine'[p].walls = engine[p].walls
<1> DEFINE e == engine[p]
           f == check_timeouts(e, Len(e.timeOuts))
<1>1. Shapes /\ e \in EngineType
  BY Fields DEF TypeInv
<1>2. Len(e.timeOuts) \in 0..Len(e.timeOuts)
  <2>1. Len(e.timeOuts) \in Nat
    BY <1>1, EngineFields
  <2> QED
    BY <2>1
<1>3. /\ f \in EngineType
      /\ f.board = e.board /\ f.player = e.player /\ f.walls = e.walls
      /\ f.enPassant = e.enPassant /\ f.kingMoved = e.kingMoved
      /\ f.moves = e.moves /\ f.waiting = e.waiting
  BY <1>1, <1>2, CheckTimeoutsOutcome
<1>4. /\ engine' = [engine EXCEPT ![p] = f]
      /\ UNCHANGED <<net, stage, click, over, reading, clicks, promoted, slips>>
  BY DEF CheckTimeouts
<1> HIDE DEF f
<1>5. Shapes'
  BY <1>1, <1>3, <1>4 DEF Shapes
<1>6. engine'[p] = f /\ engine'[Other(p)] = engine[Other(p)]
  BY <1>1, <1>4, OtherPlayer DEF Shapes
<1> QED
  BY <1>3, <1>4, <1>5, <1>6 DEF Untouched


(* Every step is one player's.                                                *)
LEMMA NextCases ==
  ASSUME Next
  PROVE  \E p \in Player :
            \/ \E n \in 1..MaxGlued : Receive(p, n)
            \/ \E from, to \in Square, wall \in BOOLEAN : Click(p, from, to, wall)
            \/ WallsOverwritten(p) \/ CheckTimeouts(p)
            \/ Decide(p) \/ SendOpportunity(p) \/ SendMove(p) \/ SendWall(p) \/ Check(p)
            \/ Promote(p) \/ \E kind \in Promotions : SendPromotion(p, kind)
<1>1. PICK p \in Player :
        \/ \E n \in 1..MaxGlued : Receive(p, n)
        \/ \E c \in Clicks[p] : Click(p, c[1], c[2], FALSE)
        \/ \E c \in WallClicks[p] : Click(p, c[1], c[2], TRUE)
        \/ Frame(p)
        \/ \E kind \in Promotions : SendPromotion(p, kind)
        \/ CheckTimeouts(p)
        \/ WallsOverwritten(p)
  BY DEF Next
<1>2. \A c \in Clicks[p] \cup WallClicks[p] : c[1] \in Square /\ c[2] \in Square
  BY ClicksAssumption
<1>3. CASE \E c \in Clicks[p] : Click(p, c[1], c[2], FALSE)
  <2>1. PICK c \in Clicks[p] : Click(p, c[1], c[2], FALSE)
    BY <1>3
  <2>2. c[1] \in Square /\ c[2] \in Square /\ FALSE \in BOOLEAN
    BY <1>2
  <2> QED
    BY <2>1, <2>2
<1>4. CASE \E c \in WallClicks[p] : Click(p, c[1], c[2], TRUE)
  <2>1. PICK c \in WallClicks[p] : Click(p, c[1], c[2], TRUE)
    BY <1>4
  <2>2. c[1] \in Square /\ c[2] \in Square /\ TRUE \in BOOLEAN
    BY <1>2
  <2> QED
    BY <2>1, <2>2
<1> QED
  BY <1>1, <1>3, <1>4, Zenon DEF Frame

LEMMA BothPlayers == \A p, r \in Player : r = p \/ r = Other(p)
  BY DEF Player, Other

-----------------------------------------------------------------------------
(* Types are kept.                                                            *)

LEMMA MeantRest ==
  ASSUME NEW s \in Seq(Message), NEW n \in 1..Len(s), \A i \in DOMAIN s : Meant(s[i])
  PROVE  LET t == SubSeq(s, n + 1, Len(s)) IN \A i \in DOMAIN t : Meant(t[i])
<1> DEFINE t == SubSeq(s, n + 1, Len(s))
<1>1. /\ t \in Seq(Message)
      /\ \A i \in 1..Len(t) : i + n \in 1..Len(s) /\ t[i] = s[i + n]
  BY Rest
<1>2. DOMAIN t = 1..Len(t) /\ DOMAIN s = 1..Len(s)
  BY <1>1
<1> HIDE DEF t
<1> QED
  BY <1>1, <1>2

LEMMA MeantAppended ==
  ASSUME NEW s \in Seq(Message), NEW m \in Message, Meant(m),
         \A i \in DOMAIN s : Meant(s[i])
  PROVE  \A i \in DOMAIN Append(s, m) : Meant(Append(s, m)[i])
<1> DEFINE t == Append(s, m)
<1>1. \A i \in DOMAIN t : t[i] = m \/ (i \in DOMAIN s /\ t[i] = s[i])
  BY Appended
<1> HIDE DEF t
<1>2. \A i \in DOMAIN t : Meant(t[i])
  BY <1>1
<1> QED
  BY <1>2 DEF t

LEMMA UntouchedOrderly ==
  ASSUME NEW q \in Player, Orderly(q), Untouched(q)
  PROVE  Orderly(q)'
  BY DEF Orderly, Untouched, Waiting

(* A move makes something wait only when it promotes.                         *)
LEMMA WaitingAfter ==
  ASSUME NEW e, NEW f, NEW res, NEW from, NEW to, Outcome(e, f, res, from, to)
  PROVE  \/ f.waiting = e.waiting /\ res \notin {"PROMOTION", "PROMOTION_CAPTURE"}
         \/ /\ f.waiting = [from |-> from, to |-> to] /\ Row(to) = 0
            /\ e.board[from][2] = "PAWN" /\ f.board = Relocated(e.board, from, to)
            /\ res \in {"PROMOTION", "PROMOTION_CAPTURE"}
<1>1. CASE Refused(e, f, res) \/ Void(e, f, res, from, to) \/ Passed(e, f, res, from, to)
           \/ Castled(e, f, res, from, to)
  BY <1>1 DEF Refused, Void, Passed, Castled
<1>2. CASE Stepped(e, f, res, from, to)
  BY <1>2 DEF Stepped, Waits
<1>3. CASE Took(e, f, res, from, to)
  BY <1>3 DEF Took, Waits
<1> QED
  BY <1>1, <1>2, <1>3 DEF Outcome

LEMMA OpportunityRow ==
  ASSUME NEW e, NEW f, NEW from, NEW to, Outcome(e, f, "EN_PASSENT_OPPORTUNITY", from, to)
  PROVE  Row(to) = 4
  BY DEF Outcome, Refused, Void, Stepped, Took, Passed, Castled

LEMMA InitTypes == Init => TypeInv
<1> SUFFICES ASSUME Init PROVE TypeInv
  OBVIOUS
<1>1. PICK e \in Starts :
        engine = [p \in Player |-> IF p = "W" THEN e ELSE Opposite(e)]
  BY DEF Init
<1>2. Playable(e) /\ Playable(Opposite(e)) /\ e.player = "W"
  BY StartsAssumption
<1> DEFINE o == Opposite(e)
<1>3. e \in EngineType /\ o \in EngineType /\ e.waiting = NoPromotion /\ o.waiting = NoPromotion
  BY <1>2 DEF Playable
<1>4. o.player = "B"
  <2>1. Opposite(e).player = Other(e.player)
    BY <1>3 DEF Opposite, EngineType
  <2> QED
    BY <1>2, <2>1 DEF Other
<1> HIDE DEF o
<1>5. engine \in [Player -> EngineType]
  BY <1>1, <1>3 DEF o
<1>6. net \in [Player -> Seq(Message)] /\ \A p \in Player : net[p] = <<>>
  BY DEF Init
<1>7. stage \in [Player -> Stages] /\ \A p \in Player : stage[p] = "idle"
  BY DEF Init, Stages
<1>8. click \in [Player -> ClickType]
  BY ZeroSquare DEF Init, ClickType, NoClick
<1>9. /\ over \in [Player -> BOOLEAN] /\ reading \in [Player -> BOOLEAN]
      /\ clicks \in [Player -> Nat] /\ promoted \in [Player -> Nat] /\ slips \subseteq Slips
      /\ \A p \in Player : clicks[p] = 0 /\ promoted[p] = 0
  BY DEF Init
<1>10. Shapes
  BY <1>5, <1>6, <1>7, <1>8, <1>9 DEF Shapes
<1>11. ASSUME NEW p \in Player PROVE Orderly(p)
  <2>1. engine[p].player = p /\ engine[p].waiting = NoPromotion
    BY <1>1, <1>2, <1>3, <1>4 DEF Player, o
  <2>2. MaxClicks >= 0
    BY BoundsAssumption
  <2> QED
    BY <1>7, <1>9, <2>1, <2>2, BoundsAssumption, StageNames DEF Orderly, Waiting, One, Steady
<1>12. \A p \in Player : \A i \in DOMAIN net[p] : Meant(net[p][i])
  BY <1>6
<1> QED
  BY <1>10, <1>11, <1>12 DEF TypeInv

(* One player's step keeps the other orderly; it is enough to look at the one
   and at what has been sent.                                                 *)
LEMMA TypesFrom ==
  ASSUME TypeInv, NEW p \in Player, Shapes', Untouched(Other(p)), Orderly(p)',
         \A i \in DOMAIN net'[p] : Meant(net'[p][i]),
         \A i \in DOMAIN net'[Other(p)] : Meant(net'[Other(p)][i])
  PROVE  TypeInv'
<1>1. Other(p) \in Player /\ Orderly(Other(p))
  BY OtherPlayer DEF TypeInv
<1>2. Orderly(Other(p))'
  BY <1>1, UntouchedOrderly
<1>3. ASSUME NEW r \in Player
      PROVE  Orderly(r)' /\ \A i \in DOMAIN net'[r] : Meant(net'[r][i])
  BY <1>2, BothPlayers
<1> QED
  BY <1>3 DEF TypeInv

LEMMA DecideTypes ==
  ASSUME TypeInv, NEW p \in Player, Decide(p)
  PROVE  Orderly(p)'
<1>1. /\ UNCHANGED <<net, over, clicks, promoted>> /\ stage[p] = "clicked"
      /\ \/ /\ OnlyWalls(engine[p], engine'[p])
            /\ stage'[p] = "sendWall" /\ click'[p] = click[p]
         \/ \E res : Moved(p, res)
  BY DecideStep
<1>2. /\ engine[p].player = p /\ ~Waiting(p)
      /\ promoted[p] + One(Waiting(p)) + One(stage[p] = "clicked") <= clicks[p]
      /\ clicks[p] <= MaxClicks
      /\ click[p].from \in Square /\ click[p].to \in Square
      /\ promoted[p] \in Nat /\ clicks[p] \in Nat
  BY <1>1, Fields DEF TypeInv, Orderly
<1>3. promoted[p] + 1 <= clicks[p]
  BY <1>1, <1>2 DEF One
<1>4. CASE /\ OnlyWalls(engine[p], engine'[p])
           /\ stage'[p] = "sendWall" /\ click'[p] = click[p]
  <2>1. engine'[p].player = p /\ engine'[p].waiting = NoPromotion
    BY <1>2, <1>4 DEF OnlyWalls, Waiting
  <2> QED
    BY <1>1, <1>2, <1>3, <1>4, <2>1, StageNames DEF Orderly, Waiting, One, Steady
<1>5. ASSUME NEW res, Moved(p, res) PROVE Orderly(p)'
  <2>1. Outcome(engine[p], engine'[p], res, click[p].from, click[p].to)
    BY <1>5 DEF Moved
  <2>2. engine'[p].player = p
    BY <1>2, <2>1 DEF Outcome, Always
  <2>3. Waiting(p)' => engine'[p].waiting.from \in Square /\ engine'[p].waiting.to \in Square
    <3>1. \/ engine'[p].waiting = engine[p].waiting
          \/ engine'[p].waiting = [from |-> click[p].from, to |-> click[p].to]
      BY <2>1, WaitingAfter
    <3> QED
      BY <1>2, <3>1 DEF Waiting
  <2>4. stage'[p] = AfterMove(res) /\ stage'[p] # "clicked" /\ stage'[p] \notin Promotions
    BY <1>5, AfterMoveStages, StageNames DEF Moved, Steady
  <2>5. stage'[p] = "sendOpportunity" => Row(click'[p].to) = 4
    <3>1. ASSUME stage'[p] = "sendOpportunity"
          PROVE  res = "EN_PASSENT_OPPORTUNITY"
      BY <2>4, <3>1, AfterMoveStages
    <3>2. res = "EN_PASSENT_OPPORTUNITY" => click'[p] = click[p]
      BY <1>5 DEF Moved
    <3>3. res = "EN_PASSENT_OPPORTUNITY" => Row(click[p].to) = 4
      BY <2>1, OpportunityRow
    <3> QED
      BY <3>1, <3>2, <3>3
  <2>6. promoted'[p] + One(Waiting(p)') + One((stage[p] = "clicked")') <= clicks'[p]
    <3>1. One(Waiting(p)') <= 1 /\ One(Waiting(p)') \in Nat
      BY DEF One
    <3>2. One((stage[p] = "clicked")') = 0
      BY <2>4 DEF One
    <3> QED
      BY <1>1, <1>2, <1>3, <3>1, <3>2
  <2> QED
    BY <1>1, <1>2, <2>2, <2>3, <2>4, <2>5, <2>6 DEF Orderly
<1> QED
  BY <1>1, <1>4, <1>5


LEMMA AppliedKeeps ==
  ASSUME NEW e, e \in EngineType, NEW f, NEW res, NEW m, NEW n, Applied(e, f, res, m, n)
  PROVE  f.player = e.player /\ f.waiting = e.waiting /\ f.kingMoved = e.kingMoved
  BY DEF Applied, SameBut, OnlyWalls

LEMMA NextTypes == TypeInv /\ [Next]_vars => TypeInv'
<1> SUFFICES ASSUME TypeInv, [Next]_vars PROVE TypeInv'
  OBVIOUS
<1>1. CASE UNCHANGED vars
  BY <1>1 DEF TypeInv, Shapes, Orderly, Waiting, vars
<1>2. ASSUME NEW p \in Player, NEW n \in 1..MaxGlued, Receive(p, n) PROVE TypeInv'
  <2>1. /\ Shapes' /\ Untouched(Other(p)) /\ net'[Other(p)] = net[Other(p)]
        /\ stage'[p] = stage[p] /\ click'[p] = click[p] /\ clicks'[p] = clicks[p]
        /\ promoted'[p] = promoted[p]
        /\ n \in 1..Len(net[p]) /\ net'[p] = SubSeq(net[p], n + 1, Len(net[p]))
        /\ \E res : Applied(engine[p], engine'[p], res, net[p][1], n)
    BY <1>2, ReceiveStep
  <2>2. engine[p] \in EngineType /\ net[p] \in Seq(Message)
    BY Fields DEF TypeInv
  <2>3. engine'[p].player = engine[p].player /\ engine'[p].waiting = engine[p].waiting
    BY <2>1, <2>2, AppliedKeeps
  <2>4. Orderly(p)'
    BY <2>1, <2>3 DEF TypeInv, Orderly, Waiting
  <2>5. \A i \in DOMAIN net'[p] : Meant(net'[p][i])
    BY <2>1, <2>2, MeantRest DEF TypeInv
  <2>6. \A i \in DOMAIN net'[Other(p)] : Meant(net'[Other(p)][i])
    BY <2>1, OtherPlayer DEF TypeInv
  <2> QED
    BY <2>1, <2>4, <2>5, <2>6, TypesFrom
<1>3. ASSUME NEW p \in Player, Shapes', Untouched(Other(p)), net' = net, Orderly(p)'
      PROVE  TypeInv'
  <2>1. \A r \in Player : \A i \in DOMAIN net'[r] : Meant(net'[r][i])
    BY <1>3 DEF TypeInv
  <2> QED
    BY <1>3, <2>1, OtherPlayer, TypesFrom
<1>4. ASSUME NEW p \in Player, Shapes', Untouched(Other(p)), Orderly(p)', net'[p] = net[p],
             NEW m \in Message, Meant(m), net'[Other(p)] = Append(net[Other(p)], m)
      PROVE  TypeInv'
  <2>1. \A i \in DOMAIN net'[p] : Meant(net'[p][i])
    BY <1>4 DEF TypeInv
  <2>2. net[Other(p)] \in Seq(Message) /\ \A i \in DOMAIN net[Other(p)] : Meant(net[Other(p)][i])
    BY Fields, OtherPlayer DEF TypeInv
  <2>3. \A i \in DOMAIN net'[Other(p)] : Meant(net'[Other(p)][i])
    BY <1>4, <2>2, MeantAppended
  <2> QED
    BY <1>4, <2>1, <2>3, TypesFrom
<1>5. ASSUME NEW p \in Player, NEW from \in Square, NEW to \in Square, NEW wall \in BOOLEAN,
             Click(p, from, to, wall)
      PROVE  TypeInv'
  <2>1. /\ Shapes' /\ Untouched(Other(p))
        /\ UNCHANGED <<engine, net, over, promoted, slips>>
        /\ stage[p] = "idle" /\ ~Waiting(p)
        /\ stage'[p] = "clicked"
        /\ clicks'[p] = clicks[p] + 1 /\ clicks[p] < MaxClicks
    BY <1>5, ClickStep
  <2>2. promoted[p] + One(Waiting(p)) + One(stage[p] = "clicked") <= clicks[p]
        /\ promoted[p] \in Nat /\ clicks[p] \in Nat
    BY Fields DEF TypeInv, Orderly
  <2>3. One(Waiting(p)) = 0 /\ One(stage[p] = "clicked") = 0
        /\ One(Waiting(p)') = 0 /\ One((stage[p] = "clicked")') = 1
    BY <2>1 DEF One, Waiting
  <2>4. promoted'[p] + One(Waiting(p)') + One((stage[p] = "clicked")') <= clicks'[p]
    BY <2>1, <2>2, <2>3
  <2>5. clicks'[p] <= MaxClicks
    BY <2>1, <2>2, BoundsAssumption
  <2>6. Orderly(p)'
    BY <2>1, <2>4, <2>5, StageNames DEF TypeInv, Orderly, Waiting, Steady
  <2> QED
    BY <1>3, <2>1, <2>6
<1>6. ASSUME NEW p \in Player, WallsOverwritten(p) PROVE TypeInv'
  <2>1. /\ Shapes' /\ Untouched(Other(p))
        /\ UNCHANGED <<net, stage, click, over, clicks, promoted>>
        /\ engine'[p].player = engine[p].player /\ engine'[p].waiting = engine[p].waiting
    BY <1>6, WallsOverwrittenStep
  <2>2. Orderly(p)'
    BY <2>1 DEF TypeInv, Orderly, Waiting
  <2> QED
    BY <1>3, <2>1, <2>2
<1>7. ASSUME NEW p \in Player, CheckTimeouts(p) PROVE TypeInv'
  <2>1. /\ Shapes' /\ Untouched(Other(p))
        /\ UNCHANGED <<net, stage, click, over, clicks, promoted>>
        /\ engine'[p].player = engine[p].player /\ engine'[p].waiting = engine[p].waiting
    BY <1>7, CheckTimeoutsStep
  <2>2. Orderly(p)'
    BY <2>1 DEF TypeInv, Orderly, Waiting
  <2> QED
    BY <1>3, <2>1, <2>2
<1>8. ASSUME NEW p \in Player, Decide(p) PROVE TypeInv'
  <2>1. Shapes' /\ Untouched(Other(p)) /\ net' = net
    BY <1>8, DecideStep
  <2>2. Orderly(p)'
    BY <1>8, DecideTypes
  <2> QED
    BY <1>3, <2>1, <2>2
<1>9. ASSUME NEW p \in Player, UNCHANGED <<engine, clicks, promoted>>,
             stage[p] # "clicked", stage'[p] \in {"sendMove", "check", "idle"}
      PROVE  Orderly(p)'
  <2>1. stage'[p] \notin Promotions
    BY <1>9, StageNames DEF Steady
  <2> QED
    BY <1>9, <2>1 DEF TypeInv, Orderly, Waiting, One
<1>10. ASSUME NEW p \in Player, SendOpportunity(p) PROVE TypeInv'
  <2>1. /\ Shapes' /\ Untouched(Other(p))
        /\ UNCHANGED <<engine, click, over, clicks, promoted, slips>>
        /\ stage[p] = "sendOpportunity" /\ stage'[p] = "sendMove"
        /\ net'[p] = net[p]
    BY <1>10, SendOpportunityStep
  <2>2. PICK m \in Message : m.op = "ENPS" /\ net'[Other(p)] = Append(net[Other(p)], m)
    BY <1>10, SendOpportunityStep
  <2>3. Meant(m)
    BY <2>2 DEF Meant
  <2>4. Orderly(p)'
    BY <1>9, <2>1
  <2> QED
    BY <1>4, <2>1, <2>2, <2>3, <2>4
<1>11. ASSUME NEW p \in Player, NEW op, TellsClick(p, op), Shapes', Untouched(Other(p)),
              Orderly(p)'
       PROVE  TypeInv'
  <2>1. net'[p] = net[p]
    BY <1>11 DEF TellsClick
  <2>2. PICK m \in Message : Meant(m) /\ net'[Other(p)] = Append(net[Other(p)], m)
    BY <1>11 DEF TellsClick
  <2> QED
    BY <1>4, <1>11, <2>1, <2>2
<1>12. ASSUME NEW p \in Player, SendMove(p) PROVE TypeInv'
  <2>1. /\ Shapes' /\ Untouched(Other(p))
        /\ UNCHANGED <<engine, over, clicks, promoted, slips>>
        /\ stage[p] = "sendMove" /\ stage'[p] = "check" /\ TellsClick(p, "TO")
    BY <1>12, SendMoveStep
  <2>2. Orderly(p)'
    BY <1>9, <2>1
  <2> QED
    BY <1>11, <2>1, <2>2
<1>13. ASSUME NEW p \in Player, SendWall(p) PROVE TypeInv'
  <2>1. /\ Shapes' /\ Untouched(Other(p))
        /\ UNCHANGED <<engine, over, clicks, promoted, slips>>
        /\ stage[p] = "sendWall" /\ stage'[p] = "check" /\ TellsClick(p, "WALL")
    BY <1>13, SendWallStep
  <2>2. Orderly(p)'
    BY <1>9, <2>1
  <2> QED
    BY <1>11, <2>1, <2>2
<1>14. ASSUME NEW p \in Player, Check(p) PROVE TypeInv'
  <2>1. /\ Shapes' /\ Untouched(Other(p))
        /\ UNCHANGED <<engine, click, clicks, promoted, slips>>
        /\ stage[p] = "check" /\ stage'[p] = "idle" /\ net'[p] = net[p]
        /\ \/ Lose \in Message /\ net'[Other(p)] = Append(net[Other(p)], Lose)
           \/ net' = net
    BY <1>14, CheckStep
  <2>2. Orderly(p)'
    BY <1>9, <2>1
  <2>3. Meant(Lose)
    BY ZeroSquare DEF Meant, Lose, Msg
  <2>4. CASE net' = net
    BY <1>3, <2>1, <2>2, <2>4
  <2>5. CASE Lose \in Message /\ net'[Other(p)] = Append(net[Other(p)], Lose)
    BY <1>4, <2>1, <2>2, <2>3, <2>5
  <2> QED
    BY <2>1, <2>4, <2>5
<1>15. ASSUME NEW p \in Player, NEW kind \in Promotions, SendPromotion(p, kind) PROVE TypeInv'
  <2>1. /\ Shapes' /\ Untouched(Other(p))
        /\ UNCHANGED <<engine, click, over, clicks, promoted>>
        /\ stage[p] = "idle" /\ Waiting(p) /\ stage'[p] = kind /\ net'[p] = net[p]
    BY <1>15, SendPromotionStep
  <2>2. PICK m \in Message :
          /\ m.op = "PROM" /\ m.kind = kind /\ Meant(m)
          /\ m.a = Reverse(engine[p].waiting.from) /\ m.b = Reverse(engine[p].waiting.to)
          /\ net'[Other(p)] = Append(net[Other(p)], m)
    BY <1>15, PromotionTold
  <2>3. stage'[p] # "clicked" /\ stage'[p] # "sendOpportunity"
    BY <2>1, StageNames DEF Steady
  <2>4. Orderly(p)'
    BY <2>1, <2>3 DEF TypeInv, Orderly, Waiting, One
  <2> QED
    BY <1>4, <2>1, <2>2, <2>4
<1>17. ASSUME NEW p \in Player, Promote(p) PROVE TypeInv'
  <2>1. /\ Shapes' /\ Untouched(Other(p))
        /\ UNCHANGED <<net, click, over, clicks>>
        /\ stage[p] \in Promotions /\ stage'[p] = "idle" /\ Waiting(p)
        /\ engine'[p].waiting = NoPromotion /\ engine'[p].player = engine[p].player
        /\ promoted'[p] = promoted[p] + 1
    BY <1>17, PromoteStep
  <2>3. promoted[p] + One(Waiting(p)) + One(stage[p] = "clicked") <= clicks[p]
        /\ promoted[p] \in Nat /\ clicks[p] \in Nat
    BY Fields DEF TypeInv, Orderly
  <2>4. promoted[p] + 1 <= clicks[p] /\ clicks'[p] = clicks[p]
    <3>1. Waiting(p) = TRUE /\ (stage[p] = "clicked") = FALSE
      BY <2>1, StageNames DEF Steady, Waiting
    <3>2. One(Waiting(p)) = 1 /\ One(stage[p] = "clicked") = 0
      BY <3>1 DEF One
    <3>3. promoted[p] + 1 + 0 <= clicks[p]
      BY <2>3, <3>2
    <3> QED
      BY <2>1, <2>3, <3>3
  <2>5. promoted'[p] <= clicks'[p] /\ promoted'[p] \in Nat
    BY <2>1, <2>3, <2>4
  <2>6. "idle" \notin Promotions
    BY StageNames DEF Steady
  <2>7. Orderly(p)'
    BY <2>1, <2>4, <2>5, <2>6 DEF TypeInv, Orderly, Waiting, One
  <2> QED
    BY <1>3, <2>1, <2>7
<1>16. CASE Next
  <2>1. PICK p \in Player :
            \/ \E n \in 1..MaxGlued : Receive(p, n)
            \/ \E from, to \in Square, wall \in BOOLEAN : Click(p, from, to, wall)
            \/ WallsOverwritten(p) \/ CheckTimeouts(p)
            \/ Decide(p) \/ SendOpportunity(p) \/ SendMove(p) \/ SendWall(p) \/ Check(p)
            \/ Promote(p) \/ \E kind \in Promotions : SendPromotion(p, kind)
    BY <1>16, NextCases
  <2> QED
    BY <1>2, <1>5, <1>6, <1>7, <1>8, <1>10, <1>12, <1>13, <1>14, <1>15, <1>17, <2>1
<1> QED
  BY <1>1, <1>16

LEMMA TypesImply == TypeInv => TypeOK
<1> SUFFICES ASSUME TypeInv PROVE TypeOK
  OBVIOUS
<1>1. Shapes
  BY DEF TypeInv
<1>2. ASSUME NEW p \in Player, NEW i \in DOMAIN net[p]
      PROVE  LET m == net[p][i]
             IN  /\ m.op \in {"TO", "WALL", "ENPS", "PROM", "LOSE"}
                 /\ m.a \in Square
                 /\ m.b \in (IF m.op = "ENPS" THEN Nat ELSE Square)
  <2>1. net[p][i] \in Message /\ Meant(net[p][i])
    BY <1>1, <1>2, Fields DEF TypeInv
  <2> QED
    BY <2>1 DEF Message, Meant
<1>3. ASSUME NEW p \in Player
      PROVE  clicks[p] \in 0..MaxClicks /\ promoted[p] \in 0..MaxClicks
  <2>1. /\ promoted[p] + One(Waiting(p)) + One(stage[p] = "clicked") <= clicks[p]
        /\ clicks[p] <= MaxClicks /\ promoted[p] \in Nat /\ clicks[p] \in Nat
    BY <1>1, Fields DEF TypeInv, Orderly
  <2>2. One(Waiting(p)) \in Nat /\ One(stage[p] = "clicked") \in Nat
    BY DEF One
  <2> QED
    BY <2>1, <2>2, BoundsAssumption
<1>4. /\ clicks \in [Player -> 0..MaxClicks]
      /\ promoted \in [Player -> 0..MaxClicks]
  BY <1>1, <1>3 DEF Shapes
<1> QED
  BY <1>1, <1>2, <1>4 DEF TypeOK, Shapes, ClickType

LEMMA AlwaysTyped == Spec => []TypeInv
<1>1. Init => TypeInv
  BY InitTypes
<1>2. TypeInv /\ [Next]_vars => TypeInv'
  BY NextTypes
<1> QED
  BY <1>1, <1>2, PTL DEF Spec

(* Whatever is clicked and whatever crosses, every variable keeps its type:
   every square told of is one of the board, and what waits is, too
   (game.cpp:206-238, 372-377).                                               *)
THEOREM MatchTyped == Spec => []TypeOK
<1>1. TypeInv => TypeOK
  BY TypesImply
<1> QED
  BY <1>1, AlwaysTyped, PTL


-----------------------------------------------------------------------------
(* Kings on one board.                                                        *)

Only(b, x) == \A s, t \in Square : b[s] = x /\ b[t] = x => s = t
None(b, x) == \A s \in Square : b[s] # x

LEMMA KingsArePieces ==
  \A p \in Player : <<p, "KING">> \in Pieces /\ <<p, "KING">> # Empty
                    /\ <<p, "KING">> # <<p, "ROOK">> /\ <<p, "KING">> # <<p, "PAWN">>
                    /\ <<p, "KING">>[1] = p /\ <<p, "KING">>[2] = "KING"
                    /\ \A l : <<Other(p), l>> # <<p, "KING">> /\ <<p, l>> # <<Other(p), "KING">>
<1> SUFFICES ASSUME NEW p \in Player
             PROVE  <<p, "KING">> \in Pieces /\ <<p, "KING">> # Empty
                    /\ <<p, "KING">> # <<p, "ROOK">> /\ <<p, "KING">> # <<p, "PAWN">>
                    /\ <<p, "KING">>[1] = p /\ <<p, "KING">>[2] = "KING"
                    /\ \A l : <<Other(p), l>> # <<p, "KING">> /\ <<p, l>> # <<Other(p), "KING">>
  OBVIOUS
<1>1. "KING" \in Kind
  BY DEF Kind
<1>2. \A l : <<p, l>> # <<Other(p), "KING">>
  BY OtherPlayer
<1> QED
  BY <1>1, <1>2, PieceFacts

(* However pieces are moved about, a piece there is one of is not doubled.    *)
LEMMA OnlyRelocated ==
  ASSUME NEW b \in [Square -> Pieces], NEW c, NEW from \in Square, NEW to \in Square,
         \/ c = Relocated(b, from, to)
         \/ c = [Relocated(b, from, to) EXCEPT ![to + Down] = Empty],
         NEW x, x # Empty, Only(b, x)
  PROVE  Only(c, x)
<1> SUFFICES ASSUME NEW s \in Square, NEW t \in Square, c[s] = x, c[t] = x
             PROVE  s = t
  BY DEF Only
<1>1. s # from /\ c[s] = IF s = to THEN b[from] ELSE b[s]
  BY StandsAfter
<1>2. t # from /\ c[t] = IF t = to THEN b[from] ELSE b[t]
  BY StandsAfter
<1> QED
  BY <1>1, <1>2 DEF Only

LEMMA NoneRelocated ==
  ASSUME NEW b \in [Square -> Pieces], NEW c, NEW from \in Square, NEW to \in Square,
         \/ c = Relocated(b, from, to)
         \/ c = [Relocated(b, from, to) EXCEPT ![to + Down] = Empty],
         NEW x, x # Empty, None(b, x)
  PROVE  None(c, x)
<1> SUFFICES ASSUME NEW s \in Square, c[s] = x
             PROVE  FALSE
  BY DEF None
<1>1. s # from /\ c[s] = IF s = to THEN b[from] ELSE b[s]
  BY StandsAfter
<1> QED
  BY <1>1 DEF None

LEMMA PromotedAt ==
  ASSUME NEW b \in [Square -> Pieces], NEW from \in Square, NEW to \in Square, NEW piece,
         NEW s \in Square
  PROVE  PromotedBoard(b, from, to, piece)[s] =
            IF s = to THEN piece ELSE IF s = from THEN Empty ELSE b[s]
  BY DEF PromotedBoard

LEMMA PromotedNotKing ==
  \A p, c \in Player, kind \in Promotions : <<p, kind>> # <<c, "KING">>
  BY DEF Promotions

(* A move makes no king of the opponent's.                                    *)
LEMMA TheirsAfter ==
  ASSUME NEW e \in EngineType, NEW f, NEW res, NEW from \in Square, NEW to \in Square,
         Outcome(e, f, res, from, to)
  PROVE  \A s \in Square : f.board[s] = <<Other(e.player), "KING">> =>
                                e.board[s] = <<Other(e.player), "KING">>
<1> DEFINE x == <<Other(e.player), "KING">>
<1> SUFFICES ASSUME NEW s \in Square PROVE f.board[s] = x => e.board[s] = x
  OBVIOUS
<1>1. e.player \in Player /\ e.board \in [Square -> Pieces]
  BY EngineFields
<1>2. x # Empty /\ x[1] # e.player /\ x \notin {<<e.player, "KING">>, <<e.player, "ROOK">>}
  BY <1>1, OtherPlayer, KingsArePieces
<1> HIDE DEF x
<1>3. CASE f.board[s] # x
  BY <1>3
<1>4. CASE f.board[s] = x /\ Castled(e, f, res, from, to)
  <2>1. PICK w \in Castling[e.player] : f.board = CastledBoard(e, w)
    BY <1>4 DEF Castled
  <2>2. f.board[s] \notin {Empty, <<e.player, "KING">>, <<e.player, "ROOK">>}
    BY <1>2, <1>4
  <2> QED
    BY <1>4, <2>1, <2>2, StandsAfterCastling
<1>5. CASE /\ f.board[s] = x /\ e.board[from][1] = e.player
           /\ \/ f.board = Relocated(e.board, from, to)
              \/ f.board = [Relocated(e.board, from, to) EXCEPT ![to + Down] = Empty]
  <2>1. f.board[s] # Empty
    BY <1>2, <1>5
  <2>2. s # from /\ f.board[s] = IF s = to THEN e.board[from] ELSE e.board[s]
    BY <1>1, <1>5, <2>1, StandsAfter
  <2> QED
    BY <1>2, <1>5, <2>2
<1>6. CASE f.board = e.board
  BY <1>6
<1> QED
  BY <1>3, <1>4, <1>5, <1>6 DEF Outcome, Refused, Void, Stepped, Took, Passed

(* Nor does it double the player's own.                                       *)
LEMMA OwnKingAfter ==
  ASSUME NEW e \in EngineType, NEW f, NEW res, NEW from \in Square, NEW to \in Square,
         Outcome(e, f, res, from, to), KingUnmarkedAtHome(e),
         Only(e.board, <<e.player, "KING">>)
  PROVE  Only(f.board, <<e.player, "KING">>)
<1> DEFINE x == <<e.player, "KING">>
<1>1. e.player \in Player /\ e.board \in [Square -> Pieces]
  BY EngineFields
<1>2. x # Empty /\ x # <<e.player, "ROOK">> /\ Only(e.board, x)
  BY <1>1, KingsArePieces
<1>3. CASE Castled(e, f, res, from, to)
  <2>1. PICK w \in Castling[e.player] : CastlesWith(e, f, from, w)
    BY <1>3, CastledSquares
  <2>2. /\ e.board[w.king] = x /\ w.king \in Square
        /\ \A s \in Square :
             f.board[s] = IF s = w.rookTo THEN <<e.player, "ROOK">>
                          ELSE IF s = w.kingTo THEN x
                          ELSE IF s \in {w.rook, w.king} THEN Empty
                          ELSE e.board[s]
    BY <2>1 DEF CastlesWith
  <2> HIDE DEF x
  <2>3. \A s \in Square : f.board[s] = x => s = w.kingTo
    BY <1>2, <2>2 DEF Only
  <2>4. Only(f.board, x)
    BY <2>3 DEF Only
  <2> QED
    BY <2>4 DEF x
<1>4. CASE \/ f.board = Relocated(e.board, from, to)
           \/ f.board = [Relocated(e.board, from, to) EXCEPT ![to + Down] = Empty]
  BY <1>1, <1>2, <1>4, OnlyRelocated
<1>5. CASE f.board = e.board
  BY <1>5
<1> QED
  BY <1>3, <1>4, <1>5 DEF Outcome, Refused, Void, Stepped, Took, Passed

LEMMA HomeRow7 == \A p \in Player : KingHome(p) \in Square /\ Row(KingHome(p)) = 7
  BY DEF Player, KingHome, Square, Row

(* While the king is at home and not marked as moved, no move leaves its square
   or goes there.                                                             *)
LEMMA HomeLeftAlone ==
  ASSUME NEW e \in EngineType, NEW f, NEW res, NEW from \in Square, NEW to \in Square,
         Outcome(e, f, res, from, to), ~f.kingMoved,
         f.board[KingHome(e.player)] = <<e.player, "KING">>
  PROVE  /\ ~e.kingMoved /\ e.board[KingHome(e.player)] = <<e.player, "KING">>
         /\ res # "INVALID" => from # KingHome(e.player) /\ to # KingHome(e.player)
<1> DEFINE x == <<e.player, "KING">>
           h == KingHome(e.player)
<1>1. e.player \in Player /\ e.board \in [Square -> Pieces]
  BY EngineFields
<1>2. x # Empty /\ x[1] = e.player /\ x[2] = "KING" /\ h \in Square /\ Row(h) = 7
  BY <1>1, KingsArePieces, HomeRow7
<1>3. /\ ~e.kingMoved
      /\ f.board = e.board \/ e.board[from] # x
      /\ f.board[h] = x
  BY DEF Outcome, Always
<1>4. Row(from) \in 0..7
  BY RowCol
<1> HIDE DEF x, h
<1>5. CASE Refused(e, f, res)
  BY <1>3, <1>5 DEF Refused, x, h
<1>6. CASE Void(e, f, res, from, to)
  <2>1. f = e /\ e.board[from][2] = "PAWN" /\ Row(to) = Row(from) - 1
    BY <1>6 DEF Void
  <2>2. from # h
    BY <1>2, <1>3, <2>1
  <2>3. to # h
    BY <1>2, <1>4, <2>1
  <2> QED
    BY <1>3, <2>1, <2>2, <2>3 DEF x, h
<1>7. CASE \/ f.board = Relocated(e.board, from, to)
           \/ f.board = [Relocated(e.board, from, to) EXCEPT ![to + Down] = Empty]
  <2>1. h # from /\ f.board[h] = IF h = to THEN e.board[from] ELSE e.board[h]
    BY <1>1, <1>2, <1>3, <1>7, StandsAfter
  <2>2. CASE h = to
    <3>1. e.board[from] = x /\ f.board = e.board
      BY <1>3, <2>1, <2>2
    <3>2. ~f.kingMoved
      OBVIOUS
    <3>3. e.board[to] = x
      BY <1>3, <2>2, <3>1
    <3>4. e.board[to] # Empty /\ e.board[to][1] = e.player /\ e.board[from][2] # "PAWN"
      BY <1>2, <3>1, <3>3
    <3>5. ~is_other_player_piece(e, to)
      BY <1>1, <3>4, OtherPlayer DEF is_other_player_piece
    <3>6. ~Void(e, f, res, from, to) /\ ~Stepped(e, f, res, from, to)
          /\ ~Took(e, f, res, from, to) /\ ~Passed(e, f, res, from, to)
          /\ ~Castled(e, f, res, from, to)
      BY <3>2, <3>4, <3>5 DEF Void, Stepped, Took, Passed, Castled
    <3>7. Refused(e, f, res)
      BY <3>6 DEF Outcome
    <3> QED
      BY <1>5, <3>7
  <2>3. CASE h # to
    BY <1>3, <2>1, <2>3 DEF x, h
  <2> QED
    BY <2>2, <2>3
<1>8. CASE Castled(e, f, res, from, to)
  BY <1>8 DEF Castled
<1> QED
  BY <1>5, <1>6, <1>7, <1>8 DEF Outcome, Stepped, Took, Passed


-----------------------------------------------------------------------------
(* One king of a colour on either board.

   A king is doubled only if castling finds it gone from home without its having
   been marked, and only a stale TO could take it from there.  So the invariant
   follows the king that has not moved: its own player touches its square no
   more than the other player does, whose board shows the king as well, until he
   has taken it there and is done.                                            *)

Telling == {"sendOpportunity", "sendMove"}

Across(p) == Reverse(KingHome(p))

Unmoved(p) ==
    ~engine[p].kingMoved /\ engine[p].board[KingHome(p)] = <<p, "KING">>

(* The game of the one who has taken the king is over, or will be.            *)
Finished(q) ==
    /\ None(engine[q].board, <<Other(q), "KING">>)
    /\ stage[q] \in Telling \cup {"check"} \/ (over[q] /\ stage[q] = "idle")

(* On the other board the king stands where it stands here.                   *)
StandsAcross(p) ==
    \/ Finished(Other(p))
    \/ /\ engine[Other(p)].board[Across(p)] = <<p, "KING">>
       /\ engine[Other(p)].waiting.to # Across(p)

(* What the other tells p leaves the square of the king alone, ...            *)
Spares(m, p) == m.op = "TO" => m.a # KingHome(p)

Spared(p) ==
    /\ \A i \in DOMAIN net[p] : Spares(net[p][i], p)
    /\ stage[Other(p)] \in Telling => click[Other(p)].from # Across(p)

(* ... and so does what p tells the other.                                    *)
Leaves(m, p) == m.op \in {"TO", "PROM"} => m.a # Across(p) /\ m.b # Across(p)

Stays(p) ==
    /\ stage[p] \in Telling => click[p].from # KingHome(p) /\ click[p].to # KingHome(p)
    /\ Waiting(p) => engine[p].waiting.from # KingHome(p) /\ engine[p].waiting.to # KingHome(p)

Undisturbed(p) ==
    /\ StandsAcross(p) /\ Spared(p) /\ Stays(p)
    /\ \A i \in DOMAIN net[Other(p)] : Leaves(net[Other(p)][i], p)

Kept(p) ==
    /\ \A c \in Player : Only(engine[p].board, <<c, "KING">>)
    /\ KingUnmarkedAtHome(engine[p])

KingsInv == \A p \in Player : Kept(p) /\ (Unmoved(p) => Undisturbed(p))

(* What p's step must come to for the kings to be kept.                       *)
LEMMA KingsFrom ==
  ASSUME TypeInv, KingsInv, NEW p \in Player, Untouched(Other(p)),
         \A i \in DOMAIN net'[p] : \E j \in DOMAIN net[p] : net'[p][i] = net[p][j],
         \A i \in DOMAIN net'[Other(p)] :
            \/ \E j \in DOMAIN net[Other(p)] : net'[Other(p)][i] = net[Other(p)][j]
            \/ /\ Unmoved(Other(p)) => Spares(net'[Other(p)][i], Other(p))
               /\ Unmoved(p) => Leaves(net'[Other(p)][i], p),
         Kept(p)',
         Unmoved(p)' => Unmoved(p) /\ Stays(p)',
         Unmoved(Other(p)) =>
            /\ StandsAcross(Other(p))'
            /\ stage'[p] \in Telling => click'[p].from # Across(Other(p))
  PROVE  KingsInv'
<1> DEFINE q == Other(p)
<1>1. q \in Player /\ q # p /\ Other(q) = p
  BY OtherPlayer
<1> HIDE DEF q
<1>2. engine'[q] = engine[q] /\ stage'[q] = stage[q] /\ click'[q] = click[q] /\ over'[q] = over[q]
  BY DEF Untouched, q
<1>3. /\ Kept(p) /\ (Unmoved(p) => Undisturbed(p))
      /\ Kept(q) /\ (Unmoved(q) => Undisturbed(q))
  BY <1>1 DEF KingsInv
<1>4. Kept(q)' /\ (Unmoved(q)' <=> Unmoved(q))
  BY <1>2, <1>3 DEF Kept, Unmoved
<1>5. ASSUME Unmoved(p)' PROVE Undisturbed(p)'
  <2>1. Unmoved(p) /\ Undisturbed(p) /\ Stays(p)'
    BY <1>3, <1>5
  <2>2. StandsAcross(p)'
    BY <1>1, <1>2, <2>1 DEF Undisturbed, StandsAcross, Finished, q
  <2>3. Spared(p)'
    <3>1. \A i \in DOMAIN net[p] : Spares(net[p][i], p)
      BY <2>1 DEF Undisturbed, Spared
    <3>2. \A i \in DOMAIN net'[p] : Spares(net'[p][i], p)
      BY <3>1
    <3>3. stage'[q] \in Telling => click'[q].from # Across(p)
      BY <1>2, <2>1 DEF Undisturbed, Spared, q
    <3> QED
      BY <3>2, <3>3 DEF Spared, Spares, q
  <2>4. \A i \in DOMAIN net'[q] : Leaves(net'[q][i], p)
    <3>1. \A i \in DOMAIN net[q] : Leaves(net[q][i], p)
      BY <2>1 DEF Undisturbed, q
    <3> QED
      BY <2>1, <3>1 DEF q
  <2> QED
    BY <2>1, <2>2, <2>3, <2>4 DEF Undisturbed, Leaves, q
<1>6. ASSUME Unmoved(q) PROVE Undisturbed(q)'
  <2>1. Undisturbed(q)
    BY <1>3, <1>6
  <2>2. StandsAcross(q)'
    BY <1>6 DEF q
  <2>3. Spared(q)'
    <3>1. \A i \in DOMAIN net[q] : Spares(net[q][i], q)
      BY <2>1 DEF Undisturbed, Spared
    <3>2. \A i \in DOMAIN net'[q] : Spares(net'[q][i], q)
      BY <1>6, <3>1 DEF q
    <3>3. stage'[p] \in Telling => click'[p].from # Across(q)
      BY <1>6 DEF q
    <3> QED
      BY <1>1, <3>2, <3>3 DEF Spared, Spares
  <2>4. Stays(q)'
    BY <1>2, <2>1 DEF Undisturbed, Stays, Waiting
  <2>5. \A i \in DOMAIN net'[p] : Leaves(net'[p][i], q)
    <3>1. \A i \in DOMAIN net[p] : Leaves(net[p][i], q)
      BY <1>1, <2>1 DEF Undisturbed
    <3> QED
      BY <3>1
  <2> QED
    BY <1>1, <2>2, <2>3, <2>4, <2>5 DEF Undisturbed, Leaves
<1>7. ASSUME NEW r \in Player PROVE Kept(r)' /\ (Unmoved(r)' => Undisturbed(r)')
  <2>1. CASE r = p
    BY <1>5, <2>1
  <2>2. CASE r = q
    BY <1>4, <1>6, <2>2
  <2> QED
    BY <2>1, <2>2, BothPlayers DEF q
<1> QED
  BY <1>7 DEF KingsInv


(* Steps that leave the board alone.                                          *)
LEMMA KingsSameBoard ==
  ASSUME TypeInv, KingsInv, NEW p \in Player, Untouched(Other(p)),
         engine'[p].board = engine[p].board, engine'[p].waiting = engine[p].waiting,
         engine'[p].kingMoved = engine[p].kingMoved, engine'[p].player = engine[p].player,
         \A i \in DOMAIN net'[p] : \E j \in DOMAIN net[p] : net'[p][i] = net[p][j],
         \A i \in DOMAIN net'[Other(p)] :
            \/ \E j \in DOMAIN net[Other(p)] : net'[Other(p)][i] = net[Other(p)][j]
            \/ /\ Unmoved(Other(p)) => Spares(net'[Other(p)][i], Other(p))
               /\ Unmoved(p) => Leaves(net'[Other(p)][i], p),
         stage'[p] \in Telling => stage[p] \in Telling /\ click'[p] = click[p],
         Finished(p) => Finished(p)'
  PROVE  KingsInv'
<1>1. Other(p) \in Player /\ Other(Other(p)) = p
  BY OtherPlayer
<1>2. Kept(p)' /\ (Unmoved(p)' => Unmoved(p))
  BY DEF KingsInv, Kept, Unmoved, KingUnmarkedAtHome
<1>3. Unmoved(p) => Stays(p)'
  BY DEF KingsInv, Undisturbed, Stays, Waiting
<1>4. Unmoved(Other(p)) =>
        /\ StandsAcross(Other(p))'
        /\ stage'[p] \in Telling => click'[p].from # Across(Other(p))
  <2>1. SUFFICES ASSUME Unmoved(Other(p))
                 PROVE  /\ StandsAcross(Other(p))'
                        /\ stage'[p] \in Telling => click'[p].from # Across(Other(p))
    OBVIOUS
  <2>2. StandsAcross(Other(p)) /\ Spared(Other(p))
    BY <1>1, <2>1 DEF KingsInv, Undisturbed
  <2>3. StandsAcross(Other(p))'
    BY <1>1, <2>2 DEF StandsAcross
  <2> QED
    BY <1>1, <2>2, <2>3 DEF Spared
<1> QED
  BY <1>2, <1>3, <1>4, KingsFrom

LEMMA AllOld ==
  ASSUME NEW t
  PROVE  \A i \in DOMAIN t : \E j \in DOMAIN t : t[i] = t[j]
  OBVIOUS

LEMMA OldOrSent ==
  ASSUME NEW s \in Seq(Message), NEW m \in Message, NEW t, t = Append(s, m)
  PROVE  \A i \in DOMAIN t : t[i] = m \/ \E j \in DOMAIN s : t[i] = s[j]
  BY Appended

LEMMA ClickKings ==
  ASSUME TypeInv, KingsInv, NEW p \in Player, NEW from \in Square, NEW to \in Square,
         NEW wall \in BOOLEAN, Click(p, from, to, wall)
  PROVE  KingsInv'
<1>1. /\ Untouched(Other(p))
      /\ UNCHANGED <<engine, net, over, promoted, slips>>
      /\ stage[p] = "idle" /\ ~over[p] /\ stage'[p] = "clicked"
  BY ClickStep
<1>2. ~Finished(p)
  BY <1>1 DEF Finished, Telling
<1>3. stage'[p] \notin Telling
  BY <1>1 DEF Telling
<1> QED
  BY <1>1, <1>2, <1>3, KingsSameBoard

LEMMA QuietKings ==
  ASSUME TypeInv, KingsInv, NEW p \in Player, WallsOverwritten(p) \/ CheckTimeouts(p)
  PROVE  KingsInv'
<1>1. /\ Untouched(Other(p)) /\ UNCHANGED <<net, stage, click, over>>
      /\ engine'[p].player = engine[p].player /\ engine'[p].board = engine[p].board
      /\ engine'[p].waiting = engine[p].waiting /\ engine'[p].kingMoved = engine[p].kingMoved
  BY WallsOverwrittenStep, CheckTimeoutsStep
<1>2. Finished(p) => Finished(p)'
  BY <1>1 DEF Finished
<1> QED
  BY <1>1, <1>2, KingsSameBoard

LEMMA BuildKings ==
  ASSUME TypeInv, KingsInv, NEW p \in Player, Untouched(Other(p)), net' = net,
         stage[p] = "clicked", stage'[p] = "sendWall", OnlyWalls(engine[p], engine'[p])
  PROVE  KingsInv'
<1>1. ~Finished(p) /\ stage'[p] \notin Telling
  BY DEF Finished, Telling
<1>2. /\ engine'[p].player = engine[p].player /\ engine'[p].board = engine[p].board
      /\ engine'[p].waiting = engine[p].waiting /\ engine'[p].kingMoved = engine[p].kingMoved
  BY DEF OnlyWalls
<1> QED
  BY <1>1, <1>2, KingsSameBoard

(* What is sent of a move leaves both squares alone.                          *)
LEMMA SendKings ==
  ASSUME TypeInv, KingsInv, NEW p \in Player,
         SendOpportunity(p) \/ SendMove(p) \/ SendWall(p) \/ Check(p)
  PROVE  KingsInv'
<1> DEFINE q == Other(p)
<1>1. q \in Player /\ Other(q) = p /\ net[q] \in Seq(Message) /\ Shapes
  BY OtherPlayer, Fields DEF TypeInv
<1>2. ASSUME Untouched(q), engine' = engine, net'[p] = net[p],
             NEW m \in Message, net'[q] = Append(net[q], m),
             Unmoved(q) => Spares(m, q), Unmoved(p) => Leaves(m, p),
             stage'[p] \in Telling => stage[p] \in Telling /\ click'[p] = click[p],
             Finished(p) => Finished(p)'
      PROVE  KingsInv'
  <2>1. \A i \in DOMAIN net'[q] :
            \/ \E j \in DOMAIN net[q] : net'[q][i] = net[q][j]
            \/ /\ Unmoved(q) => Spares(net'[q][i], q)
               /\ Unmoved(p) => Leaves(net'[q][i], p)
    BY <1>1, <1>2, OldOrSent
  <2>2. \A i \in DOMAIN net'[p] : \E j \in DOMAIN net[p] : net'[p][i] = net[p][j]
    BY <1>2
  <2> QED
    BY <1>2, <2>1, <2>2, KingsSameBoard
<1>3. CASE SendOpportunity(p)
  <2>1. /\ Untouched(q) /\ UNCHANGED <<engine, click, over>>
        /\ stage[p] = "sendOpportunity" /\ stage'[p] = "sendMove" /\ net'[p] = net[p]
    BY <1>3, SendOpportunityStep
  <2>2. PICK m \in Message : m.op = "ENPS" /\ net'[q] = Append(net[q], m)
    BY <1>3, SendOpportunityStep
  <2>3. Spares(m, q) /\ Leaves(m, p)
    BY <2>2 DEF Spares, Leaves
  <2>4. stage[p] \in Telling /\ (Finished(p) => Finished(p)')
    BY <2>1 DEF Telling, Finished
  <2> QED
    BY <1>2, <2>1, <2>2, <2>3, <2>4
<1>4. CASE SendMove(p)
  <2>1. /\ Untouched(q) /\ engine' = engine
        /\ stage[p] = "sendMove" /\ stage'[p] = "check" /\ TellsClick(p, "TO")
    BY <1>4, SendMoveStep
  <2>2. net'[p] = net[p]
    BY <2>1 DEF TellsClick
  <2>3. PICK m \in Message :
          /\ m.op = "TO" /\ m.a = Reverse(click[p].from) /\ m.b = Reverse(click[p].to)
          /\ net'[q] = Append(net[q], m)
    BY <2>1 DEF TellsClick
  <2>4. click[p].from \in Square /\ click[p].to \in Square
        /\ KingHome(p) \in Square /\ KingHome(q) \in Square
    BY <1>1, Fields, HomeRow7
  <2>5. \A s, t \in Square : Reverse(s) = Reverse(t) => s = t
    BY ReverseSquare
  <2>6. Unmoved(q) => Spares(m, q)
    <3>1. SUFFICES ASSUME Unmoved(q) PROVE m.a # KingHome(q)
      BY DEF Spares
    <3>2. click[p].from # Across(q)
      BY <1>1, <2>1, <3>1 DEF KingsInv, Undisturbed, Spared, Telling
    <3>3. Reverse(KingHome(q)) \in Square /\ Reverse(Reverse(KingHome(q))) = KingHome(q)
      BY <2>4, ReverseSquare
    <3> QED
      BY <2>3, <2>4, <2>5, <3>2, <3>3 DEF Across
  <2>7. Unmoved(p) => Leaves(m, p)
    <3>1. SUFFICES ASSUME Unmoved(p) PROVE m.a # Across(p) /\ m.b # Across(p)
      BY DEF Leaves
    <3>2. click[p].from # KingHome(p) /\ click[p].to # KingHome(p)
      BY <2>1, <3>1 DEF KingsInv, Undisturbed, Stays, Telling
    <3> QED
      BY <2>3, <2>4, <2>5, <3>2 DEF Across
  <2>8. stage'[p] \notin Telling /\ (Finished(p) => Finished(p)')
    BY <2>1 DEF Telling, Finished
  <2> QED
    BY <1>2, <2>1, <2>2, <2>3, <2>6, <2>7, <2>8
<1>5. CASE SendWall(p)
  <2>1. /\ Untouched(q) /\ engine' = engine
        /\ stage[p] = "sendWall" /\ stage'[p] = "check" /\ TellsClick(p, "WALL")
    BY <1>5, SendWallStep
  <2>2. net'[p] = net[p]
    BY <2>1 DEF TellsClick
  <2>3. PICK m \in Message : m.op = "WALL" /\ net'[q] = Append(net[q], m)
    BY <2>1 DEF TellsClick
  <2>4. Spares(m, q) /\ Leaves(m, p)
    BY <2>3 DEF Spares, Leaves
  <2>5. stage'[p] \notin Telling /\ (Finished(p) => Finished(p)')
    BY <2>1 DEF Telling, Finished
  <2> QED
    BY <1>2, <2>1, <2>2, <2>3, <2>4, <2>5
<1>6. CASE Check(p)
  <2>1. /\ Untouched(q) /\ engine' = engine
        /\ stage[p] = "check" /\ stage'[p] = "idle" /\ net'[p] = net[p]
        /\ \/ /\ did_other_lose(engine[p]) /\ over'[p]
              /\ Lose \in Message /\ net'[q] = Append(net[q], Lose)
           \/ ~did_other_lose(engine[p]) /\ net' = net /\ over' = over
    BY <1>6, CheckStep
  <2>2. stage'[p] \notin Telling
    BY <2>1 DEF Telling
  <2>3. did_other_lose(engine[p]) <=> None(engine[p].board, <<q, "KING">>)
    BY DEF TypeInv, Orderly, did_other_lose, None
  <2>4. CASE /\ over'[p] /\ Lose \in Message /\ net'[q] = Append(net[q], Lose)
    <3>1. Spares(Lose, q) /\ Leaves(Lose, p)
      BY DEF Spares, Leaves, Lose, Msg
    <3>2. Finished(p) => Finished(p)'
      BY <2>1, <2>4 DEF Finished
    <3> QED
      BY <1>2, <2>1, <2>2, <2>4, <3>1, <3>2
  <2>5. CASE ~did_other_lose(engine[p]) /\ net' = net /\ over' = over
    <3>1. ~Finished(p)
      BY <2>3, <2>5 DEF Finished
    <3> QED
      BY <2>1, <2>2, <2>5, <3>1, KingsSameBoard
  <2> QED
    BY <2>1, <2>4, <2>5
<1> QED
  BY <1>3, <1>4, <1>5, <1>6


LEMMA KingsAcross ==
  \A p \in Player : /\ Across(p) \in Square /\ KingHome(p) \in Square
                    /\ Reverse(Across(p)) = KingHome(p)
                    /\ \A s \in Square : Reverse(s) = Across(p) => s = KingHome(p)
                    /\ \A s \in Square : Reverse(s) = KingHome(p) => s = Across(p)
<1> SUFFICES ASSUME NEW p \in Player
             PROVE  /\ Across(p) \in Square /\ KingHome(p) \in Square
                    /\ Reverse(Across(p)) = KingHome(p)
                    /\ \A s \in Square : Reverse(s) = Across(p) => s = KingHome(p)
                    /\ \A s \in Square : Reverse(s) = KingHome(p) => s = Across(p)
  OBVIOUS
<1>1. KingHome(p) \in Square
  BY HomeRow7
<1>2. Across(p) \in Square /\ Reverse(Across(p)) = KingHome(p)
  BY <1>1, ReverseSquare DEF Across
<1>3. ASSUME NEW s \in Square, Reverse(s) = Across(p) PROVE s = KingHome(p)
  BY <1>2, <1>3, ReverseSquare
<1>4. ASSUME NEW s \in Square, Reverse(s) = KingHome(p) PROVE s = Across(p)
  BY <1>2, <1>4, ReverseSquare DEF Across
<1> QED
  BY <1>1, <1>2, <1>3, <1>4

(* What is told of a promotion is not about a king at home.                   *)
LEMMA SendPromotionKings ==
  ASSUME TypeInv, KingsInv, NEW p \in Player, NEW kind \in Promotions, SendPromotion(p, kind)
  PROVE  KingsInv'
<1> DEFINE e == engine[p]
           q == Other(p)
<1>1. q \in Player /\ Other(q) = p /\ net[q] \in Seq(Message)
  BY OtherPlayer, Fields DEF TypeInv
<1>2. /\ Untouched(q) /\ UNCHANGED <<engine, click, over>>
      /\ stage[p] = "idle" /\ ~over[p] /\ Waiting(p) /\ stage'[p] = kind
      /\ net'[p] = net[p]
  BY SendPromotionStep
<1>3. PICK m \in Message :
        /\ m.op = "PROM" /\ m.kind = kind /\ Meant(m)
        /\ m.a = Reverse(engine[p].waiting.from) /\ m.b = Reverse(engine[p].waiting.to)
        /\ net'[Other(p)] = Append(net[Other(p)], m)
  BY PromotionTold
<1>4. stage'[p] \notin Telling /\ ~Finished(p)
  <2>1. "sendOpportunity" \notin Promotions /\ "sendMove" \notin Promotions
    BY StageNames DEF Steady
  <2>2. stage'[p] \notin Telling
    BY <1>2, <2>1 DEF Telling
  <2>3. ~Finished(p)
    BY <1>2 DEF Finished, Telling
  <2> QED
    BY <2>2, <2>3
<1>9. Spares(m, q)
  BY <1>3 DEF Spares
<1>10. Unmoved(p) => Leaves(m, p)
  <2>1. SUFFICES ASSUME Unmoved(p) PROVE m.a # Across(p) /\ m.b # Across(p)
    BY DEF Leaves
  <2>2. e.waiting.from # KingHome(p) /\ e.waiting.to # KingHome(p)
    BY <1>2, <2>1 DEF KingsInv, Undisturbed, Stays
  <2>3. e.waiting.from \in Square /\ e.waiting.to \in Square
    BY <1>2 DEF TypeInv, Orderly
  <2> QED
    BY <1>3, <2>2, <2>3, KingsAcross
<1>11. \A i \in DOMAIN net'[q] :
          \/ \E j \in DOMAIN net[q] : net'[q][i] = net[q][j]
          \/ /\ Unmoved(q) => Spares(net'[q][i], q)
             /\ Unmoved(p) => Leaves(net'[q][i], p)
  BY <1>1, <1>3, <1>9, <1>10, OldOrSent
<1>12. \A i \in DOMAIN net'[p] : \E j \in DOMAIN net[p] : net'[p][i] = net[p][j]
  BY <1>2
<1> QED
  BY <1>2, <1>4, <1>11, <1>12, KingsSameBoard

(* A promotion makes no king, and what waited was not one.                    *)
LEMMA PromoteKings ==
  ASSUME TypeInv, KingsInv, NEW p \in Player, Promote(p)
  PROVE  KingsInv'
<1> DEFINE e == engine[p]
           f == engine'[p]
           q == Other(p)
           to == engine[p].waiting.to
<1>1. q \in Player /\ Other(q) = p
      /\ e.board \in [Square -> Pieces] /\ e.player = p
  BY OtherPlayer, Fields, EngineFields DEF TypeInv, Orderly
<1>2. /\ Untouched(q) /\ UNCHANGED <<net, click, over, clicks>>
      /\ stage[p] \in Promotions /\ stage'[p] = "idle" /\ Waiting(p) /\ to \in Square
      /\ f.board = [e.board EXCEPT ![to] = <<e.player, stage[p]>>]
      /\ f.waiting = NoPromotion /\ f.player = e.player /\ f.kingMoved = e.kingMoved
  BY PromoteStep
<1>4. ASSUME NEW s \in Square, NEW c \in Player, f.board[s] = <<c, "KING">>
      PROVE  e.board[s] = <<c, "KING">> /\ s # to
  <2>1. <<e.player, stage[p]>> # <<c, "KING">>
    BY <1>1, <1>2, PromotedNotKing
  <2> QED
    BY <1>1, <1>2, <1>4, <2>1
<1>5. /\ \A c \in Player : Only(e.board, <<c, "KING">>)
      /\ KingUnmarkedAtHome(e)
  BY DEF KingsInv, Kept
<1>6. Kept(p)'
  <2>1. \A c \in Player : Only(f.board, <<c, "KING">>)
    BY <1>4, <1>5 DEF Only
  <2>2. KingUnmarkedAtHome(f)
    BY <1>1, <1>2, <1>4, <1>5 DEF KingUnmarkedAtHome
  <2> QED
    BY <2>1, <2>2 DEF Kept
<1>7. Unmoved(p)' => Unmoved(p) /\ Stays(p)'
  <2>1. Stays(p)'
    BY <1>2 DEF Stays, Waiting, Telling
  <2> QED
    BY <1>2, <1>4, <2>1, HomeRow7 DEF Unmoved
<1>8. ASSUME Unmoved(q)
      PROVE  /\ StandsAcross(q)'
             /\ stage'[p] \in Telling => click'[p].from # Across(q)
  <2>1. ~Finished(p)
    BY <1>2, StageNames DEF Finished, Telling, Steady
  <2>2. e.board[Across(q)] = <<q, "KING">> /\ to # Across(q)
    BY <1>1, <1>8, <2>1 DEF KingsInv, Undisturbed, StandsAcross
  <2>3. Across(q) \in Square
    BY <1>1, KingsAcross
  <2>4. f.board[Across(q)] = <<q, "KING">>
    BY <1>1, <1>2, <2>2, <2>3
  <2>5. f.waiting.to # Across(q)
    BY <1>2, <2>3 DEF NoPromotion, Square
  <2> QED
    BY <1>1, <1>2, <2>4, <2>5 DEF StandsAcross, Telling
<1>11. \A i \in DOMAIN net'[q] : \E j \in DOMAIN net[q] : net'[q][i] = net[q][j]
  BY <1>2
<1>12. \A i \in DOMAIN net'[p] : \E j \in DOMAIN net[p] : net'[p][i] = net[p][j]
  BY <1>2
<1> QED
  BY <1>2, <1>6, <1>7, <1>8, <1>11, <1>12, KingsFrom

(* A message read makes no king and moves none that is at home unmarked.      *)
LEMMA AppliedKings ==
  ASSUME NEW e \in EngineType, NEW f, NEW res, NEW m \in Message, Meant(m), NEW n,
         Applied(e, f, res, m, n), NEW c \in Player
  PROVE  /\ Only(e.board, <<c, "KING">>) => Only(f.board, <<c, "KING">>)
         /\ None(e.board, <<c, "KING">>) => None(f.board, <<c, "KING">>)
<1> DEFINE x == <<c, "KING">>
<1>1. e.board \in [Square -> Pieces] /\ e.player \in Player /\ x # Empty
  BY EngineFields, KingsArePieces
<1> HIDE DEF x
<1>2. CASE f.board = e.board
  BY <1>2 DEF x
<1>3. CASE m.op = "TO" /\ f.board = Relocated(e.board, m.a, m.b)
  <2>1. m.a \in Square /\ m.b \in Square
    BY <1>3 DEF Message, Meant
  <2> QED
    BY <1>1, <1>3, <2>1, OnlyRelocated, NoneRelocated DEF x
<1>4. CASE /\ m.op = "PROM"
           /\ f.board = PromotedBoard(e.board, m.a, m.b, <<Other(e.player), m.kind>>)
  <2> DEFINE piece == <<Other(e.player), m.kind>>
  <2>1. m.a \in Square /\ m.b \in Square /\ m.kind \in Promotions
    BY <1>4 DEF Message, Meant
  <2>2. piece # x
    BY <1>1, <2>1, OtherPlayer, PromotedNotKing DEF x
  <2> HIDE DEF piece
  <2>3. \A s \in Square : f.board[s] = x => e.board[s] = x
    BY <1>1, <1>4, <2>1, <2>2, PromotedAt DEF piece
  <2> QED
    BY <2>3 DEF Only, None, x
<1> QED
  BY <1>2, <1>3, <1>4 DEF Applied, Relocates, OnlyWalls


LEMMA ReceiveKings ==
  ASSUME TypeInv, KingsInv, NEW p \in Player, NEW n \in 1..MaxGlued, Receive(p, n)
  PROVE  KingsInv'
<1> DEFINE e == engine[p]
           f == engine'[p]
           q == Other(p)
           m == net[p][1]
<1>1. /\ q \in Player /\ Other(q) = p /\ e \in EngineType /\ e.player = p
      /\ e.board \in [Square -> Pieces] /\ net[p] \in Seq(Message)
  BY OtherPlayer, Fields, EngineFields DEF TypeInv, Orderly
<1>2. /\ Untouched(q) /\ net'[q] = net[q]
      /\ stage'[p] = stage[p] /\ click'[p] = click[p]
      /\ n \in 1..Len(net[p]) /\ net'[p] = SubSeq(net[p], n + 1, Len(net[p]))
  BY ReceiveStep
<1>3. PICK res : Applied(e, f, res, m, n) /\ over'[p] = (over[p] \/ res = "lost")
  BY ReceiveStep
<1>4. 1 \in DOMAIN net[p] /\ m \in Message /\ Meant(m)
  <2>1. 1 \in DOMAIN net[p]
    BY <1>1, <1>2
  <2> QED
    BY <1>1, <2>1 DEF TypeInv
<1>5. f.player = p /\ f.waiting = e.waiting /\ f.kingMoved = e.kingMoved
  BY <1>1, <1>3, AppliedKeeps
<1>6. /\ \A c \in Player : Only(e.board, <<c, "KING">>)
      /\ KingUnmarkedAtHome(e)
  BY DEF KingsInv, Kept
<1>7. m.op \in {"TO", "PROM"} => m.a \in Square /\ m.b \in Square
  BY <1>4 DEF Message, Meant
<1>8. \/ f.board = e.board
      \/ m.op = "TO" /\ f.board = Relocated(e.board, m.a, m.b)
      \/ /\ m.op = "PROM"
         /\ f.board = PromotedBoard(e.board, m.a, m.b, <<q, m.kind>>)
  BY <1>1, <1>3 DEF Applied, Relocates, OnlyWalls
<1>9. ASSUME ~e.kingMoved, NEW s \in Square, f.board[s] = <<p, "KING">>
      PROVE  e.board[s] = <<p, "KING">>
  <2>1. CASE f.board = e.board
    BY <1>9, <2>1
  <2>2. CASE m.op = "TO" /\ f.board = Relocated(e.board, m.a, m.b)
    <3> DEFINE b == e.board
               c == f.board
    <3>1. /\ s # m.a
          /\ c[s] = IF s = m.b THEN b[m.a] ELSE b[s]
      <4>1. b \in [Square -> Pieces] /\ c = Relocated(b, m.a, m.b) /\ c[s] # Empty
            /\ m.a \in Square /\ m.b \in Square
        BY <1>1, <1>7, <1>9, <2>2, KingsArePieces
      <4> HIDE DEF b, c, m
      <4> QED
        BY <4>1, StandsAfter
    <3>2. e.board[m.a] # <<p, "KING">>
      <4>1. SUFFICES ASSUME e.board[m.a] = <<p, "KING">> PROVE FALSE
        OBVIOUS
      <4>2. m.a = KingHome(p)
        BY <1>1, <1>6, <1>7, <1>9, <2>2, <4>1 DEF KingUnmarkedAtHome
      <4>3. Unmoved(p)
        BY <1>9, <4>1, <4>2 DEF Unmoved
      <4>4. Spares(m, p)
        BY <1>4, <4>3 DEF KingsInv, Undisturbed, Spared
      <4> QED
        BY <2>2, <4>2, <4>4 DEF Spares
    <3> QED
      BY <1>9, <3>1, <3>2
  <2>3. CASE /\ m.op = "PROM"
             /\ f.board = PromotedBoard(e.board, m.a, m.b, <<q, m.kind>>)
    <3> DEFINE piece == <<q, m.kind>>
               x == <<p, "KING">>
    <3>1. piece # x /\ x # Empty
      BY <1>1, KingsArePieces
    <3> HIDE DEF piece, x
    <3>2. f.board[s] = IF s = m.b THEN piece ELSE IF s = m.a THEN Empty ELSE e.board[s]
      BY <1>1, <1>7, <2>3, PromotedAt DEF piece
    <3>3. f.board[s] = x
      BY <1>9 DEF x
    <3>4. e.board[s] = x
      BY <3>1, <3>2, <3>3
    <3> QED
      BY <3>4 DEF x
  <2> QED
    BY <1>8, <2>1, <2>2, <2>3
<1>10. Kept(p)'
  <2>1. \A c \in Player : Only(f.board, <<c, "KING">>)
    BY <1>1, <1>3, <1>4, <1>6, AppliedKings
  <2>2. KingUnmarkedAtHome(f)
    BY <1>1, <1>5, <1>6, <1>9 DEF KingUnmarkedAtHome
  <2> QED
    BY <2>1, <2>2 DEF Kept
<1>11. Unmoved(p)' => Unmoved(p) /\ Stays(p)'
  <2>1. SUFFICES ASSUME Unmoved(p)' PROVE Unmoved(p) /\ Stays(p)'
    OBVIOUS
  <2>2. Unmoved(p)
    BY <1>5, <1>9, <2>1, HomeRow7 DEF Unmoved
  <2>3. Stays(p)
    BY <2>2 DEF KingsInv, Undisturbed
  <2> QED
    BY <1>2, <1>5, <2>2, <2>3 DEF Stays, Waiting
<1>12. ASSUME Unmoved(q)
       PROVE  /\ StandsAcross(q)'
              /\ stage'[p] \in Telling => click'[p].from # Across(q)
  <2>1. StandsAcross(q) /\ Spared(q) /\ Leaves(m, q)
    BY <1>1, <1>4, <1>12 DEF KingsInv, Undisturbed
  <2>2. ASSUME Finished(p) PROVE StandsAcross(q)'
    <3>1. None(f.board, <<q, "KING">>)
      BY <1>1, <1>3, <1>4, <2>2, AppliedKings DEF Finished
    <3>2. Finished(p)'
      BY <1>2, <1>3, <2>2, <3>1 DEF Finished
    <3> QED
      BY <1>1, <3>2 DEF StandsAcross
  <2>3. ASSUME e.board[Across(q)] = <<q, "KING">>, e.waiting.to # Across(q)
        PROVE  StandsAcross(q)'
    <3> DEFINE s == Across(q)
    <3>1. s \in Square
      BY <1>1, KingsAcross
    <3>2. m.op \in {"TO", "PROM"} => m.a # s /\ m.b # s
      BY <2>1 DEF Leaves
    <3> HIDE DEF s
    <3>3. f.board[s] = e.board[s]
      <4>1. CASE f.board = e.board
        BY <4>1
      <4>2. CASE m.op = "TO" /\ f.board = Relocated(e.board, m.a, m.b)
        BY <1>1, <1>7, <3>1, <3>2, <4>2 DEF Relocated
      <4>3. CASE /\ m.op = "PROM"
                 /\ f.board = PromotedBoard(e.board, m.a, m.b, <<q, m.kind>>)
        BY <1>1, <1>7, <3>1, <3>2, <4>3 DEF PromotedBoard
      <4> QED
        BY <1>8, <4>1, <4>2, <4>3
    <3> QED
      BY <1>1, <1>5, <2>3, <3>3 DEF StandsAcross, s
  <2>4. StandsAcross(q)'
    BY <1>1, <2>1, <2>2, <2>3 DEF StandsAcross
  <2> QED
    BY <1>1, <1>2, <2>1, <2>4 DEF Spared
<1>13. \A i \in DOMAIN net'[p] : \E j \in DOMAIN net[p] : net'[p][i] = net[p][j]
  BY <1>1, <1>2, Rest
<1>14. \A i \in DOMAIN net'[q] :
          \/ \E j \in DOMAIN net[q] : net'[q][i] = net[q][j]
          \/ /\ Unmoved(q) => Spares(net'[q][i], q)
             /\ Unmoved(p) => Leaves(net'[q][i], p)
  BY <1>2
<1> QED
  BY <1>2, <1>10, <1>11, <1>12, <1>13, <1>14, KingsFrom

(* A move decided.                                                            *)
LEMMA MoveKings ==
  ASSUME TypeInv, KingsInv, NEW p \in Player, Untouched(Other(p)), net' = net,
         stage[p] = "clicked", NEW res, Moved(p, res)
  PROVE  KingsInv'
<1> DEFINE e == engine[p]
           f == engine'[p]
           q == Other(p)
           from == click[p].from
           to == click[p].to
<1>1. /\ q \in Player /\ Other(q) = p /\ e \in EngineType /\ e.player = p
      /\ e.board \in [Square -> Pieces]
      /\ from \in Square /\ to \in Square /\ ~Waiting(p)
  BY OtherPlayer, Fields, EngineFields DEF TypeInv, Orderly
<1>2. /\ Outcome(e, f, res, from, to)
      /\ stage'[p] = AfterMove(res)
      /\ click'[p] = IF res \in {"PROMOTION", "PROMOTION_CAPTURE"} THEN NoClick ELSE click[p]
  BY DEF Moved
<1>3. f.player = p /\ f \in EngineType
  BY <1>1, <1>2 DEF Outcome, Always
<1>4. /\ \A c \in Player : Only(e.board, <<c, "KING">>)
      /\ KingUnmarkedAtHome(e)
  BY DEF KingsInv, Kept
<1>5. stage'[p] \in Telling => click'[p] = click[p] /\ res # "INVALID"
  BY <1>2, AfterMoveStages DEF Telling
<1>6. stage'[p] \in Telling \cup {"check"}
  BY <1>2, AfterMoveStages DEF Telling
<1>7. \/ f.waiting = NoPromotion
      \/ /\ f.waiting = [from |-> from, to |-> to] /\ e.board[from][2] = "PAWN"
         /\ f.board = Relocated(e.board, from, to) /\ res # "INVALID"
  BY <1>1, <1>2, WaitingAfter DEF Waiting
<1>8. Kept(p)'
  <2>1. Only(f.board, <<p, "KING">>)
    BY <1>1, <1>2, <1>4, OwnKingAfter
  <2>2. Only(f.board, <<q, "KING">>)
    <3>1. \A s \in Square : f.board[s] = <<q, "KING">> => e.board[s] = <<q, "KING">>
      BY <1>1, <1>2, TheirsAfter
    <3> QED
      BY <1>1, <1>4, <3>1 DEF Only
  <2>3. KingUnmarkedAtHome(f)
    BY <1>1, <1>2, <1>4, MoveKeepsKing
  <2> QED
    BY <2>1, <2>2, <2>3, BothPlayers DEF Kept
<1>9. ASSUME Unmoved(p)' PROVE Unmoved(p) /\ Stays(p)'
  <2>1. ~f.kingMoved /\ f.board[KingHome(p)] = <<p, "KING">>
    BY <1>9 DEF Unmoved
  <2>2. /\ ~e.kingMoved /\ e.board[KingHome(p)] = <<p, "KING">>
        /\ res # "INVALID" => from # KingHome(p) /\ to # KingHome(p)
    <3>1. e.player = p
      BY <1>1
    <3> HIDE DEF e, f, from, to
    <3> QED
      BY <1>1, <1>2, <2>1, <3>1, HomeLeftAlone
  <2>3. Waiting(p)' => f.waiting = [from |-> from, to |-> to] /\ res # "INVALID"
    BY <1>7 DEF Waiting
  <2> QED
    BY <1>5, <2>2, <2>3 DEF Unmoved, Stays
<1>10. ASSUME Unmoved(q)
       PROVE  /\ StandsAcross(q)'
              /\ stage'[p] \in Telling => click'[p].from # Across(q)
  <2> DEFINE s == Across(q)
             x == <<q, "KING">>
  <2>1. ~Finished(p)
    BY DEF Finished, Telling
  <2>2. e.board[s] = x
    BY <1>1, <1>10, <2>1 DEF KingsInv, Undisturbed, StandsAcross
  <2>3. s \in Square /\ x[1] = q /\ q # p /\ x # Empty
    BY <1>1, KingsAcross, KingsArePieces, OtherPlayer
  <2>4. Only(e.board, x)
    BY <1>1, <1>4
  <2>5. res # "INVALID" => from # s
    BY <1>1, <1>2, <2>2, <2>3 DEF Outcome, Refused
  <2>6. StandsAcross(q)'
    <3>1. \A t \in Square : f.board[t] = x => t = s
      <4>1. \A t \in Square : f.board[t] = x => e.board[t] = x
        BY <1>1, <1>2, TheirsAfter
      <4> HIDE DEF s, x
      <4> QED
        BY <2>2, <2>3, <2>4, <4>1 DEF Only
    <3>2. CASE f.board[s] = x
      <4>1. f.waiting.to # s
        <5>1. CASE f.waiting = NoPromotion
          <6> HIDE DEF s
          <6> QED
            BY <2>3, <5>1 DEF NoPromotion, Square
        <5>2. CASE /\ f.waiting = [from |-> from, to |-> to] /\ e.board[from][2] = "PAWN"
                   /\ f.board = Relocated(e.board, from, to)
          <6>1. f.board[s] = IF s = to THEN e.board[from] ELSE e.board[s]
            <7> HIDE DEF s, x
            <7> QED
              BY <1>1, <2>3, <3>2, <5>2, StandsAfter
          <6>2. x[2] = "KING"
            OBVIOUS
          <6>3. to # s
            BY <3>2, <5>2, <6>1, <6>2
          <6> QED
            BY <5>2, <6>3
        <5> QED
          BY <1>7, <5>1, <5>2
      <4> QED
        BY <1>1, <3>2, <4>1 DEF StandsAcross
    <3>3. CASE f.board[s] # x
      <4>1. None(f.board, x)
        BY <3>1, <3>3 DEF None
      <4>2. Finished(p)'
        BY <1>6, <4>1 DEF Finished
      <4> QED
        BY <1>1, <4>2 DEF StandsAcross
    <3> QED
      BY <3>2, <3>3
  <2> QED
    BY <1>5, <2>5, <2>6
<1>11. /\ \A i \in DOMAIN net'[p] : \E j \in DOMAIN net[p] : net'[p][i] = net[p][j]
       /\ \A i \in DOMAIN net'[q] :
            \/ \E j \in DOMAIN net[q] : net'[q][i] = net[q][j]
            \/ /\ Unmoved(q) => Spares(net'[q][i], q)
               /\ Unmoved(p) => Leaves(net'[q][i], p)
  OBVIOUS
<1> QED
  BY <1>8, <1>9, <1>10, <1>11, KingsFrom


LEMMA OnlyIsOne ==
  ASSUME NEW e \in EngineType, NEW c \in Player
  PROVE  Only(e.board, <<c, "KING">>) <=> Cardinality(Kings(e, c)) <= 1
<1> DEFINE x == <<c, "KING">>
           S == Kings(e, c)
<1>1. IsFiniteSet(S) /\ Cardinality(S) \in Nat
  BY SquaresFinite DEF Kings, Squares
<1>2. \A s \in Square : s \in S <=> e.board[s] = x
  BY DEF Kings, Squares
<1>3. S \subseteq Square
  BY DEF Kings, Squares
<1> HIDE DEF S, x
<1>4. ASSUME Only(e.board, x) PROVE Cardinality(S) <= 1
  <2>1. CASE S = {}
    BY <2>1, FS_EmptySet
  <2>2. ASSUME NEW s \in S PROVE Cardinality(S) <= 1
    <3>1. S = {s}
      BY <1>2, <1>3, <1>4, <2>2 DEF Only
    <3> QED
      BY <3>1, FS_Singleton
  <2> QED
    BY <2>1, <2>2
<1>5. ASSUME Cardinality(S) <= 1, NEW s \in Square, NEW t \in Square, e.board[s] = x,
             e.board[t] = x
      PROVE  s = t
  <2>1. s \in S /\ t \in S
    BY <1>2, <1>5
  <2>2. IsFiniteSet(S \ {s}) /\ Cardinality(S \ {s}) = Cardinality(S) - 1
    BY <1>1, <2>1, FS_RemoveElement
  <2>3. Cardinality(S \ {s}) \in Nat
    BY <2>2, FS_CardinalityType
  <2>4. Cardinality(S \ {s}) = 0
    BY <1>1, <1>5, <2>2, <2>3
  <2>5. S \ {s} = {}
    BY <2>2, <2>4, FS_EmptySet
  <2> QED
    BY <2>1, <2>5
<1> QED
  BY <1>4, <1>5 DEF Only, S, x

LEMMA InitKings == Init => KingsInv
<1> SUFFICES ASSUME Init PROVE KingsInv
  OBVIOUS
<1>1. PICK e \in Starts :
        engine = [p \in Player |-> IF p = "W" THEN e ELSE Opposite(e)]
  BY DEF Init
<1>2. /\ Playable(e) /\ Playable(Opposite(e)) /\ e.player = "W"
      /\ \A c \in Player : Cardinality(Kings(e, c)) <= 1
  BY StartsAssumption
<1> DEFINE o == Opposite(e)
<1>3. e \in EngineType /\ o \in EngineType /\ e.waiting = NoPromotion /\ o.waiting = NoPromotion
  BY <1>2 DEF Playable
<1>4. o.player = "B" /\ o.board = MirrorBoard(e.board)
  <2>1. Opposite(e).player = Other(e.player) /\ Opposite(e).board = MirrorBoard(e.board)
    BY <1>3 DEF Opposite, EngineType
  <2> QED
    BY <1>2, <2>1 DEF Other
<1>5. Playable(o)
  BY <1>2
<1> HIDE DEF o
<1>6. \A s \in Square : o.board[s] = e.board[Reverse(s)] /\ e.board[s] = o.board[Reverse(s)]
  BY <1>4, ReverseSquare DEF MirrorBoard
<1>7. engine["W"] = e /\ engine["B"] = o /\ Player = {"W", "B"}
      /\ Other("W") = "B" /\ Other("B") = "W"
  BY <1>1 DEF Player, Other, o
<1>8. \A c \in Player : Only(e.board, <<c, "KING">>) /\ Only(o.board, <<c, "KING">>)
  <2>1. \A c \in Player : Only(e.board, <<c, "KING">>)
    BY <1>2, <1>3, OnlyIsOne
  <2>2. ASSUME NEW x, Only(e.board, x) PROVE Only(o.board, x)
    <3>1. SUFFICES ASSUME NEW s \in Square, NEW t \in Square, o.board[s] = x, o.board[t] = x
                   PROVE  s = t
      BY DEF Only
    <3>2. Reverse(s) = Reverse(t)
      BY <1>6, <2>2, <3>1, ReverseSquare DEF Only
    <3> QED
      BY <3>1, <3>2, ReverseSquare
  <2> QED
    BY <2>1, <2>2
<1>9. KingUnmarkedAtHome(e) /\ KingUnmarkedAtHome(o)
  BY <1>2, <1>5 DEF Playable, Own, Squares, KingUnmarkedAtHome
<1>10. \A p \in Player :
          /\ net[p] = <<>> /\ stage[p] = "idle" /\ engine[p].waiting = NoPromotion
  BY <1>3, <1>7 DEF Init
<1>11. ASSUME NEW p \in Player, Unmoved(p) PROVE Undisturbed(p)
  <2>1. Other(p) \in Player
    BY OtherPlayer
  <2>2. engine[Other(p)].board[Across(p)] = <<p, "KING">>
    <3>1. KingHome(p) \in Square /\ engine[p].board[KingHome(p)] = <<p, "KING">>
      BY <1>11, HomeRow7 DEF Unmoved
    <3>2. engine[Other(p)].board[Reverse(KingHome(p))] = engine[p].board[KingHome(p)]
      BY <1>6, <1>7, <3>1
    <3> QED
      BY <3>1, <3>2 DEF Across
  <2>3. engine[Other(p)].waiting.to # Across(p)
    <3>1. Across(p) \in Square /\ engine[Other(p)].waiting = NoPromotion
      BY <1>10, <2>1, KingsAcross
    <3> QED
      BY <3>1 DEF NoPromotion, Square
  <2>4. StandsAcross(p)
    BY <2>2, <2>3 DEF StandsAcross
  <2>5. Spared(p) /\ Stays(p)
    BY <1>10, <2>1 DEF Spared, Stays, Telling, Waiting
  <2>6. \A i \in DOMAIN net[Other(p)] : Leaves(net[Other(p)][i], p)
    BY <1>10, <2>1
  <2> QED
    BY <2>4, <2>5, <2>6 DEF Undisturbed
<1>12. \A p \in Player : Kept(p)
  BY <1>7, <1>8, <1>9 DEF Kept
<1> QED
  BY <1>11, <1>12 DEF KingsInv

LEMMA NextKings == TypeInv /\ KingsInv /\ [Next]_vars => KingsInv'
<1> SUFFICES ASSUME TypeInv, KingsInv, [Next]_vars PROVE KingsInv'
  OBVIOUS
<1>1. CASE UNCHANGED vars
  BY <1>1 DEF KingsInv, Kept, Unmoved, Undisturbed, StandsAcross, Finished, Spared, Stays,
              Spares, Leaves, Waiting, KingUnmarkedAtHome, vars
<1>2. ASSUME NEW p \in Player, Decide(p) PROVE KingsInv'
  <2>1. /\ Untouched(Other(p)) /\ net' = net /\ stage[p] = "clicked"
        /\ \/ OnlyWalls(engine[p], engine'[p]) /\ stage'[p] = "sendWall"
           \/ \E res : Moved(p, res)
    BY <1>2, DecideStep
  <2> QED
    BY <2>1, BuildKings, MoveKings
<1>3. CASE Next
  <2>1. PICK p \in Player :
            \/ \E n \in 1..MaxGlued : Receive(p, n)
            \/ \E from, to \in Square, wall \in BOOLEAN : Click(p, from, to, wall)
            \/ WallsOverwritten(p) \/ CheckTimeouts(p)
            \/ Decide(p) \/ SendOpportunity(p) \/ SendMove(p) \/ SendWall(p) \/ Check(p)
            \/ Promote(p) \/ \E kind \in Promotions : SendPromotion(p, kind)
    BY <1>3, NextCases
  <2> QED
    BY <1>2, <2>1, ReceiveKings, ClickKings, QuietKings, SendKings, PromoteKings,
       SendPromotionKings
<1> QED
  BY <1>1, <1>3

LEMMA KingsAlways == Spec => [](TypeInv /\ KingsInv)
<1>1. Init => TypeInv /\ KingsInv
  BY InitTypes, InitKings
<1>2. TypeInv /\ KingsInv /\ [Next]_vars => (TypeInv /\ KingsInv)'
  BY NextTypes, NextKings
<1> QED
  BY <1>1, <1>2, PTL DEF Spec

(* Neither board ever shows two kings of a colour, whatever crosses, is glued
   together or is lost: a castling that writes a king without looking where it
   was finds it at home, since nothing that the other tells moves a king that
   has not moved (engine.cpp:29-32, 597-652; game.cpp:50-54).                 *)
THEOREM NeverTwoKings == Spec => []OneKing
<1>1. TypeInv /\ KingsInv => OneKing
  <2>1. SUFFICES ASSUME TypeInv, KingsInv, NEW p \in Player, NEW c \in Player
                 PROVE  Cardinality(Kings(engine[p], c)) <= 1
    BY DEF OneKing
  <2>2. engine[p] \in EngineType /\ Only(engine[p].board, <<c, "KING">>)
    BY <2>1, Fields DEF TypeInv, KingsInv, Kept
  <2> QED
    BY <2>2, OnlyIsOne
<1> QED
  BY <1>1, KingsAlways, PTL


-----------------------------------------------------------------------------
(* The end of the game.

   LOSE is on its way only when the sender's board has lost the other's king,
   and no king that is gone from a board comes back to it.                    *)

KingGone(p) == None(engine[p].board, <<Other(p), "KING">>)

EndInv ==
    \A p \in Player :
        /\ \A i \in DOMAIN net[p] : net[p][i].op = "LOSE" => KingGone(Other(p))
        /\ over[p] => KingGone(p) \/ KingGone(Other(p))

LEMMA EndFrom ==
  ASSUME EndInv, NEW p \in Player, Untouched(Other(p)),
         KingGone(p) => KingGone(p)',
         \A i \in DOMAIN net'[p] : \E j \in DOMAIN net[p] : net'[p][i] = net[p][j],
         \A i \in DOMAIN net'[Other(p)] :
            \/ \E j \in DOMAIN net[Other(p)] : net'[Other(p)][i] = net[Other(p)][j]
            \/ net'[Other(p)][i].op = "LOSE" => KingGone(p),
         over'[p] => \/ over[p] \/ KingGone(p)
                     \/ \E j \in DOMAIN net[p] : net[p][j].op = "LOSE"
  PROVE  EndInv'
<1> DEFINE q == Other(p)
<1>1. q \in Player /\ Other(q) = p
  BY OtherPlayer
<1>2. (KingGone(q)' <=> KingGone(q)) /\ over'[q] = over[q]
  BY <1>1 DEF Untouched, KingGone
<1> HIDE DEF q
<1>3. /\ \A i \in DOMAIN net[p] : net[p][i].op = "LOSE" => KingGone(q)
      /\ \A i \in DOMAIN net[q] : net[q][i].op = "LOSE" => KingGone(p)
      /\ over[p] => KingGone(p) \/ KingGone(q)
      /\ over[q] => KingGone(q) \/ KingGone(p)
  BY <1>1 DEF EndInv, q
<1>4. \A i \in DOMAIN net'[p] : net'[p][i].op = "LOSE" => KingGone(q)'
  BY <1>2, <1>3
<1>5. \A i \in DOMAIN net'[q] : net'[q][i].op = "LOSE" => KingGone(p)'
  BY <1>3 DEF q
<1>6. over'[p] => KingGone(p)' \/ KingGone(q)'
  BY <1>2, <1>3
<1>7. over'[q] => KingGone(q)' \/ KingGone(p)'
  BY <1>2, <1>3
<1>8. ASSUME NEW r \in Player
      PROVE  /\ \A i \in DOMAIN net'[r] : net'[r][i].op = "LOSE" => KingGone(Other(r))'
             /\ over'[r] => KingGone(r)' \/ KingGone(Other(r))'
  <2>1. CASE r = p
    BY <1>4, <1>6, <2>1 DEF q
  <2>2. CASE r = q
    BY <1>1, <1>5, <1>7, <2>2
  <2> QED
    BY <2>1, <2>2, BothPlayers DEF q
<1> QED
  BY <1>8 DEF EndInv

LEMMA NextEnd == TypeInv /\ EndInv /\ [Next]_vars => EndInv'
<1> SUFFICES ASSUME TypeInv, EndInv, [Next]_vars PROVE EndInv'
  OBVIOUS
<1>1. CASE UNCHANGED vars
  BY <1>1 DEF EndInv, KingGone, vars
<1>2. ASSUME NEW p \in Player
      PROVE  /\ Other(p) \in Player /\ engine[p] \in EngineType /\ engine[p].player = p
             /\ net[p] \in Seq(Message) /\ net[Other(p)] \in Seq(Message)
             /\ click[p].from \in Square /\ click[p].to \in Square
             /\ engine[p].board \in [Square -> Pieces]
  BY OtherPlayer, Fields, EngineFields DEF TypeInv, Orderly
<1>3. ASSUME NEW p \in Player, NEW n \in 1..MaxGlued, Receive(p, n) PROVE EndInv'
  <2>1. /\ Untouched(Other(p)) /\ net'[Other(p)] = net[Other(p)]
        /\ n \in 1..Len(net[p]) /\ net'[p] = SubSeq(net[p], n + 1, Len(net[p]))
    BY <1>3, ReceiveStep
  <2>2. PICK res : /\ Applied(engine[p], engine'[p], res, net[p][1], n)
                   /\ over'[p] = (over[p] \/ res = "lost")
    BY <1>3, ReceiveStep
  <2>3. 1 \in DOMAIN net[p] /\ net[p][1] \in Message /\ Meant(net[p][1])
    <3>1. 1 \in DOMAIN net[p]
      BY <1>2, <2>1
    <3>2. net[p][1] \in Message
      BY <1>2, <3>1
    <3>3. Meant(net[p][1])
      BY <3>1 DEF TypeInv
    <3> QED
      BY <3>1, <3>2, <3>3
  <2>4. res = "lost" => net[p][1].op = "LOSE"
    BY <2>2 DEF Applied
  <2>5. KingGone(p) => KingGone(p)'
    BY <1>2, <2>2, <2>3, AppliedKings DEF KingGone
  <2>6. \A i \in DOMAIN net'[p] : \E j \in DOMAIN net[p] : net'[p][i] = net[p][j]
    BY <1>2, <2>1, Rest
  <2>7. over'[p] => over[p] \/ \E j \in DOMAIN net[p] : net[p][j].op = "LOSE"
    BY <2>2, <2>3, <2>4
  <2>8. \A i \in DOMAIN net'[Other(p)] :
            \E j \in DOMAIN net[Other(p)] : net'[Other(p)][i] = net[Other(p)][j]
    BY <2>1
  <2> QED
    BY <2>1, <2>5, <2>6, <2>7, <2>8, EndFrom
<1>4. ASSUME NEW p \in Player, Untouched(Other(p)), net' = net, over' = over,
             KingGone(p) => KingGone(p)'
      PROVE  EndInv'
  BY <1>4, EndFrom
<1>5. ASSUME NEW p \in Player, Untouched(Other(p)), over' = over, net'[p] = net[p],
             NEW m \in Message, m.op # "LOSE", net'[Other(p)] = Append(net[Other(p)], m),
             KingGone(p) => KingGone(p)'
      PROVE  EndInv'
  <2>1. \A i \in DOMAIN net'[Other(p)] :
            \/ \E j \in DOMAIN net[Other(p)] : net'[Other(p)][i] = net[Other(p)][j]
            \/ net'[Other(p)][i].op = "LOSE" => KingGone(p)
    BY <1>2, <1>5, OldOrSent
  <2> QED
    BY <1>5, <2>1, EndFrom
<1>6. ASSUME NEW p \in Player, NEW from \in Square, NEW to \in Square, NEW wall \in BOOLEAN,
             Click(p, from, to, wall)
      PROVE  EndInv'
  BY <1>4, <1>6, ClickStep DEF KingGone
<1>7. ASSUME NEW p \in Player, WallsOverwritten(p) \/ CheckTimeouts(p) PROVE EndInv'
  BY <1>4, <1>7, WallsOverwrittenStep, CheckTimeoutsStep DEF KingGone
<1>8. ASSUME NEW p \in Player, Decide(p) PROVE EndInv'
  <2>1. /\ Untouched(Other(p)) /\ net' = net /\ over' = over
        /\ \/ OnlyWalls(engine[p], engine'[p])
           \/ \E res : Moved(p, res)
    BY <1>8, DecideStep
  <2>2. ASSUME NEW res, Moved(p, res), KingGone(p) PROVE KingGone(p)'
    <3>1. Outcome(engine[p], engine'[p], res, click[p].from, click[p].to)
      BY <2>2 DEF Moved
    <3>2. \A s \in Square : engine'[p].board[s] = <<Other(p), "KING">> =>
                                engine[p].board[s] = <<Other(p), "KING">>
      <4> DEFINE e == engine[p]
                 f == engine'[p]
                 from == click[p].from
                 to == click[p].to
      <4>1. e \in EngineType /\ e.player = p /\ from \in Square /\ to \in Square
        BY <1>2
      <4>2. Outcome(e, f, res, from, to)
        BY <3>1
      <4> HIDE DEF e, f, from, to
      <4>3. \A s \in Square : f.board[s] = <<Other(p), "KING">> =>
                                  e.board[s] = <<Other(p), "KING">>
        BY <4>1, <4>2, TheirsAfter
      <4> QED
        BY <4>3 DEF e, f
    <3> QED
      BY <2>2, <3>2 DEF KingGone, None
  <2>3. KingGone(p) => KingGone(p)'
    BY <2>1, <2>2 DEF OnlyWalls, KingGone
  <2> QED
    BY <1>4, <2>1, <2>3
<1>9. ASSUME NEW p \in Player, SendOpportunity(p) PROVE EndInv'
  <2>1. Untouched(Other(p)) /\ UNCHANGED <<engine, over>> /\ net'[p] = net[p]
    BY <1>9, SendOpportunityStep
  <2>2. PICK m \in Message : m.op = "ENPS" /\ net'[Other(p)] = Append(net[Other(p)], m)
    BY <1>9, SendOpportunityStep
  <2> QED
    BY <1>5, <2>1, <2>2 DEF KingGone
<1>10. ASSUME NEW p \in Player, NEW op \in {"TO", "WALL"}, TellsClick(p, op),
              Untouched(Other(p)), UNCHANGED <<engine, over>>
       PROVE  EndInv'
  <2>1. net'[p] = net[p]
    BY <1>10 DEF TellsClick
  <2>2. PICK m \in Message : m.op = op /\ net'[Other(p)] = Append(net[Other(p)], m)
    BY <1>10 DEF TellsClick
  <2> QED
    BY <1>5, <1>10, <2>1, <2>2 DEF KingGone
<1>11. ASSUME NEW p \in Player, SendMove(p) \/ SendWall(p) PROVE EndInv'
  BY <1>10, <1>11, SendMoveStep, SendWallStep
<1>12. ASSUME NEW p \in Player, Check(p) PROVE EndInv'
  <2>1. /\ Untouched(Other(p)) /\ engine' = engine /\ net'[p] = net[p]
        /\ \/ /\ did_other_lose(engine[p])
              /\ Lose \in Message /\ net'[Other(p)] = Append(net[Other(p)], Lose)
           \/ net' = net /\ over' = over
    BY <1>12, CheckStep
  <2>2. CASE /\ did_other_lose(engine[p])
             /\ Lose \in Message /\ net'[Other(p)] = Append(net[Other(p)], Lose)
    <3>1. KingGone(p)
      BY <1>2, <2>2 DEF KingGone, did_other_lose, None
    <3>2. \A i \in DOMAIN net'[Other(p)] :
            \/ \E j \in DOMAIN net[Other(p)] : net'[Other(p)][i] = net[Other(p)][j]
            \/ net'[Other(p)][i].op = "LOSE" => KingGone(p)
      BY <1>2, <2>2, <3>1, OldOrSent
    <3>3. KingGone(p)'
      BY <2>1, <3>1 DEF KingGone
    <3> QED
      BY <2>1, <3>1, <3>2, <3>3, EndFrom
  <2>3. CASE net' = net /\ over' = over
    BY <1>4, <2>1, <2>3 DEF KingGone
  <2> QED
    BY <2>1, <2>2, <2>3
<1>13. ASSUME NEW p \in Player, NEW kind \in Promotions, SendPromotion(p, kind)
       PROVE  EndInv'
  <2>1. Untouched(Other(p)) /\ UNCHANGED <<engine, over>> /\ net'[p] = net[p]
    BY <1>13, SendPromotionStep
  <2>2. PICK m \in Message :
          /\ m.op = "PROM" /\ m.kind = kind /\ Meant(m)
          /\ m.a = Reverse(engine[p].waiting.from) /\ m.b = Reverse(engine[p].waiting.to)
          /\ net'[Other(p)] = Append(net[Other(p)], m)
    BY <1>13, PromotionTold
  <2> QED
    BY <1>5, <2>1, <2>2 DEF KingGone
<1>15. ASSUME NEW p \in Player, Promote(p) PROVE EndInv'
  <2>1. /\ Untouched(Other(p)) /\ UNCHANGED <<net, over>>
        /\ engine[p].waiting.to \in Square /\ stage[p] \in Promotions
        /\ engine'[p].board = [engine[p].board EXCEPT
                                  ![engine[p].waiting.to] = <<engine[p].player, stage[p]>>]
    BY <1>15, PromoteStep
  <2>2. <<engine[p].player, stage[p]>> # <<Other(p), "KING">>
    BY <1>2, <2>1, PromotedNotKing
  <2>3. KingGone(p) => KingGone(p)'
    BY <1>2, <2>1, <2>2 DEF KingGone, None
  <2> QED
    BY <1>4, <2>1, <2>3
<1>14. CASE Next
  <2>1. PICK p \in Player :
            \/ \E n \in 1..MaxGlued : Receive(p, n)
            \/ \E from, to \in Square, wall \in BOOLEAN : Click(p, from, to, wall)
            \/ WallsOverwritten(p) \/ CheckTimeouts(p)
            \/ Decide(p) \/ SendOpportunity(p) \/ SendMove(p) \/ SendWall(p) \/ Check(p)
            \/ Promote(p) \/ \E kind \in Promotions : SendPromotion(p, kind)
    BY <1>14, NextCases
  <2> QED
    BY <1>3, <1>6, <1>7, <1>8, <1>9, <1>11, <1>12, <1>13, <1>15, <2>1
<1> QED
  BY <1>1, <1>14

(* A game is over only when a king has been taken, on this board or on the
   other: no text, glued or not, is taken for the end of a game that has not
   been won (game.cpp:65-78, 252-258).                                        *)
THEOREM OverIsEarned == Spec => []OverMeansKingTaken
<1>1. Init => TypeInv /\ EndInv
  <2>1. Init => EndInv
    BY DEF Init, EndInv
  <2> QED
    BY <2>1, InitTypes
<1>2. TypeInv /\ EndInv /\ [Next]_vars => (TypeInv /\ EndInv)'
  BY NextTypes, NextEnd
<1>3. TypeInv /\ EndInv => OverMeansKingTaken
  <2>1. SUFFICES ASSUME EndInv, NEW p \in Player, over[p]
                 PROVE  \/ Kings(engine[p], Other(p)) = {}
                        \/ Kings(engine[Other(p)], p) = {}
    BY DEF OverMeansKingTaken
  <2>2. KingGone(p) \/ KingGone(Other(p))
    BY <2>1 DEF EndInv
  <2>3. KingGone(p) => Kings(engine[p], Other(p)) = {}
    BY DEF KingGone, None, Kings, Squares
  <2>4. KingGone(Other(p)) => Kings(engine[Other(p)], p) = {}
    BY OtherPlayer DEF KingGone, None, Kings, Squares
  <2> QED
    BY <2>2, <2>3, <2>4
<1> QED
  BY <1>1, <1>2, <1>3, PTL DEF Spec


-----------------------------------------------------------------------------
(* Whose turn it is.

   Nothing in the code says so; but as long as nobody decides or promotes
   behind, at most one of the two has something to be told, and a pawn that
   waits is left where it is, until what it becomes has been told.            *)

ToldSoon(p) ==
    \/ \E i \in DOMAIN net[p] : net[p][i].op # "LOSE"
    \/ stage[Other(p)] \in Untold
    \/ Waiting(Other(p)) /\ stage[Other(p)] \notin Promotions

PawnWaits(p) ==
    Waiting(p) =>
        \/ engine[p].board[engine[p].waiting.to] = <<p, "PAWN">>
        \/ stage[p] \in Promotions /\ "overtaken" \in slips

TurnInv ==
    "crossed" \notin slips =>
        \A p \in Player : ~(ToldSoon(p) /\ ToldSoon(Other(p))) /\ PawnWaits(p)

(* What is read while a promotion is half made leaves its square alone, or has
   overtaken it.                                                              *)
LEMMA LeftAlone ==
  ASSUME NEW e \in EngineType, NEW f, NEW res, NEW m \in Message, Meant(m), NEW n,
         Applied(e, f, res, m, n), NEW to \in Square,
         ~(m.op \in {"TO", "PROM"} /\ to \in {m.a, m.b})
  PROVE  f.board[to] = e.board[to]
<1>1. e.board \in [Square -> Pieces] /\ m.a \in Square
  BY EngineFields DEF Message
<1>2. CASE f = e
  BY <1>2
<1>3. CASE OnlyWalls(e, f) \/ f.board = e.board
  BY <1>3 DEF OnlyWalls
<1>4. CASE m.op = "TO" /\ Relocates(e, f, m.a, m.b)
  <2>1. m.b \in Square
    BY <1>4 DEF Meant
  <2>2. f.board = Relocated(e.board, m.a, m.b) /\ to # m.a /\ to # m.b
    BY <1>4 DEF Relocates
  <2> QED
    BY <1>1, <2>1, <2>2, RelocatedAt
<1>5. CASE /\ m.op = "PROM"
           /\ f.board = PromotedBoard(e.board, m.a, m.b, <<Other(e.player), m.kind>>)
  <2>1. to # m.a /\ to # m.b
    BY <1>5
  <2> QED
    BY <1>1, <1>5, <2>1 DEF PromotedBoard
<1> QED
  BY <1>2, <1>3, <1>4, <1>5 DEF Applied

LEMMA TurnFrom ==
  ASSUME TypeInv, TurnInv, NEW p \in Player, Untouched(Other(p)), slips \subseteq slips',
         \A i \in DOMAIN net'[p] : \E j \in DOMAIN net[p] : net'[p][i] = net[p][j],
         "crossed" \notin slips' => (ToldSoon(Other(p))' => ToldSoon(Other(p)) \/ ~Behind(p)),
         "crossed" \notin slips' => PawnWaits(p)'
  PROVE  TurnInv'
<1> DEFINE q == Other(p)
<1>1. q \in Player /\ Other(q) = p /\ net[p] \in Seq(Message)
  BY OtherPlayer, Fields DEF TypeInv
<1> SUFFICES ASSUME "crossed" \notin slips'
             PROVE  \A r \in Player : ~(ToldSoon(r)' /\ ToldSoon(Other(r))') /\ PawnWaits(r)'
  BY DEF TurnInv
<1>2. ~(ToldSoon(p) /\ ToldSoon(q)) /\ PawnWaits(p) /\ PawnWaits(q)
  BY <1>1 DEF TurnInv
<1>3. PawnWaits(q)'
  BY <1>1, <1>2 DEF PawnWaits, Waiting, Untouched
<1>4. ToldSoon(p)' => ToldSoon(p)
  BY DEF ToldSoon, Waiting, Untouched
<1>5. ToldSoon(p) => Behind(p)
  BY <1>1 DEF ToldSoon, Behind, Waiting
<1>6. ~(ToldSoon(p)' /\ ToldSoon(q)') /\ PawnWaits(p)'
  BY <1>2, <1>4, <1>5
<1> HIDE DEF q
<1>7. ASSUME NEW r \in Player
      PROVE  ~(ToldSoon(r)' /\ ToldSoon(Other(r))') /\ PawnWaits(r)'
  <2>1. CASE r = p
    BY <1>6, <2>1 DEF q
  <2>2. CASE r = q
    BY <1>1, <1>3, <1>6, <2>2
  <2> QED
    BY <2>1, <2>2, BothPlayers DEF q
<1> QED
  BY <1>7

(* The pawn that reaches the last row is there when it is promoted.           *)
LEMMA PawnArrives ==
  ASSUME NEW e \in EngineType, NEW f, NEW res, NEW from \in Square, NEW to \in Square,
         Outcome(e, f, res, from, to), f.waiting # e.waiting
  PROVE  f.waiting.to = to /\ f.board[to] = <<e.player, "PAWN">>
<1> DEFINE b == e.board
<1>1. /\ f.waiting = [from |-> from, to |-> to]
      /\ b[from][2] = "PAWN" /\ f.board = Relocated(b, from, to)
  BY WaitingAfter
<1>2. b \in [Square -> Pieces] /\ e.player \in Player
  BY EngineFields
<1>3. Stepped(e, f, res, from, to) \/ Took(e, f, res, from, to)
  BY DEF Outcome, Refused, Void, Passed, Castled
<1>4. b[from][1] = e.player /\ from # to
  <2>1. b[from][1] = e.player
    BY <1>3 DEF Outcome, Refused, Stepped, Took
  <2>2. b[to] = Empty \/ b[to][1] = Other(e.player)
    BY <1>3 DEF Stepped, Took, is_other_player_piece
  <2>3. b[to] = Empty => b[to][2] # "PAWN"
    <3>1. Empty[2] = ""
      BY DEF Empty
    <3> HIDE DEF b
    <3> QED
      BY <3>1
  <2> QED
    BY <1>1, <1>2, <2>1, <2>2, <2>3, OtherPlayer
<1>5. b[from] = <<e.player, "PAWN">>
  <2>1. b[from] \in Pieces
    BY <1>2
  <2> HIDE DEF b
  <2> QED
    BY <1>1, <1>4, <2>1, PieceCases
<1>6. f.board[to] = b[from]
  BY <1>1, <1>2, <1>4, RelocatedAt
<1> QED
  BY <1>1, <1>5, <1>6


LEMMA NextTurn == TypeInv /\ TurnInv /\ [Next]_vars => TurnInv'
<1> SUFFICES ASSUME TypeInv, TurnInv, [Next]_vars PROVE TurnInv'
  OBVIOUS
<1>1. CASE UNCHANGED vars
  BY <1>1 DEF TurnInv, ToldSoon, PawnWaits, Waiting, vars
<1>2. ASSUME NEW p \in Player
      PROVE  /\ Other(p) \in Player /\ Other(Other(p)) = p
             /\ engine[p] \in EngineType /\ engine[p].player = p
             /\ net[p] \in Seq(Message) /\ net[Other(p)] \in Seq(Message)
             /\ click[p].from \in Square /\ click[p].to \in Square
  BY OtherPlayer, Fields DEF TypeInv, Orderly
<1>3. ASSUME NEW p \in Player, "crossed" \notin slips
      PROVE  PawnWaits(p) /\ ~(ToldSoon(p) /\ ToldSoon(Other(p)))
  BY <1>3 DEF TurnInv
<1>20. Untold \cap Promotions = {} /\ {"idle", "clicked", "check"} \cap Promotions = {}
  BY StageNames DEF Steady, Untold
<1>4. ASSUME NEW p \in Player, NEW n \in 1..MaxGlued, Receive(p, n) PROVE TurnInv'
  <2> DEFINE e == engine[p]
             f == engine'[p]
             m == net[p][1]
  <2>1. /\ Untouched(Other(p)) /\ net'[Other(p)] = net[Other(p)] /\ slips \subseteq slips'
        /\ stage'[p] = stage[p]
        /\ n \in 1..Len(net[p]) /\ net'[p] = SubSeq(net[p], n + 1, Len(net[p]))
        /\ Overtakes(p, m) => "overtaken" \in slips'
    BY <1>4, ReceiveStep
  <2>2. PICK res : Applied(e, f, res, m, n)
    BY <1>4, ReceiveStep
  <2>3. f.waiting = e.waiting
    BY <1>2, <2>2, AppliedKeeps
  <2>4. \A i \in DOMAIN net'[p] : \E j \in DOMAIN net[p] : net'[p][i] = net[p][j]
    BY <1>2, <2>1, Rest
  <2>5. ToldSoon(Other(p))' => ToldSoon(Other(p))
    BY <1>2, <2>1, <2>3 DEF ToldSoon, Waiting
  <2>6. ASSUME "crossed" \notin slips' PROVE PawnWaits(p)'
    <3>1. SUFFICES ASSUME Waiting(p)
                   PROVE  \/ f.board[f.waiting.to] = <<p, "PAWN">>
                          \/ stage[p] \in Promotions /\ "overtaken" \in slips'
      BY <2>1, <2>3 DEF PawnWaits, Waiting
    <3>2. PawnWaits(p) /\ ~(ToldSoon(p) /\ ToldSoon(Other(p)))
      BY <1>3, <2>1, <2>6
    <3>3. CASE stage[p] \in Promotions
      <4>1. CASE Overtakes(p, m)
        BY <2>1, <3>3, <4>1
      <4>2. CASE ~Overtakes(p, m)
        <5>1. e.waiting.to \in Square /\ e \in EngineType
          BY <1>2, <3>1 DEF TypeInv, Orderly
        <5>2. 1 \in DOMAIN net[p]
          BY <1>2, <2>1
        <5>3. m \in Message /\ Meant(m)
          BY <1>2, <5>2 DEF TypeInv
        <5>4. ~(m.op \in {"TO", "PROM"} /\ e.waiting.to \in {m.a, m.b})
          BY <3>3, <4>2 DEF Overtakes
        <5>5. f.board[e.waiting.to] = e.board[e.waiting.to]
          BY <2>2, <5>1, <5>3, <5>4, LeftAlone
        <5> QED
          BY <2>1, <2>3, <3>1, <3>2, <3>3, <5>5 DEF PawnWaits
      <4> QED
        BY <4>1, <4>2
    <3>4. CASE stage[p] \notin Promotions
      <4>1. ~ToldSoon(p)
        BY <1>2, <3>1, <3>2, <3>4 DEF ToldSoon
      <4>2. 1 \in DOMAIN net[p]
        BY <1>2, <2>1
      <4>3. m.op = "LOSE"
        BY <4>1, <4>2 DEF ToldSoon
      <4>4. f.board = e.board
        BY <2>2, <4>3 DEF Applied, OnlyWalls
      <4> QED
        BY <2>3, <3>1, <3>2, <3>4, <4>4 DEF PawnWaits
    <3> QED
      BY <3>3, <3>4
  <2> QED
    BY <2>1, <2>4, <2>5, <2>6, TurnFrom
<1>5. ASSUME NEW p \in Player, Untouched(Other(p)), net' = net, slips \subseteq slips',
             engine'[p].board = engine[p].board, engine'[p].waiting = engine[p].waiting,
             stage'[p] \in Untold => stage[p] \in Untold,
             stage[p] \in Promotions => stage'[p] \in Promotions
      PROVE  TurnInv'
  <2>1. ToldSoon(Other(p))' => ToldSoon(Other(p))
    BY <1>2, <1>5 DEF ToldSoon, Waiting
  <2>2. "crossed" \notin slips' => PawnWaits(p)'
    BY <1>3, <1>5 DEF PawnWaits, Waiting
  <2>3. \A i \in DOMAIN net'[p] : \E j \in DOMAIN net[p] : net'[p][i] = net[p][j]
    BY <1>5
  <2> QED
    BY <1>5, <2>1, <2>2, <2>3, TurnFrom
<1>6. ASSUME NEW p \in Player, Untouched(Other(p)), net'[p] = net[p], slips' = slips,
             engine' = engine, NEW m \in Message, net'[Other(p)] = Append(net[Other(p)], m),
             stage[p] \in Untold
      PROVE  TurnInv'
  <2>1. ToldSoon(Other(p))
    BY <1>2, <1>6 DEF ToldSoon
  <2>2. "crossed" \notin slips' => PawnWaits(p)'
    BY <1>3, <1>6, <1>20 DEF PawnWaits, Waiting
  <2>3. \A i \in DOMAIN net'[p] : \E j \in DOMAIN net[p] : net'[p][i] = net[p][j]
    BY <1>6
  <2> QED
    BY <1>6, <2>1, <2>2, <2>3, TurnFrom
<1>7. ASSUME NEW p \in Player, NEW from \in Square, NEW to \in Square, NEW wall \in BOOLEAN,
             Click(p, from, to, wall)
      PROVE  TurnInv'
  <2>1. /\ Untouched(Other(p)) /\ UNCHANGED <<engine, net, slips>>
        /\ stage[p] = "idle" /\ stage'[p] = "clicked"
    BY <1>7, ClickStep
  <2> QED
    BY <1>5, <1>20, <2>1 DEF Untold
<1>8. ASSUME NEW p \in Player, WallsOverwritten(p) \/ CheckTimeouts(p) PROVE TurnInv'
  <2>1. /\ Untouched(Other(p)) /\ UNCHANGED <<net, stage>> /\ slips \subseteq slips'
        /\ engine'[p].board = engine[p].board /\ engine'[p].waiting = engine[p].waiting
    BY <1>8, WallsOverwrittenStep, CheckTimeoutsStep
  <2> QED
    BY <1>5, <2>1
<1>9. ASSUME NEW p \in Player, Decide(p) PROVE TurnInv'
  <2>1. /\ Untouched(Other(p)) /\ net' = net /\ stage[p] = "clicked" /\ slips \subseteq slips'
        /\ Behind(p) => "crossed" \in slips'
        /\ \/ OnlyWalls(engine[p], engine'[p])
           \/ \E res : Moved(p, res)
    BY <1>9, DecideStep
  <2>2. ~Waiting(p)
    BY <2>1 DEF TypeInv, Orderly
  <2>3. ASSUME NEW res, Moved(p, res) PROVE PawnWaits(p)'
    <3> DEFINE e == engine[p]
               f == engine'[p]
               from == click[p].from
               to == click[p].to
    <3>1. e \in EngineType /\ e.player = p /\ from \in Square /\ to \in Square
      BY <1>2
    <3>2. Outcome(e, f, res, from, to)
      BY <2>3 DEF Moved
    <3>3. e.waiting = NoPromotion
      BY <2>2 DEF Waiting
    <3> HIDE DEF e, f, from, to
    <3>4. f.waiting # e.waiting => f.waiting.to = to /\ f.board[to] = <<p, "PAWN">>
      BY <3>1, <3>2, PawnArrives
    <3>5. f.waiting # NoPromotion => f.board[f.waiting.to] = <<p, "PAWN">>
      BY <3>3, <3>4
    <3> QED
      BY <3>5 DEF PawnWaits, Waiting, f
  <2>4. PawnWaits(p)'
    <3>1. CASE OnlyWalls(engine[p], engine'[p])
      BY <2>2, <3>1 DEF OnlyWalls, PawnWaits, Waiting
    <3> QED
      BY <2>1, <2>3, <3>1
  <2>5. \A i \in DOMAIN net'[p] : \E j \in DOMAIN net[p] : net'[p][i] = net[p][j]
    BY <2>1
  <2> QED
    BY <2>1, <2>4, <2>5, TurnFrom
<1>10. ASSUME NEW p \in Player, SendOpportunity(p) PROVE TurnInv'
  <2>1. /\ Untouched(Other(p)) /\ UNCHANGED <<engine, slips>> /\ net'[p] = net[p]
        /\ stage[p] \in Untold
    BY <1>10, SendOpportunityStep DEF Untold
  <2>2. PICK m \in Message : net'[Other(p)] = Append(net[Other(p)], m)
    BY <1>10, SendOpportunityStep
  <2> QED
    BY <1>6, <2>1, <2>2
<1>11. ASSUME NEW p \in Player, SendMove(p) \/ SendWall(p) PROVE TurnInv'
  <2>1. PICK op \in {"TO", "WALL"} :
          /\ Untouched(Other(p)) /\ UNCHANGED <<engine, slips>>
          /\ stage[p] \in Untold /\ TellsClick(p, op)
    BY <1>11, SendMoveStep, SendWallStep DEF Untold
  <2>2. net'[p] = net[p]
    BY <2>1 DEF TellsClick
  <2>3. PICK m \in Message : net'[Other(p)] = Append(net[Other(p)], m)
    BY <2>1 DEF TellsClick
  <2> QED
    BY <1>6, <2>1, <2>2, <2>3
<1>12. ASSUME NEW p \in Player, Check(p) PROVE TurnInv'
  <2>1. /\ Untouched(Other(p)) /\ UNCHANGED <<engine, slips>> /\ net'[p] = net[p]
        /\ stage[p] = "check" /\ stage'[p] = "idle"
        /\ \/ Lose \in Message /\ net'[Other(p)] = Append(net[Other(p)], Lose)
           \/ net' = net
    BY <1>12, CheckStep
  <2>2. stage'[p] \notin Untold /\ stage[p] \notin Promotions
    BY <1>20, <2>1 DEF Untold
  <2>3. CASE Lose \in Message /\ net'[Other(p)] = Append(net[Other(p)], Lose)
    <3>1. Lose.op = "LOSE"
      BY DEF Lose, Msg
    <3>2. \A i \in DOMAIN net'[Other(p)] :
            \/ net'[Other(p)][i] = Lose
            \/ \E j \in DOMAIN net[Other(p)] : net'[Other(p)][i] = net[Other(p)][j]
      BY <1>2, <2>3, OldOrSent
    <3>3. ToldSoon(Other(p))' => ToldSoon(Other(p))
      BY <1>2, <2>1, <2>2, <3>1, <3>2 DEF ToldSoon, Waiting
    <3>4. "crossed" \notin slips' => PawnWaits(p)'
      BY <1>3, <2>1, <2>2 DEF PawnWaits, Waiting
    <3>5. \A i \in DOMAIN net'[p] : \E j \in DOMAIN net[p] : net'[p][i] = net[p][j]
      BY <2>1
    <3>6. slips \subseteq slips'
      BY <2>1
    <3> QED
      BY <2>1, <3>3, <3>4, <3>5, <3>6, TurnFrom
  <2>4. CASE net' = net
    BY <1>5, <2>1, <2>2, <2>4
  <2> QED
    BY <2>1, <2>3, <2>4
<1>13. ASSUME NEW p \in Player, NEW kind \in Promotions, SendPromotion(p, kind)
       PROVE  TurnInv'
  <2>1. /\ Untouched(Other(p)) /\ slips \subseteq slips' /\ net'[p] = net[p]
        /\ Waiting(p) /\ stage[p] = "idle" /\ engine' = engine
    BY <1>13, SendPromotionStep
  <2>2. ToldSoon(Other(p)) /\ stage[p] \notin Promotions
    BY <1>2, <1>20, <2>1 DEF ToldSoon
  <2>3. "crossed" \notin slips' => PawnWaits(p)'
    BY <1>3, <2>1, <2>2 DEF PawnWaits
  <2>4. \A i \in DOMAIN net'[p] : \E j \in DOMAIN net[p] : net'[p][i] = net[p][j]
    BY <2>1
  <2> QED
    BY <2>1, <2>2, <2>3, <2>4, TurnFrom
<1>15. ASSUME NEW p \in Player, Promote(p) PROVE TurnInv'
  <2>1. /\ Untouched(Other(p)) /\ UNCHANGED <<net, slips>>
        /\ stage'[p] = "idle" /\ engine'[p].waiting = NoPromotion
    BY <1>15, PromoteStep
  <2>2. ToldSoon(Other(p))' => ToldSoon(Other(p))
    BY <1>2, <2>1 DEF ToldSoon, Waiting, Untold
  <2>3. PawnWaits(p)'
    BY <2>1 DEF PawnWaits, Waiting
  <2>4. \A i \in DOMAIN net'[p] : \E j \in DOMAIN net[p] : net'[p][i] = net[p][j]
    BY <2>1
  <2> QED
    BY <2>1, <2>2, <2>3, <2>4, TurnFrom
<1>14. CASE Next
  <2>1. PICK p \in Player :
            \/ \E n \in 1..MaxGlued : Receive(p, n)
            \/ \E from, to \in Square, wall \in BOOLEAN : Click(p, from, to, wall)
            \/ WallsOverwritten(p) \/ CheckTimeouts(p)
            \/ Decide(p) \/ SendOpportunity(p) \/ SendMove(p) \/ SendWall(p) \/ Check(p)
            \/ Promote(p) \/ \E kind \in Promotions : SendPromotion(p, kind)
    BY <1>14, NextCases
  <2> QED
    BY <1>4, <1>7, <1>8, <1>9, <1>10, <1>11, <1>12, <1>13, <1>15, <2>1
<1> QED
  BY <1>1, <1>14

LEMMA InitTurn == Init => TurnInv
<1>1. SUFFICES ASSUME Init PROVE TurnInv
  OBVIOUS
<1>3. ASSUME NEW p \in Player PROVE ~ToldSoon(p) /\ PawnWaits(p)
  <2>1. net[p] = <<>> /\ stage[Other(p)] = "idle" /\ Other(p) \in Player
    BY <1>1, OtherPlayer DEF Init
  <2>2. \A r \in Player : ~Waiting(r)
    <3>1. SUFFICES ASSUME NEW r \in Player PROVE engine[r].waiting = NoPromotion
      BY DEF Waiting
    <3>2. PICK e \in Starts :
            engine = [x \in Player |-> IF x = "W" THEN e ELSE Opposite(e)]
      BY <1>1 DEF Init
    <3> QED
      BY <3>2, StartsAssumption DEF Playable
  <2> QED
    BY <2>1, <2>2 DEF ToldSoon, PawnWaits, Untold
<1> QED
  BY <1>3 DEF TurnInv

LEMMA TurnAlways == Spec => [](TypeInv /\ TurnInv)
<1>1. Init => TypeInv /\ TurnInv
  BY InitTypes, InitTurn
<1>2. TypeInv /\ TurnInv /\ [Next]_vars => (TypeInv /\ TurnInv)'
  BY NextTypes, NextTurn
<1> QED
  BY <1>1, <1>2, PTL DEF Spec

(* The steps that tell of a promotion, and that make one.                     *)
LEMMA PromotionSteps ==
  ASSUME TypeInv, Next, NEW r \in Player,
         \/ stage[r] = "idle" /\ stage'[r] \in Promotions
         \/ promoted'[r] # promoted[r]
  PROVE  \/ Promote(r) \/ \E kind \in Promotions : SendPromotion(r, kind)
<1>1. PICK p \in Player :
          \/ \E n \in 1..MaxGlued : Receive(p, n)
          \/ \E from, to \in Square, wall \in BOOLEAN : Click(p, from, to, wall)
          \/ WallsOverwritten(p) \/ CheckTimeouts(p)
          \/ Decide(p) \/ SendOpportunity(p) \/ SendMove(p) \/ SendWall(p) \/ Check(p)
          \/ Promote(p) \/ \E kind \in Promotions : SendPromotion(p, kind)
  BY NextCases
<1> DEFINE Still == promoted' = promoted /\ ~(stage[r] = "idle" /\ stage'[r] \in Promotions)
<1>2. stage \in [Player -> Stages]
      /\ {"idle", "clicked", "sendMove", "check"} \cap Promotions = {}
  BY StageNames DEF TypeInv, Shapes, Steady
<1>3. ASSUME NEW n \in 1..MaxGlued, Receive(p, n) PROVE Still
  BY <1>2, <1>3 DEF Receive
<1>4. ASSUME NEW from \in Square, NEW to \in Square, NEW wall \in BOOLEAN,
             Click(p, from, to, wall)
      PROVE  Still
  BY <1>2, <1>4 DEF Click
<1>5. ASSUME WallsOverwritten(p) \/ CheckTimeouts(p) PROVE Still
  BY <1>2, <1>5 DEF WallsOverwritten, CheckTimeouts
<1>6. ASSUME Decide(p) PROVE Still
  <2>1. stage[p] = "clicked" /\ promoted' = promoted /\ Untouched(Other(p))
    BY <1>6, DecideStep
  <2> QED
    BY <1>2, <2>1, BothPlayers DEF Untouched
<1>7. ASSUME SendOpportunity(p) \/ SendMove(p) \/ SendWall(p) \/ Check(p) PROVE Still
  BY <1>2, <1>7 DEF SendOpportunity, SendMove, SendWall, Check
<1>8. CASE Promote(p)
  <2>1. Untouched(Other(p)) /\ stage'[p] = "idle"
    BY <1>8, PromoteStep
  <2>2. r = p
    BY <1>2, <2>1, BothPlayers DEF Untouched
  <2> QED
    BY <1>8, <2>2
<1>9. CASE \E kind \in Promotions : SendPromotion(p, kind)
  <2>1. Untouched(Other(p))
    BY <1>9, SendPromotionStep
  <2>2. r = p
    BY <1>2, <2>1, BothPlayers DEF Untouched
  <2> QED
    BY <1>9, <2>2
<1> QED
  BY <1>1, <1>3, <1>4, <1>5, <1>6, <1>7, <1>8, <1>9

(* What is told of as promoted is the player's own pawn, still where it arrived,
   unless the opponent moved meanwhile; and what promote() replaces is that
   pawn, unless the answer to PROM came between the two calls (engine.cpp:
   316-338; game.cpp:372-377).                                                *)
THEOREM OwnPawnPromoted == Spec => PromotesOwnPawn
<1> DEFINE Pawn(p) == engine[p].board[engine[p].waiting.to] = <<p, "PAWN">>
           A(p) ==
             /\ stage[p] = "idle" /\ stage'[p] \in Promotions => Pawn(p) \/ "crossed" \in slips'
             /\ promoted'[p] # promoted[p] =>
                   Pawn(p) \/ slips' \cap {"crossed", "overtaken"} # {}
<1>1. TypeInv /\ TurnInv /\ [Next]_vars => [\A p \in Player : A(p)]_vars
  <2>1. SUFFICES ASSUME TypeInv, TurnInv, Next, NEW r \in Player PROVE A(r)
    OBVIOUS
  <2>2. {"idle"} \cap Promotions = {} /\ stage \in [Player -> Stages]
    BY <2>1, StageNames DEF TypeInv, Shapes, Steady
  <2>3. CASE Promote(r)
    <3>1. /\ stage[r] \in Promotions /\ stage'[r] = "idle" /\ Waiting(r)
          /\ slips' = slips
      BY <2>1, <2>3, PromoteStep
    <3>2. "crossed" \notin slips => PawnWaits(r)
      BY <2>1 DEF TurnInv
    <3> QED
      BY <2>2, <3>1, <3>2 DEF PawnWaits
  <2>4. ASSUME NEW kind \in Promotions, SendPromotion(r, kind) PROVE A(r)
    <3>1. /\ stage[r] = "idle" /\ Waiting(r) /\ slips \subseteq slips'
          /\ promoted' = promoted
      BY <2>1, <2>4, SendPromotionStep
    <3>2. "crossed" \notin slips => PawnWaits(r)
      BY <2>1 DEF TurnInv
    <3> QED
      BY <2>2, <3>1, <3>2 DEF PawnWaits
  <2>5. CASE /\ ~(stage[r] = "idle" /\ stage'[r] \in Promotions)
             /\ promoted'[r] = promoted[r]
    BY <2>5
  <2> QED
    BY <2>1, <2>3, <2>4, <2>5, PromotionSteps
<1>2. Spec => [][\A p \in Player : A(p)]_vars
  BY <1>1, TurnAlways, PTL DEF Spec
<1> QED
  BY <1>2 DEF PromotesOwnPawn


-----------------------------------------------------------------------------
(* The counts of moves.

   Each player's count will be the other's once all that is to be told has been
   applied, but for the promotions: the one who promotes counts the move that
   led to it, and the one who is told does not.                               *)

(* How many of the first i - 1 messages tell of a move.                       *)
Tos(s, i) == Cardinality({j \in 1..(i - 1) : s[j].op = "TO"})

ToTell(p) == IF stage[p] \in Telling THEN 1 ELSE 0
Due(p) == IF Waiting(p) THEN 1 ELSE 0

Coming(p) == Tos(net[p], Len(net[p]) + 1)

Done(p) == engine[p].moves + Coming(p) - promoted[p] - Due(p)

Reckoned(p) == Done(p) + ToTell(Other(p))

CountInv == slips \cap {"void", "glued"} = {} => Reckoned("W") = Reckoned("B")

LEMMA TosNat ==
  ASSUME NEW s, NEW i \in Nat
  PROVE  Tos(s, i) \in Nat /\ IsFiniteSet({j \in 1..(i - 1) : s[j].op = "TO"})
<1>1. IsFiniteSet(1..(i - 1))
  <2>1. 1 \in Int /\ i - 1 \in Int
    OBVIOUS
  <2> QED
    BY <2>1, FS_Interval, Zenon
<1>2. {j \in 1..(i - 1) : s[j].op = "TO"} \in SUBSET (1..(i - 1))
  OBVIOUS
<1> QED
  BY <1>1, <1>2, FS_Subset, FS_CardinalityType DEF Tos

LEMMA TosFirst == \A s : Tos(s, 1) = 0
<1>1. \A s : {j \in 1..(1 - 1) : s[j].op = "TO"} = {}
  OBVIOUS
<1> QED
  BY <1>1, FS_EmptySet DEF Tos

LEMMA TosNext ==
  ASSUME NEW s, NEW i \in Nat, 1 <= i
  PROVE  Tos(s, i + 1) = Tos(s, i) + (IF s[i].op = "TO" THEN 1 ELSE 0)
<1> DEFINE S == {j \in 1..(i - 1) : s[j].op = "TO"}
           T == {j \in 1..(i + 1 - 1) : s[j].op = "TO"}
<1>1. IsFiniteSet(S) /\ Cardinality(S) \in Nat /\ i \notin S
  BY TosNat DEF Tos
<1>2. CASE s[i].op = "TO"
  <2>1. T = S \cup {i}
    BY <1>2
  <2>2. Cardinality(T) = Cardinality(S) + 1
    <3> HIDE DEF S, T
    <3> QED
      BY <1>1, <2>1, FS_AddElement
  <2> QED
    BY <1>2, <2>2 DEF Tos
<1>3. CASE s[i].op # "TO"
  <2>1. T = S
    BY <1>3
  <2> QED
    BY <1>1, <1>3, <2>1 DEF Tos
<1> QED
  BY <1>2, <1>3

LEMMA TosSame ==
  ASSUME NEW s, NEW t, NEW i \in Nat, \A j \in 1..(i - 1) : t[j] = s[j]
  PROVE  Tos(t, i) = Tos(s, i)
<1>1. {j \in 1..(i - 1) : t[j].op = "TO"} = {j \in 1..(i - 1) : s[j].op = "TO"}
  OBVIOUS
<1> QED
  BY <1>1 DEF Tos

LEMMA TosAppended ==
  ASSUME NEW s \in Seq(Message), NEW m \in Message
  PROVE  LET t == Append(s, m)
         IN  /\ \A i \in DOMAIN s : Tos(t, i) = Tos(s, i)
             /\ Tos(t, Len(s) + 1) = Tos(s, Len(s) + 1)
             /\ Tos(t, Len(t) + 1) = Tos(s, Len(s) + 1) + (IF m.op = "TO" THEN 1 ELSE 0)
<1> DEFINE t == Append(s, m)
<1>1. /\ Len(t) = Len(s) + 1 /\ Len(s) \in Nat
      /\ \A j \in 1..Len(s) : t[j] = s[j]
      /\ t[Len(s) + 1] = m /\ DOMAIN s = 1..Len(s)
  BY Appended
<1> HIDE DEF t
<1>2. ASSUME NEW i \in 1..(Len(s) + 1) PROVE Tos(t, i) = Tos(s, i)
  <2>1. i \in Nat /\ \A j \in 1..(i - 1) : t[j] = s[j]
    BY <1>1
  <2> QED
    BY <2>1, TosSame
<1>3. \A i \in DOMAIN s : i \in 1..(Len(s) + 1)
  BY <1>1
<1>4. Len(s) + 1 \in 1..(Len(s) + 1) /\ Len(s) + 1 \in Nat /\ 1 <= Len(s) + 1
  BY <1>1
<1>5. Tos(t, Len(s) + 1 + 1) = Tos(t, Len(s) + 1) + (IF m.op = "TO" THEN 1 ELSE 0)
  BY <1>1, <1>4, TosNext
<1>6. Tos(t, Len(s) + 1) = Tos(s, Len(s) + 1)
  BY <1>2, <1>4
<1>7. Tos(t, Len(t) + 1) = Tos(s, Len(s) + 1) + (IF m.op = "TO" THEN 1 ELSE 0)
  BY <1>1, <1>5, <1>6
<1>8. \A i \in DOMAIN s : Tos(t, i) = Tos(s, i)
  BY <1>2, <1>3
<1> QED
  BY <1>6, <1>7, <1>8 DEF t

(* Without the first message.                                                 *)
LEMMA AfterFirst ==
  ASSUME NEW s \in Seq(Message), 1 <= Len(s)
  PROVE  LET t == SubSeq(s, 2, Len(s))
         IN  /\ t \in Seq(Message) /\ Len(t) = Len(s) - 1
             /\ \A j \in 1..Len(t) : j + 1 \in 1..Len(s) /\ t[j] = s[j + 1]
<1>1. ASSUME NEW n \in Nat, n = 1
      PROVE  LET t == SubSeq(s, 2, Len(s))
             IN  /\ t \in Seq(Message) /\ Len(t) = Len(s) - n
                 /\ \A j \in 1..Len(t) : j + n \in 1..Len(s) /\ t[j] = s[j + n]
  <2>1. n + 1 = 2 /\ 1 <= n /\ n <= Len(s)
    BY <1>1
  <2> DEFINE k == n + 1
             t == SubSeq(s, k, Len(s))
  <2>2. /\ t \in Seq(Message) /\ Len(t) = Len(s) - n
        /\ \A j \in 1..Len(t) : j + n \in 1..Len(s) /\ t[j] = s[j + n]
    BY <2>1, Rest
  <2>3. k = 2
    BY <2>1
  <2> HIDE DEF k
  <2> QED
    BY <2>2, <2>3
<1>2. 1 \in Nat
  OBVIOUS
<1>3. \A n \in Nat : n = 1 => LET t == SubSeq(s, 2, Len(s))
             IN  /\ t \in Seq(Message) /\ Len(t) = Len(s) - n
                 /\ \A j \in 1..Len(t) : j + n \in 1..Len(s) /\ t[j] = s[j + n]
  BY <1>1
<1> QED
  BY <1>2, <1>3

LEMMA TosRest ==
  ASSUME NEW s \in Seq(Message), 1 <= Len(s), NEW i \in 1..Len(s)
  PROVE  Tos(s, i + 1) = Tos(SubSeq(s, 2, Len(s)), i) + (IF s[1].op = "TO" THEN 1 ELSE 0)
<1> DEFINE t == SubSeq(s, 2, Len(s))
           S == {j \in 1..(i - 1) : t[j].op = "TO"}
           T == {j \in 2..i : s[j].op = "TO"}
           f == [j \in S |-> j + 1]
<1>1. /\ Len(s) \in Nat /\ i \in Nat /\ 1 <= i /\ i <= Len(s)
      /\ Len(t) = Len(s) - 1 /\ \A j \in 1..Len(t) : t[j] = s[j + 1]
  <2>1. Len(s) \in Nat /\ i \in Nat /\ 1 <= i /\ i <= Len(s)
    OBVIOUS
  <2>2. Len(t) = Len(s) - 1 /\ \A j \in 1..Len(t) : t[j] = s[j + 1]
    BY AfterFirst
  <2> QED
    BY <2>1, <2>2
<1>2. \A j \in 1..(i - 1) : t[j] = s[j + 1]
  <2> HIDE DEF t
  <2> QED
    BY <1>1
<1> HIDE DEF t
<1>3. f \in Bijection(S, T)
  <2>1. \A j \in S : j + 1 \in T
    BY <1>1, <1>2
  <2>2. f \in [S -> T]
    BY <2>1
  <2>3. \A a, b \in S : f[a] = f[b] => a = b
    BY <1>1
  <2>4. \A k \in T : k - 1 \in S /\ f[k - 1] = k
    BY <1>1, <1>2
  <2> HIDE DEF f, S, T
  <2>5. f \in Surjection(S, T)
    BY <2>2, <2>4 DEF Surjection
  <2>6. f \in Injection(S, T)
    BY <2>2, <2>3 DEF Injection, IsInjective
  <2> QED
    BY <2>5, <2>6 DEF Bijection
<1>4. IsFiniteSet(S) /\ Cardinality(S) \in Nat
  BY <1>1, TosNat DEF Tos
<1>5. IsFiniteSet(T) /\ Cardinality(T) = Cardinality(S)
  <2> HIDE DEF f, S, T
  <2>1. ExistsBijection(S, T)
    BY <1>3 DEF ExistsBijection
  <2> QED
    BY <1>4, <2>1, FS_Bijection
<1> DEFINE U == {j \in 1..(i + 1 - 1) : s[j].op = "TO"}
<1>6. 1 \notin T
  OBVIOUS
<1>9. Tos(s, i + 1) = Cardinality(U) /\ Tos(t, i) = Cardinality(S)
  BY DEF Tos
<1>7. CASE s[1].op = "TO"
  <2>1. U = T \cup {1}
    BY <1>1, <1>7
  <2>2. Cardinality(U) = Cardinality(T) + 1
    <3> HIDE DEF U, T, S
    <3> QED
      BY <1>4, <1>5, <1>6, <2>1, FS_AddElement
  <2> HIDE DEF S, T, U
  <2> QED
    BY <1>5, <1>7, <1>9, <2>2 DEF t
<1>8. CASE s[1].op # "TO"
  <2>1. U = T
    BY <1>1, <1>8
  <2> HIDE DEF S, T, U
  <2> QED
    BY <1>4, <1>5, <1>8, <1>9, <2>1 DEF t
<1> QED
  BY <1>7, <1>8


LEMMA CountTypes ==
  ASSUME Shapes, NEW p \in Player
  PROVE  /\ engine[p].moves \in Nat /\ Coming(p) \in Nat /\ promoted[p] \in Nat
         /\ Due(p) \in {0, 1} /\ ToTell(p) \in {0, 1} /\ Done(p) \in Int
<1>1. /\ engine[p].moves \in Nat /\ promoted[p] \in Nat
      /\ net[p] \in Seq(Message)
  BY Fields, EngineFields
<1>2. Len(net[p]) + 1 \in Nat
  BY <1>1
<1>3. Coming(p) \in Nat
  BY <1>2, TosNat DEF Coming
<1>4. Due(p) \in {0, 1} /\ ToTell(p) \in {0, 1}
  BY DEF Due, ToTell
<1> QED
  BY <1>1, <1>3, <1>4 DEF Done

LEMMA CountTypesNext ==
  ASSUME Shapes', NEW p \in Player
  PROVE  Coming(p)' \in Nat /\ Done(p)' \in Int /\ ToTell(p)' \in Int
<1>1. /\ engine'[p].moves \in Nat /\ promoted'[p] \in Nat
      /\ net'[p] \in Seq(Message)
  BY EngineFields DEF Shapes
<1>2. Len(net'[p]) + 1 \in Nat
  BY <1>1
<1>3. Coming(p)' \in Nat
  BY <1>2, TosNat DEF Coming
<1>4. Due(p)' \in {0, 1} /\ ToTell(p)' \in {0, 1}
  BY DEF Due, ToTell
<1> QED
  BY <1>1, <1>3, <1>4 DEF Done

LEMMA CountFrom ==
  ASSUME Shapes, Shapes', CountInv, NEW p \in Player, Untouched(Other(p)), slips \subseteq slips',
         slips' \cap {"void", "glued"} = {} =>
            (Done(p) - Coming(Other(p)) - ToTell(p))' = Done(p) - Coming(Other(p)) - ToTell(p)
  PROVE  CountInv'
<1> DEFINE q == Other(p)
<1>1. q \in Player /\ Other(q) = p /\ {p, q} = {"W", "B"}
  BY OtherPlayer DEF Player, Other
<1> SUFFICES ASSUME slips' \cap {"void", "glued"} = {}
             PROVE  Reckoned("W")' = Reckoned("B")'
  BY DEF CountInv
<1>2. Reckoned(p) = Reckoned(q)
  BY <1>1 DEF CountInv
<1>3. ToTell(q)' = ToTell(q)
  BY DEF Untouched, ToTell
<1>4. Done(q)' - Done(q) = Coming(q)' - Coming(q)
  <2>1. engine'[q].moves = engine[q].moves /\ promoted'[q] = promoted[q] /\ Due(q)' = Due(q)
    BY DEF Untouched, Due, Waiting
  <2>2. /\ engine[q].moves \in Nat /\ Coming(q) \in Nat /\ promoted[q] \in Nat /\ Due(q) \in Int
        /\ Coming(q)' \in Nat
    BY <1>1, CountTypes, CountTypesNext
  <2>3. Done(q)' = engine[q].moves + Coming(q)' - promoted[q] - Due(q)
    BY <2>1 DEF Done
  <2>4. Done(q) = engine[q].moves + Coming(q) - promoted[q] - Due(q)
    BY DEF Done
  <2> QED
    BY <2>2, <2>3, <2>4
<1>5. /\ Done(p) \in Int /\ Done(q) \in Int /\ ToTell(p) \in Int /\ ToTell(q) \in Int
      /\ Coming(q) \in Int
  BY <1>1, CountTypes
<1>6. /\ Done(p)' \in Int /\ Done(q)' \in Int /\ ToTell(p)' \in Int /\ Coming(q)' \in Int
  BY <1>1, CountTypesNext
<1>7. Done(p)' - Coming(q)' - ToTell(p)' = Done(p) - Coming(q) - ToTell(p)
  OBVIOUS
<1>8. Done(p) + ToTell(q) = Done(q) + ToTell(p)
  BY <1>1, <1>2 DEF Reckoned
<1>9. Done(p)' + ToTell(q)' = Done(q)' + ToTell(p)'
  <2> DEFINE dp == Done(p)
             dq == Done(q)
             cq == Coming(q)
             tp == ToTell(p)
             tq == ToTell(q)
             dp1 == Done(p)'
             dq1 == Done(q)'
             cq1 == Coming(q)'
             tp1 == ToTell(p)'
  <2>1. /\ dp \in Int /\ dq \in Int /\ cq \in Int /\ tp \in Int /\ tq \in Int
        /\ dp1 \in Int /\ dq1 \in Int /\ cq1 \in Int /\ tp1 \in Int
    BY <1>5, <1>6
  <2>2. dq1 - dq = cq1 - cq /\ dp1 - cq1 - tp1 = dp - cq - tp /\ dp + tq = dq + tp
    BY <1>4, <1>7, <1>8
  <2> HIDE DEF dp, dq, cq, tp, tq, dp1, dq1, cq1, tp1
  <2>3. dp1 + tq = dq1 + tp1
    BY <2>1, <2>2
  <2> QED
    BY <1>3, <2>3 DEF dp1, tq, dq1, tp1
<1>10. Reckoned(p)' = Reckoned(q)'
  BY <1>1, <1>9 DEF Reckoned
<1> QED
  BY <1>1, <1>10

(* What a move counts and has to tell.                                        *)
LEMMA MoveCounted ==
  ASSUME NEW e \in EngineType, NEW f, NEW res, NEW from \in Square, NEW to \in Square,
         Outcome(e, f, res, from, to), e.waiting = NoPromotion,
         ~(res = "CAPTURE" /\ f = e)
  PROVE  \/ f.moves = e.moves /\ f.waiting = NoPromotion /\ AfterMove(res) \notin Telling
         \/ f.moves = e.moves + 1 /\ f.waiting = NoPromotion /\ AfterMove(res) \in Telling
         \/ f.moves = e.moves + 1 /\ f.waiting # NoPromotion /\ AfterMove(res) \notin Telling
<1>1. CASE Refused(e, f, res)
  BY <1>1, AfterMoveStages DEF Refused, Telling
<1>2. res \in {"SUCCESS", "CAPTURE", "EN_PASSENT_OPPORTUNITY"} => AfterMove(res) \in Telling
  BY AfterMoveStages DEF Telling
<1>3. res \in {"PROMOTION", "PROMOTION_CAPTURE"} => AfterMove(res) \notin Telling
  BY AfterMoveStages DEF Telling
<1>4. [from |-> from, to |-> to] # NoPromotion
  BY DEF NoPromotion, Square
<1>5. CASE Stepped(e, f, res, from, to)
  <2>1. f.moves = e.moves + 1 /\ res \in {"SUCCESS", "PROMOTION", "EN_PASSENT_OPPORTUNITY"}
    BY <1>5 DEF Stepped, Counts
  <2>2. res = "PROMOTION" => f.waiting # NoPromotion
    BY <1>4, <1>5 DEF Stepped, Waits
  <2>3. res # "PROMOTION" => f.waiting = NoPromotion
    BY <1>5 DEF Stepped, Waits
  <2> QED
    BY <1>2, <1>3, <2>1, <2>2, <2>3
<1>6. CASE Took(e, f, res, from, to)
  <2>1. f.moves = e.moves + 1 /\ res \in {"CAPTURE", "PROMOTION_CAPTURE"}
    BY <1>6 DEF Took, Counts
  <2>2. res = "PROMOTION_CAPTURE" => f.waiting # NoPromotion
    BY <1>4, <1>6 DEF Took, Waits
  <2>3. res # "PROMOTION_CAPTURE" => f.waiting = NoPromotion
    BY <1>6 DEF Took, Waits
  <2> QED
    BY <1>2, <1>3, <2>1, <2>2, <2>3
<1>7. CASE Passed(e, f, res, from, to)
  BY <1>2, <1>7 DEF Passed, Counts
<1>8. CASE Castled(e, f, res, from, to)
  BY <1>2, <1>8 DEF Castled
<1> QED
  BY <1>1, <1>5, <1>6, <1>7, <1>8 DEF Outcome, Void


LEMMA SentCounts ==
  ASSUME Shapes, NEW q \in Player, NEW m \in Message, net'[q] = Append(net[q], m)
  PROVE  Coming(q)' = Coming(q) + (IF m.op = "TO" THEN 1 ELSE 0)
<1>1. net[q] \in Seq(Message)
  BY Fields
<1>2. Tos(Append(net[q], m), Len(Append(net[q], m)) + 1)
        = Tos(net[q], Len(net[q]) + 1) + (IF m.op = "TO" THEN 1 ELSE 0)
  BY <1>1, TosAppended
<1> QED
  BY <1>2 DEF Coming

LEMMA ReadCounts ==
  ASSUME Shapes, NEW p \in Player, 1 \in DOMAIN net[p],
         net'[p] = SubSeq(net[p], 1 + 1, Len(net[p]))
  PROVE  Coming(p) = Coming(p)' + (IF net[p][1].op = "TO" THEN 1 ELSE 0)
<1> DEFINE s == net[p]
           t == SubSeq(s, 2, Len(s))
<1>1. s \in Seq(Message) /\ 1 <= Len(s) /\ Len(s) \in 1..Len(s)
  <2>1. s \in Seq(Message)
    BY Fields
  <2>2. 1 \in DOMAIN s
    OBVIOUS
  <2> HIDE DEF s
  <2> QED
    BY <2>1, <2>2
<1>2. net'[p] = t
  OBVIOUS
<1> HIDE DEF s
<1>3. Len(t) = Len(s) - 1 /\ Len(s) \in Nat
  BY <1>1, AfterFirst
<1>4. Tos(s, Len(s) + 1) = Tos(t, Len(s)) + (IF s[1].op = "TO" THEN 1 ELSE 0)
  BY <1>1, TosRest
<1> HIDE DEF t
<1>5. Len(t) + 1 = Len(s)
  BY <1>3
<1>6. Tos(t, Len(t) + 1) = Tos(t, Len(s))
  BY <1>5
<1> QED
  BY <1>2, <1>4, <1>6 DEF Coming, s

LEMMA NextCount == TypeInv /\ CountInv /\ [Next]_vars => CountInv'
<1> SUFFICES ASSUME TypeInv, CountInv, [Next]_vars PROVE CountInv'
  OBVIOUS
<1>1. CASE UNCHANGED vars
  BY <1>1 DEF CountInv, Reckoned, Done, Coming, ToTell, Due, Waiting, vars
<1>2. Shapes /\ Shapes'
  BY NextTypes DEF TypeInv
<1>3. ASSUME NEW p \in Player
      PROVE  /\ Other(p) \in Player
             /\ engine[p] \in EngineType
             /\ net[p] \in Seq(Message) /\ net[Other(p)] \in Seq(Message)
             /\ click[p].from \in Square /\ click[p].to \in Square
             /\ engine[p].moves \in Nat /\ promoted[p] \in Nat
             /\ Coming(p) \in Nat /\ Coming(Other(p)) \in Nat
             /\ Done(p) \in Int /\ ToTell(p) \in Int /\ Due(p) \in Int
             /\ Coming(p)' \in Nat
  BY <1>2, OtherPlayer, Fields, EngineFields, CountTypes, CountTypesNext
<1>4. ASSUME NEW p \in Player, Untouched(Other(p)), slips \subseteq slips', net' = net,
             engine'[p].moves = engine[p].moves, engine'[p].waiting = engine[p].waiting,
             promoted'[p] = promoted[p],
             stage'[p] \in Telling <=> stage[p] \in Telling
      PROVE  CountInv'
  <2>1. Done(p)' = Done(p) /\ Coming(Other(p))' = Coming(Other(p)) /\ ToTell(p)' = ToTell(p)
    BY <1>4 DEF Done, Coming, ToTell, Due, Waiting
  <2> QED
    BY <1>2, <1>4, <2>1, CountFrom
<1>5. ASSUME NEW p \in Player, Untouched(Other(p)), slips \subseteq slips', net'[p] = net[p],
             engine' = engine, promoted' = promoted,
             NEW m \in Message, net'[Other(p)] = Append(net[Other(p)], m),
             ToTell(p)' = ToTell(p) - (IF m.op = "TO" THEN 1 ELSE 0)
      PROVE  CountInv'
  <2>1. Done(p)' = Done(p)
    BY <1>5 DEF Done, Coming, Due, Waiting
  <2>2. Coming(Other(p))' = Coming(Other(p)) + (IF m.op = "TO" THEN 1 ELSE 0)
    BY <1>2, <1>3, <1>5, SentCounts
  <2>3. Done(p)' - Coming(Other(p))' - ToTell(p)' = Done(p) - Coming(Other(p)) - ToTell(p)
    BY <1>3, <1>5, <2>1, <2>2
  <2> QED
    BY <1>2, <1>5, <2>3, CountFrom
<1>6. ASSUME NEW p \in Player, NEW n \in 1..MaxGlued, Receive(p, n) PROVE CountInv'
  <2> DEFINE e == engine[p]
             f == engine'[p]
             m == net[p][1]
  <2>1. /\ Untouched(Other(p)) /\ net'[Other(p)] = net[Other(p)] /\ slips \subseteq slips'
        /\ stage'[p] = stage[p] /\ promoted'[p] = promoted[p]
        /\ n \in 1..Len(net[p]) /\ net'[p] = SubSeq(net[p], n + 1, Len(net[p]))
        /\ n > 1 => "glued" \in slips'
    BY <1>6, ReceiveStep
  <2>2. PICK res : Applied(e, f, res, m, n)
    BY <1>6, ReceiveStep
  <2>3. f.waiting = e.waiting
    BY <1>3, <2>2, AppliedKeeps
  <2>4. 1 \in DOMAIN net[p]
    BY <1>3, <2>1
  <2>5. ASSUME slips' \cap {"void", "glued"} = {}
        PROVE  Done(p)' - Coming(Other(p))' - ToTell(p)' = Done(p) - Coming(Other(p)) - ToTell(p)
    <3>1. n = 1
      <4>1. ~(n > 1) /\ n \in Nat /\ n >= 1
        BY <1>3, <2>1, <2>5, BoundsAssumption
      <4> QED
        BY <4>1
    <3>2. Coming(p) = Coming(p)' + (IF m.op = "TO" THEN 1 ELSE 0)
      BY <1>2, <2>1, <2>4, <3>1, ReadCounts
    <3>3. f.moves = e.moves + (IF m.op = "TO" THEN 1 ELSE 0)
      <4>1. ~(n > 1)
        BY <3>1
      <4>2. e.moves \in Nat
        BY <1>3
      <4> QED
        BY <2>2, <3>1, <4>1, <4>2 DEF Applied, Relocates, Counts, OnlyWalls
    <3>4. Due(p)' = Due(p) /\ ToTell(p)' = ToTell(p)
      BY <2>1, <2>3 DEF Due, Waiting, ToTell
    <3>5. Coming(Other(p))' = Coming(Other(p))
      BY <2>1 DEF Coming
    <3>6. Done(p)' = Done(p)
      <4>1. Done(p)' = f.moves + Coming(p)' - promoted[p] - Due(p)
        BY <2>1, <3>4 DEF Done
      <4>2. Done(p) = e.moves + Coming(p) - promoted[p] - Due(p)
        BY DEF Done
      <4>3. /\ e.moves \in Nat /\ Coming(p) \in Nat /\ Coming(p)' \in Nat
            /\ promoted[p] \in Nat /\ Due(p) \in Int
        BY <1>3
      <4> HIDE DEF e, f, m
      <4> QED
        BY <3>2, <3>3, <4>1, <4>2, <4>3
    <3> QED
      BY <3>4, <3>5, <3>6
  <2> QED
    BY <1>2, <2>1, <2>5, CountFrom
<1>7. ASSUME NEW p \in Player, NEW from \in Square, NEW to \in Square, NEW wall \in BOOLEAN,
             Click(p, from, to, wall)
      PROVE  CountInv'
  <2>1. /\ Untouched(Other(p)) /\ UNCHANGED <<engine, net, promoted, slips>>
        /\ stage[p] = "idle" /\ stage'[p] = "clicked"
    BY <1>7, ClickStep
  <2>2. stage'[p] \in Telling <=> stage[p] \in Telling
    BY <2>1 DEF Telling
  <2> QED
    BY <1>4, <2>1, <2>2
<1>8. ASSUME NEW p \in Player, WallsOverwritten(p) \/ CheckTimeouts(p) PROVE CountInv'
  <2>1. /\ Untouched(Other(p)) /\ UNCHANGED <<net, stage, promoted>> /\ slips \subseteq slips'
        /\ engine'[p].moves = engine[p].moves /\ engine'[p].waiting = engine[p].waiting
    BY <1>8, WallsOverwrittenStep, CheckTimeoutsStep
  <2> QED
    BY <1>4, <2>1
<1>9. ASSUME NEW p \in Player, Decide(p) PROVE CountInv'
  <2> DEFINE e == engine[p]
             f == engine'[p]
             from == click[p].from
             to == click[p].to
  <2>1. /\ Untouched(Other(p)) /\ UNCHANGED <<net, promoted>>
        /\ stage[p] = "clicked" /\ slips \subseteq slips'
        /\ \/ OnlyWalls(e, f) /\ stage'[p] = "sendWall"
           \/ \E res : Moved(p, res)
    BY <1>9, DecideStep
  <2>2. stage[p] \notin Telling /\ e.waiting = NoPromotion
    BY <2>1 DEF TypeInv, Orderly, Waiting, Telling
  <2>3. CASE OnlyWalls(e, f) /\ stage'[p] = "sendWall"
    <3>1. stage'[p] \notin Telling
      BY <2>3 DEF Telling
    <3> QED
      BY <1>4, <2>1, <2>2, <2>3, <3>1 DEF OnlyWalls
  <2>4. ASSUME NEW res, Moved(p, res), slips' \cap {"void", "glued"} = {}
        PROVE  Done(p)' - Coming(Other(p))' - ToTell(p)' = Done(p) - Coming(Other(p)) - ToTell(p)
    <3>1. Outcome(e, f, res, from, to) /\ stage'[p] = AfterMove(res)
          /\ MoveSlips(e, from, to, <<f, res>>) \subseteq slips'
      BY <2>4 DEF Moved
    <3>2. ~(res = "CAPTURE" /\ f = e)
      <4>1. res = "CAPTURE" /\ f = e => "void" \in MoveSlips(e, from, to, <<f, res>>)
        BY DEF MoveSlips, Slips
      <4> QED
        BY <2>4, <3>1, <4>1
    <3>3. e \in EngineType /\ from \in Square /\ to \in Square
      BY <1>3
    <3> HIDE DEF e, f, from, to
    <3>4. \/ f.moves = e.moves /\ f.waiting = NoPromotion /\ AfterMove(res) \notin Telling
          \/ f.moves = e.moves + 1 /\ f.waiting = NoPromotion /\ AfterMove(res) \in Telling
          \/ f.moves = e.moves + 1 /\ f.waiting # NoPromotion /\ AfterMove(res) \notin Telling
      BY <2>2, <3>1, <3>2, <3>3, MoveCounted
    <3>5. Coming(p)' = Coming(p) /\ Coming(Other(p))' = Coming(Other(p))
      BY <2>1 DEF Coming
    <3>6. Due(p) = 0 /\ ToTell(p) = 0
      BY <2>2 DEF Due, ToTell, Waiting, e
    <3>7. ToTell(p)' = IF AfterMove(res) \in Telling THEN 1 ELSE 0
      BY <3>1 DEF ToTell
    <3>8. Due(p)' = IF f.waiting # NoPromotion THEN 1 ELSE 0
      BY DEF Due, Waiting, f
    <3>9. Done(p)' = f.moves + Coming(p) - promoted[p] - Due(p)'
      BY <2>1, <3>5 DEF Done, f
    <3>10. Done(p) = e.moves + Coming(p) - promoted[p] - 0
      BY <3>6 DEF Done, e
    <3>11. /\ e.moves \in Nat /\ Coming(p) \in Nat /\ promoted[p] \in Nat
           /\ Coming(Other(p)) \in Nat
      BY <1>3 DEF e
    <3>12. \/ f.moves = e.moves /\ Due(p)' = 0 /\ ToTell(p)' = 0
           \/ f.moves = e.moves + 1 /\ Due(p)' = 0 /\ ToTell(p)' = 1
           \/ f.moves = e.moves + 1 /\ Due(p)' = 1 /\ ToTell(p)' = 0
      BY <3>4, <3>7, <3>8
    <3>13. CASE f.moves = e.moves /\ Due(p)' = 0 /\ ToTell(p)' = 0
      BY <3>5, <3>6, <3>9, <3>10, <3>11, <3>13
    <3>14. CASE f.moves = e.moves + 1 /\ Due(p)' = 0 /\ ToTell(p)' = 1
      BY <3>5, <3>6, <3>9, <3>10, <3>11, <3>14
    <3>15. CASE f.moves = e.moves + 1 /\ Due(p)' = 1 /\ ToTell(p)' = 0
      BY <3>5, <3>6, <3>9, <3>10, <3>11, <3>15
    <3> QED
      BY <3>12, <3>13, <3>14, <3>15
  <2>5. ASSUME NEW res, Moved(p, res) PROVE CountInv'
    BY <1>2, <2>1, <2>4, <2>5, CountFrom
  <2> QED
    BY <2>1, <2>3, <2>5
<1>10. ASSUME NEW p \in Player, SendOpportunity(p) PROVE CountInv'
  <2>1. /\ Untouched(Other(p)) /\ UNCHANGED <<engine, promoted, slips>> /\ net'[p] = net[p]
        /\ stage[p] = "sendOpportunity" /\ stage'[p] = "sendMove"
    BY <1>10, SendOpportunityStep
  <2>2. PICK m \in Message : m.op = "ENPS" /\ net'[Other(p)] = Append(net[Other(p)], m)
    BY <1>10, SendOpportunityStep
  <2>3. ToTell(p)' = ToTell(p) - (IF m.op = "TO" THEN 1 ELSE 0)
    BY <2>1, <2>2 DEF ToTell, Telling
  <2> QED
    BY <1>5, <2>1, <2>2, <2>3
<1>11. ASSUME NEW p \in Player, SendMove(p) PROVE CountInv'
  <2>1. /\ Untouched(Other(p)) /\ UNCHANGED <<engine, promoted, slips>>
        /\ stage[p] = "sendMove" /\ stage'[p] = "check" /\ TellsClick(p, "TO")
    BY <1>11, SendMoveStep
  <2>2. net'[p] = net[p]
    BY <2>1 DEF TellsClick
  <2>3. PICK m \in Message : m.op = "TO" /\ net'[Other(p)] = Append(net[Other(p)], m)
    BY <2>1 DEF TellsClick
  <2>4. ToTell(p)' = ToTell(p) - (IF m.op = "TO" THEN 1 ELSE 0)
    BY <2>1, <2>3 DEF ToTell, Telling
  <2> QED
    BY <1>5, <2>1, <2>2, <2>3, <2>4
<1>12. ASSUME NEW p \in Player, SendWall(p) PROVE CountInv'
  <2>1. /\ Untouched(Other(p)) /\ UNCHANGED <<engine, promoted, slips>>
        /\ stage[p] = "sendWall" /\ stage'[p] = "check" /\ TellsClick(p, "WALL")
    BY <1>12, SendWallStep
  <2>2. net'[p] = net[p]
    BY <2>1 DEF TellsClick
  <2>3. PICK m \in Message : m.op = "WALL" /\ net'[Other(p)] = Append(net[Other(p)], m)
    BY <2>1 DEF TellsClick
  <2>4. ToTell(p)' = ToTell(p) - (IF m.op = "TO" THEN 1 ELSE 0)
    BY <2>1, <2>3 DEF ToTell, Telling
  <2> QED
    BY <1>5, <2>1, <2>2, <2>3, <2>4
<1>13. ASSUME NEW p \in Player, Check(p) PROVE CountInv'
  <2>1. /\ Untouched(Other(p)) /\ UNCHANGED <<engine, promoted, slips>> /\ net'[p] = net[p]
        /\ stage[p] = "check" /\ stage'[p] = "idle"
        /\ \/ Lose \in Message /\ net'[Other(p)] = Append(net[Other(p)], Lose)
           \/ net' = net
    BY <1>13, CheckStep
  <2>2. stage[p] \notin Telling /\ stage'[p] \notin Telling
    BY <2>1 DEF Telling
  <2>3. CASE Lose \in Message /\ net'[Other(p)] = Append(net[Other(p)], Lose)
    <3>1. ToTell(p)' = ToTell(p) - (IF Lose.op = "TO" THEN 1 ELSE 0)
      BY <2>2 DEF ToTell, Lose, Msg
    <3> QED
      BY <1>5, <2>1, <2>3, <3>1
  <2>4. CASE net' = net
    BY <1>4, <2>1, <2>2, <2>4
  <2> QED
    BY <2>1, <2>3, <2>4
<1>14. ASSUME NEW p \in Player, NEW kind \in Promotions, SendPromotion(p, kind)
       PROVE  CountInv'
  <2>1. /\ Untouched(Other(p)) /\ slips \subseteq slips' /\ net'[p] = net[p]
        /\ UNCHANGED <<engine, promoted>> /\ stage[p] = "idle" /\ stage'[p] \in Promotions
    BY <1>14, SendPromotionStep
  <2>2. PICK m \in Message :
          /\ m.op = "PROM" /\ m.kind = kind /\ Meant(m)
          /\ m.a = Reverse(engine[p].waiting.from) /\ m.b = Reverse(engine[p].waiting.to)
          /\ net'[Other(p)] = Append(net[Other(p)], m)
    BY <1>14, PromotionTold
  <2>3. stage[p] \notin Telling /\ stage'[p] \notin Telling
    BY <2>1, StageNames DEF Telling, Steady
  <2>4. ToTell(p)' = ToTell(p) - (IF m.op = "TO" THEN 1 ELSE 0)
    BY <2>2, <2>3 DEF ToTell
  <2> QED
    BY <1>5, <2>1, <2>2, <2>4
<1>16. ASSUME NEW p \in Player, Promote(p) PROVE CountInv'
  <2>1. /\ Untouched(Other(p)) /\ UNCHANGED <<net, slips>>
        /\ Waiting(p) /\ engine'[p].waiting = NoPromotion
        /\ stage[p] \in Promotions /\ stage'[p] = "idle"
        /\ engine'[p].moves = engine[p].moves /\ promoted'[p] = promoted[p] + 1
    BY <1>16, PromoteStep
  <2>2. stage[p] \notin Telling /\ stage'[p] \notin Telling
    BY <2>1, StageNames DEF Telling, Steady
  <2>3. Coming(Other(p))' = Coming(Other(p))
    BY <2>1 DEF Coming
  <2>4. ToTell(p)' = ToTell(p) /\ Due(p) = 1 /\ Due(p)' = 0 /\ Coming(p)' = Coming(p)
    BY <2>1, <2>2 DEF ToTell, Due, Waiting, Coming
  <2>5. Done(p)' = Done(p)
    <3>1. Done(p)' = engine[p].moves + Coming(p) - (promoted[p] + 1) - 0
      BY <2>1, <2>4 DEF Done
    <3>2. Done(p) = engine[p].moves + Coming(p) - promoted[p] - 1
      BY <2>4 DEF Done
    <3> QED
      BY <1>3, <3>1, <3>2
  <2> QED
    BY <1>2, <2>1, <2>3, <2>4, <2>5, CountFrom
<1>15. CASE Next
  <2>1. PICK p \in Player :
            \/ \E n \in 1..MaxGlued : Receive(p, n)
            \/ \E from, to \in Square, wall \in BOOLEAN : Click(p, from, to, wall)
            \/ WallsOverwritten(p) \/ CheckTimeouts(p)
            \/ Decide(p) \/ SendOpportunity(p) \/ SendMove(p) \/ SendWall(p) \/ Check(p)
            \/ Promote(p) \/ \E kind \in Promotions : SendPromotion(p, kind)
    BY <1>15, NextCases
  <2> QED
    BY <1>6, <1>7, <1>8, <1>9, <1>10, <1>11, <1>12, <1>13, <1>14, <1>16, <2>1
<1> QED
  BY <1>1, <1>15


LEMMA InitCount == Init => CountInv
<1> SUFFICES ASSUME Init PROVE CountInv
  OBVIOUS
<1>1. PICK e \in Starts :
        engine = [p \in Player |-> IF p = "W" THEN e ELSE Opposite(e)]
  BY DEF Init
<1>2. Playable(e) /\ Playable(Opposite(e)) /\ Opposite(e).moves = e.moves
  BY StartsAssumption DEF Opposite, Playable, EngineType
<1>3. "W" \in Player /\ "B" \in Player /\ Other("W") \in Player /\ Other("B") \in Player
  BY DEF Player, Other
<1>4. ASSUME NEW p \in Player PROVE Reckoned(p) = e.moves + 0 - 0 - 0 + 0
  <2>1. engine[p].moves = e.moves /\ engine[p].waiting = NoPromotion
    BY <1>1, <1>2 DEF Playable
  <2>2. net[p] = <<>> /\ promoted[p] = 0 /\ stage[Other(p)] = "idle"
    BY OtherPlayer DEF Init
  <2>3. Coming(p) = 0
    BY <2>2, TosFirst DEF Coming
  <2>4. Due(p) = 0 /\ ToTell(Other(p)) = 0
    BY <2>1, <2>2 DEF Due, Waiting, ToTell, Telling
  <2> QED
    BY <2>1, <2>2, <2>3, <2>4 DEF Reckoned, Done
<1> QED
  BY <1>3, <1>4 DEF CountInv

LEMMA CountAlways == Spec => [](TypeInv /\ CountInv)
<1>1. Init => TypeInv /\ CountInv
  BY InitTypes, InitCount
<1>2. TypeInv /\ CountInv /\ [Next]_vars => (TypeInv /\ CountInv)'
  BY NextTypes, NextCount
<1> QED
  BY <1>1, <1>2, PTL DEF Spec

(* When nothing is under way the two counts of moves differ just by the
   promotions: whatever crossed and whoever castled (engine.cpp:98-120,
   795-811).                                                                  *)
THEOREM CountsKeepUp == Spec => []CountsAgree
<1>1. TypeInv /\ CountInv => CountsAgree
  <2>1. SUFFICES ASSUME TypeInv, CountInv, AtRest, slips \cap {"void", "glued"} = {}
                 PROVE  engine["W"].moves - promoted["W"] = engine["B"].moves - promoted["B"]
    BY DEF CountsAgree
  <2>2. ASSUME NEW p \in Player PROVE Reckoned(p) = engine[p].moves - promoted[p]
    <3>1. /\ Other(p) \in Player /\ Other(Other(p)) = p
          /\ engine[p].moves \in Nat /\ promoted[p] \in Nat
      BY <2>1, OtherPlayer, Fields, EngineFields DEF TypeInv
    <3>2. ~Behind(p) /\ ~Behind(Other(p)) /\ stage[p] \notin Promotions
      BY <2>1, <3>1 DEF AtRest
    <3>3. Coming(p) = 0
      BY <3>2, TosFirst DEF Behind, Coming
    <3>4. ToTell(Other(p)) = 0
      BY <3>2 DEF Behind, ToTell, Telling, Untold
    <3>5. Due(p) = 0
      BY <3>1, <3>2 DEF Behind, Due, Waiting
    <3> QED
      BY <3>1, <3>3, <3>4, <3>5 DEF Reckoned, Done
  <2>3. "W" \in Player /\ "B" \in Player
    BY DEF Player
  <2> QED
    BY <2>1, <2>2, <2>3 DEF CountInv
<1> QED
  BY <1>1, CountAlways, PTL

-----------------------------------------------------------------------------
(* The opportunities en passant.                                              *)

InTime(e) == \A ep \in e.enPassant : e.moves <= ep.when + 1

InOrder ==
    /\ slips \cap {"crossed", "castled", "void", "glued"} = {}
    /\ \A p \in Player : promoted[p] = 0

(* An opportunity on its way is in time when the moves before it are made.    *)
ArrivesInTime(p) ==
    \A i \in DOMAIN net[p] : net[p][i].op = "ENPS" =>
        engine[p].moves + Tos(net[p], i) <= net[p][i].b + 1

ExpireInv == InOrder => \A p \in Player : InTime(engine[p]) /\ ArrivesInTime(p)

(* A move that is counted lets no opportunity stay too long.                  *)
LEMMA CountedInTime ==
  ASSUME NEW e \in EngineType, NEW f, NEW to, Counts(e, f, to), InTime(e)
  PROVE  InTime(f)
<1>1. e.moves \in Nat /\ e.enPassant \in SUBSET [under : Int, when : Nat]
  BY EngineFields
<1>2. f.moves = e.moves + 1 /\ f.enPassant = {ep \in e.enPassant : ep.when + 1 # e.moves}
  BY DEF Counts
<1>3. ASSUME NEW ep \in f.enPassant PROVE f.moves <= ep.when + 1
  <2>1. ep \in e.enPassant /\ ep.when + 1 # e.moves /\ ep.when \in Nat
    BY <1>1, <1>2, <1>3
  <2>2. e.moves <= ep.when + 1
    BY <2>1 DEF InTime
  <2> QED
    BY <1>1, <1>2, <2>1, <2>2
<1> QED
  BY <1>3 DEF InTime

(* Castling takes two steps from home.                                        *)
LEMMA CastlingSteps ==
  ASSUME NEW e \in EngineType, NEW f, NEW res, NEW from \in Square, NEW to \in Square,
         Castled(e, f, res, from, to), KingUnmarkedAtHome(e)
  PROVE  e.board[from][2] = "KING" /\ Steps(from, to) > 1
<1>1. e.player \in Player
  BY EngineFields
<1>2. e.board[from] = <<e.player, "KING">> /\ from = KingHome(e.player)
  BY DEF Castled, KingUnmarkedAtHome
<1>3. PICK w \in Castling[e.player] : w.to = to
  BY DEF Castled
<1>4. <<from, to>> \in {<<60, 58>>, <<60, 62>>, <<59, 57>>, <<59, 61>>}
  <2>1. CASE e.player = "W"
    BY <1>2, <1>3, <2>1 DEF KingHome, Castling
  <2>2. CASE e.player = "B"
    BY <1>2, <1>3, <2>2 DEF KingHome, Castling
  <2> QED
    BY <1>1, <2>1, <2>2 DEF Player
<1>5. Row(from) = 7 /\ Row(to) = 7 /\ Abs(Col(to) - Col(from)) = 2
  BY <1>4 DEF Row, Col, Abs
<1>6. Abs(Row(to) - Row(from)) = 0
  BY <1>5 DEF Abs
<1>7. Steps(from, to) = 2
  BY <1>5, <1>6 DEF Steps
<1> QED
  BY <1>2, <1>7


LEMMA ExpireFrom ==
  ASSUME ExpireInv, NEW p \in Player, Untouched(Other(p)), slips \subseteq slips',
         promoted'[p] = 0 => promoted[p] = 0,
         InOrder /\ InOrder' /\ InTime(engine[p]) /\ ArrivesInTime(p) /\ ArrivesInTime(Other(p))
            => InTime(engine'[p]) /\ ArrivesInTime(p)' /\ ArrivesInTime(Other(p))'
  PROVE  ExpireInv'
<1> SUFFICES ASSUME InOrder'
             PROVE  \A r \in Player : InTime(engine'[r]) /\ ArrivesInTime(r)'
  BY DEF ExpireInv
<1> DEFINE q == Other(p)
<1>1. q \in Player
  BY OtherPlayer
<1> HIDE DEF q
<1>2. engine'[q] = engine[q] /\ promoted'[q] = promoted[q]
  BY DEF Untouched, q
<1>3. \A r \in Player : r = p \/ r = q
  BY BothPlayers DEF q
<1>4. InOrder
  BY <1>2, <1>3 DEF InOrder
<1>5. \A r \in Player : InTime(engine[r]) /\ ArrivesInTime(r)
  BY <1>4 DEF ExpireInv
<1>6. InTime(engine'[p]) /\ ArrivesInTime(p)' /\ ArrivesInTime(q)'
  BY <1>1, <1>4, <1>5 DEF q
<1>7. InTime(engine'[q])
  BY <1>1, <1>2, <1>5
<1> QED
  BY <1>3, <1>6, <1>7

LEMMA ArriveAsBefore ==
  ASSUME NEW r \in Player, net'[r] = net[r], engine'[r].moves = engine[r].moves, ArrivesInTime(r)
  PROVE  ArrivesInTime(r)'
  BY DEF ArrivesInTime

LEMMA SentInTime ==
  ASSUME Shapes, NEW r \in Player, NEW m \in Message, net'[r] = Append(net[r], m),
         engine'[r].moves = engine[r].moves, ArrivesInTime(r),
         m.op = "ENPS" => engine[r].moves + Coming(r) <= m.b + 1
  PROVE  ArrivesInTime(r)'
<1> DEFINE s == net[r]
           t == Append(s, m)
<1>1. s \in Seq(Message)
  BY Fields
<1> HIDE DEF s
<1>2. /\ \A i \in DOMAIN s : Tos(t, i) = Tos(s, i)
      /\ Tos(t, Len(s) + 1) = Tos(s, Len(s) + 1)
  BY <1>1, TosAppended
<1>3. /\ \A i \in DOMAIN t : i = Len(s) + 1 \/ (i \in DOMAIN s /\ t[i] = s[i])
      /\ t[Len(s) + 1] = m
  BY <1>1
<1> HIDE DEF t
<1>4. net'[r] = t
  BY DEF t, s
<1>5. Coming(r) = Tos(s, Len(s) + 1)
  BY DEF Coming, s
<1>6. ASSUME NEW i \in DOMAIN t, t[i].op = "ENPS"
      PROVE  engine[r].moves + Tos(t, i) <= t[i].b + 1
  <2>1. CASE i = Len(s) + 1
    BY <1>2, <1>3, <1>5, <1>6, <2>1
  <2>2. CASE i \in DOMAIN s /\ t[i] = s[i]
    BY <1>2, <1>6, <2>2 DEF ArrivesInTime, s
  <2> QED
    BY <1>3, <2>1, <2>2
<1> QED
  BY <1>4, <1>6 DEF ArrivesInTime

LEMMA ReadInTime ==
  ASSUME Shapes, NEW p \in Player, 1 \in DOMAIN net[p],
         net'[p] = SubSeq(net[p], 1 + 1, Len(net[p])),
         engine'[p].moves = engine[p].moves + (IF net[p][1].op = "TO" THEN 1 ELSE 0),
         ArrivesInTime(p)
  PROVE  ArrivesInTime(p)'
<1> DEFINE s == net[p]
           t == SubSeq(s, 2, Len(s))
           k == IF s[1].op = "TO" THEN 1 ELSE 0
<1>1. s \in Seq(Message) /\ 1 <= Len(s) /\ engine[p].moves \in Nat
  <2>1. s \in Seq(Message) /\ engine[p].moves \in Nat
    BY Fields, EngineFields
  <2>2. 1 \in DOMAIN s
    OBVIOUS
  <2> HIDE DEF s
  <2> QED
    BY <2>1, <2>2
<1>2. net'[p] = t
  OBVIOUS
<1>3. engine'[p].moves = engine[p].moves + k
  OBVIOUS
<1> HIDE DEF s
<1>4. /\ Len(t) = Len(s) - 1 /\ Len(s) \in Nat /\ DOMAIN t = 1..Len(t) /\ DOMAIN s = 1..Len(s)
      /\ \A j \in 1..Len(t) : j + 1 \in 1..Len(s) /\ t[j] = s[j + 1]
  BY <1>1, AfterFirst
<1>5. \A i \in 1..Len(s) : Tos(s, i + 1) = Tos(t, i) + k
  BY <1>1, TosRest
<1> HIDE DEF t, k
<1>6. k \in Nat
  BY DEF k
<1>7. ASSUME NEW i \in DOMAIN t, t[i].op = "ENPS"
      PROVE  engine'[p].moves + Tos(t, i) <= t[i].b + 1
  <2>1. i \in Nat /\ i \in 1..Len(s) /\ i + 1 \in DOMAIN s /\ t[i] = s[i + 1]
    BY <1>4
  <2>2. engine[p].moves + Tos(s, i + 1) <= t[i].b + 1
    BY <1>7, <2>1 DEF ArrivesInTime, s
  <2>3. Tos(s, i + 1) = Tos(t, i) + k /\ Tos(t, i) \in Nat
    BY <1>5, <2>1, TosNat
  <2>4. engine'[p].moves + Tos(t, i) = engine[p].moves + Tos(s, i + 1)
    BY <1>1, <1>3, <1>6, <2>3
  <2> QED
    BY <2>2, <2>4
<1> QED
  BY <1>2, <1>7 DEF ArrivesInTime


LEMMA NoneComing ==
  ASSUME Shapes, NEW p \in Player, \A i \in DOMAIN net[p] : net[p][i].op # "TO"
  PROVE  Coming(p) = 0
<1> DEFINE s == net[p]
<1>1. s \in Seq(Message)
  BY Fields
<1>2. \A i \in DOMAIN s : s[i].op # "TO"
  OBVIOUS
<1> HIDE DEF s
<1>3. {j \in 1..(Len(s) + 1 - 1) : s[j].op = "TO"} = {}
  BY <1>1, <1>2
<1> QED
  BY <1>3, FS_EmptySet DEF Coming, Tos, s

(* When an opportunity is told of, all that came before it has been applied by
   the one and counted by the other.                                          *)
LEMMA OpportunityInTime ==
  ASSUME TypeInv, CountInv, TurnInv, InOrder, NEW p \in Player, stage[p] = "sendOpportunity"
  PROVE  engine[Other(p)].moves + Coming(Other(p)) <= engine[p].moves + 1
<1> DEFINE q == Other(p)
<1>1. q \in Player /\ Other(q) = p /\ {p, q} = {"W", "B"} /\ Shapes
  BY OtherPlayer DEF Player, Other, TypeInv
<1>2. ToldSoon(q) /\ ~(ToldSoon(q) /\ ToldSoon(p))
  BY <1>1 DEF ToldSoon, Untold, TurnInv, InOrder
<1>3. /\ \A i \in DOMAIN net[p] : net[p][i].op = "LOSE"
      /\ stage[q] \notin Untold
  BY <1>2 DEF ToldSoon
<1>4. Reckoned(p) = Reckoned(q)
  BY <1>1 DEF CountInv, InOrder
<1>5. promoted[p] = 0 /\ promoted[q] = 0
  BY <1>1 DEF InOrder
<1>6. /\ engine[p].moves \in Nat /\ engine[q].moves \in Nat /\ Coming(q) \in Nat
      /\ Due(p) \in {0, 1} /\ Due(q) \in {0, 1}
  BY <1>1, CountTypes
<1> HIDE DEF q
<1>7. Coming(p) = 0
  BY <1>1, <1>3, NoneComing
<1>8. ToTell(q) = 0 /\ ToTell(p) = 1
  BY <1>3 DEF ToTell, Telling, Untold
<1>9. Reckoned(p) = engine[p].moves + 0 - 0 - Due(p) + 0
  BY <1>5, <1>7, <1>8 DEF Reckoned, Done, q
<1>10. Reckoned(q) = engine[q].moves + Coming(q) - 0 - Due(q) + 1
  BY <1>1, <1>5, <1>8 DEF Reckoned, Done
<1>11. engine[q].moves + Coming(q) <= engine[p].moves + 1
  <2> DEFINE mp == engine[p].moves
             mq == engine[q].moves
             cq == Coming(q)
             dp == Due(p)
             dq == Due(q)
  <2>1. mp \in Nat /\ mq \in Nat /\ cq \in Nat /\ dp \in {0, 1} /\ dq \in {0, 1}
    BY <1>6
  <2>2. mp + 0 - 0 - dp + 0 = mq + cq - 0 - dq + 1
    BY <1>4, <1>9, <1>10
  <2> HIDE DEF mp, mq, cq, dp, dq
  <2>3. mq + cq <= mp + 1
    BY <2>1, <2>2
  <2> QED
    BY <2>3 DEF mp, mq, cq
<1> QED
  BY <1>11 DEF q

(* A move decided lets no opportunity stay too long, unless it castles.       *)
LEMMA MoveInTime ==
  ASSUME NEW e \in EngineType, NEW f, NEW res, NEW from \in Square, NEW to \in Square,
         Outcome(e, f, res, from, to), KingUnmarkedAtHome(e), InTime(e),
         "castled" \notin MoveSlips(e, from, to, <<f, res>>)
  PROVE  InTime(f)
<1>1. CASE Refused(e, f, res)
  BY <1>1 DEF Refused, InTime
<1>2. CASE Void(e, f, res, from, to)
  BY <1>2 DEF Void
<1>3. CASE Stepped(e, f, res, from, to) \/ Took(e, f, res, from, to) \/ Passed(e, f, res, from, to)
  <2>1. Counts(e, f, to)
    BY <1>3 DEF Stepped, Took, Passed
  <2> QED
    BY <2>1, CountedInTime
<1>4. ~Castled(e, f, res, from, to)
  <2>1. SUFFICES ASSUME Castled(e, f, res, from, to) PROVE FALSE
    OBVIOUS
  <2>2. e.board[from][2] = "KING" /\ Steps(from, to) > 1
    BY <2>1, CastlingSteps
  <2>3. res # "INVALID" /\ "castled" \in Slips
    BY <2>1 DEF Castled, Slips
  <2>4. "castled" \in MoveSlips(e, from, to, <<f, res>>)
    BY <2>2, <2>3 DEF MoveSlips
  <2> QED
    BY <2>4
<1> QED
  BY <1>1, <1>2, <1>3, <1>4 DEF Outcome

LEMMA NextExpire ==
  TypeInv /\ KingsInv /\ CountInv /\ TurnInv /\ ExpireInv /\ [Next]_vars => ExpireInv'
<1> SUFFICES ASSUME TypeInv, KingsInv, CountInv, TurnInv, ExpireInv, [Next]_vars
             PROVE  ExpireInv'
  OBVIOUS
<1>1. CASE UNCHANGED vars
  BY <1>1 DEF ExpireInv, InOrder, ArrivesInTime, InTime, vars
<1>2. Shapes
  BY DEF TypeInv
<1>3. ASSUME NEW p \in Player
      PROVE  /\ Other(p) \in Player
             /\ engine[p] \in EngineType /\ engine[p].player = p
             /\ net[p] \in Seq(Message)
             /\ click[p].from \in Square /\ click[p].to \in Square
             /\ engine[p].moves \in Nat
  BY OtherPlayer, Fields, EngineFields DEF TypeInv, Orderly
<1>4. ASSUME NEW p \in Player, Untouched(Other(p)), slips \subseteq slips', net' = net,
             engine'[p].moves = engine[p].moves, engine'[p].enPassant = engine[p].enPassant,
             promoted'[p] = promoted[p]
      PROVE  ExpireInv'
  <2>1. InTime(engine[p]) => InTime(engine'[p])
    BY <1>4 DEF InTime
  <2>2. ArrivesInTime(p) => ArrivesInTime(p)'
    BY <1>4, ArriveAsBefore
  <2>3. ArrivesInTime(Other(p)) => ArrivesInTime(Other(p))'
    BY <1>3, <1>4, ArriveAsBefore DEF Untouched
  <2> QED
    BY <1>4, <2>1, <2>2, <2>3, ExpireFrom
<1>5. ASSUME NEW p \in Player, Untouched(Other(p)), slips \subseteq slips', net'[p] = net[p],
             engine' = engine, promoted' = promoted,
             NEW m \in Message, net'[Other(p)] = Append(net[Other(p)], m),
             InOrder /\ m.op = "ENPS" =>
                engine[Other(p)].moves + Coming(Other(p)) <= m.b + 1
      PROVE  ExpireInv'
  <2>1. InTime(engine[p]) => InTime(engine'[p])
    BY <1>5
  <2>2. ArrivesInTime(p) => ArrivesInTime(p)'
    BY <1>5, ArriveAsBefore
  <2>3. InOrder /\ ArrivesInTime(Other(p)) => ArrivesInTime(Other(p))'
    BY <1>2, <1>3, <1>5, SentInTime
  <2> QED
    BY <1>5, <2>1, <2>2, <2>3, ExpireFrom
<1>6. ASSUME NEW p \in Player, NEW n \in 1..MaxGlued, Receive(p, n) PROVE ExpireInv'
  <2> DEFINE e == engine[p]
             f == engine'[p]
             m == net[p][1]
  <2>1. /\ Untouched(Other(p)) /\ net'[Other(p)] = net[Other(p)] /\ slips \subseteq slips'
        /\ promoted'[p] = promoted[p]
        /\ n \in 1..Len(net[p]) /\ net'[p] = SubSeq(net[p], n + 1, Len(net[p]))
        /\ n > 1 => "glued" \in slips'
    BY <1>6, ReceiveStep
  <2>2. PICK res : Applied(e, f, res, m, n)
    BY <1>6, ReceiveStep
  <2>3. 1 \in DOMAIN net[p] /\ m \in Message /\ m.b \in Nat
    <3>1. 1 \in DOMAIN net[p]
      BY <1>3, <2>1
    <3>2. m \in Message
      BY <1>3, <3>1
    <3> QED
      BY <3>1, <3>2 DEF Message
  <2>4. ASSUME InOrder', InTime(e), ArrivesInTime(p)
        PROVE  InTime(f) /\ ArrivesInTime(p)'
    <3>1. n = 1
      <4>1. ~(n > 1) /\ n \in Nat /\ n >= 1
        BY <1>3, <2>1, <2>4, BoundsAssumption DEF InOrder
      <4> QED
        BY <4>1
    <3>2. ~(n > 1) /\ e.moves \in Nat /\ e \in EngineType
      BY <1>3, <3>1
    <3>3. f.moves = e.moves + (IF m.op = "TO" THEN 1 ELSE 0)
      BY <2>2, <3>1, <3>2 DEF Applied, Relocates, Counts, OnlyWalls
    <3>4. ArrivesInTime(p)'
      BY <1>2, <2>1, <2>3, <2>4, <3>1, <3>3, ReadInTime
    <3>5. InTime(f)
      <4>1. CASE f.moves = e.moves /\ f.enPassant = e.enPassant
        BY <2>4, <4>1 DEF InTime
      <4>2. CASE Counts(e, f, m.b)
        BY <2>4, <3>2, <4>2, CountedInTime
      <4>3. CASE /\ m.op = "ENPS" /\ f.moves = e.moves
                 /\ f.enPassant = e.enPassant \cup {[under |-> m.a, when |-> m.b]}
        <5>1. e.moves + Tos(net[p], 1) <= m.b + 1
          BY <2>3, <2>4, <4>3 DEF ArrivesInTime
        <5>2. e.moves <= m.b + 1
          BY <2>3, <3>2, <5>1, TosFirst
        <5> QED
          BY <2>4, <4>3, <5>2 DEF InTime
      <4> QED
        BY <2>2, <3>2, <4>1, <4>2, <4>3 DEF Applied, Relocates, OnlyWalls
    <3> QED
      BY <3>4, <3>5
  <2>5. ArrivesInTime(Other(p)) => ArrivesInTime(Other(p))'
    BY <1>3, <2>1, ArriveAsBefore DEF Untouched
  <2> QED
    BY <2>1, <2>4, <2>5, ExpireFrom
<1>7. ASSUME NEW p \in Player, NEW from \in Square, NEW to \in Square, NEW wall \in BOOLEAN,
             Click(p, from, to, wall)
      PROVE  ExpireInv'
  <2>1. Untouched(Other(p)) /\ UNCHANGED <<engine, net, promoted, slips>>
    BY <1>7, ClickStep
  <2> QED
    BY <1>4, <2>1
<1>8. ASSUME NEW p \in Player, WallsOverwritten(p) \/ CheckTimeouts(p) PROVE ExpireInv'
  <2>1. /\ Untouched(Other(p)) /\ UNCHANGED <<net, promoted>> /\ slips \subseteq slips'
        /\ engine'[p].moves = engine[p].moves /\ engine'[p].enPassant = engine[p].enPassant
    BY <1>8, WallsOverwrittenStep, CheckTimeoutsStep
  <2> QED
    BY <1>4, <2>1
<1>9. ASSUME NEW p \in Player, Decide(p) PROVE ExpireInv'
  <2> DEFINE e == engine[p]
             f == engine'[p]
             from == click[p].from
             to == click[p].to
  <2>1. /\ Untouched(Other(p)) /\ UNCHANGED <<net, promoted>> /\ slips \subseteq slips'
        /\ Behind(p) => "crossed" \in slips'
        /\ \/ OnlyWalls(e, f)
           \/ \E res : Moved(p, res)
    BY <1>9, DecideStep
  <2>2. CASE OnlyWalls(e, f)
    BY <1>4, <2>1, <2>2 DEF OnlyWalls
  <2>3. ASSUME NEW res, Moved(p, res), InOrder', InTime(e)
        PROVE  InTime(f) /\ ArrivesInTime(p)'
    <3>1. Outcome(e, f, res, from, to) /\ MoveSlips(e, from, to, <<f, res>>) \subseteq slips'
      BY <2>3 DEF Moved
    <3>2. "castled" \notin slips' /\ "crossed" \notin slips'
      BY <2>3 DEF InOrder
    <3>3. e \in EngineType /\ from \in Square /\ to \in Square /\ KingUnmarkedAtHome(e)
      BY <1>3 DEF KingsInv, Kept
    <3>4. net'[p] = <<>>
      BY <2>1, <3>2 DEF Behind
    <3>5. ArrivesInTime(p)'
      BY <3>4 DEF ArrivesInTime
    <3> HIDE DEF e, f, from, to
    <3>6. InTime(f)
      BY <2>3, <3>1, <3>2, <3>3, MoveInTime
    <3> QED
      BY <3>5, <3>6
  <2>4. ArrivesInTime(Other(p)) => ArrivesInTime(Other(p))'
    BY <1>3, <2>1, ArriveAsBefore DEF Untouched
  <2>5. ASSUME NEW res, Moved(p, res) PROVE ExpireInv'
    BY <2>1, <2>3, <2>4, <2>5, ExpireFrom
  <2> QED
    BY <2>1, <2>2, <2>5
<1>10. ASSUME NEW p \in Player, SendOpportunity(p) PROVE ExpireInv'
  <2>1. /\ Untouched(Other(p)) /\ UNCHANGED <<engine, promoted, slips>> /\ net'[p] = net[p]
        /\ stage[p] = "sendOpportunity"
    BY <1>10, SendOpportunityStep
  <2>2. PICK m \in Message : m.b = engine[p].moves /\ net'[Other(p)] = Append(net[Other(p)], m)
    BY <1>10, SendOpportunityStep
  <2>3. InOrder => engine[Other(p)].moves + Coming(Other(p)) <= m.b + 1
    BY <2>1, <2>2, OpportunityInTime
  <2> QED
    BY <1>5, <2>1, <2>2, <2>3
<1>11. ASSUME NEW p \in Player, SendMove(p) \/ SendWall(p) PROVE ExpireInv'
  <2>1. PICK op \in {"TO", "WALL"} :
          /\ Untouched(Other(p)) /\ UNCHANGED <<engine, promoted, slips>> /\ TellsClick(p, op)
    BY <1>11, SendMoveStep, SendWallStep
  <2>2. net'[p] = net[p]
    BY <2>1 DEF TellsClick
  <2>3. PICK m \in Message : m.op = op /\ net'[Other(p)] = Append(net[Other(p)], m)
    BY <2>1 DEF TellsClick
  <2> QED
    BY <1>5, <2>1, <2>2, <2>3
<1>12. ASSUME NEW p \in Player, Check(p) PROVE ExpireInv'
  <2>1. /\ Untouched(Other(p)) /\ UNCHANGED <<engine, promoted, slips>> /\ net'[p] = net[p]
        /\ \/ Lose \in Message /\ net'[Other(p)] = Append(net[Other(p)], Lose)
           \/ net' = net
    BY <1>12, CheckStep
  <2>2. Lose.op # "ENPS"
    BY DEF Lose, Msg
  <2>3. CASE Lose \in Message /\ net'[Other(p)] = Append(net[Other(p)], Lose)
    BY <1>5, <2>1, <2>2, <2>3
  <2>4. CASE net' = net
    BY <1>4, <2>1, <2>4
  <2> QED
    BY <2>1, <2>3, <2>4
<1>13. ASSUME NEW p \in Player, NEW kind \in Promotions, SendPromotion(p, kind)
       PROVE  ExpireInv'
  <2>1. /\ Untouched(Other(p)) /\ slips \subseteq slips' /\ net'[p] = net[p]
        /\ UNCHANGED <<engine, promoted>>
    BY <1>13, SendPromotionStep
  <2>2. PICK m \in Message :
          /\ m.op = "PROM" /\ m.kind = kind /\ Meant(m)
          /\ m.a = Reverse(engine[p].waiting.from) /\ m.b = Reverse(engine[p].waiting.to)
          /\ net'[Other(p)] = Append(net[Other(p)], m)
    BY <1>13, PromotionTold
  <2> QED
    BY <1>5, <2>1, <2>2
<1>15. ASSUME NEW p \in Player, Promote(p) PROVE ExpireInv'
  <2>1. promoted'[p] = promoted[p] + 1
    BY <1>15, PromoteStep
  <2>2. promoted[p] \in Nat
    BY <1>2, Fields
  <2>3. promoted'[p] # 0
    BY <2>1, <2>2
  <2>4. ~InOrder'
    BY <2>3 DEF InOrder
  <2> QED
    BY <2>4 DEF ExpireInv
<1>14. CASE Next
  <2>1. PICK p \in Player :
            \/ \E n \in 1..MaxGlued : Receive(p, n)
            \/ \E from, to \in Square, wall \in BOOLEAN : Click(p, from, to, wall)
            \/ WallsOverwritten(p) \/ CheckTimeouts(p)
            \/ Decide(p) \/ SendOpportunity(p) \/ SendMove(p) \/ SendWall(p) \/ Check(p)
            \/ Promote(p) \/ \E kind \in Promotions : SendPromotion(p, kind)
    BY <1>14, NextCases
  <2> QED
    BY <1>6, <1>7, <1>8, <1>9, <1>10, <1>11, <1>12, <1>13, <1>15, <2>1
<1> QED
  BY <1>1, <1>14

LEMMA InitExpire == Init => ExpireInv
<1> SUFFICES ASSUME Init PROVE ExpireInv
  OBVIOUS
<1>1. PICK e \in Starts :
        engine = [p \in Player |-> IF p = "W" THEN e ELSE Opposite(e)]
  BY DEF Init
<1>2. e.enPassant = {} /\ Opposite(e).enPassant = {}
  BY StartsAssumption DEF Playable
<1>3. \A p \in Player : engine[p].enPassant = {} /\ net[p] = <<>>
  BY <1>1, <1>2 DEF Init
<1> QED
  BY <1>3 DEF ExpireInv, InTime, ArrivesInTime

(* An opportunity en passant runs out on the other board by the second move
   after it, as long as nothing crossed, was glued, was told that was no move,
   castled or promoted (game.cpp:217-223; engine.cpp:93-96, 795-811).         *)
THEOREM PassantExpires == Spec => []OpportunitiesExpire
<1>1. Init => TypeInv /\ KingsInv /\ CountInv /\ TurnInv /\ ExpireInv
  BY InitTypes, InitKings, InitCount, InitTurn, InitExpire
<1>2. TypeInv /\ KingsInv /\ CountInv /\ TurnInv /\ ExpireInv /\ [Next]_vars
        => (TypeInv /\ KingsInv /\ CountInv /\ TurnInv /\ ExpireInv)'
  BY NextTypes, NextKings, NextCount, NextTurn, NextExpire
<1>3. ExpireInv => OpportunitiesExpire
  BY DEF ExpireInv, OpportunitiesExpire, InOrder, InTime
<1> QED
  BY <1>1, <1>2, <1>3, PTL DEF Spec

-----------------------------------------------------------------------------
(* The two boards.

   What one player sees of a position, and what becomes of it when a message is
   applied.  Boards are compared always, walls only when b says so: when no
   rook broke any and no memory was overwritten.                              *)

View(e, b) == [board |-> e.board, walls |-> IF b THEN e.walls ELSE {}]

Views == [board : [Square -> Pieces], walls : SUBSET AllWalls]

MirrorView(v) == [board |-> MirrorBoard(v.board), walls |-> MirrorWalls(v.walls)]

OnBoard(v, board) == [board |-> board, walls |-> v.walls]

Walled(v, from, to) ==
    [board |-> v.board,
     walls |-> IF InLine(from, to) /\ ~OnEdge(from, Towards(from, to))
               THEN v.walls \cup {Wall(from, Towards(from, to))} ELSE v.walls]

(* The view of player q after the message m.                                  *)
After(v, m, q, b) ==
    CASE m.op = "TO" -> OnBoard(v, Relocated(v.board, m.a, m.b))
      [] m.op = "PROM" ->
            OnBoard(v, PromotedBoard(v.board, m.a, m.b, <<Other(q), m.kind>>))
      [] m.op = "WALL" /\ b -> Walled(v, m.a, m.b)
      [] OTHER -> v

LEMMA ReverseRowCol ==
  \A s \in Square : Row(Reverse(s)) = 7 - Row(s) /\ Col(Reverse(s)) = 7 - Col(s)
<1>1. \A s \in Square : 7 - Row(s) \in 0..7 /\ 7 - Col(s) \in 0..7
  BY RowCol
<1> QED
  BY <1>1, AtSquare DEF Reverse

LEMMA ReverseOne ==
  \A s, t \in Square : (Reverse(s) = Reverse(t)) <=> (s = t)
  BY ReverseSquare

LEMMA MirrorBoardAt ==
  ASSUME NEW board \in [Square -> Pieces]
  PROVE  /\ MirrorBoard(board) \in [Square -> Pieces]
         /\ MirrorBoard(MirrorBoard(board)) = board
         /\ \A s \in Square : MirrorBoard(board)[s] = board[Reverse(s)]
<1>1. /\ MirrorBoard(board) \in [Square -> Pieces]
      /\ \A s \in Square : MirrorBoard(board)[s] = board[Reverse(s)]
  BY ReverseSquare DEF MirrorBoard
<1>2. \A s \in Square : MirrorBoard(MirrorBoard(board))[s] = board[s]
  <2>1. TAKE s \in Square
  <2>2. Reverse(s) \in Square /\ Reverse(Reverse(s)) = s
    BY ReverseSquare
  <2>3. MirrorBoard(MirrorBoard(board))[s] = MirrorBoard(board)[Reverse(s)]
    BY DEF MirrorBoard
  <2> QED
    BY <1>1, <2>2, <2>3
<1>3. MirrorBoard(MirrorBoard(board)) = [s \in Square |-> MirrorBoard(MirrorBoard(board))[s]]
  BY DEF MirrorBoard
<1>4. board = [s \in Square |-> board[s]]
  OBVIOUS
<1> QED
  BY <1>1, <1>2, <1>3, <1>4

(* A move seen from the other side is the move between the squares seen from
   there.                                                                     *)
LEMMA MirrorRelocated ==
  ASSUME NEW board \in [Square -> Pieces], NEW from \in Square, NEW to \in Square
  PROVE  MirrorBoard(Relocated(board, from, to)) =
            Relocated(MirrorBoard(board), Reverse(from), Reverse(to))
<1> DEFINE l == MirrorBoard(Relocated(board, from, to))
           r == Relocated(MirrorBoard(board), Reverse(from), Reverse(to))
<1>1. /\ Relocated(board, from, to) \in [Square -> Pieces]
      /\ MirrorBoard(board) \in [Square -> Pieces]
      /\ Reverse(from) \in Square /\ Reverse(to) \in Square
  BY RelocatedType, MirrorBoardAt, ReverseSquare
<1>2. l \in [Square -> Pieces] /\ r \in [Square -> Pieces]
  BY <1>1, RelocatedType, MirrorBoardAt
<1>3. ASSUME NEW s \in Square PROVE l[s] = r[s]
  <2> DEFINE x == Reverse(s)
  <2>1. x \in Square /\ Reverse(x) = s
    BY ReverseSquare
  <2>2. l[s] = Relocated(board, from, to)[x]
    BY <1>1, MirrorBoardAt
  <2>3. l[s] = IF x = from THEN Empty ELSE IF x = to THEN board[from] ELSE board[x]
    BY <2>1, <2>2, RelocatedAt
  <2>4. r[s] = IF s = Reverse(from) THEN Empty
               ELSE IF s = Reverse(to) THEN MirrorBoard(board)[Reverse(from)]
               ELSE MirrorBoard(board)[s]
    BY <1>1, RelocatedAt
  <2>5. MirrorBoard(board)[Reverse(from)] = board[from] /\ MirrorBoard(board)[s] = board[x]
    BY <1>1, MirrorBoardAt, ReverseSquare
  <2>6. (x = from <=> s = Reverse(from)) /\ (x = to <=> s = Reverse(to))
    BY <2>1, ReverseOne
  <2> QED
    BY <2>3, <2>4, <2>5, <2>6
<1> HIDE DEF l, r
<1>4. l = [s \in Square |-> l[s]] /\ r = [s \in Square |-> r[s]]
  BY <1>2
<1>5. l = r
  BY <1>3, <1>4
<1> QED
  BY <1>5 DEF l, r

(* So is a promotion, which needs no other move to be told of.                *)
LEMMA MirrorPromoted ==
  ASSUME NEW board \in [Square -> Pieces], NEW from \in Square, NEW to \in Square,
         NEW piece \in Pieces
  PROVE  MirrorBoard([Relocated(board, from, to) EXCEPT ![to] = piece]) =
            PromotedBoard(MirrorBoard(board), Reverse(from), Reverse(to), piece)
<1> DEFINE g == [Relocated(board, from, to) EXCEPT ![to] = piece]
           l == MirrorBoard(g)
           r == PromotedBoard(MirrorBoard(board), Reverse(from), Reverse(to), piece)
<1>1. /\ Relocated(board, from, to) \in [Square -> Pieces]
      /\ MirrorBoard(board) \in [Square -> Pieces]
      /\ Reverse(from) \in Square /\ Reverse(to) \in Square
  BY RelocatedType, MirrorBoardAt, ReverseSquare
<1>2. /\ g \in [Square -> Pieces]
      /\ \A x \in Square : g[x] = IF x = to THEN piece ELSE Relocated(board, from, to)[x]
  BY <1>1
<1>3. /\ r \in [Square -> Pieces]
      /\ \A s \in Square : r[s] = IF s = Reverse(to) THEN piece
                                  ELSE IF s = Reverse(from) THEN Empty
                                  ELSE MirrorBoard(board)[s]
  <2>1. Empty \in Pieces
    BY DEF Pieces
  <2> QED
    BY <1>1, <2>1 DEF PromotedBoard
<1> HIDE DEF g, r
<1>4. l \in [Square -> Pieces]
  BY <1>2, MirrorBoardAt
<1>5. ASSUME NEW s \in Square PROVE l[s] = r[s]
  <2> DEFINE x == Reverse(s)
  <2>1. x \in Square /\ Reverse(x) = s
    BY ReverseSquare
  <2>2. l[s] = g[x]
    BY <1>2, MirrorBoardAt
  <2>3. MirrorBoard(board)[s] = board[x]
    BY MirrorBoardAt
  <2>4. (x = from <=> s = Reverse(from)) /\ (x = to <=> s = Reverse(to))
    BY <2>1, ReverseOne
  <2>5. x # to => g[x] = IF x = from THEN Empty ELSE board[x]
    BY <1>2, <2>1, RelocatedAt
  <2>6. x = to => g[x] = piece
    BY <1>2, <2>1
  <2> HIDE DEF x, l
  <2> QED
    BY <1>3, <2>2, <2>3, <2>4, <2>5, <2>6
<1> HIDE DEF l
<1>6. l = [s \in Square |-> l[s]] /\ r = [s \in Square |-> r[s]]
  BY <1>3, <1>4
<1>7. l = r
  BY <1>5, <1>6
<1> QED
  BY <1>7 DEF l, r, g

LEMMA AllWallsPairs ==
  \A w \in AllWalls : \A s \in w : s \in Square
<1>1. ASSUME NEW s \in Square, NEW dir \in {d \in {Down, Right} : ~OnEdge(s, d)}
      PROVE  \A t \in Wall(s, dir) : t \in Square
  BY DEF Wall, OnEdge, Square, Row, Col, Down, Right, Up, Left
<1> QED
  BY <1>1 DEF AllWalls

LEMMA MirrorWallsTwice ==
  ASSUME NEW ws \in SUBSET AllWalls
  PROVE  MirrorWalls(MirrorWalls(ws)) = ws
<1> DEFINE rev(w) == {Reverse(s) : s \in w}
<1>1. ASSUME NEW w \in AllWalls PROVE rev(rev(w)) = w
  <2>1. \A s \in w : s \in Square /\ Reverse(Reverse(s)) = s
    BY AllWallsPairs, ReverseSquare
  <2>2. rev(rev(w)) = {Reverse(Reverse(s)) : s \in w}
    OBVIOUS
  <2>3. {Reverse(Reverse(s)) : s \in w} = {s : s \in w}
    BY <2>1
  <2>4. {s : s \in w} = w
    OBVIOUS
  <2> QED
    BY <2>2, <2>3, <2>4
<1>2. MirrorWalls(MirrorWalls(ws)) = {rev(rev(w)) : w \in ws}
  BY DEF MirrorWalls
<1> HIDE DEF rev
<1>3. {rev(rev(w)) : w \in ws} = {w : w \in ws}
  BY <1>1
<1>4. {w : w \in ws} = ws
  OBVIOUS
<1> QED
  BY <1>2, <1>3, <1>4

(* A wall built seen from the other side is the wall built there: the direction
   turns round (engine.cpp:215-289).                                          *)
LEMMA TurnedRound ==
  ASSUME NEW from \in Square, NEW to \in Square, from # to, InLine(from, to)
  PROVE  LET dir == Towards(from, to)
             rid == Towards(Reverse(from), Reverse(to))
         IN  /\ InLine(Reverse(from), Reverse(to))
             /\ dir \in Sides /\ rid = 0 - dir
             /\ OnEdge(from, dir) <=> OnEdge(Reverse(from), rid)
<1> DEFINE rf == Row(from)
           cf == Col(from)
           rt == Row(to)
           ct == Col(to)
<1>1. rf \in 0..7 /\ cf \in 0..7 /\ rt \in 0..7 /\ ct \in 0..7
      /\ (rf # rt \/ cf # ct) /\ (rf = rt \/ cf = ct)
  BY RowCol DEF InLine
<1>2. /\ Row(Reverse(from)) = 7 - rf /\ Col(Reverse(from)) = 7 - cf
      /\ Row(Reverse(to)) = 7 - rt /\ Col(Reverse(to)) = 7 - ct
  BY ReverseRowCol
<1> HIDE DEF rf, cf, rt, ct
<1>3. InLine(Reverse(from), Reverse(to))
  BY <1>1, <1>2 DEF InLine
<1>0. Down = 0 - Up /\ Up = 0 - Down /\ Right = 0 - Left /\ Left = 0 - Right
  BY DEF Up, Down, Left, Right
<1>4. CASE cf = ct /\ rf > rt
  <2>1. Towards(from, to) = Up
    BY <1>4 DEF Towards, rf, cf, rt, ct
  <2>2. Towards(Reverse(from), Reverse(to)) = Down
    BY <1>1, <1>2, <1>4 DEF Towards
  <2>3. OnEdge(from, Up) <=> rf = 0
    BY DEF OnEdge, rf, Up, Down, Left, Right
  <2>4. OnEdge(Reverse(from), Down) <=> 7 - rf = 7
    BY <1>2 DEF OnEdge, Up, Down, Left, Right
  <2> QED
    BY <1>0, <1>1, <1>3, <2>1, <2>2, <2>3, <2>4 DEF Sides
<1>5. CASE cf = ct /\ ~(rf > rt)
  <2>1. Towards(from, to) = Down
    BY <1>5 DEF Towards, rf, cf, rt, ct
  <2>2. Towards(Reverse(from), Reverse(to)) = Up
    BY <1>1, <1>2, <1>5 DEF Towards
  <2>3. OnEdge(from, Down) <=> rf = 7
    BY DEF OnEdge, rf, Up, Down, Left, Right
  <2>4. OnEdge(Reverse(from), Up) <=> 7 - rf = 0
    BY <1>2 DEF OnEdge, Up, Down, Left, Right
  <2> QED
    BY <1>0, <1>1, <1>3, <2>1, <2>2, <2>3, <2>4 DEF Sides
<1>6. CASE cf # ct /\ cf > ct
  <2>1. Towards(from, to) = Left
    BY <1>6 DEF Towards, rf, cf, rt, ct
  <2>2. Towards(Reverse(from), Reverse(to)) = Right
    BY <1>1, <1>2, <1>6 DEF Towards
  <2>3. OnEdge(from, Left) <=> cf = 0
    BY DEF OnEdge, cf, Up, Down, Left, Right
  <2>4. OnEdge(Reverse(from), Right) <=> 7 - cf = 7
    BY <1>2 DEF OnEdge, Up, Down, Left, Right
  <2> QED
    BY <1>0, <1>1, <1>3, <2>1, <2>2, <2>3, <2>4 DEF Sides
<1>7. CASE cf # ct /\ ~(cf > ct)
  <2>1. Towards(from, to) = Right
    BY <1>7 DEF Towards, rf, cf, rt, ct
  <2>2. Towards(Reverse(from), Reverse(to)) = Left
    BY <1>1, <1>2, <1>7 DEF Towards
  <2>3. OnEdge(from, Right) <=> cf = 7
    BY DEF OnEdge, cf, Up, Down, Left, Right
  <2>4. OnEdge(Reverse(from), Left) <=> 7 - cf = 0
    BY <1>2 DEF OnEdge, Up, Down, Left, Right
  <2> QED
    BY <1>0, <1>1, <1>3, <2>1, <2>2, <2>3, <2>4 DEF Sides
<1> QED
  BY <1>4, <1>5, <1>6, <1>7


LEMMA MirrorWalled ==
  ASSUME NEW ws \in SUBSET AllWalls, NEW from \in Square, NEW to \in Square, from # to,
         InLine(from, to), ~OnEdge(from, Towards(from, to))
  PROVE  LET rf == Reverse(from)
             rid == Towards(rf, Reverse(to))
         IN  /\ InLine(rf, Reverse(to)) /\ ~OnEdge(rf, rid)
             /\ MirrorWalls(ws \cup {Wall(from, Towards(from, to))}) =
                    MirrorWalls(ws) \cup {Wall(rf, rid)}
<1> DEFINE dir == Towards(from, to)
           rf == Reverse(from)
           rid == Towards(rf, Reverse(to))
<1>1. InLine(rf, Reverse(to)) /\ dir \in Sides /\ rid = 0 - dir /\ ~OnEdge(rf, rid)
  BY TurnedRound
<1>2. from + dir \in Square
  BY <1>1 DEF OnEdge, Square, Row, Col, Sides, Up, Down, Left, Right
<1>3. Reverse(from + dir) = rf + rid
  <2>1. Reverse(from + dir) = 63 - (from + dir) /\ rf = 63 - from
    BY <1>2, ReverseSquare
  <2>2. dir \in Int /\ from \in Int
    BY <1>1, SquareNat DEF Sides, Up, Down, Left, Right
  <2> HIDE DEF dir, rf, rid
  <2> QED
    BY <1>1, <2>1, <2>2
<1>4. {Reverse(s) : s \in Wall(from, dir)} = Wall(rf, rid)
  <2>1. Wall(from, dir) = {from, from + dir} /\ Wall(rf, rid) = {rf, rf + rid}
    BY DEF Wall
  <2> DEFINE t == from + dir
  <2>2. {Reverse(s) : s \in {from, t}} = {Reverse(from), Reverse(t)}
    OBVIOUS
  <2> QED
    BY <1>3, <2>1, <2>2
<1> HIDE DEF dir, rf, rid
<1>5. MirrorWalls(ws \cup {Wall(from, dir)}) =
        MirrorWalls(ws) \cup {{Reverse(s) : s \in Wall(from, dir)}}
  BY DEF MirrorWalls
<1> QED
  BY <1>1, <1>4, <1>5 DEF dir, rf, rid

LEMMA ViewTypes ==
  ASSUME NEW e \in EngineType, NEW b \in BOOLEAN
  PROVE  /\ View(e, b) \in Views
         /\ View(e, b).board = e.board /\ View(e, b).walls = (IF b THEN e.walls ELSE {})
  BY EngineFields DEF View, Views

LEMMA MirrorViewTwice ==
  ASSUME NEW v \in Views
  PROVE  MirrorView(MirrorView(v)) = v
<1>1. v.board \in [Square -> Pieces] /\ v.walls \in SUBSET AllWalls
      /\ v = [board |-> v.board, walls |-> v.walls]
  BY DEF Views
<1>2. MirrorBoard(MirrorBoard(v.board)) = v.board /\ MirrorWalls(MirrorWalls(v.walls)) = v.walls
  BY <1>1, MirrorBoardAt, MirrorWallsTwice
<1>3. /\ MirrorView(v).board = MirrorBoard(v.board)
      /\ MirrorView(v).walls = MirrorWalls(v.walls)
  BY DEF MirrorView
<1> QED
  BY <1>1, <1>2, <1>3 DEF MirrorView

LEMMA AfterSame ==
  ASSUME NEW v, NEW m, NEW q, NEW b, m.op \notin {"TO", "PROM", "WALL"}
  PROVE  After(v, m, q, b) = v
  BY DEF After

LEMMA AfterTo ==
  ASSUME NEW v, NEW m, NEW q, NEW b, m.op = "TO"
  PROVE  After(v, m, q, b) = OnBoard(v, Relocated(v.board, m.a, m.b))
  BY DEF After

LEMMA AfterProm ==
  ASSUME NEW v, NEW m, NEW q, NEW b, m.op = "PROM"
  PROVE  After(v, m, q, b) =
            OnBoard(v, PromotedBoard(v.board, m.a, m.b, <<Other(q), m.kind>>))
  BY DEF After

LEMMA AfterWall ==
  ASSUME NEW v, NEW m, NEW q, NEW b \in BOOLEAN, m.op = "WALL"
  PROVE  After(v, m, q, b) = IF b THEN Walled(v, m.a, m.b) ELSE v
<1>1. CASE b
  BY <1>1 DEF After
<1>2. CASE ~b
  BY <1>2 DEF After
<1> QED
  BY <1>1, <1>2

(* Only the name and the operands of a message count, and the kind in that of a
   promotion.                                                                 *)
LEMMA AfterLike ==
  ASSUME NEW v, NEW m, NEW n, NEW q, NEW b \in BOOLEAN,
         m.op = n.op, m.a = n.a, m.b = n.b, m.op = "PROM" => m.kind = n.kind
  PROVE  After(v, m, q, b) = After(v, n, q, b)
<1>1. CASE m.op = "TO"
  BY <1>1, AfterTo
<1>2. CASE m.op = "PROM"
  BY <1>2, AfterProm
<1>3. CASE m.op = "WALL"
  <2>1. /\ After(v, m, q, b) = IF b THEN Walled(v, m.a, m.b) ELSE v
        /\ After(v, n, q, b) = IF b THEN Walled(v, n.a, n.b) ELSE v
    BY <1>3, AfterWall
  <2>2. Walled(v, m.a, m.b) = Walled(v, n.a, n.b)
    OBVIOUS
  <2> QED
    BY <2>1, <2>2
<1>4. CASE m.op \notin {"TO", "PROM", "WALL"}
  BY <1>4, AfterSame
<1> QED
  BY <1>1, <1>2, <1>3, <1>4

-----------------------------------------------------------------------------
(* What is on its way leads from one view to another.                         *)

Losing(s) == \A i \in DOMAIN s : s[i].op = "LOSE"

(* vs[i] is what player q sees before the i-th of the messages s.  When only
   LOSE is left, nothing changes any more.                                    *)
Through(s, vs, u, w, q, b) ==
    /\ vs[1] = u /\ vs[Len(s) + 1] = w
    /\ \A i \in 1..Len(s) : vs[i + 1] = After(vs[i], s[i], q, b)
    /\ \A k \in 1..(Len(s) + 1) :
          (\A i \in k..Len(s) : s[i].op = "LOSE") => vs[k] = w

Leads(s, u, w, q, b) == \E vs : Through(s, vs, u, w, q, b)

LEMMA LeadsNowhere ==
  ASSUME NEW s \in Seq(Message), NEW u, NEW w, NEW q, NEW b, Losing(s), Leads(s, u, w, q, b)
  PROVE  w = u
<1>1. PICK vs : Through(s, vs, u, w, q, b)
  BY DEF Leads
<1>2. 1 \in 1..(Len(s) + 1) /\ Len(s) \in Nat /\ DOMAIN s = 1..Len(s)
  OBVIOUS
<1>3. \A i \in 1..Len(s) : s[i].op = "LOSE"
  BY <1>2 DEF Losing
<1>4. vs[1] = w
  BY <1>1, <1>2, <1>3 DEF Through
<1> QED
  BY <1>1, <1>4 DEF Through

LEMMA LeadsStill ==
  ASSUME NEW s \in Seq(Message), NEW u, NEW q, NEW b, Losing(s)
  PROVE  Leads(s, u, u, q, b)
<1> DEFINE vs == [i \in Nat |-> u]
<1>1. Len(s) \in Nat /\ DOMAIN s = 1..Len(s)
  OBVIOUS
<1>2. \A i \in Nat : vs[i] = u
  OBVIOUS
<1> HIDE DEF vs
<1>3. \A i \in 1..Len(s) : vs[i + 1] = After(vs[i], s[i], q, b)
  <2>1. TAKE i \in 1..Len(s)
  <2>2. i \in Nat /\ i + 1 \in Nat /\ s[i].op = "LOSE"
    BY <1>1 DEF Losing
  <2>3. After(u, s[i], q, b) = u
    BY <2>2, AfterSame
  <2> QED
    BY <1>2, <2>2, <2>3
<1>4. \A k \in 1..(Len(s) + 1) : vs[k] = u
  BY <1>1, <1>2
<1>5. vs[1] = u /\ vs[Len(s) + 1] = u
  BY <1>1, <1>2
<1> QED
  BY <1>3, <1>4, <1>5 DEF Leads, Through

LEMMA LeadsOn ==
  ASSUME NEW s \in Seq(Message), NEW m \in Message, NEW u, NEW w, NEW q, NEW b,
         Leads(s, u, w, q, b)
  PROVE  Leads(Append(s, m), u, After(w, m, q, b), q, b)
<1> DEFINE t == Append(s, m)
           x == After(w, m, q, b)
           n == Len(s)
<1>1. PICK vs : Through(s, vs, u, w, q, b)
  BY DEF Leads
<1> DEFINE ws == [i \in Nat |-> IF i = n + 2 THEN x ELSE vs[i]]
<1>2. n \in Nat
  OBVIOUS
<1>3. t \in Seq(Message) /\ Len(t) = n + 1 /\ t[n + 1] = m /\ \A i \in 1..n : t[i] = s[i]
  BY Appended
<1>4. \A i \in Nat : ws[i] = IF i = n + 2 THEN x ELSE vs[i]
  OBVIOUS
<1>5. /\ vs[1] = u /\ vs[n + 1] = w
      /\ \A i \in 1..n : vs[i + 1] = After(vs[i], s[i], q, b)
      /\ \A k \in 1..(n + 1) : (\A i \in k..n : s[i].op = "LOSE") => vs[k] = w
  BY <1>1 DEF Through
<1> HIDE DEF t, n, ws
<1>6. ws[1] = u /\ ws[n + 2] = x /\ \A i \in 1..(n + 1) : ws[i] = vs[i]
  <2>1. 1 \in Nat /\ 1 # n + 2 /\ n + 2 \in Nat /\ \A i \in 1..(n + 1) : i \in Nat /\ i # n + 2
    BY <1>2
  <2> QED
    BY <1>4, <1>5, <2>1
<1>7. \A i \in 1..(n + 1) : ws[i + 1] = After(ws[i], t[i], q, b)
  <2>1. TAKE i \in 1..(n + 1)
  <2>2. CASE i = n + 1
    <3>1. i + 1 = n + 2
      BY <1>2, <2>2
    <3>2. ws[i] = w /\ t[i] = m
      BY <1>3, <1>5, <1>6, <2>2
    <3> QED
      BY <1>6, <3>1, <3>2
  <2>3. CASE i # n + 1
    <3>1. i \in 1..n /\ i + 1 \in 1..(n + 1)
      BY <1>2, <2>3
    <3> QED
      BY <1>3, <1>5, <1>6, <3>1
  <2> QED
    BY <2>2, <2>3
<1>8. ASSUME NEW k \in 1..(n + 2), \A i \in k..(n + 1) : t[i].op = "LOSE"
      PROVE  ws[k] = x
  <2>1. CASE k = n + 2
    BY <1>6, <2>1
  <2>2. CASE k # n + 2
    <3>1. k \in 1..(n + 1) /\ n + 1 \in k..(n + 1)
      BY <1>2, <2>2
    <3>2. m.op = "LOSE"
      BY <1>3, <1>8, <3>1
    <3>3. x = w
      BY <3>2, AfterSame
    <3>4. \A i \in k..n : i \in k..(n + 1) /\ i \in 1..n
      BY <1>2, <3>1
    <3>5. \A i \in k..n : s[i].op = "LOSE"
      BY <1>3, <1>8, <3>4
    <3>6. vs[k] = w
      BY <1>5, <3>1, <3>5
    <3> QED
      BY <1>6, <3>1, <3>3, <3>6
  <2> QED
    BY <2>1, <2>2
<1>9. Len(t) = n + 1 /\ Len(t) + 1 = n + 2
  BY <1>2, <1>3
<1> HIDE DEF x
<1>10. Through(t, ws, u, x, q, b)
  BY <1>6, <1>7, <1>8, <1>9 DEF Through
<1> QED
  BY <1>10 DEF Leads, t, x

LEMMA LeadsAfter ==
  ASSUME NEW s \in Seq(Message), 1 \in DOMAIN s, NEW u, NEW w, NEW q, NEW b,
         Leads(s, u, w, q, b)
  PROVE  Leads(SubSeq(s, 2, Len(s)), After(u, s[1], q, b), w, q, b)
<1> DEFINE t == SubSeq(s, 2, Len(s))
           n == Len(s)
<1>1. PICK vs : Through(s, vs, u, w, q, b)
  BY DEF Leads
<1> DEFINE ws == [i \in Nat |-> vs[i + 1]]
<1>2. n \in Nat /\ 1 <= n
  <2>1. n \in Nat /\ DOMAIN s = 1..n
    OBVIOUS
  <2> HIDE DEF n
  <2> QED
    BY <2>1
<1>3. Len(t) = n - 1 /\ \A i \in 1..Len(t) : i + 1 \in 1..n /\ t[i] = s[i + 1]
  BY <1>2, AfterFirst
<1>4. \A i \in Nat : ws[i] = vs[i + 1]
  OBVIOUS
<1>5. /\ vs[1] = u /\ vs[n + 1] = w
      /\ \A i \in 1..n : vs[i + 1] = After(vs[i], s[i], q, b)
      /\ \A k \in 1..(n + 1) : (\A i \in k..n : s[i].op = "LOSE") => vs[k] = w
  BY <1>1 DEF Through
<1> HIDE DEF t, n, ws
<1>6. ws[1] = After(u, s[1], q, b) /\ ws[Len(t) + 1] = w
  <2>1. ws[1] = vs[2] /\ vs[1 + 1] = After(vs[1], s[1], q, b)
    <3>1. 1 \in 1..n /\ 1 \in Nat /\ 1 + 1 = 2
      BY <1>2
    <3> QED
      BY <1>4, <1>5, <3>1
  <2>2. Len(t) + 1 = n /\ n \in Nat
    BY <1>2, <1>3
  <2>3. ws[n] = vs[n + 1]
    BY <1>4, <2>2
  <2> QED
    BY <1>5, <2>1, <2>2, <2>3
<1>7. \A i \in 1..Len(t) : ws[i + 1] = After(ws[i], t[i], q, b)
  <2>1. TAKE i \in 1..Len(t)
  <2>2. i \in Nat /\ i + 1 \in Nat /\ i + 1 \in 1..n /\ t[i] = s[i + 1]
    BY <1>2, <1>3
  <2>3. ws[i + 1] = vs[(i + 1) + 1] /\ ws[i] = vs[i + 1]
    BY <1>4, <2>2
  <2>4. vs[(i + 1) + 1] = After(vs[i + 1], s[i + 1], q, b)
    BY <1>5, <2>2
  <2> QED
    BY <2>2, <2>3, <2>4
<1>8. ASSUME NEW k \in 1..(Len(t) + 1), \A i \in k..Len(t) : t[i].op = "LOSE"
      PROVE  ws[k] = w
  <2>1. k \in Nat /\ k + 1 \in 1..(n + 1)
    BY <1>2, <1>3
  <2>2. ASSUME NEW i \in (k + 1)..n PROVE s[i].op = "LOSE"
    <3>1. i - 1 \in k..Len(t) /\ i - 1 \in 1..Len(t) /\ (i - 1) + 1 = i
      BY <1>2, <1>3, <2>1
    <3> QED
      BY <1>3, <1>8, <3>1
  <2>3. vs[k + 1] = w
    BY <1>5, <2>1, <2>2
  <2> QED
    BY <1>4, <2>1, <2>3
<1> DEFINE x == After(u, s[1], q, b)
<1> HIDE DEF x
<1>9. Through(t, ws, x, w, q, b)
  BY <1>6, <1>7, <1>8 DEF Through, x
<1> QED
  BY <1>9 DEF Leads, t, x, n


-----------------------------------------------------------------------------
(* What a player has still to tell makes up for the difference of the boards:
   w is what the other, q, sees when all that is on its way has arrived, v what
   this one sees.  A pawn that waits is told of by its promotion, whichever it
   will be.                                                                   *)
Pending(v, waiting, st, c, w, q, b) ==
    IF waiting = NoPromotion
    THEN MirrorView(v) =
            CASE st \in Telling -> After(w, Seen("TO", c.from, c.to, ""), q, b)
              [] st = "sendWall" -> After(w, Seen("WALL", c.from, c.to, ""), q, b)
              [] OTHER -> w
    ELSE /\ st \notin Untold
         /\ \A kind \in Promotions :
                MirrorView(OnBoard(v, [v.board EXCEPT ![waiting.to] = <<Other(q), kind>>])) =
                    After(w, Seen("PROM", waiting.from, waiting.to, kind), q, b)

Follows(s, u, v, waiting, st, c, q, b) ==
    \E w : Leads(s, u, w, q, b) /\ Pending(v, waiting, st, c, w, q, b)

Harmless(b) == IF b THEN {} ELSE {"overwritten", "wallBroken"}

LEMMA SeenIs ==
  ASSUME NEW op, NEW from, NEW to, NEW kind
  PROVE  LET m == Seen(op, from, to, kind)
         IN  m.op = op /\ m.a = Reverse(from) /\ m.b = Reverse(to) /\ m.kind = kind
  BY DEF Seen, Msg

LEMMA PendingNothing ==
  ASSUME NEW v, NEW st, NEW c, NEW w, NEW q, NEW b, st \notin Untold
  PROVE  Pending(v, NoPromotion, st, c, w, q, b) <=> MirrorView(v) = w
  BY DEF Pending, Telling, Untold

LEMMA PendingMove ==
  ASSUME NEW v, NEW st \in Telling, NEW c, NEW w, NEW q, NEW b
  PROVE  Pending(v, NoPromotion, st, c, w, q, b) <=>
            MirrorView(v) = After(w, Seen("TO", c.from, c.to, ""), q, b)
<1> DEFINE x == After(w, Seen("TO", c.from, c.to, ""), q, b)
           y == After(w, Seen("WALL", c.from, c.to, ""), q, b)
<1>1. (CASE st \in Telling -> x [] st = "sendWall" -> y [] OTHER -> w) = x
  BY DEF Telling
<1>2. Pending(v, NoPromotion, st, c, w, q, b) <=>
        MirrorView(v) = (CASE st \in Telling -> x [] st = "sendWall" -> y [] OTHER -> w)
  BY DEF Pending
<1> QED
  BY <1>1, <1>2

LEMMA PendingWall ==
  ASSUME NEW v, NEW c, NEW w, NEW q, NEW b
  PROVE  Pending(v, NoPromotion, "sendWall", c, w, q, b) <=>
            MirrorView(v) = After(w, Seen("WALL", c.from, c.to, ""), q, b)
  BY DEF Pending, Telling

(* The board a move leads to is what TO will make of the other's.             *)
LEMMA MoveMirrored ==
  ASSUME NEW e \in EngineType, NEW f \in EngineType, NEW from \in Square, NEW to \in Square,
         NEW b \in BOOLEAN, NEW q,
         f.board = Relocated(e.board, from, to), b => f.walls = e.walls,
         NEW m, m.op = "TO", m.a = Reverse(from), m.b = Reverse(to)
  PROVE  MirrorView(View(f, b)) = After(MirrorView(View(e, b)), m, q, b)
<1> DEFINE w == MirrorView(View(e, b))
<1>1. e.board \in [Square -> Pieces]
  BY EngineFields
<1>2. w.board = MirrorBoard(e.board) /\ w.walls = MirrorWalls(View(e, b).walls)
  BY ViewTypes DEF MirrorView
<1>3. View(f, b).walls = View(e, b).walls
  BY ViewTypes
<1>4. /\ MirrorView(View(f, b)) = [board |-> MirrorBoard(f.board), walls |-> w.walls]
  BY <1>2, <1>3, ViewTypes DEF MirrorView
<1>5. MirrorBoard(f.board) = Relocated(w.board, Reverse(from), Reverse(to))
  BY <1>1, <1>2, MirrorRelocated
<1> HIDE DEF w
<1>6. After(w, m, q, b) = OnBoard(w, Relocated(w.board, m.a, m.b))
  BY AfterTo
<1> QED
  BY <1>4, <1>5, <1>6 DEF OnBoard, w

LEMMA PromotionMirrored ==
  ASSUME NEW e \in EngineType, NEW f \in EngineType, NEW from \in Square, NEW to \in Square,
         NEW b \in BOOLEAN, NEW q \in Player, NEW kind \in Promotions,
         f.board = Relocated(e.board, from, to), b => f.walls = e.walls
  PROVE  MirrorView(OnBoard(View(f, b), [View(f, b).board EXCEPT ![to] = <<Other(q), kind>>])) =
            After(MirrorView(View(e, b)), Seen("PROM", from, to, kind), q, b)
<1> DEFINE m == Seen("PROM", from, to, kind)
           w == MirrorView(View(e, b))
           piece == <<Other(q), kind>>
<1>1. e.board \in [Square -> Pieces] /\ piece \in Pieces
  BY EngineFields, OtherPlayer DEF Pieces, Promotions, Kind
<1>2. w.board = MirrorBoard(e.board) /\ w.walls = MirrorWalls(View(e, b).walls)
  BY ViewTypes DEF MirrorView
<1>3. View(f, b).walls = View(e, b).walls /\ View(f, b).board = f.board
  BY ViewTypes
<1> DEFINE g == [Relocated(e.board, from, to) EXCEPT ![to] = piece]
<1>4. MirrorView(OnBoard(View(f, b), [View(f, b).board EXCEPT ![to] = piece])) =
        [board |-> MirrorBoard(g), walls |-> w.walls]
  BY <1>2, <1>3 DEF MirrorView, OnBoard
<1>5. MirrorBoard(g) = PromotedBoard(w.board, Reverse(from), Reverse(to), piece)
  BY <1>1, <1>2, MirrorPromoted
<1> HIDE DEF w, m, g
<1>6. After(w, m, q, b) = OnBoard(w, PromotedBoard(w.board, m.a, m.b, <<Other(q), m.kind>>))
  <2>1. m.op = "PROM"
    BY SeenIs DEF m
  <2> QED
    BY <2>1, AfterProm
<1>7. m.a = Reverse(from) /\ m.b = Reverse(to) /\ m.kind = kind
  BY SeenIs DEF m
<1> QED
  BY <1>4, <1>5, <1>6, <1>7 DEF OnBoard, w, m

(* The wall built is the one the other will build when told of it.            *)
LEMMA BuiltWall ==
  ASSUME NEW e \in EngineType, NEW from \in Square, NEW to \in Square,
         build_wall(e, from, to)[2] = "SUCCESS"
  PROVE  LET f == build_wall(e, from, to)[1]
             dir == Towards(from, to)
         IN  /\ from # to /\ InLine(from, to) /\ ~OnEdge(from, dir)
             /\ f.walls = e.walls \cup {Wall(from, dir)}
<1> DEFINE dir == Towards(from, to)
           ws == e.walls \cup {Wall(from, dir)}
           g == [e EXCEPT !.walls = ws]
           t == Append(g.timeOuts, from)
           h == [g EXCEPT !.timeOuts = t]
           C == \/ e.board[from] # <<e.player, "PAWN">>
                \/ from = to \/ ~InLine(from, to)
<1>1. ~C
  BY DEF build_wall
<1>2. ~WallExists(e, from, dir)
  BY <1>1 DEF build_wall
<1>3. build_wall(e, from, to)[1] = h
  BY <1>1, <1>2 DEF build_wall, add_timeout
<1>4. Wall(from, dir) \in AllWalls /\ ~OnEdge(from, dir)
  BY <1>2, SideOfAll, TowardsSide DEF WallExists
<1>5. ws \in SUBSET AllWalls
  BY <1>4, EngineFields
<1> HIDE DEF ws, dir
<1>6. g \in EngineType /\ g.walls = ws
  BY <1>5, WriteWalls
<1> HIDE DEF g
<1>7. t \in Seq(Square)
  BY <1>6, EngineFields
<1> HIDE DEF t
<1>8. h.walls = g.walls
  BY <1>6, <1>7, WriteTimeOuts
<1> HIDE DEF h
<1> QED
  BY <1>1, <1>3, <1>4, <1>6, <1>8 DEF ws, dir

LEMMA WallMirrored ==
  ASSUME NEW e \in EngineType, NEW f \in EngineType, NEW from \in Square, NEW to \in Square,
         NEW b \in BOOLEAN, NEW q,
         f.board = e.board, from # to, InLine(from, to), ~OnEdge(from, Towards(from, to)),
         f.walls = e.walls \cup {Wall(from, Towards(from, to))},
         NEW m, m.op = "WALL", m.a = Reverse(from), m.b = Reverse(to)
  PROVE  MirrorView(View(f, b)) = After(MirrorView(View(e, b)), m, q, b)
<1> DEFINE w == MirrorView(View(e, b))
<1>1. e.walls \in SUBSET AllWalls
  BY EngineFields
<1>2. w.board = MirrorBoard(e.board) /\ w.walls = MirrorWalls(View(e, b).walls)
  BY ViewTypes DEF MirrorView
<1>3. MirrorView(View(f, b)) = [board |-> w.board, walls |-> MirrorWalls(View(f, b).walls)]
  BY <1>2, ViewTypes DEF MirrorView
<1>5. After(w, m, q, b) = IF b THEN Walled(w, m.a, m.b) ELSE w
  BY AfterWall
<1>6. CASE ~b
  <2>1. View(f, b).walls = View(e, b).walls
    BY <1>6, ViewTypes
  <2>2. w = [board |-> w.board, walls |-> w.walls]
    BY DEF MirrorView
  <2> HIDE DEF w
  <2>3. After(w, m, q, b) = w
    BY <1>5, <1>6
  <2>4. MirrorView(View(f, b)) = w
    BY <1>2, <1>3, <2>1, <2>2
  <2> QED
    BY <2>3, <2>4 DEF w
<1>7. CASE b
  <2> DEFINE rf == Reverse(from)
             rid == Towards(rf, Reverse(to))
  <2>1. View(f, b).walls = f.walls /\ View(e, b).walls = e.walls
    BY <1>7, ViewTypes
  <2>2. /\ InLine(rf, Reverse(to)) /\ ~OnEdge(rf, rid)
        /\ MirrorWalls(f.walls) = MirrorWalls(e.walls) \cup {Wall(rf, rid)}
    BY <1>1, MirrorWalled
  <2> HIDE DEF w, rf, rid
  <2>3. Walled(w, rf, Reverse(to)) = [board |-> w.board, walls |-> w.walls \cup {Wall(rf, rid)}]
    BY <2>2 DEF Walled, rid
  <2>4. After(w, m, q, b) = Walled(w, rf, Reverse(to))
    BY <1>5, <1>7 DEF rf
  <2>5. MirrorView(View(f, b)) = [board |-> w.board, walls |-> w.walls \cup {Wall(rf, rid)}]
    BY <1>2, <1>3, <2>1, <2>2
  <2> QED
    BY <2>3, <2>4, <2>5 DEF w
<1> QED
  BY <1>6, <1>7

(* A move decided, if it is not one of those that take the boards apart, is
   refused and changes nothing to be seen, or is told of by TO, or waits for
   its promotion.                                                             *)
LEMMA MoveTold ==
  ASSUME NEW e \in EngineType, NEW f, NEW res, NEW from \in Square, NEW to \in Square,
         NEW b \in BOOLEAN, NEW q \in Player, NEW c,
         Outcome(e, f, res, from, to), KingUnmarkedAtHome(e), e.waiting = NoPromotion,
         MoveSlips(e, from, to, <<f, res>>) \subseteq Harmless(b),
         res \notin {"PROMOTION", "PROMOTION_CAPTURE"} => c.from = from /\ c.to = to
  PROVE  \/ /\ AfterMove(res) = "check" /\ f.waiting = NoPromotion
            /\ View(f, b) = View(e, b)
         \/ /\ AfterMove(res) \in Untold \/ f.waiting # NoPromotion
            /\ Pending(View(f, b), f.waiting, AfterMove(res), c, MirrorView(View(e, b)), q, b)
<1> DEFINE S == MoveSlips(e, from, to, <<f, res>>)
           st == AfterMove(res)
<1>1. f \in EngineType
  BY DEF Outcome, Always
<1>2. /\ "castled" \notin S /\ "void" \notin S /\ "enPassant" \notin S
      /\ b => "wallBroken" \notin S
  BY DEF Harmless
<1>3. b => f.walls = e.walls
  BY <1>2 DEF MoveSlips, Slips
<1>4. ~Void(e, f, res, from, to)
  <2>1. Void(e, f, res, from, to) => "void" \in S
    BY DEF Void, MoveSlips, Slips
  <2> QED
    BY <1>2, <2>1
<1>5. ~Passed(e, f, res, from, to)
  <2>1. Passed(e, f, res, from, to) => f.moves # e.moves
    <3>1. e.moves \in Nat
      BY EngineFields
    <3> QED
      BY <3>1 DEF Passed, Counts
  <2>2. Passed(e, f, res, from, to) => "enPassant" \in S
    BY <2>1 DEF Passed, MoveSlips, Slips
  <2> QED
    BY <1>2, <2>2
<1>6. ~Castled(e, f, res, from, to)
  <2>1. Castled(e, f, res, from, to) => e.board[from][2] = "KING" /\ Steps(from, to) > 1
    BY CastlingSteps
  <2>2. Castled(e, f, res, from, to) => res # "INVALID"
    BY DEF Castled
  <2>3. Castled(e, f, res, from, to) => "castled" \in S
    BY <2>1, <2>2 DEF MoveSlips, Slips
  <2> QED
    BY <1>2, <2>3
<1>7. CASE Refused(e, f, res)
  <2>1. st = "check"
    BY <1>7, AfterMoveStages DEF Refused
  <2>2. View(f, b) = View(e, b)
    BY <1>3, <1>7 DEF View, Refused
  <2> QED
    BY <1>7, <2>1, <2>2 DEF Refused
<1>8. CASE Stepped(e, f, res, from, to) \/ Took(e, f, res, from, to)
  <2>1. f.board = Relocated(e.board, from, to) /\ Waits(e, f, from, to)
    BY <1>8 DEF Stepped, Took
  <2> DEFINE P == res \in {"PROMOTION", "PROMOTION_CAPTURE"}
             L == e.board[from][2] = "PAWN" /\ Row(to) = 0
  <2>2. P <=> L
    BY <1>8 DEF Stepped, Took
  <2>3. ~P => res \in {"SUCCESS", "EN_PASSENT_OPPORTUNITY", "CAPTURE"}
    BY <1>8 DEF Stepped, Took
  <2>4. CASE P
    <3>1. st = "check" /\ st \notin Untold
      BY <2>4, AfterMoveStages DEF Untold
    <3>2. f.waiting = [from |-> from, to |-> to]
      BY <2>1, <2>2, <2>4 DEF Waits
    <3>3. f.waiting.from = from /\ f.waiting.to = to /\ f.waiting # NoPromotion
      <4>1. f.waiting.from = from /\ f.waiting.to = to
        BY <3>2
      <4>2. NoPromotion.to = -1 /\ to # -1
        BY DEF NoPromotion, Square
      <4> QED
        BY <4>1, <4>2
    <3>4. \A kind \in Promotions :
            MirrorView(OnBoard(View(f, b), [View(f, b).board EXCEPT ![to] = <<Other(q), kind>>])) =
                After(MirrorView(View(e, b)), Seen("PROM", from, to, kind), q, b)
      BY <1>1, <1>3, <2>1, PromotionMirrored
    <3> HIDE DEF st, S, P, L
    <3>5. Pending(View(f, b), f.waiting, st, c, MirrorView(View(e, b)), q, b)
      BY <3>1, <3>3, <3>4 DEF Pending
    <3> QED
      BY <3>3, <3>5 DEF st
  <2>5. CASE ~P
    <3>1. st \in Telling /\ st \in Untold
      BY <2>3, <2>5, AfterMoveStages DEF Telling, Untold
    <3>2. f.waiting = NoPromotion
      BY <2>1, <2>2, <2>5 DEF Waits
    <3>3. c.from = from /\ c.to = to
      BY <2>5
    <3> DEFINE m == Seen("TO", c.from, c.to, "")
    <3>6. m.op = "TO" /\ m.a = Reverse(from) /\ m.b = Reverse(to)
      BY <3>3 DEF Seen, Msg
    <3> HIDE DEF m
    <3>4. MirrorView(View(f, b)) = After(MirrorView(View(e, b)), m, q, b)
      BY <1>1, <1>3, <2>1, <3>6, MoveMirrored
    <3> HIDE DEF st, S, P, L
    <3>5. Pending(View(f, b), NoPromotion, st, c, MirrorView(View(e, b)), q, b)
      BY <3>1, <3>4, PendingMove DEF m
    <3> QED
      BY <3>1, <3>2, <3>5 DEF st
  <2> QED
    BY <2>4, <2>5
<1> QED
  BY <1>4, <1>5, <1>6, <1>7, <1>8 DEF Outcome

(* A message read, alone, does to the board what it tells of.                 *)
LEMMA ReadView ==
  ASSUME NEW e \in EngineType, NEW f, NEW res, NEW m \in Message, NEW b \in BOOLEAN,
         Meant(m), Applied(e, f, res, m, 1),
         m.op = "WALL" => f = build_wall_opponent(e, m.a, m.b)
  PROVE  View(f, b) = After(View(e, b), m, e.player, b)
<1> DEFINE v == View(e, b)
           r == After(v, m, e.player, b)
<1>1. v.board = e.board /\ v.walls = (IF b THEN e.walls ELSE {})
      /\ m.op \in {"TO", "WALL", "ENPS", "PROM", "LOSE"} /\ m.a \in Square
  BY ViewTypes DEF Message
<1>2. CASE m.op = "LOSE" \/ m.op = "ENPS"
  <2>1. r = v
    BY <1>2, AfterSame
  <2>2. f.board = e.board /\ f.walls = e.walls
    BY <1>2 DEF Applied, SameBut
  <2> QED
    BY <2>1, <2>2 DEF View
<1>3. CASE m.op = "TO"
  <2>1. r = OnBoard(v, Relocated(v.board, m.a, m.b))
    BY <1>3, AfterTo
  <2>2. f.board = Relocated(e.board, m.a, m.b) /\ f.walls = e.walls
    BY <1>3 DEF Applied, SameBut, Relocates
  <2> QED
    BY <1>1, <2>1, <2>2 DEF View, OnBoard
<1>4. CASE m.op = "PROM"
  <2>1. r = OnBoard(v, PromotedBoard(v.board, m.a, m.b, <<Other(e.player), m.kind>>))
    BY <1>4, AfterProm
  <2>2. /\ f.board = PromotedBoard(e.board, m.a, m.b, <<Other(e.player), m.kind>>)
        /\ f.walls = e.walls
    BY <1>4 DEF Applied, SameBut
  <2> QED
    BY <1>1, <2>1, <2>2 DEF View, OnBoard
<1>5. CASE m.op = "WALL"
  <2> DEFINE dir == Towards(m.a, m.b)
             ws == e.walls \cup {Wall(m.a, dir)}
             C == InLine(m.a, m.b) /\ ~OnEdge(m.a, dir)
  <2>1. r = IF b THEN Walled(v, m.a, m.b) ELSE v
    BY <1>5, AfterWall
  <2>2. f = IF C THEN [e EXCEPT !.walls = ws] ELSE e
    BY <1>5 DEF build_wall_opponent
  <2>3. CASE C
    <3>1. ws \in SUBSET AllWalls
      <4>1. Wall(m.a, dir) \in AllWalls
        BY <1>1, <2>3, SideOfAll, TowardsSide
      <4> QED
        BY <4>1, EngineFields
    <3>2. f.board = e.board /\ f.walls = ws
      <4> HIDE DEF ws
      <4>1. f = [e EXCEPT !.walls = ws]
        BY <2>2, <2>3
      <4> QED
        BY <3>1, <4>1, WriteWalls
    <3>3. View(f, b) = [board |-> e.board, walls |-> IF b THEN ws ELSE {}]
      BY <3>2 DEF View
    <3>4. Walled(v, m.a, m.b) = [board |-> v.board, walls |-> v.walls \cup {Wall(m.a, dir)}]
      BY <2>3 DEF Walled
    <3>5. b => Walled(v, m.a, m.b) = [board |-> e.board, walls |-> ws]
      BY <1>1, <3>4
    <3>6. CASE b
      BY <2>1, <3>3, <3>5, <3>6
    <3>7. CASE ~b
      BY <2>1, <3>3, <3>7 DEF View
    <3> QED
      BY <3>6, <3>7
  <2>4. CASE ~C
    <3>1. f = e
      BY <2>2, <2>4
    <3>2. Walled(v, m.a, m.b) = v
      BY <2>4 DEF Walled, View
    <3> QED
      BY <2>1, <3>1, <3>2
  <2> QED
    BY <2>3, <2>4
<1> QED
  BY <1>1, <1>2, <1>3, <1>4, <1>5


-----------------------------------------------------------------------------
(* As long as neither has to tell anything, or only one, the boards agree but
   for what is on its way from that one.                                      *)

LEMMA PendingLike ==
  ASSUME NEW v, NEW waiting, NEW st, NEW c, NEW st2, NEW c2, NEW w, NEW q, NEW b,
         Pending(v, waiting, st, c, w, q, b),
         (st \notin Untold /\ st2 \notin Untold) \/ (st2 = st /\ c2 = c)
  PROVE  Pending(v, waiting, st2, c2, w, q, b)
<1>1. CASE st2 = st /\ c2 = c
  BY <1>1
<1>2. CASE st \notin Untold /\ st2 \notin Untold /\ waiting = NoPromotion
  BY <1>2, PendingNothing
<1>3. CASE st \notin Untold /\ st2 \notin Untold /\ waiting # NoPromotion
  BY <1>3 DEF Pending
<1> QED
  BY <1>1, <1>2, <1>3

LEMMA FollowsLike ==
  ASSUME NEW s, NEW u, NEW v, NEW waiting, NEW st, NEW c, NEW st2, NEW c2, NEW q, NEW b,
         Follows(s, u, v, waiting, st, c, q, b),
         (st \notin Untold /\ st2 \notin Untold) \/ (st2 = st /\ c2 = c)
  PROVE  Follows(s, u, v, waiting, st2, c2, q, b)
<1>1. PICK w : Leads(s, u, w, q, b) /\ Pending(v, waiting, st, c, w, q, b)
  BY DEF Follows
<1>2. Pending(v, waiting, st2, c2, w, q, b)
  BY <1>1, PendingLike
<1> QED
  BY <1>1, <1>2 DEF Follows

LEMMA FollowsAfter ==
  ASSUME NEW s \in Seq(Message), 1 \in DOMAIN s, NEW u, NEW v, NEW waiting, NEW st, NEW c,
         NEW q, NEW b, Follows(s, u, v, waiting, st, c, q, b)
  PROVE  Follows(SubSeq(s, 2, Len(s)), After(u, s[1], q, b), v, waiting, st, c, q, b)
<1>1. PICK w : Leads(s, u, w, q, b) /\ Pending(v, waiting, st, c, w, q, b)
  BY DEF Follows
<1>2. Leads(SubSeq(s, 2, Len(s)), After(u, s[1], q, b), w, q, b)
  BY <1>1, LeadsAfter
<1> QED
  BY <1>1, <1>2 DEF Follows

LEMMA FollowsOn ==
  ASSUME NEW s \in Seq(Message), NEW m \in Message, NEW u, NEW q, NEW b,
         NEW v, NEW waiting, NEW st, NEW c, NEW v2, NEW waiting2, NEW st2, NEW c2,
         Follows(s, u, v, waiting, st, c, q, b),
         \A w : Pending(v, waiting, st, c, w, q, b) =>
                    Pending(v2, waiting2, st2, c2, After(w, m, q, b), q, b)
  PROVE  Follows(Append(s, m), u, v2, waiting2, st2, c2, q, b)
<1>1. PICK w : Leads(s, u, w, q, b) /\ Pending(v, waiting, st, c, w, q, b)
  BY DEF Follows
<1>2. Leads(Append(s, m), u, After(w, m, q, b), q, b)
  BY <1>1, LeadsOn
<1>3. Pending(v2, waiting2, st2, c2, After(w, m, q, b), q, b)
  BY <1>1
<1> QED
  BY <1>2, <1>3 DEF Follows

(* When neither has anything to tell, either follows the other.               *)
LEMMA Restful ==
  ASSUME NEW s \in Seq(Message), NEW t \in Seq(Message), NEW u \in Views, NEW v \in Views,
         NEW st, NEW c, NEW st2, NEW c2, NEW q, NEW q2, NEW b, Losing(s), Losing(t),
         st \notin Untold, st2 \notin Untold,
         Follows(s, u, v, NoPromotion, st, c, q, b)
  PROVE  /\ MirrorView(v) = u
         /\ Follows(t, v, u, NoPromotion, st2, c2, q2, b)
<1>1. PICK w : Leads(s, u, w, q, b) /\ Pending(v, NoPromotion, st, c, w, q, b)
  BY DEF Follows
<1>2. w = u
  BY <1>1, LeadsNowhere
<1>3. MirrorView(v) = u
  BY <1>1, <1>2, PendingNothing
<1>4. MirrorView(u) = v
  BY <1>3, MirrorViewTwice
<1>5. Pending(u, NoPromotion, st2, c2, v, q2, b)
  BY <1>4, PendingNothing
<1>6. Leads(t, v, v, q2, b)
  BY LeadsStill
<1> QED
  BY <1>3, <1>5, <1>6 DEF Follows

(* A promotion that has been told of counts as made.                          *)
Facing(e, st, b) ==
    IF st \in Promotions
    THEN OnBoard(View(e, b), [e.board EXCEPT ![e.waiting.to] = <<e.player, st>>])
    ELSE View(e, b)

Face(p, b) == Facing(engine[p], stage[p], b)

Owed(p) == IF stage[p] \in Promotions THEN NoPromotion ELSE engine[p].waiting

Along(p, b) ==
    Follows(net[Other(p)], Face(Other(p), b), Face(p, b), Owed(p), stage[p], click[p],
            Other(p), b)

LEMMA FaceSteady ==
  ASSUME NEW p, stage[p] \in Steady
  PROVE  Owed(p) = engine[p].waiting /\ \A b : Face(p, b) = View(engine[p], b)
  BY StageNames DEF Face, Facing, Owed

LEMMA FaceTypes ==
  ASSUME NEW e \in EngineType, NEW st, NEW b \in BOOLEAN,
         st \in Promotions => e.waiting.to \in Square
  PROVE  Facing(e, st, b) \in Views
<1>1. View(e, b) \in Views /\ View(e, b).walls \in SUBSET AllWalls
      /\ e.board \in [Square -> Pieces]
  BY EngineFields, ViewTypes DEF Views
<1>2. CASE st \in Promotions
  <2>1. <<e.player, st>> \in Pieces
    BY <1>2, EngineFields DEF Pieces, Promotions, Kind
  <2>2. [e.board EXCEPT ![e.waiting.to] = <<e.player, st>>] \in [Square -> Pieces]
    BY <1>1, <1>2, <2>1
  <2> QED
    BY <1>1, <1>2, <2>2 DEF Facing, OnBoard, Views
<1>3. CASE st \notin Promotions
  BY <1>1, <1>3 DEF Facing
<1> QED
  BY <1>2, <1>3

(* A message that is not about the square of a promotion may be applied before
   it is made or after.                                                       *)
LEMMA PromisedAfter ==
  ASSUME NEW v \in Views, NEW m \in Message, Meant(m), NEW to \in Square, NEW x \in Pieces,
         NEW q, NEW b \in BOOLEAN, ~(m.op \in {"TO", "PROM"} /\ to \in {m.a, m.b})
  PROVE  After(OnBoard(v, [v.board EXCEPT ![to] = x]), m, q, b) =
            OnBoard(After(v, m, q, b), [After(v, m, q, b).board EXCEPT ![to] = x])
<1> DEFINE g == [v.board EXCEPT ![to] = x]
           u == OnBoard(v, g)
           w == After(v, m, q, b)
<1>1. /\ v.board \in [Square -> Pieces] /\ m.a \in Square
      /\ m.op \in {"TO", "WALL", "ENPS", "PROM", "LOSE"}
      /\ m.op \in {"TO", "PROM"} => m.b \in Square /\ to # m.a /\ to # m.b
  BY DEF Views, Message, Meant
<1>2. u.board = g /\ u.walls = v.walls
  BY DEF OnBoard
<1>3. g \in [Square -> Pieces]
  BY <1>1
<1>4. CASE m.op \notin {"TO", "PROM", "WALL"}
  <2> HIDE DEF u, g
  <2>1. After(u, m, q, b) = u /\ w = v
    BY <1>4, AfterSame
  <2> QED
    BY <2>1 DEF u, g
<1>5. CASE m.op = "TO"
  <2>1. Relocated(g, m.a, m.b) = [Relocated(v.board, m.a, m.b) EXCEPT ![to] = x]
    BY <1>1, <1>5 DEF Relocated
  <2> HIDE DEF u, g
  <2>2. After(u, m, q, b) = OnBoard(u, Relocated(g, m.a, m.b))
        /\ w = OnBoard(v, Relocated(v.board, m.a, m.b))
    BY <1>2, <1>5, AfterTo
  <2>3. w.board = Relocated(v.board, m.a, m.b) /\ w.walls = v.walls
    BY <2>2 DEF OnBoard
  <2>4. After(u, m, q, b) = OnBoard(w, [w.board EXCEPT ![to] = x])
    BY <1>2, <2>1, <2>2, <2>3 DEF OnBoard
  <2> QED
    BY <2>4 DEF u, g
<1>6. CASE m.op = "PROM"
  <2> DEFINE y == <<Other(q), m.kind>>
  <2> HIDE DEF y
  <2>1. PromotedBoard(g, m.a, m.b, y) = [PromotedBoard(v.board, m.a, m.b, y) EXCEPT ![to] = x]
    BY <1>1, <1>6 DEF PromotedBoard
  <2> HIDE DEF u, g
  <2>2. After(u, m, q, b) = OnBoard(u, PromotedBoard(g, m.a, m.b, y))
        /\ w = OnBoard(v, PromotedBoard(v.board, m.a, m.b, y))
    BY <1>2, <1>6, AfterProm DEF y
  <2>3. w.board = PromotedBoard(v.board, m.a, m.b, y) /\ w.walls = v.walls
    BY <2>2 DEF OnBoard
  <2>4. After(u, m, q, b) = OnBoard(w, [w.board EXCEPT ![to] = x])
    BY <1>2, <2>1, <2>2, <2>3 DEF OnBoard
  <2> QED
    BY <2>4 DEF u, g
<1>7. CASE m.op = "WALL"
  <2>1. Walled(u, m.a, m.b) = OnBoard(Walled(v, m.a, m.b), g)
    BY <1>2 DEF Walled, OnBoard
  <2>2. Walled(v, m.a, m.b).board = v.board
    BY DEF Walled
  <2> HIDE DEF u
  <2>3. /\ After(u, m, q, b) = IF b THEN Walled(u, m.a, m.b) ELSE u
        /\ w = IF b THEN Walled(v, m.a, m.b) ELSE v
    BY <1>7, AfterWall
  <2>4. CASE b
    BY <2>1, <2>2, <2>3, <2>4 DEF u
  <2>5. CASE ~b
    BY <2>3, <2>5 DEF u
  <2> QED
    BY <2>4, <2>5
<1> QED
  BY <1>1, <1>4, <1>5, <1>6, <1>7


BoardInv ==
    \A b \in BOOLEAN : slips \subseteq Harmless(b) =>
        \A p \in Player : ~ToldSoon(p) => Along(p, b)

LEMMA BoardsFrom ==
  ASSUME BoardInv, NEW p \in Player, slips \subseteq slips',
         \A b \in BOOLEAN :
            /\ slips' \subseteq Harmless(b)
            /\ \A r \in Player : ~ToldSoon(r) => Along(r, b)
            => /\ ~ToldSoon(p)' => Along(p, b)'
               /\ ~ToldSoon(Other(p))' => Along(Other(p), b)'
  PROVE  BoardInv'
<1>1. SUFFICES ASSUME NEW b \in BOOLEAN, slips' \subseteq Harmless(b), NEW r \in Player,
                      ~ToldSoon(r)'
               PROVE  Along(r, b)'
  BY DEF BoardInv
<1>2. slips \subseteq Harmless(b)
  BY <1>1
<1>3. \A x \in Player : ~ToldSoon(x) => Along(x, b)
  BY <1>2 DEF BoardInv
<1>4. /\ ~ToldSoon(p)' => Along(p, b)'
      /\ ~ToldSoon(Other(p))' => Along(Other(p), b)'
  BY <1>1, <1>3
<1>5. CASE r = p
  BY <1>1, <1>4, <1>5
<1>6. CASE r = Other(p)
  BY <1>1, <1>4, <1>6
<1> QED
  BY <1>5, <1>6, BothPlayers

LEMMA AlongKept ==
  ASSUME NEW p \in Player, NEW b, Along(p, b), net'[Other(p)] = net[Other(p)],
         Face(Other(p), b)' = Face(Other(p), b), Face(p, b)' = Face(p, b), Owed(p)' = Owed(p),
         \/ stage[p] \notin Untold /\ stage'[p] \notin Untold
         \/ stage'[p] = stage[p] /\ click'[p] = click[p]
  PROVE  Along(p, b)'
<1> DEFINE s == net[Other(p)]
           u == Face(Other(p), b)
           v == Face(p, b)
<1>1. Follows(s, u, v, Owed(p), stage[p], click[p], Other(p), b)
  BY DEF Along
<1>2. Follows(s, u, v, Owed(p), stage'[p], click'[p], Other(p), b)
  BY <1>1, FollowsLike
<1> QED
  BY <1>2 DEF Along

(* What the other sees of me does not depend on what he is doing.             *)
LEMMA OtherAlong ==
  ASSUME NEW p \in Player, NEW b, Along(Other(p), b), Untouched(Other(p)),
         net'[p] = net[p], Face(p, b)' = Face(p, b)
  PROVE  Along(Other(p), b)'
<1>1. Other(p) \in Player /\ Other(Other(p)) = p
  BY OtherPlayer
<1> QED
  BY <1>1, AlongKept DEF Untouched, Face, Owed

(* A wall told of, alone, is built.                                           *)
LEMMA ReceiveWall ==
  ASSUME TypeInv, NEW p \in Player, Receive(p, 1), net[p][1].op = "WALL"
  PROVE  engine'[p] = build_wall_opponent(engine[p], net[p][1].a, net[p][1].b)
<1> DEFINE s == net[p]
           m == s[1]
           text == SubSeq(s, 1, 1)
<1>1. s \in Seq(Message) /\ 1 <= Len(s)
  BY Fields DEF TypeInv, Receive
<1>2. text \in Seq(Message) /\ Len(text) = 1 /\ text[1] = m /\ Head(text) = m
  <2>1. 1 \in Nat /\ 1 \in 1..1
    OBVIOUS
  <2> HIDE DEF s
  <2> QED
    BY <1>1, <2>1, Read
<1>3. \A op : Has(text, op) <=> m.op = op
  <2>1. DOMAIN text = 1..1
    BY <1>2
  <2> QED
    BY <1>2, <2>1 DEF Has
<1>4. engine' = [engine EXCEPT ![p] = Handled(engine[p], text)[1]]
  BY DEF Receive
<1> HIDE DEF text
<1>5. Handled(engine[p], text) = <<build_wall_opponent(engine[p], m.a, m.b), "ok">>
  BY <1>2, <1>3 DEF Handled
<1>6. Handled(engine[p], text)[1] = build_wall_opponent(engine[p], m.a, m.b)
  BY <1>5
<1> QED
  BY <1>4, <1>6 DEF TypeInv, Shapes

(* A wall is told of only when it has been built.                             *)
LEMMA DecideWall ==
  ASSUME TypeInv, NEW p \in Player, Decide(p), stage'[p] = "sendWall"
  PROVE  LET from == click[p].from
             to == click[p].to
         IN  /\ OnlyWalls(engine[p], engine'[p]) /\ click'[p] = click[p]
             /\ from # to /\ InLine(from, to) /\ ~OnEdge(from, Towards(from, to))
             /\ engine'[p].walls = engine[p].walls \cup {Wall(from, Towards(from, to))}
<1> DEFINE e == engine[p]
           from == click[p].from
           to == click[p].to
           built == build_wall(e, from, to)
           moved == move_piece(e, from, to)
<1>1. Shapes /\ e \in EngineType /\ from \in Square /\ to \in Square
  BY Fields DEF TypeInv
<1>2. \/ /\ built[2] = "SUCCESS"
         /\ engine' = [engine EXCEPT ![p] = built[1]]
         /\ UNCHANGED click
      \/ stage' = [stage EXCEPT ![p] = AfterMove(moved[2])]
  BY DEF Decide
<1>3. AfterMove(moved[2]) # "sendWall"
  BY AfterMoveStages
<1> HIDE DEF built, moved
<1>4. built[2] = "SUCCESS" /\ engine'[p] = built[1] /\ click'[p] = click[p]
  BY <1>1, <1>2, <1>3 DEF Shapes
<1>5. OnlyWalls(e, built[1])
  BY <1>1, BuildOutcome DEF built
<1> QED
  BY <1>1, <1>4, <1>5, BuiltWall DEF built


LEMMA ReceiveBoards ==
  ASSUME TypeInv, TurnInv, BoardInv, NEW p \in Player, NEW n \in 1..MaxGlued, Receive(p, n)
  PROVE  BoardInv'
<1> DEFINE q == Other(p)
           e == engine[p]
           f == engine'[p]
           m == net[p][1]
<1>1. /\ Shapes /\ q \in Player /\ Other(q) = p /\ e \in EngineType /\ e.player = p
      /\ engine[q] \in EngineType /\ net[p] \in Seq(Message) /\ net[q] \in Seq(Message)
  BY OtherPlayer, Fields DEF TypeInv, Orderly
<1>2. /\ Shapes' /\ Untouched(q) /\ net'[q] = net[q]
      /\ stage'[p] = stage[p] /\ click'[p] = click[p]
      /\ n \in 1..Len(net[p]) /\ net'[p] = SubSeq(net[p], n + 1, Len(net[p]))
      /\ slips \subseteq slips' /\ (n > 1 => "glued" \in slips')
      /\ Overtakes(p, m) => "overtaken" \in slips'
  BY ReceiveStep
<1>3. PICK res : Applied(e, f, res, m, n)
  BY ReceiveStep
<1>4. f.waiting = e.waiting /\ f \in EngineType
  <2>1. f.waiting = e.waiting
    BY <1>1, <1>3, AppliedKeeps
  <2>2. f \in EngineType
    BY <1>2 DEF Shapes
  <2> QED
    BY <2>1, <2>2
<1>5. 1 \in DOMAIN net[p] /\ m \in Message /\ Meant(m)
  <2>1. 1 \in DOMAIN net[p]
    BY <1>1, <1>2
  <2> QED
    BY <1>1, <2>1 DEF TypeInv
<1>6. ToldSoon(q)' <=> ToldSoon(q)
  BY <1>1, <1>2, <1>4 DEF ToldSoon, Waiting
<1>8. /\ Owed(p)' = Owed(p) /\ Owed(q)' = Owed(q)
      /\ \A b : Face(q, b)' = Face(q, b)
  BY <1>2, <1>4 DEF Owed, Face, Untouched
<1>7. ASSUME NEW b \in BOOLEAN, slips' \subseteq Harmless(b),
             \A r \in Player : ~ToldSoon(r) => Along(r, b)
      PROVE  /\ ~ToldSoon(p)' => Along(p, b)'
             /\ ~ToldSoon(q)' => Along(q, b)'
  <2>1. n = 1 /\ n + 1 = 2
    <3>1. "glued" \notin slips'
      BY <1>7 DEF Harmless
    <3>2. n \in Nat /\ n >= 1 /\ ~(n > 1)
      BY <1>1, <1>2, <3>1, BoundsAssumption
    <3> QED
      BY <3>2
  <2>10. View(f, b) = After(View(e, b), m, p, b)
    <3>1. Applied(e, f, res, m, 1)
      BY <1>3, <2>1
    <3>2. m.op = "WALL" => f = build_wall_opponent(e, m.a, m.b)
      BY <2>1, ReceiveWall
    <3> HIDE DEF e, f, m
    <3> QED
      BY <1>1, <1>5, <3>1, <3>2, ReadView
  <2>2. Face(p, b)' = After(Face(p, b), m, p, b)
    <3>1. CASE stage[p] \in Promotions
      <4> DEFINE to == e.waiting.to
                 v == View(e, b)
                 x == <<p, stage[p]>>
      <4>1. to \in Square /\ x \in Pieces
        <5>1. to \in Square
          BY <3>1 DEF TypeInv, Orderly
        <5>2. x \in Pieces
          BY <3>1 DEF Pieces, Promotions, Kind
        <5> QED
          BY <5>1, <5>2
      <4>2. ~(m.op \in {"TO", "PROM"} /\ to \in {m.a, m.b})
        BY <1>2, <1>7, <3>1 DEF Overtakes, Harmless
      <4>3. v \in Views /\ v.board = e.board
        BY <1>1, ViewTypes
      <4>4. View(f, b).board = f.board /\ f.player = p
        BY <1>1, <1>2, <1>3, <1>4, ViewTypes, AppliedKeeps
      <4>5. Face(p, b) = OnBoard(v, [v.board EXCEPT ![to] = x])
        BY <1>1, <3>1, <4>3 DEF Face, Facing
      <4>6. Face(p, b)' = OnBoard(View(f, b), [View(f, b).board EXCEPT ![to] = x])
        BY <1>2, <1>4, <3>1, <4>4 DEF Face, Facing
      <4> HIDE DEF to, v, x, m, e, f
      <4>7. After(OnBoard(v, [v.board EXCEPT ![to] = x]), m, p, b) =
                OnBoard(After(v, m, p, b), [After(v, m, p, b).board EXCEPT ![to] = x])
        BY <1>5, <4>1, <4>2, <4>3, PromisedAfter
      <4> QED
        BY <2>10, <4>5, <4>6, <4>7 DEF v
    <3>2. CASE stage[p] \notin Promotions
      BY <1>2, <2>10, <3>2 DEF Face, Facing
    <3> QED
      BY <3>1, <3>2
  <2>3. ASSUME ~ToldSoon(q)' PROVE Along(q, b)'
    <3>1. Along(q, b)
      BY <1>1, <1>6, <1>7, <2>3
    <3>2. Follows(net[p], Face(p, b), Face(q, b), Owed(q), stage[q], click[q], p, b)
      BY <1>1, <3>1 DEF Along
    <3>3. Follows(SubSeq(net[p], 2, Len(net[p])), After(Face(p, b), m, p, b),
                  Face(q, b), Owed(q), stage[q], click[q], p, b)
      BY <1>1, <1>5, <3>2, FollowsAfter
    <3>4. net'[p] = SubSeq(net[p], 2, Len(net[p]))
      BY <1>2, <2>1
    <3>5. Follows(net'[p], Face(p, b)', Face(q, b)', Owed(q)', stage'[q], click'[q], p, b)
      BY <1>2, <1>8, <2>2, <3>3, <3>4 DEF Untouched
    <3> QED
      BY <1>1, <3>5 DEF Along
  <2>4. ASSUME ~ToldSoon(p)', ~ToldSoon(p) PROVE Along(p, b)'
    <3>1. m.op = "LOSE"
      BY <1>5, <2>4 DEF ToldSoon
    <3>2. Face(p, b)' = Face(p, b)
      BY <2>2, <3>1, AfterSame
    <3>3. Along(p, b)
      BY <1>7, <2>4
    <3> QED
      BY <1>2, <1>8, <3>2, <3>3, AlongKept
  <2>5. ASSUME ~ToldSoon(p)', ToldSoon(p) PROVE Along(p, b)'
    <3>1. "crossed" \notin slips
      BY <1>2, <1>7 DEF Harmless
    <3>2. ~ToldSoon(q)'
      BY <1>6, <2>5, <3>1 DEF TurnInv
    <3>3. Along(q, b)'
      BY <2>3, <3>2
    <3>4. Losing(net'[p]) /\ stage'[q] \notin Untold /\ Owed(q)' = NoPromotion
      BY <2>5 DEF ToldSoon, Losing, Waiting, Owed
    <3>5. Losing(net'[q]) /\ stage'[p] \notin Untold /\ Owed(p)' = NoPromotion
      BY <1>1, <3>2 DEF ToldSoon, Losing, Waiting, Owed
    <3>6. /\ net'[p] \in Seq(Message) /\ net'[q] \in Seq(Message)
          /\ Face(p, b)' \in Views /\ Face(q, b)' \in Views
      <4>1. engine'[p] \in EngineType /\ engine'[q] \in EngineType
        BY <1>1, <1>2 DEF Shapes
      <4>3. /\ stage'[p] \in Promotions => engine'[p].waiting.to \in Square
            /\ stage'[q] \in Promotions => engine'[q].waiting.to \in Square
        BY <1>1, <1>2, <1>4 DEF TypeInv, Orderly, Untouched
      <4>2. net'[p] \in Seq(Message) /\ net'[q] \in Seq(Message)
        BY <1>1, <1>2 DEF Shapes
      <4> QED
        BY <4>1, <4>2, <4>3, FaceTypes DEF Face
    <3>7. Follows(net'[p], Face(p, b)', Face(q, b)', NoPromotion, stage'[q], click'[q], p, b)
      BY <1>1, <3>3, <3>4 DEF Along
    <3>8. Follows(net'[q], Face(q, b)', Face(p, b)', NoPromotion, stage'[p], click'[p], q, b)
      <4> DEFINE sp == net'[p]
                 sq == net'[q]
                 vp == Face(p, b)'
                 vq == Face(q, b)'
                 tp == stage'[p]
                 tq == stage'[q]
                 cp == click'[p]
                 cq == click'[q]
      <4>1. /\ sp \in Seq(Message) /\ sq \in Seq(Message) /\ vp \in Views /\ vq \in Views
            /\ Losing(sp) /\ Losing(sq) /\ tp \notin Untold /\ tq \notin Untold
            /\ Follows(sp, vp, vq, NoPromotion, tq, cq, p, b)
        BY <3>4, <3>5, <3>6, <3>7
      <4> HIDE DEF sp, sq, vp, vq, tp, tq, cp, cq
      <4>2. Follows(sq, vq, vp, NoPromotion, tp, cp, q, b)
        BY <4>1, Restful
      <4> QED
        BY <4>2 DEF sp, sq, vp, vq, tp, tq, cp, cq
    <3> QED
      BY <3>5, <3>8 DEF Along
  <2> QED
    BY <2>3, <2>4, <2>5
<1> QED
  BY <1>2, <1>7, BoardsFrom

LEMMA DecideBoards ==
  ASSUME TypeInv, KingsInv, BoardInv, NEW p \in Player, Decide(p)
  PROVE  BoardInv'
<1> DEFINE q == Other(p)
           e == engine[p]
           f == engine'[p]
           from == click[p].from
           to == click[p].to
<1>1. /\ Shapes /\ q \in Player /\ Other(q) = p /\ e \in EngineType /\ e.player = p
      /\ from \in Square /\ to \in Square /\ KingUnmarkedAtHome(e)
  BY OtherPlayer, Fields DEF TypeInv, Orderly, KingsInv, Kept
<1>2. /\ Untouched(q) /\ net' = net /\ stage[p] = "clicked"
      /\ slips \subseteq slips' /\ (Behind(p) => "crossed" \in slips')
      /\ \/ stage'[p] = "sendWall"
         \/ \E res : Moved(p, res)
  BY DecideStep
<1>3. e.waiting = NoPromotion /\ stage[p] \notin Untold
  BY <1>2 DEF TypeInv, Orderly, Waiting, Untold
<1>5. /\ Owed(p) = NoPromotion /\ \A b : Face(p, b) = View(e, b)
      /\ \A b : Face(q, b)' = Face(q, b)
  <2>1. stage[p] \in Steady
    BY <1>2 DEF Steady
  <2> QED
    BY <1>2, <1>3, <2>1, FaceSteady DEF Face, Untouched
<1>6. stage'[p] \notin Promotions
  <2>1. CASE stage'[p] = "sendWall"
    BY <2>1, StageNames DEF Steady
  <2>2. CASE \E res : Moved(p, res)
    BY <2>2, AfterMoveStages, StageNames DEF Steady, Moved
  <2> QED
    BY <1>2, <2>1, <2>2
<1>7. Owed(p)' = f.waiting /\ \A b : Face(p, b)' = View(f, b)
  BY <1>6 DEF Owed, Face, Facing
<1>4. ASSUME NEW b \in BOOLEAN, slips' \subseteq Harmless(b),
             \A r \in Player : ~ToldSoon(r) => Along(r, b)
      PROVE  /\ ~ToldSoon(p)' => Along(p, b)'
             /\ ~ToldSoon(q)' => Along(q, b)'
  <2>1. ~ToldSoon(p)
    <3>1. "crossed" \notin slips'
      BY <1>4 DEF Harmless
    <3>2. net[p] = <<>> /\ stage[q] \notin Untold
          /\ ~(Waiting(q) /\ stage[q] \notin Promotions)
      BY <1>2, <3>1 DEF Behind, Waiting
    <3> QED
      BY <3>2 DEF ToldSoon
  <2>2. Follows(net[q], Face(q, b), View(e, b), NoPromotion, stage[p], click[p], q, b)
    BY <1>4, <1>5, <2>1 DEF Along
  <2>3. Leads(net[q], Face(q, b), MirrorView(View(e, b)), q, b)
    <3> DEFINE s == net[q]
               u == Face(q, b)
               v == View(e, b)
               st == stage[p]
               c == click[p]
    <3>1. Follows(s, u, v, NoPromotion, st, c, q, b) /\ st \notin Untold
      BY <1>3, <2>2
    <3> HIDE DEF s, u, v, st, c
    <3>2. PICK w : Leads(s, u, w, q, b) /\ Pending(v, NoPromotion, st, c, w, q, b)
      BY <3>1 DEF Follows
    <3>3. MirrorView(v) = w
      BY <3>1, <3>2, PendingNothing
    <3>4. Leads(s, u, MirrorView(v), q, b)
      BY <3>2, <3>3
    <3> QED
      BY <3>4 DEF s, u, v
  <2>4. ASSUME Pending(View(f, b), f.waiting, stage'[p], click'[p], MirrorView(View(e, b)), q, b)
        PROVE  Along(p, b)'
    <3>1. Follows(net[q], Face(q, b), View(f, b), f.waiting, stage'[p], click'[p], q, b)
      BY <2>3, <2>4 DEF Follows
    <3>2. net'[q] = net[q] /\ Face(q, b)' = Face(q, b)
      BY <1>2, <1>5
    <3> QED
      BY <1>7, <3>1, <3>2 DEF Along
  <2>5. (stage'[p] \in Untold \/ f.waiting # NoPromotion) => ToldSoon(q)'
    BY <1>1, <1>6 DEF ToldSoon, Waiting
  <2>6. CASE stage'[p] = "sendWall"
    <3>1. /\ OnlyWalls(e, f) /\ click'[p] = click[p]
          /\ from # to /\ InLine(from, to) /\ ~OnEdge(from, Towards(from, to))
          /\ f.walls = e.walls \cup {Wall(from, Towards(from, to))}
      BY <2>6, DecideWall
    <3>2. f \in EngineType /\ f.board = e.board /\ f.waiting = NoPromotion
      BY <1>3, <3>1 DEF OnlyWalls
    <3> DEFINE m == Seen("WALL", click[p].from, click[p].to, "")
    <3>3. m.op = "WALL" /\ m.a = Reverse(from) /\ m.b = Reverse(to)
      BY DEF Seen, Msg
    <3> HIDE DEF m
    <3>4. MirrorView(View(f, b)) = After(MirrorView(View(e, b)), m, q, b)
      <4> HIDE DEF e, f, from, to, q
      <4> QED
        BY <1>1, <3>1, <3>2, <3>3, WallMirrored
    <3>5. Pending(View(f, b), NoPromotion, "sendWall", click[p], MirrorView(View(e, b)), q, b)
      BY <3>4, PendingWall DEF m
    <3>6. Along(p, b)'
      BY <2>4, <2>6, <3>1, <3>2, <3>5
    <3>7. ToldSoon(q)'
      BY <2>5, <2>6 DEF Untold
    <3> QED
      BY <3>6, <3>7
  <2>7. ASSUME NEW res, Moved(p, res)
        PROVE  /\ ~ToldSoon(p)' => Along(p, b)'
               /\ ~ToldSoon(q)' => Along(q, b)'
    <3> DEFINE c == click'[p]
    <3>1. /\ Outcome(e, f, res, from, to) /\ stage'[p] = AfterMove(res)
          /\ MoveSlips(e, from, to, <<f, res>>) \subseteq Harmless(b)
      BY <1>4, <2>7 DEF Moved
    <3>2. res \notin {"PROMOTION", "PROMOTION_CAPTURE"} => c.from = from /\ c.to = to
      BY <2>7 DEF Moved
    <3>3. \/ /\ AfterMove(res) = "check" /\ f.waiting = NoPromotion
             /\ View(f, b) = View(e, b)
          \/ /\ AfterMove(res) \in Untold \/ f.waiting # NoPromotion
             /\ Pending(View(f, b), f.waiting, AfterMove(res), c, MirrorView(View(e, b)), q, b)
      <4> HIDE DEF e, f, from, to, q, c
      <4> QED
        BY <1>1, <1>3, <3>1, <3>2, MoveTold
    <3>4. CASE AfterMove(res) = "check" /\ f.waiting = NoPromotion /\ View(f, b) = View(e, b)
      <4>1. stage'[p] \notin Untold /\ stage[p] \notin Untold
        BY <1>3, <3>1, <3>4 DEF Untold
      <4>5. Face(p, b)' = Face(p, b) /\ Owed(p)' = Owed(p) /\ Face(q, b)' = Face(q, b)
        BY <1>5, <1>7, <3>4
      <4>2. Along(p, b)'
        BY <1>2, <1>4, <2>1, <4>1, <4>5, AlongKept
      <4>3. ~ToldSoon(q)' => ~ToldSoon(q)
        BY <1>1, <1>2, <1>3, <4>1 DEF ToldSoon, Waiting
      <4>4. ~ToldSoon(q)' => Along(q, b)'
        BY <1>1, <1>2, <1>4, <4>3, <4>5, OtherAlong
      <4> QED
        BY <4>2, <4>4
    <3>5. CASE /\ AfterMove(res) \in Untold \/ f.waiting # NoPromotion
               /\ Pending(View(f, b), f.waiting, AfterMove(res), c, MirrorView(View(e, b)), q, b)
      <4>1. Along(p, b)'
        BY <2>4, <3>1, <3>5
      <4>2. ToldSoon(q)'
        BY <2>5, <3>1, <3>5
      <4> QED
        BY <4>1, <4>2
    <3> QED
      BY <3>3, <3>4, <3>5
  <2> QED
    BY <1>2, <2>6, <2>7
<1> QED
  BY <1>2, <1>4, BoardsFrom


(* What is sent is what was pending.                                          *)
LEMMA SentAlong ==
  ASSUME TypeInv, NEW p \in Player, NEW b, Along(p, b), Untouched(Other(p)),
         NEW m \in Message, net'[Other(p)] = Append(net[Other(p)], m),
         \A w :
            Pending(Face(p, b), Owed(p), stage[p], click[p], w, Other(p), b)
            => Pending(Face(p, b)', Owed(p)', stage'[p], click'[p],
                       After(w, m, Other(p), b), Other(p), b)
  PROVE  Along(p, b)'
<1> DEFINE q == Other(p)
           s == net[q]
           u == Face(q, b)
           v == Face(p, b)
           v2 == Face(p, b)'
           wt == Owed(p)
           wt2 == Owed(p)'
           st == stage[p]
           st2 == stage'[p]
           c == click[p]
           c2 == click'[p]
<1>1. s \in Seq(Message)
  BY OtherPlayer, Fields DEF TypeInv
<1>2. Follows(s, u, v, wt, st, c, q, b)
  BY DEF Along
<1>3. \A w : Pending(v, wt, st, c, w, q, b) => Pending(v2, wt2, st2, c2, After(w, m, q, b), q, b)
  OBVIOUS
<1> HIDE DEF s, u, v, v2, wt, wt2, st, st2, c, c2, q
<1>4. Follows(Append(s, m), u, v2, wt2, st2, c2, q, b)
  BY <1>1, <1>2, <1>3, FollowsOn
<1>5. net'[q] = Append(s, m) /\ Face(q, b)' = Face(q, b)
  BY DEF s, q, Untouched, Face
<1>6. Follows(net'[q], Face(q, b)', v2, wt2, st2, c2, q, b)
  BY <1>4, <1>5 DEF u
<1> QED
  BY <1>6 DEF Along, q, v2, wt2, st2, c2

LEMMA SentBoards ==
  ASSUME TypeInv, BoardInv, NEW p \in Player, Untouched(Other(p)), slips \subseteq slips',
         net'[p] = net[p], NEW m \in Message, net'[Other(p)] = Append(net[Other(p)], m),
         m.op # "LOSE",
         \A b \in BOOLEAN : \A w :
            Pending(Face(p, b), Owed(p), stage[p], click[p], w, Other(p), b)
            => Pending(Face(p, b)', Owed(p)', stage'[p], click'[p],
                       After(w, m, Other(p), b), Other(p), b)
  PROVE  BoardInv'
<1> DEFINE q == Other(p)
<1>1. /\ q \in Player /\ Other(q) = p /\ net[q] \in Seq(Message)
  BY OtherPlayer, Fields DEF TypeInv
<1>2. ToldSoon(q)'
  <2>1. Len(net[q]) + 1 \in DOMAIN Append(net[q], m) /\ Append(net[q], m)[Len(net[q]) + 1] = m
    BY <1>1
  <2> QED
    BY <2>1 DEF ToldSoon
<1>3. ToldSoon(p)' <=> ToldSoon(p)
  BY DEF ToldSoon, Waiting, Untouched
<1>4. ASSUME NEW b \in BOOLEAN, \A r \in Player : ~ToldSoon(r) => Along(r, b)
      PROVE  ~ToldSoon(p)' => Along(p, b)'
  BY <1>3, <1>4, SentAlong
<1> QED
  BY <1>2, <1>4, BoardsFrom

(* Nothing to be seen happens.                                                *)
LEMMA QuietBoards ==
  ASSUME BoardInv, NEW p \in Player, Untouched(Other(p)), slips \subseteq slips',
         net' = net, Owed(p)' = Owed(p),
         \A b \in BOOLEAN : slips' \subseteq Harmless(b) => Face(p, b)' = Face(p, b),
         \/ stage[p] \notin Untold /\ stage'[p] \notin Untold
         \/ stage'[p] = stage[p] /\ click'[p] = click[p]
  PROVE  BoardInv'
<1> DEFINE q == Other(p)
<1>1. q \in Player /\ Other(q) = p
  BY OtherPlayer
<1>2. ToldSoon(p)' <=> ToldSoon(p)
  BY DEF ToldSoon, Waiting, Untouched
<1>3. ToldSoon(q)' <=> ToldSoon(q)
  <2>1. /\ Waiting(p) /\ stage[p] \notin Promotions <=> Owed(p) # NoPromotion
        /\ Waiting(p)' /\ stage'[p] \notin Promotions <=> Owed(p)' # NoPromotion
    BY DEF Owed, Waiting
  <2>2. stage'[p] \in Untold <=> stage[p] \in Untold
    OBVIOUS
  <2> QED
    BY <1>1, <2>1, <2>2 DEF ToldSoon
<1>4. ASSUME NEW b \in BOOLEAN, slips' \subseteq Harmless(b),
             \A r \in Player : ~ToldSoon(r) => Along(r, b)
      PROVE  /\ ~ToldSoon(p)' => Along(p, b)'
             /\ ~ToldSoon(q)' => Along(q, b)'
  <2>2. Face(p, b)' = Face(p, b) /\ Face(q, b)' = Face(q, b)
    BY <1>4 DEF Untouched, Face
  <2>3. ~ToldSoon(p)' => Along(p, b)'
    BY <1>2, <1>4, <2>2, AlongKept
  <2>4. ~ToldSoon(q)' => Along(q, b)'
    BY <1>1, <1>3, <1>4, <2>2, OtherAlong
  <2> QED
    BY <2>3, <2>4
<1> QED
  BY <1>4, BoardsFrom

(* Nothing waits while the other player has something to be told.             *)
LEMMA UntoldWaitsNot ==
  ASSUME NEW v, NEW waiting, NEW st \in Untold, NEW c, NEW w, NEW q, NEW b,
         Pending(v, waiting, st, c, w, q, b)
  PROVE  waiting = NoPromotion
  BY DEF Pending

(* The move is still to tell once the opportunity has been told.              *)
LEMMA PendingTelling ==
  ASSUME NEW v, NEW st \in Telling, NEW st2 \in Telling, NEW c, NEW w, NEW q, NEW b,
         Pending(v, NoPromotion, st, c, w, q, b)
  PROVE  Pending(v, NoPromotion, st2, c, w, q, b)
<1> DEFINE x == After(w, Seen("TO", c.from, c.to, ""), q, b)
           y == After(w, Seen("WALL", c.from, c.to, ""), q, b)
<1>1. MirrorView(v) = (CASE st \in Telling -> x [] st = "sendWall" -> y [] OTHER -> w)
  BY DEF Pending
<1>2. Pending(v, NoPromotion, st2, c, w, q, b) <=>
        MirrorView(v) = (CASE st2 \in Telling -> x [] st2 = "sendWall" -> y [] OTHER -> w)
  BY DEF Pending
<1> HIDE DEF x, y
<1>3. \A t \in Telling : (CASE t \in Telling -> x [] t = "sendWall" -> y [] OTHER -> w) = x
  BY DEF Telling
<1>4. Pending(v, NoPromotion, st2, c, w, q, b) <=> MirrorView(v) = x
  BY <1>2, <1>3
<1> QED
  BY <1>1, <1>3, <1>4

LEMMA SendOpportunityBoards ==
  ASSUME TypeInv, BoardInv, NEW p \in Player, SendOpportunity(p)
  PROVE  BoardInv'
<1> DEFINE q == Other(p)
           wt == engine[p].waiting
           st == stage[p]
           st2 == stage'[p]
           c == click[p]
<1>1. /\ Untouched(q) /\ UNCHANGED <<engine, click, slips>> /\ net'[p] = net[p]
      /\ st = "sendOpportunity" /\ st2 = "sendMove"
  BY SendOpportunityStep
<1>5. /\ Owed(p) = wt /\ \A b : Face(p, b) = View(engine[p], b)
      /\ Owed(p)' = wt /\ \A b : Face(p, b)' = View(engine[p], b)
  <2>1. st \notin Promotions /\ st2 \notin Promotions
    BY <1>1, StageNames DEF Steady
  <2> QED
    BY <1>1, <2>1 DEF Owed, Face, Facing
<1>2. PICK m \in Message : m.op = "ENPS" /\ net'[q] = Append(net[q], m)
  BY SendOpportunityStep
<1>3. ASSUME NEW b \in BOOLEAN, NEW w, Pending(View(engine[p], b), wt, st, c, w, q, b)
      PROVE  Pending(View(engine[p], b), wt, st2, c, After(w, m, q, b), q, b)
  <2> DEFINE v == View(engine[p], b)
  <2> HIDE DEF v, wt, st, st2, c, q
  <2>1. st \in Telling /\ st2 \in Telling /\ st \in Untold
    BY <1>1 DEF Telling, Untold
  <2>2. wt = NoPromotion
    BY <1>3, <2>1, UntoldWaitsNot DEF v
  <2>3. After(w, m, q, b) = w
    BY <1>2, AfterSame
  <2>4. Pending(v, NoPromotion, st, c, w, q, b)
    BY <1>3, <2>2 DEF v
  <2>5. Pending(v, NoPromotion, st2, c, w, q, b)
    BY <2>1, <2>4, PendingTelling
  <2> QED
    BY <2>2, <2>3, <2>5 DEF v
<1>4. \A b \in BOOLEAN : \A w :
        Pending(Face(p, b), Owed(p), stage[p], click[p], w, Other(p), b)
        => Pending(Face(p, b)', Owed(p)', stage'[p], click'[p],
                   After(w, m, Other(p), b), Other(p), b)
  BY <1>1, <1>3, <1>5
<1> QED
  BY <1>1, <1>2, <1>4, SentBoards

LEMMA SendClickBoards ==
  ASSUME TypeInv, BoardInv, NEW p \in Player, SendMove(p) \/ SendWall(p)
  PROVE  BoardInv'
<1> DEFINE q == Other(p)
           wt == engine[p].waiting
           st == stage[p]
           st2 == stage'[p]
           c == click[p]
           c2 == click'[p]
<1>1. PICK op \in {"TO", "WALL"} :
        /\ Untouched(q) /\ UNCHANGED <<engine, slips>> /\ st2 = "check" /\ TellsClick(p, op)
        /\ (op = "TO" /\ st = "sendMove") \/ (op = "WALL" /\ st = "sendWall")
  BY SendMoveStep, SendWallStep
<1>7. /\ Owed(p) = wt /\ \A b : Face(p, b) = View(engine[p], b)
      /\ Owed(p)' = wt /\ \A b : Face(p, b)' = View(engine[p], b)
  <2>1. st \notin Promotions /\ st2 \notin Promotions
    BY <1>1, StageNames DEF Steady
  <2> QED
    BY <1>1, <2>1 DEF Owed, Face, Facing
<1>2. net'[p] = net[p]
  BY <1>1 DEF TellsClick
<1>3. PICK m \in Message :
        /\ m.op = op /\ m.a = Reverse(c.from) /\ m.b = Reverse(c.to)
        /\ net'[q] = Append(net[q], m)
  BY <1>1 DEF TellsClick
<1>4. ASSUME NEW b \in BOOLEAN, NEW w, Pending(View(engine[p], b), wt, st, c, w, q, b)
      PROVE  Pending(View(engine[p], b), wt, st2, c2, After(w, m, q, b), q, b)
  <2> DEFINE v == View(engine[p], b)
             k == IF op = "TO" THEN Seen("TO", c.from, c.to, "") ELSE Seen("WALL", c.from, c.to, "")
  <2>1. k.op = op /\ k.a = Reverse(c.from) /\ k.b = Reverse(c.to)
    <3>1. CASE op = "TO"
      BY <3>1 DEF Seen, Msg
    <3>2. CASE op = "WALL"
      BY <3>2 DEF Seen, Msg
    <3> QED
      BY <3>1, <3>2
  <2> HIDE DEF v, wt, st, st2, c, c2, q
  <2>2. st \in Untold /\ st2 \notin Untold
    BY <1>1 DEF Untold
  <2>3. wt = NoPromotion
    BY <1>4, <2>2, UntoldWaitsNot DEF v
  <2>4. Pending(v, NoPromotion, st, c, w, q, b)
    BY <1>4, <2>3 DEF v
  <2>5. MirrorView(v) = After(w, k, q, b)
    <3>1. CASE op = "TO" /\ st = "sendMove"
      <4>1. st \in Telling
        BY <3>1 DEF Telling
      <4> QED
        BY <2>4, <3>1, <4>1, PendingMove
    <3>2. CASE op = "WALL" /\ st = "sendWall"
      BY <2>4, <3>2, PendingWall
    <3> QED
      BY <1>1, <3>1, <3>2
  <2> HIDE DEF k
  <2>6. After(w, m, q, b) = After(w, k, q, b)
    BY <1>3, <2>1, AfterLike
  <2>7. Pending(v, NoPromotion, st2, c2, After(w, m, q, b), q, b)
    BY <2>2, <2>5, <2>6, PendingNothing
  <2> QED
    BY <2>3, <2>7 DEF v
<1>5. \A b \in BOOLEAN : \A w :
        Pending(Face(p, b), Owed(p), stage[p], click[p], w, Other(p), b)
        => Pending(Face(p, b)', Owed(p)', stage'[p], click'[p],
                   After(w, m, Other(p), b), Other(p), b)
  BY <1>1, <1>4, <1>7
<1>6. m.op # "LOSE"
  BY <1>3
<1> QED
  BY <1>1, <1>2, <1>3, <1>5, <1>6, SentBoards

(* What is told of a promotion is what will be seen.                           *)
LEMMA SendPromotionBoards ==
  ASSUME TypeInv, BoardInv, NEW p \in Player, NEW kind \in Promotions, SendPromotion(p, kind)
  PROVE  BoardInv'
<1> DEFINE q == Other(p)
           e == engine[p]
           st == stage[p]
           st2 == stage'[p]
           c == click[p]
           c2 == click'[p]
<1>1. /\ Untouched(q) /\ slips \subseteq slips' /\ net'[p] = net[p]
      /\ st = "idle" /\ st2 = kind /\ UNCHANGED <<engine, click>>
      /\ e.waiting # NoPromotion
  BY SendPromotionStep DEF Waiting
<1>2. PICK m \in Message :
        /\ m.op = "PROM" /\ m.kind = kind /\ Meant(m)
        /\ m.a = Reverse(engine[p].waiting.from) /\ m.b = Reverse(engine[p].waiting.to)
        /\ net'[Other(p)] = Append(net[Other(p)], m)
  BY PromotionTold
<1>3. e.player = p /\ Other(q) = p
  BY OtherPlayer DEF TypeInv, Orderly
<1>7. /\ Owed(p) = e.waiting /\ \A b : Face(p, b) = View(e, b)
      /\ Owed(p)' = NoPromotion
      /\ \A b : Face(p, b)' =
            OnBoard(View(e, b), [e.board EXCEPT ![e.waiting.to] = <<p, kind>>])
  <2>1. st \notin Promotions /\ st2 \in Promotions
    BY <1>1, StageNames DEF Steady
  <2> QED
    BY <1>1, <1>3, <2>1 DEF Owed, Face, Facing
<1>4. ASSUME NEW b \in BOOLEAN, NEW w, Pending(View(e, b), e.waiting, st, c, w, q, b)
      PROVE  Pending(Face(p, b)', NoPromotion, st2, c2, After(w, m, q, b), q, b)
  <2> DEFINE k == Seen("PROM", e.waiting.from, e.waiting.to, kind)
  <2>1. /\ k.op = "PROM" /\ k.kind = kind
        /\ k.a = Reverse(e.waiting.from) /\ k.b = Reverse(e.waiting.to)
    BY DEF Seen, Msg
  <2>2. MirrorView(OnBoard(View(e, b), [View(e, b).board EXCEPT ![e.waiting.to] = <<Other(q), kind>>]))
            = After(w, k, q, b)
    BY <1>1, <1>4 DEF Pending
  <2> HIDE DEF k
  <2>3. After(w, m, q, b) = After(w, k, q, b)
    BY <1>2, <2>1, AfterLike
  <2>4. OnBoard(View(e, b), [View(e, b).board EXCEPT ![e.waiting.to] = <<Other(q), kind>>]) = Face(p, b)'
    BY <1>3, <1>7 DEF View
  <2>5. st2 \notin Untold
    BY <1>1, StageNames DEF Untold, Steady
  <2> DEFINE v == Face(p, b)'
  <2> HIDE DEF e, st, st2, c, c2, q, v
  <2>6. Pending(v, NoPromotion, st2, c2, After(w, m, q, b), q, b)
    <3>1. MirrorView(v) = After(w, m, q, b)
      BY <2>2, <2>3, <2>4 DEF v
    <3> QED
      BY <2>5, <3>1, PendingNothing
  <2> QED
    BY <2>6 DEF v
<1>5. \A b \in BOOLEAN : \A w :
        Pending(Face(p, b), Owed(p), stage[p], click[p], w, Other(p), b)
        => Pending(Face(p, b)', Owed(p)', stage'[p], click'[p],
                   After(w, m, Other(p), b), Other(p), b)
  BY <1>4, <1>7
<1>6. m.op # "LOSE"
  BY <1>2
<1> QED
  BY <1>1, <1>2, <1>5, <1>6, SentBoards

(* Once it has been told of, making the promotion changes nothing to be seen.  *)
LEMMA PromoteBoards ==
  ASSUME TypeInv, BoardInv, NEW p \in Player, Promote(p)
  PROVE  BoardInv'
<1> DEFINE e == engine[p]
           f == engine'[p]
<1>1. /\ Untouched(Other(p)) /\ UNCHANGED <<net, slips>>
      /\ stage[p] \in Promotions /\ stage'[p] = "idle"
      /\ f.board = [e.board EXCEPT ![e.waiting.to] = <<e.player, stage[p]>>]
      /\ f.waiting = NoPromotion /\ f.walls = e.walls
  BY PromoteStep
<1>2. /\ stage[p] \notin Untold /\ stage'[p] \notin Untold /\ stage'[p] \notin Promotions
  BY <1>1, StageNames DEF Untold, Steady
<1>3. Owed(p)' = Owed(p)
  BY <1>1, <1>2 DEF Owed
<1>4. ASSUME NEW b \in BOOLEAN PROVE Face(p, b)' = Face(p, b)
  <2>1. Face(p, b)' = View(f, b)
    BY <1>2 DEF Face, Facing
  <2>2. Face(p, b) = OnBoard(View(e, b), [e.board EXCEPT ![e.waiting.to] = <<e.player, stage[p]>>])
    BY <1>1 DEF Face, Facing
  <2> QED
    BY <1>1, <2>1, <2>2 DEF View, OnBoard
<1> QED
  BY <1>1, <1>2, <1>3, <1>4, QuietBoards

LEMMA CheckBoards ==
  ASSUME TypeInv, BoardInv, NEW p \in Player, Check(p)
  PROVE  BoardInv'
<1> DEFINE q == Other(p)
<1>1. /\ Untouched(q) /\ UNCHANGED <<engine, click, slips>> /\ net'[p] = net[p]
      /\ stage[p] = "check" /\ stage'[p] = "idle"
      /\ \/ Lose \in Message /\ net'[q] = Append(net[q], Lose)
         \/ net' = net
  BY CheckStep
<1>2. stage[p] \notin Untold /\ stage'[p] \notin Untold
  BY <1>1 DEF Untold
<1>5. /\ Owed(p)' = Owed(p) /\ \A b : Face(p, b)' = Face(p, b)
      /\ stage[p] \notin Promotions /\ stage'[p] \notin Promotions
  <2>1. stage[p] \notin Promotions /\ stage'[p] \notin Promotions
    BY <1>1, StageNames DEF Steady
  <2> QED
    BY <1>1, <2>1 DEF Owed, Face, Facing
<1>3. CASE net' = net
  BY <1>1, <1>2, <1>3, <1>5, QuietBoards
<1>4. CASE Lose \in Message /\ net'[q] = Append(net[q], Lose)
  <2>1. q \in Player /\ Other(q) = p /\ net[q] \in Seq(Message)
    BY OtherPlayer, Fields DEF TypeInv
  <2>2. ToldSoon(p)' <=> ToldSoon(p)
    BY <1>1 DEF ToldSoon, Waiting, Untouched
  <2>3. ToldSoon(q) => ToldSoon(q)'
    <3>1. \A i \in DOMAIN net[q] : i \in DOMAIN net'[q] /\ net'[q][i] = net[q][i]
      BY <1>4, <2>1
    <3> QED
      BY <1>1, <1>2, <1>5, <2>1, <3>1 DEF ToldSoon, Waiting
  <2>4. ASSUME NEW b \in BOOLEAN, \A r \in Player : ~ToldSoon(r) => Along(r, b)
        PROVE  /\ ~ToldSoon(p)' => Along(p, b)'
               /\ ~ToldSoon(q)' => Along(q, b)'
    <3>1. \A w : After(w, Lose, q, b) = w
      <4>1. Lose.op = "LOSE"
        BY DEF Lose, Msg
      <4> QED
        BY <4>1, AfterSame
    <3>2. \A w : Pending(Face(p, b), Owed(p), stage[p], click[p], w, q, b)
                 => Pending(Face(p, b)', Owed(p)', stage'[p], click'[p],
                            After(w, Lose, q, b), q, b)
      BY <1>1, <1>2, <1>5, <3>1, PendingLike
    <3>3. ~ToldSoon(p)' => Along(p, b)'
      BY <1>1, <1>4, <2>2, <2>4, <3>2, SentAlong
    <3>4. ~ToldSoon(q)' => Along(q, b)'
      BY <1>1, <1>5, <2>1, <2>3, <2>4, OtherAlong
    <3> QED
      BY <3>3, <3>4
  <2>5. slips \subseteq slips'
    BY <1>1
  <2> QED
    BY <1>1, <2>4, <2>5, BoardsFrom
<1> QED
  BY <1>1, <1>3, <1>4

LEMMA NextBoards ==
  TypeInv /\ KingsInv /\ TurnInv /\ BoardInv /\ [Next]_vars => BoardInv'
<1> SUFFICES ASSUME TypeInv, KingsInv, TurnInv, BoardInv, [Next]_vars PROVE BoardInv'
  OBVIOUS
<1>1. CASE UNCHANGED vars
  BY <1>1 DEF BoardInv, Along, Face, Owed, ToldSoon, Waiting, vars
<1>2. ASSUME NEW p \in Player, NEW n \in 1..MaxGlued, Receive(p, n) PROVE BoardInv'
  BY <1>2, ReceiveBoards
<1>3. ASSUME NEW p \in Player, NEW from \in Square, NEW to \in Square, NEW wall \in BOOLEAN,
             Click(p, from, to, wall)
      PROVE  BoardInv'
  <2>1. /\ Untouched(Other(p)) /\ UNCHANGED <<engine, net, slips>>
        /\ stage[p] = "idle" /\ stage'[p] = "clicked"
    BY <1>3, ClickStep
  <2>2. /\ stage[p] \notin Untold /\ stage'[p] \notin Untold
        /\ stage[p] \notin Promotions /\ stage'[p] \notin Promotions
    BY <2>1, StageNames DEF Untold, Steady
  <2>3. Owed(p)' = Owed(p) /\ \A b : Face(p, b)' = Face(p, b)
    BY <2>1, <2>2 DEF Owed, Face, Facing
  <2> QED
    BY <2>1, <2>2, <2>3, QuietBoards
<1>4. ASSUME NEW p \in Player, WallsOverwritten(p) PROVE BoardInv'
  <2>1. /\ Untouched(Other(p)) /\ UNCHANGED <<net, stage, click>> /\ slips \subseteq slips'
        /\ engine'[p].board = engine[p].board /\ engine'[p].waiting = engine[p].waiting
    BY <1>4, WallsOverwrittenStep
  <2>2. "overwritten" \in slips'
    BY <1>4 DEF WallsOverwritten
  <2>3. stage[p] = "clicked" /\ stage'[p] = "clicked"
    BY <1>4, <2>1 DEF WallsOverwritten
  <2>4. stage[p] \notin Promotions
    BY <2>3, StageNames DEF Steady
  <2>5. Owed(p)' = Owed(p)
    BY <2>1 DEF Owed
  <2>6. ASSUME NEW b \in BOOLEAN, slips' \subseteq Harmless(b) PROVE Face(p, b)' = Face(p, b)
    <3>1. ~b
      BY <2>2, <2>6 DEF Harmless
    <3> QED
      BY <2>1, <2>4, <3>1 DEF Face, Facing, View
  <2> QED
    BY <2>1, <2>5, <2>6, QuietBoards
<1>5. ASSUME NEW p \in Player, CheckTimeouts(p) PROVE BoardInv'
  <2>1. /\ Untouched(Other(p)) /\ UNCHANGED <<net, stage, click, slips>>
        /\ engine'[p].board = engine[p].board /\ engine'[p].waiting = engine[p].waiting
        /\ engine'[p].walls = engine[p].walls /\ engine'[p].player = engine[p].player
    BY <1>5, CheckTimeoutsStep
  <2>2. Owed(p)' = Owed(p) /\ \A b : Face(p, b)' = Face(p, b)
    BY <2>1 DEF Owed, Face, Facing, View
  <2> QED
    BY <2>1, <2>2, QuietBoards
<1>6. ASSUME NEW p \in Player, Decide(p) PROVE BoardInv'
  BY <1>6, DecideBoards
<1>7. ASSUME NEW p \in Player, SendOpportunity(p) PROVE BoardInv'
  BY <1>7, SendOpportunityBoards
<1>8. ASSUME NEW p \in Player, SendMove(p) \/ SendWall(p) PROVE BoardInv'
  BY <1>8, SendClickBoards
<1>9. ASSUME NEW p \in Player, Check(p) PROVE BoardInv'
  BY <1>9, CheckBoards
<1>10. ASSUME NEW p \in Player, NEW kind \in Promotions, SendPromotion(p, kind)
       PROVE  BoardInv'
  BY <1>10, SendPromotionBoards
<1>12. ASSUME NEW p \in Player, Promote(p) PROVE BoardInv'
  BY <1>12, PromoteBoards
<1>11. CASE Next
  <2>1. PICK p \in Player :
            \/ \E n \in 1..MaxGlued : Receive(p, n)
            \/ \E from, to \in Square, wall \in BOOLEAN : Click(p, from, to, wall)
            \/ WallsOverwritten(p) \/ CheckTimeouts(p)
            \/ Decide(p) \/ SendOpportunity(p) \/ SendMove(p) \/ SendWall(p) \/ Check(p)
            \/ Promote(p) \/ \E kind \in Promotions : SendPromotion(p, kind)
    BY <1>11, NextCases
  <2> QED
    BY <1>2, <1>3, <1>4, <1>5, <1>6, <1>7, <1>8, <1>9, <1>10, <1>12, <2>1
<1> QED
  BY <1>1, <1>11

LEMMA InitBoards == Init => BoardInv
<1> SUFFICES ASSUME Init PROVE BoardInv
  OBVIOUS
<1>1. PICK e \in Starts :
        engine = [p \in Player |-> IF p = "W" THEN e ELSE Opposite(e)]
  BY DEF Init
<1> DEFINE o == Opposite(e)
<1>2. /\ e \in EngineType /\ o \in EngineType
      /\ e.waiting = NoPromotion /\ o.waiting = NoPromotion
  BY StartsAssumption DEF Playable
<1>3. o.board = MirrorBoard(e.board) /\ o.walls = MirrorWalls(e.walls)
  BY <1>2 DEF Opposite, EngineType
<1>4. MirrorBoard(o.board) = e.board /\ MirrorWalls(o.walls) = e.walls
  <2>1. e.board \in [Square -> Pieces] /\ e.walls \in SUBSET AllWalls
    BY <1>2, EngineFields
  <2> QED
    BY <1>3, <2>1, MirrorBoardAt, MirrorWallsTwice
<1>5. "W" \in Player /\ "B" \in Player /\ Other("W") = "B" /\ Other("B") = "W"
      /\ \A p \in Player : p = "W" \/ p = "B"
  BY DEF Player, Other
<1>6. engine["W"] = e /\ engine["B"] = o
  BY <1>1, <1>5
<1>7. ASSUME NEW p \in Player, NEW b \in BOOLEAN PROVE Along(p, b)
  <2> DEFINE q == Other(p)
             u == View(engine[q], b)
             v == View(engine[p], b)
             st == stage[p]
             c == click[p]
  <2>1. net[q] = <<>> /\ st \notin Untold /\ <<>> \in Seq(Message)
    BY <1>5 DEF Init, Untold
  <2>2. engine[p].waiting = NoPromotion
    BY <1>2, <1>5, <1>6
  <2>7. /\ Owed(p) = NoPromotion /\ Face(p, b) = View(engine[p], b)
        /\ Face(q, b) = View(engine[q], b)
    <3>1. stage[p] = "idle" /\ stage[q] = "idle"
      BY <1>5 DEF Init
    <3>2. stage[p] \in Steady /\ stage[q] \in Steady
      BY <3>1 DEF Steady
    <3> QED
      BY <2>2, <3>2, FaceSteady
  <2>3. MirrorView(v) = u
    <3>1. /\ engine[q].board = MirrorBoard(engine[p].board)
          /\ engine[q].walls = MirrorWalls(engine[p].walls)
      <4>1. CASE p = "W"
        BY <1>3, <1>5, <1>6, <4>1
      <4>2. CASE p = "B"
        BY <1>4, <1>5, <1>6, <4>2
      <4> QED
        BY <1>5, <4>1, <4>2
    <3>2. MirrorWalls({}) = {}
      BY DEF MirrorWalls
    <3> QED
      BY <3>1, <3>2 DEF MirrorView, View
  <2> HIDE DEF u, v, st, c
  <2>4. Pending(v, NoPromotion, st, c, u, q, b)
    BY <2>1, <2>3, PendingNothing
  <2>5. Leads(<<>>, u, u, q, b)
    <3>1. Losing(<<>>)
      BY DEF Losing
    <3> QED
      BY <2>1, <3>1, LeadsStill
  <2>6. Follows(<<>>, u, v, NoPromotion, st, c, q, b)
    BY <2>4, <2>5 DEF Follows
  <2> QED
    BY <2>1, <2>6, <2>7 DEF Along, u, v, st, c
<1> QED
  BY <1>7 DEF BoardInv

(* Whenever nothing is under way, the pieces on the two boards are mirrors of
   each other, unless moves crossed, one happened that TO does not tell all of,
   a read was glued, or the answer to a promotion came before it was made; the
   walls are, too, if no rook broke any and the memory behind them was left
   alone (game.cpp:31-37, 50-64, 206-238, 373-375).                           *)
THEOREM BoardsKeepUp == Spec => []BoardsAgree
<1>1. Init => TypeInv /\ KingsInv /\ TurnInv /\ BoardInv
  BY InitTypes, InitKings, InitTurn, InitBoards
<1>2. TypeInv /\ KingsInv /\ TurnInv /\ BoardInv /\ [Next]_vars
        => (TypeInv /\ KingsInv /\ TurnInv /\ BoardInv)'
  BY NextTypes, NextKings, NextTurn, NextBoards
<1>3. TypeInv /\ BoardInv => BoardsAgree
  <2>1. SUFFICES ASSUME TypeInv, BoardInv PROVE BoardsAgree
    OBVIOUS
  <2>2. "W" \in Player /\ "B" \in Player /\ Other("W") = "B" /\ Other("B") = "W"
    BY DEF Player, Other
  <2>3. ASSUME NEW b \in BOOLEAN, AtRest, slips \subseteq Harmless(b)
        PROVE  MirrorView(View(engine["W"], b)) = View(engine["B"], b)
    <3> DEFINE u == View(engine["B"], b)
               v == View(engine["W"], b)
               st == stage["W"]
               c == click["W"]
    <3>1. /\ net["W"] = <<>> /\ net["B"] = <<>> /\ st \notin Untold /\ stage["B"] \notin Untold
          /\ engine["W"].waiting = NoPromotion /\ engine["B"].waiting = NoPromotion
          /\ st \notin Promotions /\ stage["B"] \notin Promotions
      BY <2>2, <2>3 DEF AtRest, Behind
    <3>2. ~ToldSoon("W")
      BY <2>2, <3>1 DEF ToldSoon, Waiting
    <3>3. Along("W", b)
      BY <2>1, <2>2, <2>3, <3>2 DEF BoardInv
    <3>4. Follows(<<>>, u, v, NoPromotion, st, c, "B", b)
      BY <2>2, <3>1, <3>3 DEF Along, Face, Facing, Owed
    <3>5. u \in Views /\ v \in Views
      BY <2>1, <2>2, Fields, ViewTypes DEF TypeInv
    <3>6. <<>> \in Seq(Message) /\ Losing(<<>>)
      BY DEF Losing
    <3> HIDE DEF u, v, st, c
    <3>7. MirrorView(v) = u
      BY <3>1, <3>4, <3>5, <3>6, Restful
    <3> QED
      BY <3>7 DEF u, v
  <2>4. ASSUME AtRest, slips \subseteq {"overwritten", "wallBroken"}
        PROVE  engine["B"].board = MirrorBoard(engine["W"].board)
    <3>1. MirrorView(View(engine["W"], FALSE)) = View(engine["B"], FALSE)
      BY <2>3, <2>4 DEF Harmless
    <3> QED
      BY <3>1 DEF MirrorView, View
  <2>5. ASSUME AtRest, slips = {}
        PROVE  engine["B"].walls = MirrorWalls(engine["W"].walls)
    <3>1. MirrorView(View(engine["W"], TRUE)) = View(engine["B"], TRUE)
      BY <2>3, <2>5 DEF Harmless
    <3> QED
      BY <3>1 DEF MirrorView, View
  <2> QED
    BY <2>4, <2>5 DEF BoardsAgree
<1> QED
  BY <1>1, <1>2, <1>3, PTL DEF Spec

=============================================================================
