------------------------------- MODULE Session -------------------------------
(* Two clients of Client/src/main.cpp and the server between them, from their
   start to their end: each has a frame thread, which connects, waits for its
   colour, plays and at last destroys the game, and an I/O thread, which reads
   what the server writes and runs the message handler of the game.

   Of the game the messages by their names and its end are left (Match has the
   rest).  The server accepts, pairs and relays as GameServer does with two connections,
   whose ids it has no occasion to mix up; like GameServer it keeps Relay's
   promise.  What arrives together is read together, unframed.                *)
EXTENDS Naturals, Sequences, FiniteSets, SequencesExt

CONSTANTS
    Client,     \* the two players' processes
    Exchanges,  \* what the two may tell each other: bounds sends
    MaxSends    \* bound on the messages of either

ASSUME ClientAssumption == IsFiniteSet(Client) /\ Cardinality(Client) = 2

(* What a player tells the other one of but the end.                          *)
Names == {"TO", "WALL", "ENPS", "PROM"}

ASSUME ExchangesAssumption ==
    /\ MaxSends \in Nat
    /\ Exchanges \subseteq [Client -> Seq(Names \cup {"LOSE"})]
    /\ \A e \in Exchanges : \A c \in Client : Len(e[c]) <= MaxSends

VARIABLES
    at,         \* at[c]: where the frame thread is
    io,         \* io[c]: the I/O thread
    text,       \* text[c]: what its last read returned, until it is handled
    colour,     \* colour[c]: the colour the game was started with, or ""
    over,       \* over[c]: isGameOver
    won,        \* won[c]: the player has taken the other king
    sock,       \* sock[c]: the client's socket, "none", "open" or "closed"
    sends,      \* sends[c]: the names of what it has sent
    got,        \* got[c]: what it has been written
    heard,      \* heard[c]: how much of that it has read
    session,    \* session[c]: the server's side, "none", "open" or "closed"
    passed,     \* passed[c]: how much of sends[c] the server has read
    pair,       \* the pair that plays, or the empty sequence
    untold,     \* those of a new pair that have yet to be told their colours
    server      \* "up", "dead" once its I/O thread has ended, "down"

frameVars == <<at, won, sock, sends>>
gameVars == <<colour, over>>
ioVars == <<io, text, heard>>
serverVars == <<got, session, passed, pair, untold, server>>
vars == <<frameVars, gameVars, ioVars, serverVars>>

(* Inside stop(), called by a send that failed, by what comes after the send.  *)
FailingTo == [passing |-> "failingPassing", moved |-> "failingMoved",
              playing |-> "failingPlaying"]

Failing == {"failingPassing", "failingMoved", "failingPlaying"}

Places == {"start", "connecting", "noHandler", "waiting", "playing", "passing",
           "moved", "closing", "joining", "gone"} \cup Failing

Black == <<"BLACK", 0>>
White == <<"WHITE", 0>>
Colours == {Black, White}

Init ==
    /\ at = [c \in Client |-> "start"]
    /\ io = [c \in Client |-> "none"]
    /\ text = [c \in Client |-> <<>>]
    /\ colour = [c \in Client |-> ""]
    /\ over = [c \in Client |-> FALSE]
    /\ won = [c \in Client |-> FALSE]
    /\ sock = [c \in Client |-> "none"]
    /\ sends = [c \in Client |-> <<>>]
    /\ got = [c \in Client |-> <<>>]
    /\ heard = [c \in Client |-> 0]
    /\ session = [c \in Client |-> "none"]
    /\ passed = [c \in Client |-> 0]
    /\ pair = <<>> /\ untold = <<>>
    /\ server = "up"

Mate(c) == CHOOSE d \in Client : d # c

Goes(c, from, to) == at[c] = from /\ at' = [at EXCEPT ![c] = to]

-----------------------------------------------------------------------------
(* The frame thread: Client::connect and the constructor of Game.             *)

(* The system accepts a connection as long as the port is open.               *)
Connects(c) ==
    /\ server # "down"
    /\ Goes(c, "start", "connecting")
    /\ sock' = [sock EXCEPT ![c] = "open"]
    /\ UNCHANGED <<won, sends, gameVars, ioVars, serverVars>>

(* Without a connection the constructor returns and the process ends.         *)
ConnectFails(c) ==
    /\ server = "down"
    /\ Goes(c, "start", "closing")
    /\ UNCHANGED <<won, sock, sends, gameVars, ioVars, serverVars>>

(* The id, for which connect() waits without a bound; then the I/O thread
   starts, with a read armed and no handler set.                              *)
ReceivesId(c) ==
    /\ session[c] # "none"
    /\ Goes(c, "connecting", "noHandler")
    /\ io' = [io EXCEPT ![c] = "reading"]
    /\ UNCHANGED <<won, sock, sends, gameVars, text, heard, serverVars>>

ReceivesNoId(c) ==
    /\ session[c] = "none" /\ server = "down"
    /\ Goes(c, "connecting", "closing")
    /\ UNCHANGED <<won, sock, sends, gameVars, ioVars, serverVars>>

SetsHandler(c) ==
    /\ Goes(c, "noHandler", "waiting")
    /\ UNCHANGED <<won, sock, sends, gameVars, ioVars, serverVars>>

(* while (!startGame)                                                         *)
Starts(c) ==
    /\ colour[c] # ""
    /\ Goes(c, "waiting", "playing")
    /\ UNCHANGED <<won, sock, sends, gameVars, ioVars, serverVars>>

(* There is no window yet to close: who gives up kills the process.           *)
Killed(c) ==
    /\ at[c] \in {"connecting", "waiting"} /\ at' = [at EXCEPT ![c] = "gone"]
    /\ sock' = [sock EXCEPT ![c] = "closed"]
    /\ io' = [io EXCEPT ![c] = IF @ \in {"none", "dead"} THEN @ ELSE "exited"]
    /\ UNCHANGED <<won, sends, gameVars, text, heard, serverVars>>

-----------------------------------------------------------------------------
(* The frame thread: the game.                                                *)

(* Client::send: a write may fail once the server's side is closed, and does
   when the own one is; then send calls stop() and the game goes on.          *)
Sends(c, m, then) ==
    \/ /\ sock[c] = "open"
       /\ sends' = [sends EXCEPT ![c] = Append(@, m)] /\ sends' \in Exchanges
       /\ at' = [at EXCEPT ![c] = then]
    \/ /\ sock[c] = "closed" \/ session[c] = "closed"
       /\ at' = [at EXCEPT ![c] = FailingTo[then]]
       /\ UNCHANGED sends

MayMove(c) == at[c] = "playing" /\ ~over[c]

Moves(c) ==
    /\ MayMove(c)
    /\ Sends(c, "TO", "moved") \/ Sends(c, "WALL", "moved")
    /\ UNCHANGED <<won, sock, gameVars, ioVars, serverVars>>

(* A double step is told by two sends, the opportunity first.                 *)
TellsOpportunity(c) ==
    /\ MayMove(c)
    /\ Sends(c, "ENPS", "passing")
    /\ UNCHANGED <<won, sock, gameVars, ioVars, serverVars>>

TellsDoubleStep(c) ==
    /\ at[c] = "passing"
    /\ Sends(c, "TO", "moved")
    /\ UNCHANGED <<won, sock, gameVars, ioVars, serverVars>>

(* A pawn comes to the last row by moves that were told of.                   *)
HasMoved(c) == sends[c] # <<>> \/ sock[c] = "closed"

(* The move there is not told of before the pawn is promoted.                 *)
ReachesLastRow(c) ==
    /\ MayMove(c) /\ HasMoved(c)
    /\ Goes(c, "playing", "moved")
    /\ UNCHANGED <<won, sock, sends, gameVars, ioVars, serverVars>>

(* Behind this nobody looks for the end.                                      *)
Promotes(c) ==
    /\ MayMove(c) /\ HasMoved(c)
    /\ Sends(c, "PROM", "playing")
    /\ UNCHANGED <<won, sock, gameVars, ioVars, serverVars>>

(* The move has not taken the other king.                                     *)
GoesOn(c) ==
    /\ Goes(c, "moved", "playing")
    /\ UNCHANGED <<won, sock, sends, gameVars, ioVars, serverVars>>

(* Mutant: the winner tells nobody.                                           *)
WinsSilently(c) ==
    /\ Goes(c, "moved", "playing")
    /\ won' = [won EXCEPT ![c] = TRUE]
    /\ over' = [over EXCEPT ![c] = TRUE]
    /\ UNCHANGED <<sock, sends, colour, ioVars, serverVars>>

(* It has: the other player is told, and the game is over.                    *)
Wins(c) ==
    /\ at[c] = "moved"
    /\ Sends(c, "LOSE", "playing")
    /\ won' = [won EXCEPT ![c] = TRUE]
    /\ over' = [over EXCEPT ![c] = TRUE]
    /\ UNCHANGED <<sock, colour, ioVars, serverVars>>

(* The loop of run() ends by itself, or the player closes the window.         *)
EndsGame(c) ==
    /\ over[c]
    /\ Goes(c, "playing", "closing")
    /\ UNCHANGED <<won, sock, sends, gameVars, ioVars, serverVars>>

ClosesWindow(c) ==
    /\ ~over[c]
    /\ Goes(c, "playing", "closing")
    /\ UNCHANGED <<won, sock, sends, gameVars, ioVars, serverVars>>

-----------------------------------------------------------------------------
(* Client::stop, from a failed send or from the destructor: io_context is
   stopped, the I/O thread joined, the socket closed.                         *)

(* Mutant: the context is left running.                                       *)
StoppedByClose(c) == at[c] = "gone" \/ sock[c] = "closed"

Stopped(c) == at[c] \in Failing \cup {"joining", "gone"} \/ sock[c] = "closed"

IoEnded(c) == io[c] \in {"none", "dead", "exited"}

StopsIo(c) ==
    /\ Goes(c, "closing", "joining")
    /\ UNCHANGED <<won, sock, sends, gameVars, ioVars, serverVars>>

(* Mutant: the destructor does not wait for the thread.                       *)
DoesNotJoin(c) ==
    /\ Goes(c, "joining", "gone")
    /\ sock' = [sock EXCEPT ![c] = IF @ = "open" THEN "closed" ELSE @]
    /\ UNCHANGED <<won, sends, gameVars, ioVars, serverVars>>

Joins(c) ==
    /\ IoEnded(c)
    /\ Goes(c, "joining", "gone")
    /\ sock' = [sock EXCEPT ![c] = IF @ = "open" THEN "closed" ELSE @]
    /\ UNCHANGED <<won, sends, gameVars, ioVars, serverVars>>

(* Back in the game, behind the send that failed.                             *)
JoinsFailed(c) ==
    /\ IoEnded(c)
    /\ \E then \in DOMAIN FailingTo : Goes(c, FailingTo[then], then)
    /\ sock' = [sock EXCEPT ![c] = "closed"]
    /\ UNCHANGED <<won, sends, gameVars, ioVars, serverVars>>

-----------------------------------------------------------------------------
(* The I/O thread.                                                            *)

Reads(c, items, upTo) ==
    /\ io[c] = "reading" /\ ~Stopped(c)
    /\ text' = [text EXCEPT ![c] = items]
    /\ heard' = [heard EXCEPT ![c] = upTo]
    /\ io' = [io EXCEPT ![c] = "handling"]
    /\ UNCHANGED <<frameVars, gameVars, serverVars>>

ReadsSome(c) ==
    \E n \in (heard[c] + 1)..Len(got[c]) :
        Reads(c, SubSeq(got[c], heard[c] + 1, n), n)

(* The end of the stream is an empty read, and the next one is armed all the
   same; a server that closes with unread data resets the connection, and what
   was on its way is lost.                                                    *)
ReadsEnd(c) ==
    /\ session[c] = "closed"
    /\ heard[c] = Len(got[c]) \/ passed[c] < Len(sends[c])
    /\ Reads(c, <<>>, Len(got[c]))

(* What an item says: a colour, or the n-th message of the other client.      *)
What(item) == IF item \in Colours THEN item[1] ELSE sends[item[1]][item[2]]

Says(items) == [i \in DOMAIN items |-> What(items[i])]

Silent(says) == \A name \in Names : ~Contains(says, name)

(* Mutant: WHITE is misspelt.                                                 *)
OutcomesOnlyBlack(started, says) ==
    IF ~started /\ says = <<"BLACK">> THEN {"starts"}
    ELSE CASE Silent(says) -> {"ends"}
           [] ~Silent(says) /\ Head(says) \in {"BLACK", "WHITE"} -> {"throws"}
           [] OTHER -> {"plays"}

(* Mutant: the operands of a wall are looked for where those of a move are.   *)
OutcomesWallAsMove(started, says) ==
    IF ~started /\ says \in {<<"BLACK">>, <<"WHITE">>} THEN {"starts"}
    ELSE CASE Silent(says) -> {"ends"}
           [] ~Silent(says) /\ Head(says) \in {"BLACK", "WHITE", "WALL"} -> {"throws"}
           [] OTHER -> {"plays"}

(* Mutant: an empty read is left alone.                                       *)
OutcomesNoEnd(started, says) ==
    IF ~started /\ says \in {<<"BLACK">>, <<"WHITE">>} THEN {"starts"}
    ELSE IF says = <<>> THEN {"plays"} ELSE {"plays", "ends"}

(* What the handler may make of a text.  A colour alone starts the game.  With a
   name in it, the text is taken for the message of that name, PROM before TO
   before the others, whose numbers are looked for at a fixed place near the
   beginning: with a colour there, or another message than a move before a
   move, they are letters, and a move before a promotion has a blank there if
   its first number is of two digits.  Anything else ends the game: "LOSE", the
   end of the stream, or a colour again.                                      *)
Outcomes(started, says) ==
    IF ~started /\ says \in {<<"BLACK">>, <<"WHITE">>} THEN {"starts"}
    ELSE CASE Silent(says) -> {"ends"}
           [] ~Silent(says) /\ Head(says) \in {"BLACK", "WHITE"} -> {"throws"}
           [] Contains(says, "PROM") /\ Head(says) = "TO" -> {"plays", "throws"}
           [] /\ Contains(says, "TO") /\ ~Contains(says, "PROM")
              /\ Head(says) \in Names \ {"TO"} -> {"throws"}
           [] OTHER -> {"plays"}

(* handle_receive: the handler, and the next read.  An exception leaves run().*)
Handles(c) ==
    /\ io[c] = "handling" /\ at[c] # "noHandler"
    /\ LET says == Says(text[c])
       IN  \E outcome \in Outcomes(colour[c] # "", says) :
              /\ colour' = IF outcome = "starts"
                           THEN [colour EXCEPT ![c] = says[1]] ELSE colour
              /\ over' = [over EXCEPT ![c] = @ \/ outcome = "ends"]
              /\ io' = [io EXCEPT ![c] = IF outcome = "throws" THEN "dead" ELSE "reading"]
              /\ text' = [text EXCEPT ![c] = IF outcome = "throws" THEN @ ELSE <<>>]
    /\ UNCHANGED <<frameVars, heard, serverVars>>

(* An empty std::function throws.                                             *)
HandlesNothing(c) ==
    /\ io[c] = "handling" /\ at[c] = "noHandler"
    /\ io' = [io EXCEPT ![c] = "dead"]
    /\ UNCHANGED <<frameVars, gameVars, text, heard, serverVars>>

IoExits(c) ==
    /\ io[c] = "reading" /\ Stopped(c)
    /\ io' = [io EXCEPT ![c] = "exited"]
    /\ UNCHANGED <<frameVars, gameVars, text, heard, serverVars>>

-----------------------------------------------------------------------------
(* The server, as the clients see it.                                         *)

Listened(c) == sock[c] = "open"

(* The I/O thread of the server waits for the next thing to handle.           *)
Polls == server = "up" /\ untold = <<>>

(* A session is opened, and its id written, for whoever connected; for one that
   has left already the write may fail and take the I/O thread with it.  Two
   sessions are a pair, in any order.                                         *)
Accepts(c) ==
    /\ Polls /\ session[c] = "none" /\ sock[c] # "none"
    /\ session' = [session EXCEPT ![c] = "open"]
    /\ \/ ~Listened(c) /\ server' = "dead" /\ UNCHANGED <<pair, untold>>
       \/ /\ UNCHANGED server
          /\ pair' \in IF \A d \in Client : session'[d] = "open"
                       THEN {p \in Client \X Client : p[1] # p[2]} ELSE {pair}
          /\ untold' = IF pair' # pair THEN pair' ELSE untold
    /\ UNCHANGED <<got, passed, frameVars, gameVars, ioVars>>

(* The first of a pair is told BLACK, then the other one WHITE.               *)
TellsColour ==
    /\ server = "up" /\ untold # <<>>
    /\ untold' = Tail(untold)
    /\ LET c == Head(untold)
       IN  \/ /\ Listened(c)
              /\ got' = [got EXCEPT ![c] = Append(@, IF untold = pair THEN Black
                                                     ELSE White)]
              /\ UNCHANGED session
           \/ ~Listened(c) /\ UNCHANGED <<got, session>>
           \/ /\ ~Listened(c)
              /\ session' = [session EXCEPT ![c] = "closed"]
              /\ UNCHANGED got
    /\ UNCHANGED <<passed, pair, server, frameVars, gameVars, ioVars>>

(* Mutant: the message goes back to the sender.                               *)
RelaysBack(c) ==
    /\ Polls /\ session[c] = "open" /\ passed[c] < Len(sends[c])
    /\ passed' = [passed EXCEPT ![c] = @ + 1]
    /\ got' = IF Listened(c) THEN [got EXCEPT ![c] = Append(@, <<c, passed'[c]>>)]
              ELSE got
    /\ UNCHANGED <<session, pair, untold, server, frameVars, gameVars, ioVars>>

(* Mutant: the message is not taken from the stream.                          *)
RelaysAgain(c) ==
    /\ Polls /\ session[c] = "open" /\ passed[c] < Len(sends[c])
    /\ UNCHANGED passed
    /\ LET d == Mate(c)
       IN  /\ pair # <<>> /\ session[d] = "open" /\ Listened(d)
           /\ got' = [got EXCEPT ![d] = Append(@, <<c, passed[c] + 1>>)]
    /\ UNCHANGED <<session, pair, untold, server, frameVars, gameVars, ioVars>>

(* One message of c reaches the other of the pair, or nobody; a write to one
   that has left closes the session there.                                    *)
Relays(c) ==
    /\ Polls /\ session[c] = "open" /\ passed[c] < Len(sends[c])
    /\ passed' = [passed EXCEPT ![c] = @ + 1]
    /\ LET d == Mate(c)
       IN  \/ /\ pair # <<>> /\ session[d] = "open" /\ Listened(d)
              /\ got' = [got EXCEPT ![d] = Append(@, <<c, passed'[c]>>)]
              /\ UNCHANGED session
           \/ /\ pair # <<>> /\ session[d] = "open" /\ ~Listened(d)
              /\ session' = [session EXCEPT ![d] = "closed"]
              /\ UNCHANGED got
           \/ /\ pair = <<>> \/ session[d] # "open" \/ ~Listened(d)
              /\ UNCHANGED <<got, session>>
    /\ UNCHANGED <<pair, untold, server, frameVars, gameVars, ioVars>>

(* The client's end is read behind all it has sent, or at once if it closed
   with unread data.  The other client is told nothing.                       *)
DropsGone(c) ==
    /\ Polls /\ session[c] = "open" /\ ~Listened(c)
    /\ passed[c] = Len(sends[c]) \/ heard[c] < Len(got[c])
    /\ session' = [session EXCEPT ![c] = "closed"]
    /\ UNCHANGED <<got, passed, pair, untold, server, frameVars, gameVars, ioVars>>

(* An accept fails for want of resources, say.                                *)
Dies ==
    /\ Polls /\ server' = "dead"
    /\ UNCHANGED <<got, session, passed, pair, untold, frameVars, gameVars, ioVars>>

Stops ==
    /\ server # "down" /\ server' = "down"
    /\ session' = [c \in Client |-> IF session[c] = "open" THEN "closed" ELSE session[c]]
    /\ UNCHANGED <<got, passed, pair, untold, frameVars, gameVars, ioVars>>

-----------------------------------------------------------------------------

Frame(c) ==
    \/ Connects(c) \/ ConnectFails(c) \/ ReceivesId(c) \/ ReceivesNoId(c)
    \/ SetsHandler(c) \/ Starts(c) \/ TellsDoubleStep(c) \/ EndsGame(c)
    \/ StopsIo(c) \/ Joins(c) \/ JoinsFailed(c)

Decides(c) == GoesOn(c) \/ Wins(c)

Io(c) ==
    \/ ReadsSome(c) \/ ReadsEnd(c) \/ Handles(c) \/ HandlesNothing(c) \/ IoExits(c)

Server == TellsColour \/ \E c \in Client : Accepts(c) \/ Relays(c) \/ DropsGone(c)

Next ==
    \/ \E c \in Client : \/ Frame(c) \/ Decides(c) \/ Io(c)
                         \/ Moves(c) \/ TellsOpportunity(c) \/ ReachesLastRow(c)
                         \/ Promotes(c) \/ ClosesWindow(c) \/ Killed(c)
    \/ Server \/ Dies \/ Stops

(* Every thread goes on while it can; the players, and whoever stops the
   server, promise nothing.                                                   *)
Fairness ==
    /\ \A c \in Client : /\ WF_vars(Frame(c)) /\ WF_vars(Decides(c))
                         /\ WF_vars(Io(c))
    /\ WF_vars(Server)

Spec == Init /\ [][Next]_vars

FairSpec == Spec /\ Fairness

-----------------------------------------------------------------------------
(* Properties.                                                                *)

(* Every variable keeps its type; an item a client is written is a colour or a
   message the other one has sent.                                            *)
TypeOK ==
    /\ at \in [Client -> Places]
    /\ io \in [Client -> {"none", "reading", "handling", "dead", "exited"}]
    /\ colour \in [Client -> {"", "BLACK", "WHITE"}]
    /\ over \in [Client -> BOOLEAN] /\ won \in [Client -> BOOLEAN]
    /\ sock \in [Client -> {"none", "open", "closed"}]
    /\ session \in [Client -> {"none", "open", "closed"}]
    /\ server \in {"up", "dead", "down"}
    /\ \A c \in Client :
          /\ heard[c] \in 0..Len(got[c]) /\ passed[c] \in 0..Len(sends[c])
          /\ \A i \in DOMAIN got[c] :
                \/ got[c][i] \in Colours
                \/ \E n \in 1..passed[Mate(c)] : got[c][i] = <<Mate(c), n>>

(* Two games that have both started have different colours: each of the two
   boards is built for its own side (game.cpp:28-39, game_server.cpp:39-42).  *)
OppositeColours ==
    \A c, d \in Client :
        c # d /\ colour[c] # "" /\ colour[d] # "" => colour[c] # colour[d]

(* A game ends by a king taken or by the end of the connection, and by no
   colour or message of a move, however whole messages are read together
   (game.cpp:28-78).                                                          *)
OverHasCause ==
    \A c \in Client : over[c] => (\E d \in Client : won[d]) \/ session[c] = "closed"

(* A game that has started loses its I/O thread only to messages that were read
   together: an opportunity or a wall with a move behind it, or a move with a
   promotion behind it.  No message alone does it, nor a colour
   (client.cpp:49-62, game.cpp:28-64, 285-327).                               *)
Unreadable(says) ==
    /\ says # <<>>
    /\ \/ says[1] \in {"ENPS", "WALL"} /\ Contains(Tail(says), "TO")
       \/ says[1] = "TO" /\ Contains(Tail(says), "PROM")

DeafByGlue(c) == io[c] = "dead" /\ Unreadable(Says(text[c]))

DiesOfGlue == \A c \in Client : io[c] = "dead" /\ colour[c] # "" => DeafByGlue(c)

(* When the game is destroyed no handler runs on it any more, nor can one
   start: the client stands behind the engine in the class, so its destructor
   joins the thread first (client.cpp:88-115, game.h:71-120).                 *)
NoHandlerAfterGone == \A c \in Client : at[c] = "gone" => IoEnded(c)

(* The clients and this server keep the promise that GameServer keeps with its
   sessions and ids.                                                          *)
Promise == INSTANCE Relay WITH
    Conn <- Client, MaxSends <- MaxSends,
    peer <- [c \in Client |-> CASE sock[c] = "none" -> "idle"
                                [] sock[c] = "open" -> "up"
                                [] sock[c] = "closed" -> "gone"],
    sent <- [c \in Client |-> Len(sends[c])]

RelayPromise == Promise!Spec

Told(c) == \E i \in DOMAIN got[c] : got[c][i] \in Colours

Leaving(c) == at[c] \in {"closing", "joining", "gone"}

(* In the next four, what the left side says lasts, and what the right side
   says does; then [] <> (A => B) is A ~> B, and is checked on the graph of the
   states alone.                                                              *)

(* A client that has been told its colour starts its game, unless its I/O
   thread has died of it, the connection has ended or the player has given up:
   nothing else keeps it waiting (game.cpp:84-91).                            *)
ColourStarts ==
    \A c \in Client : []<>(
        Told(c) => \/ colour[c] # "" /\ at[c] # "waiting"
                   \/ io[c] = "dead" \/ Leaving(c) \/ session[c] = "closed")

(* A game that has started and whose server has stopped ends, unless a send
   that failed has stopped its I/O thread before, or that thread had died of
   messages read together (client.cpp:131-156, game.cpp:74-78).               *)
ServerGoneIsNoticed ==
    \A c \in Client : []<>(
        server = "down" /\ colour[c] # "" =>
            Leaving(c) \/ sock[c] = "closed" \/ DeafByGlue(c))

(* c has read the message m of the other.                                     *)
HasRead(c, m) ==
    \E i \in 1..heard[c] : got[c][i] \notin Colours /\ What(got[c][i]) = m

(* The end reaches the loser: it is over there, or was read together with a
   move and lost; unless the server's thread has ended, the loser has left or
   lost its I/O thread, or the winner, which exits at once, closed with unread
   data and what it had sent was lost (game.cpp:69-73, 252-258).              *)
LostOnReset(c) == session[c] = "closed" /\ passed[c] < Len(sends[c])

EndIsTold ==
    \A c \in Client : []<>(
        LET d == Mate(c)
        IN  won[c] => \/ over[d] \/ HasRead(d, "LOSE")
                      \/ server # "up" \/ LostOnReset(c)
                      \/ sock[d] = "closed" \/ io[d] = "dead" \/ Leaving(d))

(* A game that is left is left: stop() comes back from the join, whatever the
   I/O thread is doing (client.cpp:88-115).                                   *)
LeavingEnds == \A c \in Client : []<>(Leaving(c) => at[c] = "gone")

=============================================================================
