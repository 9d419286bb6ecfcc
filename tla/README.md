# Fort-Chess in TLA+

Fort-Chess is a two-player chess variant over the network, written in C++ with
asio and raylib.  There is no turn order: pieces that have moved rest for a
while, and both players move whenever they can.  Pawns build walls, rooks break
them, and a player loses when the king is taken.  A server process pairs clients
and relays text between them; each client has an engine with its own copy of the
board, mirrored so that its player is at the bottom.

This directory holds TLA+ modules translated from that code, TLC configurations
that check them on small instances, and TLAPS proofs for every value of the
constants.  Paths below are relative to the repository's root.

- [The system](#the-system)
- [Modules](#modules)
- [Runs](#runs)
- [Bounds](#bounds)
- [Fairness](#fairness)
- [Proofs](#proofs)
- [Findings](#findings)
- [What is only model-checked, and what is not modelled](#what-is-only-model-checked-and-what-is-not-modelled)
- [Plan](#plan)

## The system

| Component | Code | State it keeps | Operations |
| --- | --- | --- | --- |
| `server::Server` | `Server/src/server.cpp`, `Server/include/server.{h,inl}` | `_clients` (id to socket and buffer), `_nextClientId`, `_lastClientSentData`, the acceptor, the I/O thread, callbacks | constructor, `start_accept`/`handle_accept`/`start_session`, `handle_incoming_data`, `send_data`, `stop` |
| `game::GameServer` | `Server/src/game_server.cpp`, `Server/src/main.cpp` | `clientIds`, the pair that plays | `on_connect` (pairing), `on_message_received` (relay), `on_disconnect` |
| `game::Players` | same files | `_players`, always empty | none that is reached |
| `chess::ChessEngine` | `Client/src/engine.cpp`, `Client/include/engine.h` | board, walls, en passant opportunities, time-outs, a waiting promotion, flags for castling, a count of moves | `move_piece`, `build_wall`, `promote`, `check_timeouts`, the `opponent_*` calls, `reset_board` |
| `chess::Game` | `Client/src/game.cpp`, `Client/src/main.cpp` | the engine, `startGame`, `isGameOver` | the constructor with its wait for the colour, the loop of `run`, the handler of messages, the conversions to and from text |
| `client::Client` | `Client/src/client.cpp`, `Client/include/client.{h,inl}` | socket, id, buffer, I/O thread, callback | `connect`, `send`, `async_receive`/`handle_receive`, `stop` |
| window and mouse | `Client/src/game.cpp`, `Client/include/game.h` | `screenSize`, `click`, `promotion` | `process_input`, `handle_clicks`, `handle_promotion_input`, `handle_resize`, pixel to square |
| drawing | `Client/src/game.cpp`, `chess_pieces_texture.h` | textures | drawing pieces and walls |

How they interact:

- The server's I/O thread runs every handler: accepting, reading, and through
  `std::function`s the callbacks of `GameServer`, which write to sockets and so
  may erase sessions in the middle of a handler.  The owning thread sets the
  callbacks after the I/O thread has started, and in `stop()` walks the table of
  sessions with no lock.
- A client and the server exchange an id, a colour, and then unframed text.  What
  one client sends, the server writes to the other one of the pair.
- In a client, the I/O thread applies messages to the engine while the frame
  loop draws it and moves on it; there is no lock.
- Two clients interact only through the relay.  Each applies its own moves at
  once and tells the other.

What is hard, and what makes each part correct:

| Part | Hard behaviour | Correct when |
| --- | --- | --- |
| sessions and ids | ids are reused because the counter steps back on every loss; a read loop knows an id, not a session | every session is read by its own loop; a session is lost only if its peer is; the counter does not wrap |
| I/O thread | an exception in a handler ends it; references and iterators are held across calls that erase | no handler touches an entry that is gone |
| pairing and relay | sessions come and go while two play; reads return any part of the stream | the pair has opposite colours; messages arrive once, in order, at the other one; in the end they do arrive |
| stop | the I/O thread may be inside a handler | it comes back with nothing left |
| moves | index arithmetic on 64 squares, walls in the way, moves refused half-way | exactly the legal moves are accepted; refused moves change nothing |
| castling, en passant, promotion | flags and lists that outlive the position they were about | castling finds its king; no piece appears or is lost; no pawn stays on the last row |
| walls | references into one array handed out by a loop | one wall per pair of neighbours, seen alike from both |
| two boards | no turn order, messages that cross or arrive glued together | boards are mirrors of each other when nothing is under way |
| client lifecycle | callback set after the thread starts; nothing waits with a bound; a failed send stops the I/O thread in the middle of a game; the thread is joined by whoever leaves | a game that is told its colour starts; one that has started goes on hearing the other and is told the end; nothing handles messages on a destroyed game |
| window | the window may change its size in the frame of a click; its size need not be a multiple of the cells | a press is taken for the square that is drawn there |

The complete list of hazards, each with its line and the properties about it, is
`PROJECT.json`, `hazards`.

## Modules

```
Server <- GameServer <- MCGameServer              (runs)
                     <- GameServerProofs          (theorems)
          GameServer <- (INSTANCE) Relay
             Session <- (INSTANCE) Relay
             Session <- MCSession                 (runs)
                     <- SessionProofs <- SessionRelay  (theorems)
ChessEngine <- EnginePlay <- MCEnginePlay         (runs)
            <- Match <- MCMatch                   (runs)
            <- EngineProofs                       (theorems)
EnginePlay, EngineProofs <- PlayProofs            (theorems)
     Match, EngineProofs <- MatchProofs           (theorems)
Walls <- (INSTANCE) WallGrid <- MCWallGrid        (runs)
                             <- WallGridProofs    (theorems)
Window                                            (runs)
       <- WindowProofs                            (theorems)
```

How they fit together: `Relay` is what the players may rely on.  `GameServer`
implements it with any number of sessions; `Session` implements it with two
clients' processes around a server of two.  `Match` takes it for granted and puts
the two games on top, with the boards that `Session` leaves out.  `EnginePlay` has
one of the two engines alone, in more positions; `WallGrid` is the storage under
the walls of that engine, and `Window` turns the mouse into the clicks of `Match`.

### Server, GameServer

`Server` is `server::Server`; `GameServer` extends it with the callbacks, the
owning thread's constructor, the next-state relation and the properties.

- A connection `c \in Conn` is one TCP connection.  `peer[c]` is its remote end,
  `sent[c]` how many messages that has sent, `got[c]` what was written to it, and
  `sock[c]` the server's socket for it.
- `clients` is `_clients`: an id maps to the connection of its session, to
  `None` (no entry), or to `Broken`, the socket a failed accept leaves there.
  `nextId`, `last`, `clientIds` are `_nextClientId`, `_lastClientSentData`,
  `clientIds`.  `nextId` wraps below 0 to `MaxId`.
- `loop[c]` is the read loop `start_session` started for `c`.  Its lambda holds
  an id, so `loop[c].id` is looked up anew by each handler; `loop[c].on` is the
  socket the outstanding read is on.  `ready` is asio's queue of completed
  reads.
- `pc` is where the I/O thread is.  A handler is atomic up to a callback and
  after it; within `on_connect`, each of the two sends is a step.  The owning
  thread (`main`) interleaves between any two.  `dead` is an exception that left
  `run()` (the thread catches it and ends); `undefined` is a dereference of an
  entry that is not there; from there, nothing is claimed.
- `send_data` exists twice with different conduct for an unknown id:
  `SendString` (logged, nothing sent) and `SendData` (logged, dereferenced).
- `CloseSessions` walks the table while the I/O thread may be in a handler: then
  it may miss any session or crash.

Every handler is one action that makes all the changes of its code; the
alternatives in it are the early returns and failures.  What a remote end does is
external, taken from how `Client` uses its socket.

### Relay

The abstract relay: remote ends that connect, leave and send, and are written
colours and messages.  A message passed on is the sender's, has not been passed
to anybody before, and nothing that was sent later has; messages may be lost; text
may be garbled only once somebody has left (`Next`).  `Promise` of `GameServer`
and of `Session` instantiates it: in the first, `peer`, `sent` and `got` are the
module's own variables, so sessions, ids, buffers and read loops are what is
hidden; in the second, `peer` is read off the client's socket and `sent` off what
it has sent.  `RelayPromise` is that refinement; it is a safety promise.

### Session

Two clients from `main` to the end of the process, and the server between them.

- `at[c]` is where the frame thread is: connecting, waiting for its id, the
  window between the start of the I/O thread and `set_on_message_received`
  (`noHandler`), waiting for the colour, playing, between the two sends of a double
  step (`passing`), between a move and the test for the end (`moved`), inside `stop()`
  from a failed send (`Failing`, by what comes behind it) or from the destructor
  (`closing`, `joining`), and gone.
- `io[c]` is the I/O thread, `text[c]` what its last read returned, an empty
  sequence for a read that failed; `Outcomes` is what the handler may make of it:
  start the game, play, end the game, or throw.  It has every name the handler looks
  for, in the order of its branches.  Where the outcome depends on a number's digits
  (`TO` with `PROM` behind it), both are allowed.
  `Handles` ends either armed again or dead of an exception.
- Of a message its name is kept; what a player sends in which order follows the frame
  loop: `Moves` (a step or a wall), `TellsOpportunity` and `TellsDoubleStep`,
  `ReachesLastRow` and `Promotes`, `Wins`.  `Exchanges` bounds it.
- `won`, `over` and `colour` are what is left of the game; `sends`, `got`, `heard`,
  `passed` are the streams between client and server; `session` is the server's
  side of the connection.
- The server accepts, pairs, tells the colours and relays as `GameServer` does.
  With two connections no id is given twice while it is in use, so the client's
  side can be studied without them; and a pairing happens once.
- A side that closes with unread data resets the connection, and what was on its
  way may be lost (`ReadsEnd`, `DropsGone`).

### ChessEngine, EnginePlay

`ChessEngine` holds the operations of the engine as operators on a record with
the fields of the class (`EngineType`), one per method, named as in the code.
Squares are indices 0 to 63.  `MoveResult`s are kept; the index arithmetic is
done on rows and columns only where the code does so.  Walls are the set of pairs
of neighbouring squares, as `WallGrid` justifies.  `enPassant` is a set: the code
keeps a vector, but only ever asks whether a square is in it and drops entries by
their date (`engine.cpp:802-810`), so order and repetition make no difference.
`Playable` says what a position to start from must be like; `ConstructedPlayable`
(below) proves it of the one the constructor makes, and the other positions of the
runs are evaluated against it (`StartsAssumption`).

`EnginePlay` makes the calls `Game` makes: moves, walls and promotions by the
player, expiry of time-outs, and the opponent's moves, double steps, walls and
promotions as the handler of messages applies them (squares as they appear after
`reverse`).  It has the conditions under which `Game` calls: no click while a
promotion is being decided or the game is over, a click for a wall that is
refused becomes a move.  It also holds the rules of the game, stated without
reference to the code (`Legal`, `Open`, `Line`), for the walks to be compared
with.  `play` names what is played: positions, clicks and bounds are functions of
it, so that one run has several.

### Match

`Match` is two games of `Client/src/game.cpp` connected by the relay: the part
of the system where no test and no lock helps, because both sides move at will.

- `engine[p]` is the `chessEngine` of `p`, each with its own view of the board;
  `net[p]` holds the messages on their way to `p`, in the order they were sent
  (`RelayPromise` of `GameServer` and `Session`).
- `stage[p]` is where the frame loop of `p` is in `render_board`: after the click
  come the decision (`Decide`: `build_wall`, or `move_piece`), the sends
  (`SendOpportunity`, `SendMove`, `SendWall`), and the test for the end (`Check`).
  Between any two of these the I/O thread may apply a message (`Receive`), as it
  may between a click and its decision.  `click[p]` stays when a move was refused,
  as in the code, and is reset by the send otherwise.
- `SendPromotion` tells of a decided promotion and `Promote` makes it; the answer to
  it may be applied between the two, and is then written over.  `CheckTimeouts` ends
  time-outs.
- `over[p]` is `isGameOver`; `reading[p]` is whether the I/O thread still runs.
- Messages are not framed.  `Receive(p, n)` takes the text of `n` messages, glued,
  and `Handled` is what the handler makes of it: it looks for names anywhere in
  the text, PROM first, and takes operands from a fixed place at the beginning.
  With one message that is what was meant.  With two, the second is lost, or the
  operands do not parse and the exception ends the I/O thread.
- `clicks`, `promoted` and `slips` are history.  `slips` collects what has
  happened that may take the two boards apart: `overwritten` (below), `crossed` (a player acted before
  hearing of all the other did), `castled`, `enPassant`, `wallBroken` (TO does
  not tell of the rook, the captured pawn, the wall), `void` (a capture of nothing
  is sent as a move), `glued`, and `overtaken`: a message about the very square whose
  promotion has been sent and not been made yet.  Each of
  them is needed: without any one `BoardsAgree` fails.
- `WallsOverwritten`: `game.cpp:31` moves references into a temporary that is gone,
  so every wall is read from memory that other calls write over.  From then on the
  walls of a board may be any of `Overwrites`.  The pieces of the two boards still
  agree (a `TO` is applied without looking at walls), the walls need not.  This is
  about reads: `build_wall` and a rook that breaks a wall also write through the
  same references, and what else such a write may change is not modelled.

What is left out: a message cut in two by a read; a send that fails, the wait for
the colour and the end of the process, which `Session` has.
Calls on one engine are atomic; the code runs them from two threads without a
lock, so in a build they may also overlap.

### Walls, WallGrid

`Walls` is the promise: a set of pairs of neighbours, of which one is built or
broken at a time.  `WallGrid` is the storage: `reset_board` hands out cells of
`chessBorders` in one loop, gives each square references to cells for its right
and lower side, and takes over the references of the left and upper neighbour.
Building writes one reference; breaking writes through both squares'.
`ImplementsWalls` is the refinement, with the walls that stand read off the cells.

### Window

The frames of `Game::run`: `Input` (or `Choose`, `Promote`, by the state of the
dialogue) is `process_input`, with `handle_clicks` before `handle_resize` as in the
code, and `Render` or `Decide` is `render_board`.  `window` is the window's size, set
by the player (`Resizes`) or by the code; `size` is `screenSize`; `drawn` the size
the board was last drawn with, which is what the player aims at.  `Index` is
`get_index_from_mouse_pos`, `DrawnAt` the square `render_board` draws at a pixel.
Own pieces are a constant set of squares; what a decided click comes to is left
open.

## Runs

| Run | Question | Size |
| --- | --- | --- |
| `server_safety` | Do the table of sessions, the ids, the read loops and the pair stay consistent, whoever connects, leaves or fails, and whenever the server is stopped?  Do they implement the relay? | 3 connections, 1 message between any two |
| `server_progress` | Is the relay's promise kept through reads that split and join messages?  Is a lost peer dropped, does a message arrive, does `stop()` return? | 2 connections, 2 messages |
| `healthy_session_dropped` | Is a session dropped only if its peer has left? No, see findings. | 3 connections |
| `started_twice` | Is a player told a colour once? No, see findings. | 4 connections |
| `engine` | Middle: do the walks accept exactly the legal moves, do refusals change nothing, do only rooks break walls?  Home: does castling find its king, and lose no piece?  Pawns: are pieces kept, pawns promoted, captures captures, next to an opponent who steps, captures, builds and promotes too? | each piece at 27, all neighbourhoods, all targets, 1 call; home row with every set of pieces out of the way, 3 calls; one position of pawns, 4 calls |
| `castling_target` | Does castling put the king where the comment says? No, see findings. | home row, 1 call |
| `match` | Do the boards and the counts of moves agree at rest, does an opportunity en passant end, has no board two kings of a colour, does a game end only with a king taken, does a promotion replace the player's own pawn? | 3 positions, 2 clicks each, reads of 1 or 2 messages, walls overwritten by a full grid |
| `match_end` | Is a player whose king was taken told so, whatever crosses? | 2 positions, 2 clicks each, one message to a read |
| `loser_not_told` | The same with reads of two messages?  No, see findings. | as `match_end` |
| `session` | Does a client start, play and end as it should while the other one, the server and the I/O threads stop or fail anywhere? | 2 clients, up to 3 messages of the first and 1 of the second (`MCExchanges`) |
| `window` | Is a press taken for the square drawn under it?  When is a square off the board looked up? | board of 2 by 2, windows of 3 to 7 pixels each way |
| `wall_grid` | Does `reset_board` stay in its array, are the walls what `Walls` says, and is the wall that changes the one asked for? | 3 by 3 |

Each property of a passing run has a mutant: a plausible bug in one definition
(marked `Mutant:` next to the definition it changes), under which the same run
finds the property violated.

## Bounds

- `Conn`: 3 connections have the cases in which ids collide (two that stay and one
  that leaves and is followed), and both an even and an odd count; the fourth is
  needed for a second pairing.  Connections are not reused: a client that comes
  back is another connection.
- `MaxId` is 2^32 - 1 in the code and `Cardinality(Conn) + 2` in the runs, which
  every connection and a failed accept can reach and nothing can pass.
  `HandleAccept` stops at `MaxId`: the code would have to accept 2^32 connections.  The wrap below 0 is modelled, and `IdsAboveSentinel` shows that it
  does not happen.
- `MaxSends` is the number of messages of any two remote ends together (more could
  not be told apart by a read of one pair): 2 show order, splitting and joining;
  with 3 connections 1 is enough for the handlers to run, and for a message to
  reach the wrong end.
- `MCExchanges` in `Session`: the first player sends nothing, a step, a wall, an
  opportunity, a double step (`ENPS`, `TO`), a wall and a step, or a step and a
  promotion, with or without the `LOSE` behind it; the second is silent, or makes one
  step, which may cross one of the first.  The pairs of
  names whose meeting in a read throws are there, as is every name alone, behind a
  colour and in front of the end, and a read may return them in any pieces.
  `MaxSends = 3` is the longest of these.  The proofs are for all `Exchanges`.  Two
  clients exactly: with more, ids collide, which is the subject of `GameServer`.
- `server_progress` has two connections.  `RelayProgress` is not about two only: it
  speaks of a peer that plays (`Plays`), since with a fourth connection two
  others may be paired, and what the first two send then reaches nobody.
- `Window`: a board of 2 by 2 with cells of 2 or 3 pixels has all there is to a
  board, a row behind a row and a strip beyond the last; `Sizes` has multiples of
  the cells and others, sizes below and above `MinSize`, and windows that are not
  square.
- `MaxCalls`: calls on an engine.  3 are what castling takes together with a step
  before and after it; 4 are what en passant takes with the capture of the
  double-stepped pawn, or the age of an opportunity.
- Positions (`MCEnginePlay`): a piece at 27 with every choice of empty, own and
  other piece on four squares around it, two of them adjacent and two further
  off, or with every set of five walls around its upper-left corner and on its
  right.  Home rows with every set of the six inner squares cleared.  One
  position with pawns that can do everything a pawn does.  The walks treat the
  directions alike; each direction, the edge of the board and both colours occur.
- `MaxClicks = 2` for each player: one click and the other player's make a
  crossing, the second shows what comes of it; of promotions there are as many as
  clicks.  `MaxGlued = 2`: what the handler makes of three messages is what it
  makes of the first two, or of the first and a PROM or TO among the rest.
- `Overwrites` is one set, all walls: what reads as a wall where there is none is
  the case that changes which moves are possible; the walls that were built and
  read as none are covered by a built wall the other board has and this one lost.
- Positions (`MCMatch`): castling in reach, pawns that may take en passant, onto a
  rook too that broke a wall on its way there, a pawn about to promote or to take the king beside a rook
  that may take it.
- `Size = 3`: the smallest board with an inner square, where each side is taken
  over from or by a neighbour.  The proofs are for every size.

## Fairness

`FairSpec` of `GameServer` has weak fairness of the I/O thread's steps, of the
constructor's and of `stop()`'s, each as a whole: a thread that can run does run.
The work guard keeps `run()` waiting for work, asio hands completed operations out
in order, and the two statements of the constructor and those of `stop()` have no
condition but the `join()`.  Nothing is assumed of peers, of the console the
owner waits for, or of failures: a peer may stay idle, accept may or may not
fail.  The liveness properties therefore except what the code does not survive:
an I/O thread that died, a peer that left, a server that is being stopped.
`FairSpec` of `Match` has weak fairness of each frame loop, once a click has been
made (its steps have no condition), and of each I/O thread while it lives and
something is on its way: TCP and the relay deliver what was sent
(`RelayProgress`).  Players promise no click and no choice of a promotion.

`FairSpec` of `Session` has weak fairness of each frame thread's steps that wait
for no player, of its decision behind a move, of each I/O thread and of the
server's I/O thread: they are threads in loops without conditions of their own.
Nothing is assumed of players (a move, a closed window, a killed process), of
who stops the server, or of failures.  The liveness properties name the causes
the code does not survive: a dead I/O thread, a connection that is closed, text
lost on a reset, messages that were read together.  They are stated as
`[]<>(A => B)`: what is said on either side lasts, so this is A leads to B, in a
form that TLC checks on the graph of the states alone.

`EnginePlay`, `WallGrid`, `Window` and `Relay` have no fairness and state safety
only.

## Proofs

`GameServerProofs` (for every finite `Conn`, `MaxId > 2`, `MaxSends`) proves
`TypeCorrect`, `LookupsDefined`, `IdsStayAbove`, `NobodyUnread`, `SessionsKept`,
`PairIsOpposite` and, with `RelayInv` on top of `IInv`, `ServerRelays`.
The invariants are not inductive one by one; `IInv` joins them with what the
handler in progress relies on (`HandlerInv`), that a connection not yet accepted
has no session (`NotAcceptedInv`), and that nothing has failed while all stay
(`NoErrorInv`).  The argument turns on four points.

- `SessionsAreRead`: a session is stored only together with its loop, and a loop
  ends only together with the session it serves, unless the I/O thread dies.  So
  two sessions never share a loop, and an aborted read of a replaced session
  finds the wrong session but not none.
- `IdsAboveSentinel`: the counter steps back only when a session is erased, and
  every accept that adds one steps it forward.  `nextId >= 1 + Cardinality(Live)`
  therefore survives both, also when the accept replaces a session.  With ids of
  2 or more, a stored pair is told from `<<0, 0>>`, so its two ids differ and the
  failed write to the first cannot erase the second (`LookupsDefined`).

- `ServerRelays`: what a completed read holds has been passed to nobody, nor anything
  sent later, until its handler passes it on (`ReadInv`, `TakenInv`).  Two loops may
  read one socket, and the order of `ready` is not known; but a handler whose buffer
  another completed read has overwritten passes on garbage, so whoever passes on
  messages is the only one that holds any of that socket.  That there is no garbage
  before somebody has left is `OwnReadInv`: until then a loop reads its own socket and
  finds its own session.  The receiver is another than the sender since two sessions
  never are of one connection.
- `PairIsOpposite`: the pair is told anew each time it is chosen anew.  `ToldInv` holds
  between the two sends too; what is relayed is no colour (`ReadInv` again), and while
  nobody has left no send fails and no session is lost (`TableKept`, `WriteWorks`).

The proof has one lemma per action, with the conjuncts the action can disturb as
its steps, and facts on `Cardinality` of a set with one element more or less as
lemmas of their own.

`WallGridProofs` (for every `Size > 1`) proves `TypeCorrect`, `CellsMatchWalls`,
`GridImplementsWalls` and `WallsKeptApart`.  `IInv` counts the cells: before square `<<row, col>>`,
`next` is `row * (2 * Size - 1) + 2 * col`, and one less per square in the last
row, which has none below (`NextInv`).  With this the loop ends at exactly
`2 * Size * (Size - 1)` cells, 112 for a size of 8.  `RefInv` and `ForwardDistinct`
say that right and lower sides have cells of their own and the other two are taken
over.  Refinement follows: before the loop ends no wall stands, afterwards every
write is to the cell of one pair of neighbours, the pair it is about.

`SessionProofs` (for two clients and all `Exchanges` of messages) proves `SessionTypes`,
`SessionColours`, `SessionEnds`, `SessionHears` and `SessionOutlived`.  Of these
`OppositeColours` and `OverHasCause` are proved only and in no run.  The invariant
follows a message on its way:

- the server pairs once and tells each of the two once (`PairInv`, `WaitInv`), so
  what a client is written is its colour and then messages of the other one, in
  growing order (`GotInv`); and nothing follows a `LOSE`, which is sent by a winner
  (`SendInv`);
- what is handled is the end of what has been read, without the colour if the game
  has started (`TextInv`, `StartInv`), and has been sent (`ReadInv`).  So a text of a
  started game that names no message is empty or says LOSE: an end has a cause
  (`WhatIsRead`, `OutcomeHasCause`).  A text that throws names a TO or a PROM behind the
  message it begins with, and is taken for that: `DiesOfGlue`;
- the steps of the server only add to a stream, and what has been cut out of it
  stays what it was (`GrowsStep`, `SubSeqOfPrefix`).

`SessionRelay` proves `SessionKeepsPromise`, that every behaviour of `Session` is one
of `Relay`, from that invariant and what a frame thread has behind it where it is
(`FrameInv`): who sends has an open socket, has been told its colour, and has sent what
`Exchanges` allows.  Each step of `Session` maps to the step of `Relay`
that its lemma names, or to none.  The message the server passes on is the next one
of its sender; that it has reached nobody before (`NextIsUnpassed`) is `GotInv`.

`EngineProofs` says once what the engine's operations do, for every engine of type
`EngineType`.  `MoveOutcome` is the fact everything else cites: a call of `move_piece`
comes to one of six outcomes, and each is a few equations on board, count, marks,
time-outs and opportunities (`Refused`, `Void`, `Stepped`, `Took`, `Passed`,
`Castled`).  The walks of rook, bishop and queen enter it by their ends only.  The same is
there for the other operations (`promote`, the `opponent_*` calls, walls,
`check_timeouts`), and `ConstructedPlayable` for the constructor.

`PlayProofs` (for any plays with `Playable` starts, any clicks and `MaxCalls`) proves
seven properties of the `engine` run: `KingStaysHome`, `LastRowWaits`, `RefusedKeeps`,
`OwnAreKept`, `CapturesTake`, `RooksBreakWalls`, `MovesLegal`.  The invariant is `Sound`:

- an unmarked king is at home or gone (`KingUnmarkedAtHome`), which is what lets
  castling, which writes its squares blindly, neither make nor lose a king;
- pawns on the last row wait, and what waits is on the board (`PawnsWait`,
  `WaitsOnBoard`);
- an opportunity is on the third row, so a pawn that takes there is not promoted
  (`Opportune`).

`MovesLegal` needs no invariant but the type: it is about one call on any engine
(`AcceptsLegal`).  The rules are stated by row and column, the code adds a number to
a square; `LineByUnits` and `LineEnds` join the two, so that a walk arrives just if
nothing is strictly between (`ClearWay`), and that the engine's four pairs of walls
at a diagonal step are the two ways round its corner (`DiagonalOpen`).

`OwnPiecesKept` and `CaptureCaptures` say less than an earlier form of them that no
run refuted: a pawn that takes en passant empties two squares without a look at
either, so it may take two pieces, or an own one on the square it goes to.  The
proofs failed there, and the runs have no position in which it happens.

`MatchProofs` (for any such starts, `MaxClicks`, `MaxGlued` and `Overwrites`) proves
all seven properties of the `match` run.  Each has an invariant of its own,
built on those before it; all of them were checked on the `match` run first.

- `MatchTyped`: `TypeInv` adds that operands of a message under way are squares, that
  what waits is on the board, and that a player has not promoted more than clicked.
- `NeverTwoKings`: the danger is castling, which writes a king blindly, behind a
  message that moved it.  `KingsInv` follows a king that has not moved on both
  boards: the other board shows it at home too, no message under way moves it or
  lands on it, and none is about to be sent that does (`Undisturbed`), unless the
  other has taken it and is at its end (`Finished`).  It holds through glued and
  crossing messages, since what they lose or confuse never names that square.
- `OverIsEarned`: a `LOSE` is under way only from a board whose other king is gone, and
  no king comes back (`EndInv`), since a promotion gives none.  That the handler takes
  no other text for the end is a fact about `Handled`, for texts of every length.
- `OwnPawnPromoted`: there is no turn order, but as long as nobody acts behind, at most
  one of the two has something to be told (`TurnInv`), so nothing lands on the pawn
  that waits until it has been told of.  From then on the other player may answer
  before it is made; what lands on the square then is `overtaken`.
- `CountsKeepUp`: each count, with the moves on their way to it and the one still to be
  sent, and without promotions, is the other's (`CountInv`, `Reckoned`).  Crossings
  and castlings leave that true.
- `PassantExpires`: an opportunity on its way is dated so that it is in time once the
  moves before it are made (`ExpireInv`); at its sending that is `CountInv` and
  `TurnInv` together: the other's count, with all that is coming to it, is at most one
  ahead (`OpportunityInTime`).  `OpportunitiesExpire` excepts captures of nothing
  too (`void`): they are told and counted by the other side alone.
- `BoardsKeepUp`: while nothing is in `slips` that takes the boards apart, a player who
  has nothing more to hear is one whose moves the other only has to catch up with (`BoardInv`).  What is on its
  way to the other takes what that one sees through a chain of views to another
  (`Leads`), and what the player has yet to tell, a move, a wall or a promotion, makes
  that the mirror of the own board (`Pending`).  A promotion that has been told of counts
  as made on the own board too (`Face`, `Owed`): an answer to it that is about another
  square comes to the same before and after.  A message sent lengthens the chain at
  its end, one handled shortens it at its beginning, so no induction over messages is
  needed.  With nothing but `LOSE` on its way to either, each of the two follows the
  other (`Restful`): there the turn passes.  The pieces are followed whatever rooks and
  memory do to the walls, the walls while `slips` has neither.

  The proof failed first at a capture en passant onto a square that is not empty,
  which `slips` did not count as one; TLC found boards that differ by it once a
  position had it.  `MoveSlips` names it now and the pawns' position of `MCMatch` has
  a rook on such a square.

`Handled`'s cases exclude each other as the `if ... else if` of the handler does, so
that what it makes of a text follows without an order of evaluation.

`WindowProofs` (for any board, sizes and pieces) proves both properties of the
`window` run.  The invariant says that in a frame's input `screenSize` is the size
drawn, whatever the player made of the window meanwhile (`SizeInv`), and that a
second click is one of this frame, in a window that has kept its size since
(`SecondInv`), as the code takes it back otherwise.  The rest is division: the
square computed from a pixel is drawn over that pixel (`DrawnIsIndex`), and is on
the board where the board fills the window (`IndexOnBoard`).

Assumptions: those named in the modules (`ConnAssumption`, `NoneAssumption`,
`MaxIdAssumption`, `MaxSendsAssumption`, `SizeAssumption`, `NoWallAssumption`, `ClientAssumption`,
`ExchangesAssumption`, `ClicksAssumption`, `StartsAssumption`, `BoundsAssumption`, `SizesAssumption`,
`OwnAssumption`), each evaluated by TLC in the runs.

## Findings

- **A healthy session is dropped** (`healthy_session_dropped`).  `_nextClientId`
  steps back for each lost session, whichever it was.  Connections 2 and 3 are in,
  2 leaves, the next one is given 3: its session replaces the healthy one in
  `_clients`, whose socket closes; the aborted read then erases the new session
  as well.
- **A player is told a colour twice** (`started_twice`).  Each even count of
  sessions pairs two again, players in a game included, who take the second colour
  for a lost opponent.
- **White's castling to 62 misses** (`castling_target`).  The king ends on 61 and
  the rook on 62; the comment says 60 to 62.
- **The loser is not told** (`loser_not_told`).  The winner's move and its `LOSE`
  are two sends without a frame.  Read together they are a text that contains TO:
  the move is applied, the rest dropped, and the loser's game waits for ever.

Kept as exceptions named in a property rather than as findings, since nothing in
the repository says otherwise:

- the slips of `Match`, each of which leaves the two boards different for good;
- an opportunity or a wall with a move behind it, or a move with a promotion behind
  it, read together: the numbers are looked for in the wrong place and the receiver's
  I/O thread ends (`reading` in `Match`, `DeafByGlue` in `Session`);
- a promotion that is sent before it is made: the answer that takes the new piece may
  be applied first, and is written over (`game.cpp:374-375`; `overtaken` in
  `BoardsAgree` and `PromotesOwnPawn`);
- an en passant opportunity that outlives its pawn, so a capture en passant may
  clear the player's own piece that took the pawn, on either of the two squares it
  empties (`PassantSquares` in `EnginePlay`);
  and one that never ends, once a castling or a promotion has moved the counts
  apart, or moves have crossed (`OpportunitiesExpire`);
- a pawn's diagonal click onto an empty square, which returns `MOVE_CAPTURE`,
  changes nothing, and is sent to the opponent, who applies it (`engine.cpp:432-457`;
  `CaptureCaptures` excepts it, `void` in `Match`);
- a colour that arrives before the handler is set, or in one read with the
  opponent's first move: the I/O thread dies and the game waits for ever, still
  without a window to close (`game.cpp:28-53`, `84`; `ColourStarts`);
- a player who leaves: the other one is told nothing.  "Opponent disconnected"
  (`game.cpp:77`) is printed when the own connection ends or a second colour comes;
- a `LOSE` lost because the winner exits with unread data, which resets the
  connection (`LostOnReset` in `EndIsTold`);
- a send that fails: it stops the I/O thread, and the game goes on, deaf
  (`client.inl:31-35`; the exception of `ServerGoneIsNoticed`);
- a window the player makes square: `screenSize` stays as it was although it is
  said to be the size of the window (`game.cpp:390`, `game.h:46`), and beyond the last
  column and row presses are taken for other squares or for none of the board
  (`Fills` in `OffBoardOnlyBeyond`).

## What is only model-checked, and what is not modelled

- Liveness (`GoneIsDropped`, `RelayProgress`, `StopReturns`, `LoserIsTold`, and four
  properties of `Session`) is beyond the prover.
- The data race on the `std::function`s themselves (set by the constructor while
  the I/O thread may test them) is modelled as the old or the new value, not as a
  torn one.
- `CloseSessions` is one step: what the I/O thread does during the walk is
  covered by its outcomes, any subset of the sessions closed or a crash.
- Time is not modelled: a time-out ends at any moment.  A resting piece may
  therefore move as early as in any real schedule, and earlier.
- In `EnginePlay` the walls are those of an engine its constructor made; that
  `Game` assigns a temporary (`game.cpp:31`, `37`) is in `Match`.
- Calls on one engine from two threads are atomic: the code has no lock, and what
  a torn call could leave is not modelled.
- Messages cut in two by a read are not modelled, in neither `Match` nor `Session`, and
  a piece of a message without its name does end a game (`game.cpp:74-78`): so
  `OverMeansKingTaken` and `SessionEnds` speak of whole messages only.  A message is
  some ten bytes and the client's buffer has 1024, so what cuts it is TCP or a player whose I/O thread
  is far behind.
- Not modelled because nothing calls it: `game::Players`, `disconnect_client`,
  `stop_accepting` on its own, the broadcast sends, `Client::run`, the callbacks
  for connecting and disconnecting; not compiled: `get_accumulated_data`.
- Not modelled because it changes no state: drawing, textures
  (`chess_pieces_texture.h`), build scripts.
- Not modelled because it is not this program: `vendors/`, the copies of asio and
  raylib, which are nine tenths and more of the lines below the root.  What the
  code uses of them is modelled as external.

## Plan

1. Done: every component of the program has its module.  Proofs of `GameServer`,
   `WallGrid`, `Session`, that `GameServer` and `Session` implement `Relay`, of the engine's operations,
   `EnginePlay`, `Match` and `Window`.
2. In `Match`: messages cut in two, and opportunities dated too late with a capture
   that follows.
