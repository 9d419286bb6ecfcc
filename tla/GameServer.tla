----------------------------- MODULE GameServer -----------------------------
(* game::GameServer of Server/src/game_server.cpp on top of server::Server:
   the callbacks that pair two sessions, tell each its colour and relay every
   message of one to the other, and the owning thread from the constructor to
   the destructor.                                                            *)
EXTENDS Server

VARIABLE clientIds      \* the pair that plays; <<0, 0>> before the first one

vars == <<peer, sent, taken, got, sock, clients, nextId, last, loop, ready,
          accepting, pc, cur, main, clientIds>>

Init == ServerInit /\ clientIds = <<0, 0>>

-----------------------------------------------------------------------------
(* The callbacks, run by the I/O thread.                                      *)

(* Mutant: pairs on an odd number of sessions.                                *)
OnConnectOdd ==
    /\ pc = "onConnect" /\ main # "ctor"
    /\ \/ /\ Cardinality(Live) % 2 # 0
          /\ \/ /\ Cardinality(Live) >= 2
                /\ \E a, b \in Live : a # b /\ clientIds' = <<a, b>>
                /\ pc' = "black"
             \/ /\ Cardinality(Live) < 2               \* ids[0] of an empty vector
                /\ pc' = "undefined"
                /\ UNCHANGED clientIds
       \/ /\ Cardinality(Live) % 2 = 0
          /\ pc' = "rearm"
          /\ UNCHANGED clientIds
    /\ UNCHANGED <<peer, sent, taken, got, sock, clients, nextId, last, loop,
                   ready, accepting, cur, main>>

(* With an even number of sessions the first two keys of the unordered table,
   which may be any two, become the pair.                                     *)
OnConnect ==
    /\ pc = "onConnect" /\ main # "ctor"
    /\ \/ /\ Cardinality(Live) % 2 = 0
          /\ \/ /\ Cardinality(Live) >= 2
                /\ \E a, b \in Live : a # b /\ clientIds' = <<a, b>>
                /\ pc' = "black"
             \/ /\ Cardinality(Live) < 2               \* ids[0] of an empty vector
                /\ pc' = "undefined"
                /\ UNCHANGED clientIds
       \/ /\ Cardinality(Live) % 2 # 0
          /\ pc' = "rearm"
          /\ UNCHANGED clientIds
    /\ UNCHANGED <<peer, sent, taken, got, sock, clients, nextId, last, loop,
                   ready, accepting, cur, main>>

SendBlack ==
    /\ pc = "black"
    /\ SendData(clientIds[1], <<Black>>, "white")
    /\ UNCHANGED <<peer, sent, taken, nextId, last, loop, ready, accepting, cur, main,
                   clientIds>>

(* Mutant: both are told the same colour.                                     *)
SendWhiteSwapped ==
    /\ pc = "white"
    /\ SendData(clientIds[2], <<Black>>, "rearm")
    /\ UNCHANGED <<peer, sent, taken, nextId, last, loop, ready, accepting, cur, main,
                   clientIds>>

SendWhite ==
    /\ pc = "white"
    /\ SendData(clientIds[2], <<White>>, "rearm")
    /\ UNCHANGED <<peer, sent, taken, nextId, last, loop, ready, accepting, cur, main,
                   clientIds>>

(* Mutant: the two ends of the pair are swapped.                              *)
OnMessageEcho ==
    /\ pc = "onMessage" /\ main \notin {"ctor", "hooked"}
    /\ \/ last = clientIds[1] /\ SendString(clientIds[1], Message)
       \/ /\ last = clientIds[2] /\ last # clientIds[1]
          /\ SendString(clientIds[2], Message)
       \/ /\ last \notin {clientIds[1], clientIds[2]}
          /\ UNCHANGED <<got, sock, clients>>
    /\ pc' = "rearmRead"
    /\ UNCHANGED <<peer, sent, taken, nextId, last, loop, ready, accepting, cur, main,
                   clientIds>>

(* Mutant: only the first of the pair is relayed.                             *)
OnMessageOneWay ==
    /\ pc = "onMessage" /\ main \notin {"ctor", "hooked"}
    /\ \/ last = clientIds[1] /\ SendString(clientIds[2], Message)
       \/ /\ last # clientIds[1]
          /\ UNCHANGED <<got, sock, clients>>
    /\ pc' = "rearmRead"
    /\ UNCHANGED <<peer, sent, taken, nextId, last, loop, ready, accepting, cur, main,
                   clientIds>>

(* The relay: to the other of the pair, or nowhere.                           *)
OnMessage ==
    /\ pc = "onMessage" /\ main \notin {"ctor", "hooked"}
    /\ \/ last = clientIds[1] /\ SendString(clientIds[2], Message)
       \/ /\ last = clientIds[2] /\ last # clientIds[1]
          /\ SendString(clientIds[1], Message)
       \/ /\ last \notin {clientIds[1], clientIds[2]}
          /\ UNCHANGED <<got, sock, clients>>
    /\ pc' = "rearmRead"
    /\ UNCHANGED <<peer, sent, taken, nextId, last, loop, ready, accepting, cur, main,
                   clientIds>>

-----------------------------------------------------------------------------
(* The owning thread: the I/O thread runs before the callbacks are in place.  *)

SetOnConnect ==
    /\ main = "ctor"
    /\ main' = "hooked"
    /\ UNCHANGED <<peer, sent, taken, got, sock, clients, nextId, last, loop,
                   ready, accepting, pc, cur, clientIds>>

AddOnMessage ==
    /\ main = "hooked"
    /\ main' = "serving"
    /\ UNCHANGED <<peer, sent, taken, got, sock, clients, nextId, last, loop,
                   ready, accepting, pc, cur, clientIds>>

-----------------------------------------------------------------------------

IoStep ==
    \/ \E c \in Conn : \/ HandleAccept(c) \/ ReadCompletes(c)
                       \/ HandleUnknown(c) \/ HandleReadError(c)
                       \/ HandleReadData(c)
    \/ AcceptAborted \/ NoOnConnect \/ RearmAccept \/ NoOnMessage
    \/ RearmRead \/ IoExits

IoNext ==
    \/ IoStep /\ UNCHANGED clientIds
    \/ OnConnect \/ SendBlack \/ SendWhite \/ OnMessage

StartNext == SetOnConnect \/ AddOnMessage

StopNext == (StopIo \/ CloseSessions \/ Join) /\ UNCHANGED clientIds

(* What the program waits for: peers, the console, and failures.              *)
EnvNext ==
    /\ \/ \E c \in Conn : PeerConnects(c) \/ PeerSends(c) \/ PeerLeaves(c)
       \/ AcceptFails
       \/ StopAccepting
    /\ UNCHANGED clientIds

Alive == main # "crashed" /\ pc # "undefined"

Next == Alive /\ (IoNext \/ StartNext \/ StopNext \/ EnvNext)

(* The I/O thread runs while it has something to run, and the owning thread
   finishes the constructor and stop(); peers, the console and failing system
   calls promise nothing.                                                     *)
Fairness ==
    /\ WF_vars(Alive /\ IoNext)
    /\ WF_vars(Alive /\ StartNext)
    /\ WF_vars(Alive /\ StopNext)

Spec == Init /\ [][Next]_vars

FairSpec == Spec /\ Fairness

-----------------------------------------------------------------------------
(* Properties.                                                                *)

(* Every variable keeps its type: in particular the wrapping id counter and the
   table of sessions (server.h:63-79).                                        *)
TypeOK ==
    /\ peer \in [Conn -> {"idle", "up", "gone"}]
    /\ sent \in [Conn -> 0..MaxSends]
    /\ taken \in [Conn -> 0..MaxSends]
    /\ got \in [Conn -> Seq(Item)]
    /\ sock \in [Conn -> {"none", "open", "closed"}]
    /\ clients \in [Id -> Conn \cup {None, Broken}]
    /\ nextId \in Id
    /\ last \in Id
    /\ loop \in [Conn -> Loop]
    /\ ready \in Seq(Conn)
    /\ accepting \in BOOLEAN
    /\ pc \in IoPlaces
    /\ cur \in Conn \cup {None}
    /\ pc \in {"onMessage", "rearmRead"} => cur \in Conn
    /\ main \in MainPlaces
    /\ clientIds \in Id \X Id

(* The I/O thread never dereferences an entry that is not there: ids[0] and
   ids[1] of the pairing, the unguarded lookup of send_data<T>, and the session
   reference held across the callback (game_server.cpp:39, server.inl:19,
   server.cpp:314).                                                           *)
NoUndefined == pc # "undefined"

(* The counter steps back on every lost session, yet stays above the number of
   sessions: it never wraps, and no session gets the id 0 or 1 that the empty
   pair and _lastClientSentData start with (server.cpp:194, 284).             *)
IdsAboveSentinel ==
    /\ nextId >= 1 + Cardinality(Live)
    /\ \A k \in Live : k >= 2

(* Every session in the table has its own read loop, with its own id, on its
   own socket: no session is left that nobody reads, unless the I/O thread is
   lost (server.cpp:235, 314).                                                *)
SessionsAreRead ==
    pc # "dead" =>
        \A k \in Live : /\ clients[k] \in Conn
                        /\ loop[clients[k]].st # "none"
                        /\ loop[clients[k]].id = k
                        /\ loop[clients[k]].on = clients[k]

AllStay == \A c \in Conn : peer[c] # "gone"

(* While nobody has left, ids only grow: a new session never takes over the
   entry of another one (server.cpp:194, 201).                                *)
FreshWhileAllStay ==
    AllStay => \A k \in Live : k <= nextId

(* While nobody has left and stop() has not closed the sockets, every connection
   the server accepted keeps its session and its open socket.                 *)
SocketsKept == main \notin {"joining", "stopped", "crashed"}

KeptWhileAllStay ==
    AllStay /\ SocketsKept =>
        \A c \in Conn : sock[c] # "none" =>
            sock[c] = "open" /\ \E k \in Live : clients[k] = c

(* While nobody has left, the two that play were last told opposite colours,
   the first of the pair BLACK (game_server.cpp:39-42).                       *)
ToldAt(items) == {i \in DOMAIN items : items[i] \in {Black, White}}
LastTold(items, colour) ==
    \E i \in ToldAt(items) : items[i] = colour /\ \A j \in ToldAt(items) : j <= i

OppositeColours ==
    AllStay /\ AcceptorOpen /\ clientIds # <<0, 0>>
            /\ pc \notin {"black", "white", "dead"} =>
        /\ LastTold(got[clients[clientIds[1]]], Black)
        /\ LastTold(got[clients[clientIds[2]]], White)

(* Seen from the players, the server with its sessions, ids and reads is a relay
   that keeps the order, repeats nothing, writes a message to one peer only and
   garbles nothing before somebody has left; two read loops on one session,
   once an id has been used twice, do garble (server.cpp:243-321).            *)
Promise == INSTANCE Relay
RelayPromise == Promise!Spec

Stopping == main \notin {"ctor", "hooked", "serving"}

(* While nobody leaves, a remote end is told its colour once: its game has no
   way to start twice and takes a second colour for a lost opponent
   (game.cpp:28-78).                                                          *)
StartedOnce == AllStay => \A c \in Conn : Cardinality(ToldAt(got[c])) <= 1

(* A session leaves the table only when its own peer has left, or on stop.    *)
DropOnlyGone ==
    [][\A k \in Id : clients[k] \in Conn /\ clients'[k] # clients[k] =>
          peer[clients[k]] = "gone" \/ Stopping]_vars

(* The session of a peer that has left is dropped in the end.                 *)
GoneIsDropped ==
    \A c \in Conn :
        peer[c] = "gone" ~> \/ \A k \in Id : clients[k] # c
                            \/ pc = "dead" \/ Stopping

Plays(c) == \E k \in {clientIds[1], clientIds[2]} : clients[k] = c

(* A message of a peer that plays reaches another one, unless a fourth connection
   has two others paired and it plays no longer, somebody leaves, the server is
   stopped, or the I/O thread is lost (game_server.cpp:35-42, 52-68).         *)
RelayProgress ==
    \A c \in Conn : \A n \in 1..MaxSends :
        sent[c] >= n ~> \/ \E d \in Conn \ {c} : \E i \in DOMAIN got[d] :
                              got[d][i] = <<c, n>>
                        \/ ~Plays(c) \/ ~AllStay \/ Stopping \/ pc = "dead"

(* stop() comes back, with no session left and no handler to run, unless the
   loop over the table tore it (server.cpp:147-167).                          *)
StopReturns ==
    main = "acceptorClosed" ~>
        \/ main = "stopped" /\ Live = {} /\ \A c \in Conn : sock[c] # "open"
        \/ main = "crashed"

-----------------------------------------------------------------------------
(* The inductive strengthening of the safety properties.                      *)

(* What the handler in progress relies on, and what the owning thread waits
   for before it clears the table.                                            *)
HandlerInv ==
    /\ pc = "onConnect" => Live # {}
    /\ pc \in {"onMessage", "rearmRead"} => loop[cur].id \in Live
    /\ pc = "onMessage" => last = loop[cur].id
    /\ pc = "black" => clientIds[1] \in Live
    /\ pc \in {"black", "white"} => clientIds[2] \in Live
    /\ clientIds # <<0, 0>> => clientIds[1] # clientIds[2]
    /\ main = "stopped" => pc \in {"exited", "dead"}

(* A connection not accepted yet has no session.                              *)
NotAcceptedInv ==
    \A c \in Conn : sock[c] = "none" => \A k \in Id : clients[k] # c

(* While nobody has left no read has failed and no socket is closed.          *)
NoErrorInv ==
    AllStay => /\ \A c \in Conn : loop[c].st # "error"
               /\ SocketsKept => \A c \in Conn : sock[c] # "closed"

IInv ==
    /\ TypeOK /\ NoUndefined /\ IdsAboveSentinel /\ SessionsAreRead
    /\ HandlerInv /\ NotAcceptedInv
    /\ NoErrorInv /\ FreshWhileAllStay /\ KeptWhileAllStay

=============================================================================
