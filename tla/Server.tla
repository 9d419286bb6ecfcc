------------------------------- MODULE Server -------------------------------
(* server::Server of Server/src/server.cpp: the table of client sessions, the
   counter their ids are taken from, and the I/O thread that accepts
   connections, writes each one its id and runs a read loop for it.

   Threads.  `pc` is where the I/O thread is: in io_context::run ("poll"),
   between two statements of a handler, or out of run().  `main` is where the
   thread that owns the server is: constructing it, serving, or in stop().
   Callbacks are steps of the module that installs them (GameServer): the I/O
   thread stops at "onConnect" and "onMessage" and that module moves it on.

   A connection c \in Conn is one TCP connection to the port.  Its read loop
   captures only the session's id, as the lambdas of start_session and
   handle_incoming_data do, so the session found later under that id may be
   another connection's.

   Modelled is the build without SERVER_DEBUG and SERVER_SAVE_PREV_DATA.      *)
EXTENDS Naturals, Sequences, FiniteSets

CONSTANTS
    Conn,       \* the connections ever made to the port
    None,       \* an id with no entry in _clients
    Broken,     \* the unconnected socket a failed accept leaves in _clients
    MaxId,      \* largest client id: 2^32 - 1 in the code
    MaxSends    \* bound on the messages of any two peers together

ASSUME ConnAssumption == IsFiniteSet(Conn)
ASSUME NoneAssumption == None \notin Conn /\ Broken \notin Conn /\ None # Broken
ASSUME MaxIdAssumption == MaxId \in Nat /\ MaxId > 2
ASSUME MaxSendsAssumption == MaxSends \in Nat

VARIABLES
    peer,       \* peer[c]: the remote end, "idle", "up" or "gone"
    sent,       \* sent[c]: messages the remote end has sent so far
    taken,      \* taken[c]: messages read from the socket of c so far
    got,        \* got[c]: what has been written to the remote end, in order
    sock,       \* sock[c]: the server's socket, "none", "open" or "closed"
    clients,    \* _clients: the connection whose session has this id
    nextId,     \* _nextClientId
    last,       \* _lastClientSentData
    loop,       \* loop[c]: the read loop started for c
    ready,      \* completed reads whose handlers wait to run, first to last
    accepting,  \* an async_accept is outstanding
    pc,         \* the I/O thread
    cur,        \* the read loop whose handler the I/O thread is in
    main        \* the owning thread

peerVars == <<peer, sent>>
serverVars == <<taken, got, sock, clients, nextId, last, loop, ready, accepting,
                pc, cur, main>>

-----------------------------------------------------------------------------

Id == 0..MaxId

(* What travels to a remote end: a colour, or message n of connection d; data
   read into a buffer that is not the session's own is "GARBAGE".             *)
Item == (Conn \cup {"BLACK", "WHITE", "GARBAGE"}) \X Nat

Black == <<"BLACK", 0>>
White == <<"WHITE", 0>>
Garbage == <<"GARBAGE", 0>>

LoopState == {"none", "armed", "data", "error"}

(* id: the captured client id; on: the connection whose socket is read; data:
   what the completed read holds.                                             *)
Loop == [st : LoopState, id : Id, on : Conn, data : Seq(Item)]

IoPlaces == {"poll", "onConnect", "black", "white", "rearm", "onMessage",
             "rearmRead", "dead", "exited", "undefined"}

MainPlaces == {"ctor", "hooked", "serving", "acceptorClosed", "ioStopped",
               "joining", "stopped", "crashed"}

Live == {k \in Id : clients[k] # None}                     \* keys of _clients

(* Mutant: stop() without _ioContext.stop().                                  *)
IoNeverStopped == TRUE

IoRunning == main \in {"ctor", "hooked", "serving", "acceptorClosed"}
AcceptorOpen == main \in {"ctor", "hooked", "serving"}
InHandler == pc \in {"onConnect", "black", "white", "rearm", "onMessage",
                     "rearmRead"}

ServerInit ==
    /\ peer = [c \in Conn |-> "idle"]
    /\ sent = [c \in Conn |-> 0]
    /\ taken = [c \in Conn |-> 0]
    /\ got = [c \in Conn |-> <<>>]
    /\ sock = [c \in Conn |-> "none"]
    /\ clients = [k \in Id |-> None]
    /\ nextId = 1
    /\ last = 0
    /\ loop = [c \in Conn |-> [st |-> "none", id |-> 0, on |-> c,
                               data |-> <<>>]]
    /\ ready = <<>>
    /\ accepting = TRUE
    /\ pc = "poll"
    /\ cur = None
    /\ main = "ctor"

-----------------------------------------------------------------------------
(* The remote ends.                                                           *)

PeerConnects(c) ==
    /\ peer[c] = "idle" /\ AcceptorOpen
    /\ peer' = [peer EXCEPT ![c] = "up"]
    /\ UNCHANGED <<sent, serverVars>>

(* The client's game sends nothing before it has been told its colour.        *)
PeerSends(c) ==
    /\ peer[c] = "up" /\ sent[c] < MaxSends
    /\ \A d \in Conn \ {c} : sent[c] + sent[d] < MaxSends
    /\ \E i \in DOMAIN got[c] : got[c][i] \in {Black, White}
    /\ sent' = [sent EXCEPT ![c] = @ + 1]
    /\ UNCHANGED <<peer, serverVars>>

PeerLeaves(c) ==
    /\ peer[c] = "up"
    /\ peer' = [peer EXCEPT ![c] = "gone"]
    /\ UNCHANGED <<sent, serverVars>>

-----------------------------------------------------------------------------
(* Sockets.  Erasing or replacing a session destroys the last shared_ptr to
   its socket, which closes it and aborts the read that is outstanding.       *)

SockClosed(S) == [c \in Conn |-> IF c \in S THEN "closed" ELSE sock[c]]

(* A write to an open socket succeeds, and may fail once the peer has left; a
   write to a closed one fails.                                               *)
WriteMayWork(c) == sock[c] = "open"
WriteMayFail(c) == sock[c] = "closed" \/ peer[c] = "gone"

Delivered(c, items) ==
    IF peer[c] = "up" THEN [got EXCEPT ![c] = @ \o items] ELSE got

(* send_data up to the lookup: the write, or on failure close and erase.      *)
SendTo(k, items) ==
    \/ /\ WriteMayWork(clients[k])
       /\ got' = Delivered(clients[k], items)
       /\ UNCHANGED <<sock, clients>>
    \/ /\ WriteMayFail(clients[k])
       /\ sock' = SockClosed({clients[k]})
       /\ clients' = [clients EXCEPT ![k] = None]
       /\ UNCHANGED got

(* send_data<T>: an unknown id is logged and then dereferenced all the same.  *)
SendData(k, items, then) ==
    \/ /\ k \in Live
       /\ SendTo(k, items)
       /\ pc' = then
    \/ /\ k \notin Live
       /\ pc' = "undefined"
       /\ UNCHANGED <<got, sock, clients>>

(* send_data<std::string>: an unknown id is logged and nothing is sent.       *)
SendString(k, items) ==
    \/ k \in Live /\ SendTo(k, items)
    \/ k \notin Live /\ UNCHANGED <<got, sock, clients>>

-----------------------------------------------------------------------------
(* The I/O thread: accepting.                                                 *)

(* Mutant: the next id is used but not stored.                                *)
HandleAcceptSameId(c) ==
    /\ pc = "poll" /\ IoRunning /\ accepting
    /\ peer[c] # "idle" /\ sock[c] = "none"
    /\ nextId < MaxId
    /\ LET id == nextId + 1 IN
       /\ UNCHANGED nextId
       /\ clients' = [clients EXCEPT ![id] = c]
       /\ sock' = [SockClosed({clients[id]}) EXCEPT ![c] = "open"]
       /\ \/ /\ loop' = [loop EXCEPT ![c] = [st |-> "armed", id |-> id,
                                             on |-> c, data |-> <<>>]]
             /\ pc' = "onConnect"
          \/ /\ peer[c] = "gone"
             /\ pc' = "dead"
             /\ UNCHANGED loop
    /\ accepting' = FALSE
    /\ UNCHANGED <<peerVars, taken, got, last, ready, cur, main>>

(* handle_accept and start_session for c: the entry under the next id, which
   drops a session already there, the id written to the peer, the first read.
   A failed write throws out of run() before the read and the next accept.    *)
HandleAccept(c) ==
    /\ pc = "poll" /\ IoRunning /\ accepting
    /\ peer[c] # "idle" /\ sock[c] = "none"
    /\ nextId < MaxId
    /\ LET id == nextId + 1 IN
       /\ nextId' = id
       /\ clients' = [clients EXCEPT ![id] = c]
       /\ sock' = [SockClosed({clients[id]}) EXCEPT ![c] = "open"]
       /\ \/ /\ loop' = [loop EXCEPT ![c] = [st |-> "armed", id |-> id,
                                             on |-> c, data |-> <<>>]]
             /\ pc' = "onConnect"
          \/ /\ peer[c] = "gone"
             /\ pc' = "dead"
             /\ UNCHANGED loop
    /\ accepting' = FALSE
    /\ UNCHANGED <<peerVars, taken, got, last, ready, cur, main>>

(* handle_accept with an error: logged, then handled like a connection, whose
   unconnected socket makes the write of start_session throw.                 *)
HandleAcceptError ==
    /\ pc = "poll" /\ IoRunning /\ accepting
    /\ nextId < MaxId
    /\ nextId' = nextId + 1
    /\ clients' = [clients EXCEPT ![nextId + 1] = Broken]
    /\ sock' = SockClosed({clients[nextId + 1]})
    /\ accepting' = FALSE
    /\ pc' = "dead"
    /\ UNCHANGED <<peerVars, taken, got, last, loop, ready, cur, main>>

AcceptFails == AcceptorOpen /\ HandleAcceptError     \* the system refuses
AcceptAborted == ~AcceptorOpen /\ HandleAcceptError  \* stop() closed it

NoOnConnect ==
    /\ pc = "onConnect" /\ main = "ctor"
    /\ pc' = "rearm"
    /\ UNCHANGED <<peerVars, taken, got, sock, clients, nextId, last, loop,
                   ready, accepting, cur, main>>

RearmAccept ==
    /\ pc = "rearm"
    /\ pc' = "poll"
    /\ accepting' = AcceptorOpen
    /\ UNCHANGED <<peerVars, taken, got, sock, clients, nextId, last, loop,
                   ready, cur, main>>

-----------------------------------------------------------------------------
(* The I/O thread: reading.                                                   *)

LoopIs(c, st, data) ==
    [loop EXCEPT ![c] = [st |-> st, id |-> @.id, on |-> @.on, data |-> data]]

LoopEnded(c) == LoopIs(c, "none", <<>>)

(* Mutant: a read returns again what an earlier one has returned.             *)
ReadsAgain(c) ==
    /\ pc = "poll" /\ IoRunning /\ loop[c].st = "armed"
    /\ LET s == loop[c].on IN
       \/ /\ sock[s] = "open"
          /\ \E n \in 1..(sent[s] - taken[s]) :
                loop' = LoopIs(c, "data", [i \in 1..n |-> <<s, taken[s] + i>>])
       \/ /\ sock[s] = "closed" \/ peer[s] = "gone"
          /\ loop' = LoopIs(c, "error", <<>>)
    /\ ready' = Append(ready, c)
    /\ UNCHANGED <<peerVars, taken, got, sock, clients, nextId, last, accepting,
                   pc, cur, main>>

(* The reactor completes the read of loop c: with whatever part of the bytes
   has arrived, or with the end, a reset or an abort.                         *)
ReadCompletes(c) ==
    /\ pc = "poll" /\ IoRunning /\ loop[c].st = "armed"
    /\ LET s == loop[c].on IN
       \/ /\ sock[s] = "open"
          /\ \E n \in 1..(sent[s] - taken[s]) :
                /\ taken' = [taken EXCEPT ![s] = @ + n]
                /\ loop' = LoopIs(c, "data", [i \in 1..n |-> <<s, taken[s] + i>>])
       \/ /\ sock[s] = "closed" \/ peer[s] = "gone"
          /\ loop' = LoopIs(c, "error", <<>>)
          /\ UNCHANGED taken
    /\ ready' = Append(ready, c)
    /\ UNCHANGED <<peerVars, got, sock, clients, nextId, last, accepting, pc,
                   cur, main>>

(* The I/O thread calls the handler of loop c, whose turn it is.              *)
Handling(c, states) ==
    /\ pc = "poll" /\ IoRunning
    /\ ready # <<>> /\ c = Head(ready) /\ loop[c].st \in states
    /\ ready' = Tail(ready)

(* handle_incoming_data finds no session under the captured id.               *)
HandleUnknown(c) ==
    /\ Handling(c, {"data", "error"})
    /\ loop[c].id \notin Live
    /\ loop' = LoopEnded(c)
    /\ UNCHANGED <<peerVars, taken, got, sock, clients, nextId, last,
                   accepting, pc, cur, main>>

(* Mutant: the counter steps back twice.                                      *)
HandleReadErrorTwoDown(c) ==
    /\ Handling(c, {"error"})
    /\ loop[c].id \in Live
    /\ clients' = [clients EXCEPT ![loop[c].id] = None]
    /\ sock' = SockClosed({clients[loop[c].id]})
    /\ nextId' = nextId - 2
    /\ loop' = LoopEnded(c)
    /\ UNCHANGED <<peerVars, taken, got, last, accepting, pc, cur, main>>

(* Mutant: the session is not erased.                                         *)
HandleReadErrorKept(c) ==
    /\ Handling(c, {"error"})
    /\ loop[c].id \in Live
    /\ nextId' = IF nextId = 0 THEN MaxId ELSE nextId - 1
    /\ loop' = LoopEnded(c)
    /\ UNCHANGED <<peerVars, taken, got, sock, clients, last, accepting, pc, cur, main>>

(* handle_incoming_data with an error: the session now under the captured id
   is erased and the id counter steps back (unsigned, so below 0 is MaxId).
   _onDisconnect looks the counter up in a list of players that is always
   empty, so it changes nothing.                                              *)
HandleReadError(c) ==
    /\ Handling(c, {"error"})
    /\ loop[c].id \in Live
    /\ clients' = [clients EXCEPT ![loop[c].id] = None]
    /\ sock' = SockClosed({clients[loop[c].id]})
    /\ nextId' = IF nextId = 0 THEN MaxId ELSE nextId - 1
    /\ loop' = LoopEnded(c)
    /\ UNCHANGED <<peerVars, taken, got, last, accepting, pc, cur, main>>

(* handle_incoming_data with data, up to the callback.                        *)
HandleReadData(c) ==
    /\ Handling(c, {"data"})
    /\ loop[c].id \in Live
    /\ last' = loop[c].id
    /\ cur' = c
    /\ pc' = "onMessage"
    /\ UNCHANGED <<peerVars, taken, got, sock, clients, nextId, loop,
                   accepting, main>>

(* Another read into the same buffer has completed since; it waits to be
   handled.                                                                   *)
Overwritten ==
    \E c \in Conn \ {cur} : loop[c].st = "data" /\ loop[c].on = loop[cur].on

(* The bytes handed to the callback: the read filled the buffer of the session
   it was started on, the handler copies the buffer of the one it finds.      *)
Message ==
    IF clients[loop[cur].id] = loop[cur].on /\ ~Overwritten
    THEN loop[cur].data ELSE <<Garbage>>

(* An empty std::function throws bad_function_call out of run().              *)
NoOnMessage ==
    /\ pc = "onMessage" /\ main \in {"ctor", "hooked"}
    /\ pc' = "dead"
    /\ cur' = None
    /\ loop' = LoopEnded(cur)
    /\ UNCHANGED <<peerVars, taken, got, sock, clients, nextId, last,
                   ready, accepting, main>>

(* Mutant: no further read is started.                                        *)
ReadOnlyOnce ==
    /\ pc = "rearmRead"
    /\ pc' = "poll"
    /\ cur' = None
    /\ loop' = LoopEnded(cur)
    /\ UNCHANGED <<peerVars, taken, got, sock, clients, nextId, last,
                   ready, accepting, main>>

(* The rest of handle_incoming_data, through the reference to the session it
   took before the callback.                                                  *)
RearmRead ==
    /\ pc = "rearmRead"
    /\ cur' = None
    /\ LET id == loop[cur].id IN
       \/ /\ clients[id] \in Conn
          /\ loop' = [loop EXCEPT ![cur] = [st |-> "armed", id |-> id,
                                            on |-> clients[id], data |-> <<>>]]
          /\ pc' = "poll"
       \/ /\ clients[id] \notin Conn
          /\ pc' = "undefined"
          /\ UNCHANGED loop
    /\ UNCHANGED <<peerVars, taken, got, sock, clients, nextId, last,
                   ready, accepting, main>>

IoExits ==
    /\ pc = "poll" /\ ~IoRunning
    /\ pc' = "exited"
    /\ UNCHANGED <<peerVars, taken, got, sock, clients, nextId, last, loop,
                   ready, accepting, cur, main>>

-----------------------------------------------------------------------------
(* The owning thread: stop(), called by the destructor.                       *)

StopAccepting ==
    /\ main = "serving"
    /\ main' = "acceptorClosed"
    /\ UNCHANGED <<peerVars, taken, got, sock, clients, nextId, last, loop,
                   ready, accepting, pc, cur>>

StopIo ==
    /\ main = "acceptorClosed"
    /\ main' = "ioStopped"
    /\ UNCHANGED <<peerVars, taken, got, sock, clients, nextId, last, loop,
                   ready, accepting, pc, cur>>

(* The loop over _clients.  Nothing keeps the I/O thread out of the table: in
   the middle of a handler the loop may miss sessions or follow a freed node. *)
CloseSessions ==
    /\ main = "ioStopped"
    /\ \/ \E S \in SUBSET {c \in Conn : \E k \in Id : clients[k] = c} :
             /\ InHandler \/ \A k \in Id : clients[k] \in Conn => clients[k] \in S
             /\ sock' = SockClosed(S)
             /\ main' = "joining"
       \/ InHandler /\ main' = "crashed" /\ UNCHANGED sock
    /\ UNCHANGED <<peerVars, taken, got, clients, nextId, last, loop,
                   ready, accepting, pc, cur>>

Join ==
    /\ main = "joining" /\ pc \in {"exited", "dead"}
    /\ main' = "stopped"
    /\ clients' = [k \in Id |-> None]
    /\ sock' = SockClosed({clients[k] : k \in Id})
    /\ UNCHANGED <<peerVars, taken, got, nextId, last, loop, ready,
                   accepting, pc, cur>>

=============================================================================
