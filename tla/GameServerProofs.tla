-------------------------- MODULE GameServerProofs --------------------------
(* Proofs about GameServer: its types, the ids, the table of sessions and the
   read loops, what the pair is told, and that it implements Relay, for any
   number of connections and messages.                                        *)
EXTENDS GameServer, FiniteSetTheorems, TLAPS

(* What every step of the I/O thread and of the owning thread does to the
   types; the type invariant is inductive (server.h:54-83).                   *)
LEMMA TypeInit == Init => TypeOK
  BY ConnAssumption, NoneAssumption, MaxIdAssumption, MaxSendsAssumption
     DEF Init, ServerInit, TypeOK, Id, Loop, LoopState, IoPlaces, MainPlaces, Item

LEMMA TypeStep == TypeOK /\ [Next]_vars => TypeOK'
<1> SUFFICES ASSUME TypeOK, [Next]_vars PROVE TypeOK'
  OBVIOUS
<1> USE ConnAssumption, NoneAssumption, MaxIdAssumption, MaxSendsAssumption
<1>a. Id \subseteq Nat /\ 0 \in Id
  BY DEF Id
<1>b. \A c \in Conn, st \in LoopState, data \in Seq(Item) :
        LoopIs(c, st, data) \in [Conn -> Loop]
  <2> SUFFICES ASSUME NEW c \in Conn, NEW st \in LoopState,
                      NEW data \in Seq(Item)
               PROVE  LoopIs(c, st, data) \in [Conn -> Loop]
    OBVIOUS
  <2>1. loop \in [Conn -> Loop] /\ loop[c].id \in Id /\ loop[c].on \in Conn
    BY DEF TypeOK, Loop
  <2>2. [st |-> st, id |-> loop[c].id, on |-> loop[c].on, data |-> data] \in Loop
    BY <2>1 DEF Loop
  <2> QED
    BY <2>1, <2>2 DEF LoopIs
<1>e. <<>> \in Seq(Item) /\ {"none", "data", "error"} \subseteq LoopState
  BY DEF LoopState
<1>c. ready # <<>> => Tail(ready) \in Seq(Conn)
  BY DEF TypeOK
<1>d. \A S : SockClosed(S) \in [Conn -> {"none", "open", "closed"}]
  BY DEF TypeOK, SockClosed
<1>1. ASSUME NEW c \in Conn, PeerConnects(c) \/ PeerSends(c) \/ PeerLeaves(c),
             UNCHANGED clientIds
      PROVE  TypeOK'
  <2>1. UNCHANGED serverVars /\ UNCHANGED clientIds
    BY <1>1 DEF PeerConnects, PeerSends, PeerLeaves
  <2>2. peer' \in [Conn -> {"idle", "up", "gone"}]
    BY <1>1 DEF TypeOK, PeerConnects, PeerSends, PeerLeaves
  <2>3. CASE UNCHANGED sent
    BY <2>1, <2>2, <2>3 DEF TypeOK, serverVars
  <2>4. CASE PeerSends(c)
    <3>1. sent' \in [Conn -> 0..MaxSends]
      BY <2>4 DEF TypeOK, PeerSends
    <3> QED
      BY <2>1, <2>2, <3>1 DEF TypeOK, serverVars
  <2> QED
    BY <1>1, <2>3, <2>4 DEF PeerConnects, PeerLeaves
<1>2. ASSUME NEW c \in Conn, HandleAccept(c), UNCHANGED clientIds
      PROVE  TypeOK'
  <2>1. nextId + 1 \in Id
    BY <1>2 DEF TypeOK, HandleAccept, Id
  <2>2. [st |-> "armed", id |-> nextId + 1, on |-> c, data |-> <<>>] \in Loop
    BY <2>1 DEF Loop, LoopState
  <2> QED
    BY <1>2, <2>1, <2>2
       DEF TypeOK, HandleAccept, peerVars, SockClosed, IoPlaces
<1>3. ASSUME HandleAcceptError, UNCHANGED clientIds
      PROVE  TypeOK'
  <2>1. nextId + 1 \in Id
    BY <1>3 DEF TypeOK, HandleAcceptError, Id
  <2> QED
    BY <1>3, <1>d, <2>1 DEF TypeOK, HandleAcceptError, peerVars, IoPlaces
<1>4. ASSUME NEW c \in Conn, ReadCompletes(c), UNCHANGED clientIds
      PROVE  TypeOK'
  <2> DEFINE s == loop[c].on
  <2>1. s \in Conn
    BY DEF TypeOK, Loop
  <2>2. ASSUME NEW n \in 1..(sent[s] - taken[s])
        PROVE  /\ [i \in 1..n |-> <<s, taken[s] + i>>] \in Seq(Item)
               /\ taken[s] + n \in 0..MaxSends
    <3>1. n \in Nat /\ taken[s] \in Nat /\ sent[s] \in 0..MaxSends
      BY <2>1, <2>2 DEF TypeOK
    <3>2. \A i \in 1..n : <<s, taken[s] + i>> \in Item
      BY <2>1, <3>1 DEF Item
    <3> QED
      BY <2>2, <3>1, <3>2
  <2>3. taken' \in [Conn -> 0..MaxSends]
    BY <1>4, <2>1, <2>2 DEF TypeOK, ReadCompletes
  <2>4. loop' \in [Conn -> Loop]
    <3>1. CASE \E n \in 1..(sent[s] - taken[s]) :
                 loop' = LoopIs(c, "data", [i \in 1..n |-> <<s, taken[s] + i>>])
      <4>1. PICK n \in 1..(sent[s] - taken[s]) :
                 loop' = LoopIs(c, "data", [i \in 1..n |-> <<s, taken[s] + i>>])
        BY <3>1
      <4> DEFINE data == [i \in 1..n |-> <<s, taken[s] + i>>]
      <4>2. data \in Seq(Item) /\ loop' = LoopIs(c, "data", data)
        BY <2>2, <4>1
      <4> HIDE DEF data
      <4> QED
        BY <1>b, <1>e, <4>2
    <3>2. CASE loop' = LoopIs(c, "error", <<>>)
      BY <1>b, <1>e, <3>2
    <3> QED
      BY <1>4, <3>1, <3>2 DEF ReadCompletes
  <2>5. ready' \in Seq(Conn)
    BY <1>4 DEF TypeOK, ReadCompletes
  <2> QED
    BY <1>4, <2>3, <2>4, <2>5 DEF TypeOK, ReadCompletes, peerVars
<1>5. ASSUME NEW c \in Conn,
             HandleUnknown(c) \/ HandleReadError(c) \/ HandleReadData(c),
             UNCHANGED clientIds
      PROVE  TypeOK'
  <2>1. LoopEnded(c) \in [Conn -> Loop]
    BY <1>b, <1>e DEF LoopEnded
  <2>2. ready' \in Seq(Conn)
    BY <1>5, <1>c DEF HandleUnknown, HandleReadError, HandleReadData, Handling
  <2>3. loop[c].id \in Id
    BY DEF TypeOK, Loop
  <2>4. CASE HandleUnknown(c)
    BY <1>5, <2>1, <2>2, <2>4 DEF TypeOK, HandleUnknown, peerVars
  <2>5. CASE HandleReadError(c)
    <3>1. nextId' \in Id
      BY <2>5 DEF TypeOK, HandleReadError, Id
    <3> QED
      BY <1>5, <1>d, <2>1, <2>2, <2>3, <2>5, <3>1
         DEF TypeOK, HandleReadError, peerVars
  <2>6. CASE HandleReadData(c)
    BY <1>5, <2>2, <2>3, <2>6 DEF TypeOK, HandleReadData, peerVars, IoPlaces
  <2> QED
    BY <1>5, <2>4, <2>5, <2>6
<1>6. ASSUME NoOnConnect \/ RearmAccept \/ IoExits, UNCHANGED clientIds
      PROVE  TypeOK'
  <2>1. UNCHANGED <<peerVars, taken, got, sock, clients, nextId, last, loop,
                    ready, cur, main, clientIds>>
    BY <1>6 DEF NoOnConnect, RearmAccept, IoExits
  <2>2. pc' \in {"rearm", "poll", "exited"}
    BY <1>6 DEF NoOnConnect, RearmAccept, IoExits
  <2>3. accepting' = accepting \/ accepting' = AcceptorOpen
    BY <1>6 DEF NoOnConnect, RearmAccept, IoExits
  <2>4. accepting' \in BOOLEAN
    <3>1. accepting \in BOOLEAN /\ AcceptorOpen \in BOOLEAN
      BY DEF TypeOK, AcceptorOpen
    <3> QED
      BY <2>3, <3>1
  <2> QED
    BY <2>1, <2>2, <2>4 DEF TypeOK, peerVars, IoPlaces
<1>7. ASSUME NoOnMessage, UNCHANGED clientIds
      PROVE  TypeOK'
  <2>1. LoopEnded(cur) \in [Conn -> Loop]
    <3>1. cur \in Conn
      BY <1>7 DEF TypeOK, NoOnMessage
    <3> QED
      BY <1>b, <1>e, <3>1 DEF LoopEnded
  <2> QED
    BY <1>7, <2>1 DEF TypeOK, NoOnMessage, peerVars, IoPlaces
<1>8. ASSUME RearmRead, UNCHANGED clientIds
      PROVE  TypeOK'
  <2>1. CASE clients[loop[cur].id] \in Conn /\ cur \in Conn
    <3>1. [st |-> "armed", id |-> loop[cur].id, on |-> clients[loop[cur].id],
           data |-> <<>>] \in Loop
      BY <2>1 DEF TypeOK, Loop, LoopState
    <3> QED
      BY <1>8, <2>1, <3>1 DEF TypeOK, RearmRead, peerVars, IoPlaces
  <2>2. CASE cur \notin Conn
    BY <1>8, <2>2 DEF TypeOK, RearmRead, peerVars, IoPlaces
  <2>3. CASE clients[loop[cur].id] \notin Conn
    BY <1>8, <2>3 DEF TypeOK, RearmRead, peerVars, IoPlaces
  <2> QED
    BY <2>1, <2>2, <2>3
<1>9. CASE OnConnect
  BY <1>9 DEF TypeOK, OnConnect, IoPlaces, Live
<1>10. ASSUME NEW k \in Id, NEW items \in Seq(Item), SendTo(k, items)
       PROVE  /\ got' \in [Conn -> Seq(Item)]
              /\ sock' \in [Conn -> {"none", "open", "closed"}]
              /\ clients' \in [Id -> Conn \cup {None, Broken}]
  <2>1. \A c \in Conn : [got EXCEPT ![c] = @ \o items] \in [Conn -> Seq(Item)]
    BY DEF TypeOK
  <2>2. clients[k] \in Conn => got' \in [Conn -> Seq(Item)]
    BY <1>10, <2>1 DEF TypeOK, SendTo, Delivered
  <2>3. clients[k] \notin Conn => got' \in [Conn -> Seq(Item)]
    BY <1>10 DEF TypeOK, SendTo, Delivered
  <2>4. clients' \in [Id -> Conn \cup {None, Broken}]
    BY <1>10 DEF TypeOK, SendTo
  <2> QED
    BY <1>10, <1>d, <2>2, <2>3, <2>4 DEF TypeOK, SendTo
<1>11. CASE SendBlack \/ SendWhite
  <2>1. <<Black>> \in Seq(Item) /\ <<White>> \in Seq(Item)
    BY DEF Black, White, Item
  <2>2. clientIds[1] \in Id /\ clientIds[2] \in Id
    BY DEF TypeOK
  <2> QED
    BY <1>10, <1>11, <2>1, <2>2
       DEF TypeOK, SendBlack, SendWhite, SendData, IoPlaces
<1>12. CASE OnMessage
  <2>1. clientIds[1] \in Id /\ clientIds[2] \in Id
    BY DEF TypeOK
  <2>2. Message \in Seq(Item)
    <3>1. loop[cur] \in Loop
      BY <1>12 DEF TypeOK, OnMessage
    <3>2. <<Garbage>> \in Seq(Item)
      BY DEF Garbage, Item
    <3> QED
      BY <3>1, <3>2 DEF Message, Loop
  <2>3. cur \in Conn
    BY <1>12 DEF TypeOK, OnMessage
  <2>4. /\ got' \in [Conn -> Seq(Item)]
        /\ sock' \in [Conn -> {"none", "open", "closed"}]
        /\ clients' \in [Id -> Conn \cup {None, Broken}]
    BY <1>10, <1>12, <2>1, <2>2 DEF TypeOK, OnMessage, SendString
  <2> QED
    BY <1>12, <2>3, <2>4 DEF TypeOK, OnMessage, IoPlaces
<1>13. CASE SetOnConnect \/ AddOnMessage
  BY <1>13 DEF TypeOK, SetOnConnect, AddOnMessage, MainPlaces
<1>14. ASSUME StopAccepting \/ StopIo \/ CloseSessions \/ Join,
              UNCHANGED clientIds
       PROVE  TypeOK'
  <2>1. UNCHANGED <<peerVars, taken, got, nextId, last, loop, ready, accepting,
                    pc, cur, clientIds>>
    BY <1>14 DEF StopAccepting, StopIo, CloseSessions, Join
  <2>2. clients' \in [Id -> Conn \cup {None, Broken}] /\ main' \in MainPlaces
    BY <1>14 DEF TypeOK, StopAccepting, StopIo, CloseSessions, Join, MainPlaces
  <2>3. sock' \in [Conn -> {"none", "open", "closed"}]
    BY <1>14, <1>d DEF TypeOK, StopAccepting, StopIo, CloseSessions, Join
  <2> QED
    BY <2>1, <2>2, <2>3 DEF TypeOK, peerVars
<1>15. CASE UNCHANGED vars
  BY <1>15 DEF TypeOK, vars
<1> QED
  BY <1>1, <1>2, <1>3, <1>4, <1>5, <1>6, <1>7, <1>8, <1>9, <1>11, <1>12,
     <1>13, <1>14, <1>15
     DEF Next, IoNext, IoStep, StartNext, StopNext, EnvNext, AcceptFails,
         AcceptAborted

(* GameServer keeps its types, for every set of connections and every bound on
   ids and messages.                                                          *)
THEOREM TypeCorrect == Spec => []TypeOK
  BY TypeInit, TypeStep, PTL DEF Spec

-----------------------------------------------------------------------------

(* The four things a step can do to the table and the id counter: nothing, an
   entry under the next id, an entry removed, all entries removed.            *)
LEMMA TableStep ==
    ASSUME TypeOK, [Next]_vars
    PROVE  \/ UNCHANGED <<clients, nextId>>
           \/ /\ nextId < MaxId /\ nextId' = nextId + 1
              /\ \E x \in Conn \cup {Broken} :
                     clients' = [clients EXCEPT ![nextId + 1] = x]
           \/ \E k \in Live :
                 /\ clients' = [clients EXCEPT ![k] = None]
                 /\ \/ nextId' = nextId
                    \/ nextId' = IF nextId = 0 THEN MaxId ELSE nextId - 1
           \/ clients' = [k \in Id |-> None] /\ nextId' = nextId
<1>1. ASSUME NEW k, NEW items, k \in Live \/ UNCHANGED clients,
             SendTo(k, items) \/ UNCHANGED clients
      PROVE  \/ UNCHANGED clients
             \/ \E j \in Live : clients' = [clients EXCEPT ![j] = None]
  BY <1>1 DEF SendTo
<1>2. CASE SendBlack \/ SendWhite \/ OnMessage
  <2>1. nextId' = nextId
    BY <1>2 DEF SendBlack, SendWhite, OnMessage
  <2>2. \/ UNCHANGED clients
        \/ \E j \in Live : clients' = [clients EXCEPT ![j] = None]
    BY <1>2, <1>1 DEF SendBlack, SendWhite, OnMessage, SendData, SendString
  <2> QED
    BY <2>1, <2>2
<1>3. ASSUME NEW c \in Conn, HandleAccept(c)
      PROVE  /\ nextId < MaxId /\ nextId' = nextId + 1
             /\ clients' = [clients EXCEPT ![nextId + 1] = c]
  BY <1>3 DEF HandleAccept
<1>4. ASSUME HandleAcceptError
      PROVE  /\ nextId < MaxId /\ nextId' = nextId + 1
             /\ clients' = [clients EXCEPT ![nextId + 1] = Broken]
  BY <1>4 DEF HandleAcceptError
<1>5. ASSUME NEW c \in Conn, HandleReadError(c)
      PROVE  /\ loop[c].id \in Live
             /\ clients' = [clients EXCEPT ![loop[c].id] = None]
             /\ nextId' = IF nextId = 0 THEN MaxId ELSE nextId - 1
  BY <1>5 DEF HandleReadError
<1>6. ASSUME NEW c \in Conn, \/ ReadCompletes(c) \/ HandleUnknown(c)
                             \/ HandleReadData(c) \/ PeerConnects(c)
                             \/ PeerSends(c) \/ PeerLeaves(c)
      PROVE  UNCHANGED <<clients, nextId>>
  BY <1>6 DEF ReadCompletes, HandleUnknown, HandleReadData, PeerConnects,
              PeerSends, PeerLeaves, serverVars
<1>7. CASE \/ NoOnConnect \/ RearmAccept \/ NoOnMessage \/ RearmRead \/ IoExits
           \/ OnConnect \/ SetOnConnect \/ AddOnMessage \/ StopAccepting
           \/ StopIo \/ CloseSessions
  BY <1>7 DEF NoOnConnect, RearmAccept, NoOnMessage, RearmRead, IoExits,
              OnConnect, SetOnConnect, AddOnMessage, StopAccepting, StopIo,
              CloseSessions
<1>8. CASE Join
  BY <1>8 DEF Join
<1>9. CASE UNCHANGED vars
  BY <1>9 DEF vars
<1> QED
  BY <1>2, <1>3, <1>4, <1>5, <1>6, <1>7, <1>8, <1>9
     DEF Next, IoNext, IoStep, StartNext, StopNext, EnvNext, AcceptFails,
         AcceptAborted

(* The id counter stays above the number of sessions and every id above the
   two the program uses as "nobody" (server.cpp:194, 284).                    *)
LEMMA IdsStep ==
    ASSUME TypeOK, IdsAboveSentinel, [Next]_vars
    PROVE  IdsAboveSentinel'
<1> USE MaxIdAssumption, NoneAssumption DEF Id
<1>1. IsFiniteSet(Live) /\ Cardinality(Live) \in Nat
  <2>1. IsFiniteSet(Id)
    BY FS_Interval
  <2> QED
    BY <2>1, FS_Subset, FS_CardinalityType DEF Live
<1>2. CASE UNCHANGED <<clients, nextId>>
  BY <1>2 DEF IdsAboveSentinel, Live
<1>3. ASSUME NEW x \in Conn \cup {Broken}, nextId < MaxId,
             nextId' = nextId + 1,
             clients' = [clients EXCEPT ![nextId + 1] = x]
      PROVE  IdsAboveSentinel'
  <2>1. nextId + 1 \in Id /\ nextId \in Nat
    BY <1>3 DEF TypeOK
  <2>2. Live' = Live \cup {nextId + 1}
    BY <1>3, <2>1 DEF TypeOK, Live
  <2>3. Cardinality(Live') <= Cardinality(Live) + 1
    BY <1>1, <2>2, FS_AddElement
  <2>4. Cardinality(Live') \in Nat
    BY <1>1, <2>2, FS_AddElement, FS_CardinalityType
  <2> QED
    BY <1>1, <1>3, <2>1, <2>2, <2>3, <2>4 DEF IdsAboveSentinel
<1>4. ASSUME NEW k \in Live,
             clients' = [clients EXCEPT ![k] = None],
             \/ nextId' = nextId
             \/ nextId' = IF nextId = 0 THEN MaxId ELSE nextId - 1
      PROVE  IdsAboveSentinel'
  <2>1. Live' = Live \ {k}
    BY <1>4 DEF TypeOK, Live
  <2>2. Cardinality(Live') = Cardinality(Live) - 1
    BY <1>1, <2>1, FS_RemoveElement
  <2>3. Cardinality(Live) >= 1
    BY <1>1, <2>2, <2>1, FS_RemoveElement, FS_CardinalityType
  <2> QED
    BY <1>1, <1>4, <2>1, <2>2, <2>3 DEF IdsAboveSentinel, TypeOK
<1>5. CASE clients' = [k \in Id |-> None] /\ nextId' = nextId
  <2>1. Live' = {}
    BY <1>5 DEF Live
  <2>2. Cardinality(Live') = 0
    BY <2>1, FS_EmptySet
  <2> QED
    BY <1>1, <1>5, <2>1, <2>2 DEF IdsAboveSentinel, TypeOK
<1> QED
  BY <1>2, <1>3, <1>4, <1>5, TableStep

-----------------------------------------------------------------------------

(* A step that touches neither the table nor the sockets nor the read loops nor
   the id counter.                                                            *)
Quiet == UNCHANGED <<clients, sock, loop, nextId>>

LEMMA QuietStep ==
    ASSUME \/ \E c \in Conn : \/ PeerConnects(c) \/ PeerSends(c)
                              \/ PeerLeaves(c) \/ HandleReadData(c)
           \/ NoOnConnect \/ RearmAccept \/ IoExits \/ OnConnect
           \/ SetOnConnect \/ AddOnMessage \/ StopAccepting \/ StopIo
           \/ UNCHANGED vars
    PROVE  Quiet
BY DEF Quiet, PeerConnects, PeerSends, PeerLeaves, HandleReadData, NoOnConnect,
       RearmAccept, IoExits, OnConnect, SetOnConnect, AddOnMessage,
       StopAccepting, StopIo, serverVars, vars

(* Only the first and the last use of a socket are of interest below: closing
   leaves the sockets of connections that were never accepted alone.          *)
LEMMA ClosedSock ==
    ASSUME NEW S, NEW c \in Conn
    PROVE  SockClosed(S)[c] = IF c \in S THEN "closed" ELSE sock[c]
BY DEF SockClosed

(* A connection that was not accepted has no session (server.cpp:201).        *)
LEMMA NotAcceptedStep ==
    ASSUME TypeOK, NotAcceptedInv, [Next]_vars
    PROVE  NotAcceptedInv'
<1> USE NoneAssumption
<1>1. SUFFICES ASSUME NEW c \in Conn, sock'[c] = "none", NEW k \in Id,
                      clients'[k] = c
               PROVE  FALSE
  BY DEF NotAcceptedInv
<1>2. sock[c] = "none" => clients[k] # c
  BY DEF NotAcceptedInv
<1>3. ASSUME NEW S, sock' = SockClosed(S) \/ sock' = sock
      PROVE  sock[c] = "none"
  BY <1>1, <1>3, ClosedSock
<1>4. CASE Quiet
  BY <1>1, <1>2, <1>4 DEF Quiet
<1>5. ASSUME NEW d \in Conn, HandleAccept(d)
      PROVE  FALSE
  <2>1. d # c
    BY <1>1, <1>5 DEF HandleAccept, TypeOK, SockClosed
  <2>2. clients[k] = c
    BY <1>1, <1>5, <2>1 DEF HandleAccept, TypeOK
  <2>3. sock[c] = "none"
    BY <1>1, <1>5, <2>1 DEF HandleAccept, TypeOK, SockClosed
  <2> QED
    BY <1>2, <2>2, <2>3
<1>6. CASE HandleAcceptError
  BY <1>1, <1>2, <1>3, <1>6 DEF HandleAcceptError, TypeOK
<1>7. ASSUME NEW d \in Conn, ReadCompletes(d) \/ HandleUnknown(d)
      PROVE  FALSE
  BY <1>1, <1>2, <1>7 DEF ReadCompletes, HandleUnknown
<1>8. ASSUME NEW d \in Conn, HandleReadError(d)
      PROVE  FALSE
  BY <1>1, <1>2, <1>3, <1>8 DEF HandleReadError, TypeOK
<1>9. CASE NoOnMessage \/ RearmRead
  BY <1>1, <1>2, <1>9 DEF NoOnMessage, RearmRead
<1>10. ASSUME NEW j, NEW items, SendTo(j, items) \/ UNCHANGED <<sock, clients>>
       PROVE  FALSE
  BY <1>1, <1>2, <1>3, <1>10 DEF SendTo, TypeOK
<1>11. CASE SendBlack \/ SendWhite \/ OnMessage
  BY <1>10, <1>11 DEF SendBlack, SendWhite, OnMessage, SendData, SendString
<1>12. CASE CloseSessions \/ Join
  BY <1>1, <1>2, <1>3, <1>12 DEF CloseSessions, Join
<1> QED
  BY <1>4, <1>5, <1>6, <1>7, <1>8, <1>9, <1>11, <1>12, QuietStep
     DEF Next, IoNext, IoStep, StartNext, StopNext, EnvNext, AcceptFails,
         AcceptAborted

(* Every session keeps a read loop of its own (server.cpp:218-320).           *)
LEMMA SessionsStep ==
    ASSUME TypeOK, SessionsAreRead, NotAcceptedInv, HandlerInv, [Next]_vars
    PROVE  SessionsAreRead'
<1> USE NoneAssumption
<1>1. SUFFICES ASSUME pc' # "dead", NEW k \in Id, clients'[k] # None
               PROVE  /\ clients'[k] \in Conn
                      /\ loop'[clients'[k]].st # "none"
                      /\ loop'[clients'[k]].id = k
                      /\ loop'[clients'[k]].on = clients'[k]
  BY DEF SessionsAreRead, Live
<1>2. pc # "dead"
  BY <1>1 DEF Next, IoNext, IoStep, StartNext, StopNext, EnvNext, AcceptFails,
         AcceptAborted, HandleAccept, HandleAcceptError, ReadCompletes, Handling,
         HandleUnknown, HandleReadError, HandleReadData, NoOnConnect,
         RearmAccept, NoOnMessage, RearmRead, IoExits, OnConnect, SendBlack,
         SendWhite, OnMessage, SetOnConnect, AddOnMessage, StopAccepting,
         StopIo, CloseSessions, Join, PeerConnects, PeerSends, PeerLeaves,
         serverVars, vars
<1>3. clients[k] # None => /\ clients[k] \in Conn
                           /\ loop[clients[k]].st # "none"
                           /\ loop[clients[k]].id = k
                           /\ loop[clients[k]].on = clients[k]
  BY <1>2 DEF SessionsAreRead, Live
<1>4. CASE UNCHANGED loop /\ clients'[k] = clients[k]
  BY <1>1, <1>3, <1>4
<1>5. ASSUME NEW c \in Conn, HandleAccept(c)
      PROVE  /\ clients'[k] \in Conn
             /\ loop'[clients'[k]].st # "none"
             /\ loop'[clients'[k]].id = k
             /\ loop'[clients'[k]].on = clients'[k]
  <2>1. clients[k] # c
    BY <1>5 DEF HandleAccept, NotAcceptedInv
  <2>2. /\ clients' = [clients EXCEPT ![nextId + 1] = c]
        /\ loop' = [loop EXCEPT ![c] = [st |-> "armed", id |-> nextId + 1,
                                        on |-> c, data |-> <<>>]]
    BY <1>1, <1>5 DEF HandleAccept
  <2>3. CASE k = nextId + 1
    BY <2>2, <2>3 DEF TypeOK
  <2>4. CASE k # nextId + 1
    BY <1>1, <1>3, <2>1, <2>2, <2>4 DEF TypeOK
  <2> QED
    BY <2>3, <2>4
<1>6. ASSUME NEW c \in Conn, ReadCompletes(c)
      PROVE  /\ clients'[k] \in Conn
             /\ loop'[clients'[k]].st # "none"
             /\ loop'[clients'[k]].id = k
             /\ loop'[clients'[k]].on = clients'[k]
  <2>1. UNCHANGED clients
    BY <1>6 DEF ReadCompletes
  <2>2. PICK st, data : st # "none" /\ loop' = LoopIs(c, st, data)
    BY <1>6 DEF ReadCompletes
  <2> QED
    BY <1>1, <1>3, <2>1, <2>2 DEF TypeOK, LoopIs
<1>7. ASSUME NEW c \in Conn, HandleUnknown(c)
      PROVE  /\ clients'[k] \in Conn
             /\ loop'[clients'[k]].st # "none"
             /\ loop'[clients'[k]].id = k
             /\ loop'[clients'[k]].on = clients'[k]
  <2>1. UNCHANGED clients /\ loop' = LoopEnded(c) /\ loop[c].id \notin Live
    BY <1>7 DEF HandleUnknown
  <2>2. clients[k] # c
    BY <1>1, <1>3, <2>1 DEF Live
  <2> QED
    BY <1>1, <1>3, <2>1, <2>2 DEF TypeOK, LoopEnded, LoopIs
<1>8. ASSUME NEW c \in Conn, HandleReadError(c)
      PROVE  /\ clients'[k] \in Conn
             /\ loop'[clients'[k]].st # "none"
             /\ loop'[clients'[k]].id = k
             /\ loop'[clients'[k]].on = clients'[k]
  <2>1. /\ clients' = [clients EXCEPT ![loop[c].id] = None]
        /\ loop' = LoopEnded(c)
    BY <1>8 DEF HandleReadError
  <2>2. k # loop[c].id /\ clients'[k] = clients[k]
    BY <1>1, <2>1 DEF TypeOK
  <2>3. clients[k] # c
    BY <1>1, <1>3, <2>2
  <2> QED
    BY <1>1, <1>3, <2>1, <2>2, <2>3 DEF TypeOK, LoopEnded, LoopIs
<1>9. CASE RearmRead
  <2>1. cur \in Conn /\ clients' = clients
    BY <1>9 DEF TypeOK, RearmRead
  <2>2. CASE UNCHANGED loop
    BY <1>1, <1>3, <2>1, <2>2
  <2>3. CASE loop' = [loop EXCEPT ![cur] = [st |-> "armed", id |-> loop[cur].id,
                            on |-> clients[loop[cur].id], data |-> <<>>]]
    BY <1>1, <1>3, <2>1, <2>3 DEF TypeOK
  <2> QED
    BY <1>9, <2>2, <2>3 DEF RearmRead
<1>10. ASSUME NEW j, NEW items, SendTo(j, items) \/ UNCHANGED clients
       PROVE  clients'[k] = clients[k]
  BY <1>1, <1>10 DEF SendTo, TypeOK
<1>11. CASE SendBlack \/ SendWhite \/ OnMessage
  BY <1>4, <1>10, <1>11
     DEF SendBlack, SendWhite, OnMessage, SendData, SendString
<1>12. CASE CloseSessions \/ Join
  BY <1>1, <1>4, <1>12 DEF CloseSessions, Join
<1>13. CASE Quiet
  BY <1>4, <1>13 DEF Quiet
<1>14. CASE NoOnMessage \/ HandleAcceptError
  BY <1>1, <1>14 DEF NoOnMessage, HandleAcceptError
<1> QED
  BY <1>5, <1>6, <1>7, <1>8, <1>9, <1>11, <1>12, <1>13, <1>14, QuietStep
     DEF Next, IoNext, IoStep, StartNext, StopNext, EnvNext, AcceptFails,
         AcceptAborted

-----------------------------------------------------------------------------

(* What a handler found in the table is still there at its next step: only the
   I/O thread changes the table before stop() has joined it
   (server.cpp:147-167, 293-314).                                             *)
LEMMA HandlerStep ==
    ASSUME TypeOK, HandlerInv, IdsAboveSentinel, [Next]_vars
    PROVE  HandlerInv'
<1> USE NoneAssumption
<1>1. ASSUME UNCHANGED <<clients, clientIds>>,
             main' = main \/ main' # "stopped",
             \/ pc' = pc /\ UNCHANGED <<loop, last, cur>>
             \/ pc' \in {"poll", "dead", "rearm", "exited"} /\ main # "stopped"
      PROVE  HandlerInv'
  <2>1. UNCHANGED Live
    BY <1>1 DEF Live
  <2> QED
    BY <1>1, <2>1 DEF HandlerInv
<1>2. ASSUME NEW c \in Conn, HandleAccept(c), UNCHANGED clientIds
      PROVE  HandlerInv'
  <2>1. nextId + 1 \in Id
    BY <1>2, MaxIdAssumption DEF HandleAccept, TypeOK, Id
  <2>2. nextId + 1 \in Live'
    <3>1. clients' = [clients EXCEPT ![nextId + 1] = c]
      BY <1>2 DEF HandleAccept
    <3> QED
      BY <2>1, <3>1 DEF Live, TypeOK
  <2>3. pc' \in {"onConnect", "dead"} /\ main' = main /\ main # "stopped"
    BY <1>2 DEF HandleAccept, IoRunning
  <2> QED
    BY <1>2, <2>2, <2>3 DEF HandlerInv
<1>3. ASSUME HandleAcceptError, UNCHANGED clientIds
      PROVE  HandlerInv'
  BY <1>3 DEF HandlerInv, HandleAcceptError
<1>4. ASSUME NEW c \in Conn, HandleReadError(c), UNCHANGED clientIds
      PROVE  HandlerInv'
  BY <1>4 DEF HandlerInv, HandleReadError, Handling, IoRunning
<1>5. ASSUME NEW c \in Conn, ReadCompletes(c) \/ HandleUnknown(c),
             UNCHANGED clientIds
      PROVE  HandlerInv'
  BY <1>5 DEF HandlerInv, ReadCompletes, HandleUnknown, Handling, IoRunning
<1>6. ASSUME NEW c \in Conn, HandleReadData(c), UNCHANGED clientIds
      PROVE  HandlerInv'
  <2>1. UNCHANGED <<clients, loop, main>> /\ pc' = "onMessage" /\ cur' = c
        /\ last' = loop[c].id /\ loop[c].id \in Live /\ main # "stopped"
    BY <1>6 DEF HandleReadData, Handling, IoRunning
  <2>2. UNCHANGED Live
    BY <2>1 DEF Live
  <2> QED
    BY <1>6, <2>1, <2>2 DEF HandlerInv
<1>7. CASE OnConnect
  <2>1. UNCHANGED <<Live, main>>
    BY <1>7 DEF OnConnect, Live
  <2>2. CASE pc' = "black"
    <3>1. PICK a \in Live, b \in Live : a # b /\ clientIds' = <<a, b>>
      BY <1>7, <2>2 DEF OnConnect
    <3> QED
      BY <1>7, <2>1, <2>2, <3>1 DEF HandlerInv, OnConnect
  <2>3. CASE pc' # "black"
    BY <1>7, <2>1, <2>3 DEF HandlerInv, OnConnect
  <2> QED
    BY <2>2, <2>3
<1>8. ASSUME NEW k \in Id, NEW items, SendTo(k, items)
      PROVE  \A j \in Live \ {k} : j \in Live'
  BY <1>8 DEF SendTo, Live, TypeOK
<1>9. CASE SendBlack
  <2>1. clientIds[1] \in Live /\ clientIds[2] \in Live
    BY <1>9 DEF SendBlack, HandlerInv
  <2>2. clientIds[1] # clientIds[2]
    <3>1. clientIds # <<0, 0>>
      BY <2>1 DEF IdsAboveSentinel, TypeOK, Id
    <3> QED
      BY <3>1 DEF HandlerInv
  <2>3. clientIds[2] \in Live'
    BY <1>8, <1>9, <2>1, <2>2 DEF SendBlack, SendData, Live
  <2> QED
    BY <1>9, <2>1, <2>3 DEF SendBlack, SendData, HandlerInv
<1>10. CASE SendWhite
  BY <1>10 DEF SendWhite, SendData, HandlerInv
<1>11. CASE OnMessage
  <2>1. last \in Live /\ last = loop[cur].id
    BY <1>11 DEF OnMessage, HandlerInv
  <2>2. last # 0 /\ clientIds[1] \in Id /\ clientIds[2] \in Id
    BY <2>1 DEF IdsAboveSentinel, Id, TypeOK
  <2>3. last \in {clientIds[1], clientIds[2]} => clientIds[1] # clientIds[2]
    BY <2>2 DEF HandlerInv
  <2>4. last \in Live'
    <3>1. CASE UNCHANGED clients
      BY <2>1, <3>1 DEF Live
    <3>2. ASSUME NEW k \in Id, SendTo(k, Message), k # last
          PROVE  last \in Live'
      BY <1>8, <2>1, <3>2
    <3> QED
      BY <1>11, <2>2, <2>3, <3>1, <3>2 DEF OnMessage, SendString
  <2> QED
    BY <1>11, <2>1, <2>4 DEF OnMessage, HandlerInv
<1>12. ASSUME Join, UNCHANGED clientIds
       PROVE  HandlerInv'
  BY <1>12 DEF Join, HandlerInv
<1>13. ASSUME RearmRead, UNCHANGED clientIds
       PROVE  HandlerInv'
  BY <1>13 DEF RearmRead, HandlerInv
<1>14. ASSUME NoOnConnect \/ RearmAccept \/ NoOnMessage \/ IoExits
              \/ SetOnConnect \/ AddOnMessage \/ StopAccepting \/ StopIo
              \/ CloseSessions \/ UNCHANGED vars,
              UNCHANGED clientIds
       PROVE  HandlerInv'
  BY <1>1, <1>14 DEF NoOnConnect, RearmAccept, NoOnMessage, IoExits,
     SetOnConnect, AddOnMessage, StopAccepting, StopIo, CloseSessions, vars,
     HandlerInv
<1>15. ASSUME NEW c \in Conn, PeerConnects(c) \/ PeerSends(c) \/ PeerLeaves(c),
              UNCHANGED clientIds
       PROVE  HandlerInv'
  BY <1>1, <1>15 DEF PeerConnects, PeerSends, PeerLeaves, serverVars
<1> QED
  BY <1>2, <1>3, <1>4, <1>5, <1>6, <1>7, <1>9, <1>10, <1>11, <1>12, <1>13,
     <1>14, <1>15
     DEF Next, IoNext, IoStep, StartNext, StopNext, EnvNext, AcceptFails,
         AcceptAborted, SetOnConnect, AddOnMessage, vars

-----------------------------------------------------------------------------

(* A peer that has left stays away.                                           *)
LEMMA StayedBefore ==
    ASSUME TypeOK, [Next]_vars, AllStay'
    PROVE  AllStay
  BY DEF AllStay, Next, IoNext, IoStep, StartNext, StopNext, EnvNext,
     AcceptFails, AcceptAborted, HandleAccept, HandleAcceptError,
     ReadCompletes, HandleUnknown, HandleReadError, HandleReadData,
     NoOnConnect, RearmAccept, NoOnMessage, RearmRead, IoExits, OnConnect,
     SendBlack, SendWhite, OnMessage, SetOnConnect, AddOnMessage,
     StopAccepting, StopIo, CloseSessions, Join, PeerConnects, PeerSends,
     PeerLeaves, peerVars, vars, TypeOK

(* While nobody leaves no read fails, and no socket is closed until stop()
   closes them (server.cpp:254, 282).                                         *)
LEMMA NoErrorStep ==
    ASSUME IInv, [Next]_vars
    PROVE  NoErrorInv'
<1> USE NoneAssumption DEF IInv
<1>1. SUFFICES ASSUME AllStay'
               PROVE  /\ \A c \in Conn : loop'[c].st # "error"
                      /\ SocketsKept' => \A c \in Conn : sock'[c] # "closed"
  BY DEF NoErrorInv
<1>2. AllStay
  BY <1>1, StayedBefore DEF IInv, AllStay
<1>3. /\ \A c \in Conn : loop[c].st # "error" /\ peer[c] # "gone"
      /\ SocketsKept => \A c \in Conn : sock[c] # "closed"
      /\ \A k \in Live : k <= nextId
  BY <1>2 DEF NoErrorInv, FreshWhileAllStay, AllStay
<1> DEFINE Goal == /\ \A c \in Conn : loop'[c].st # "error"
                   /\ SocketsKept' => \A c \in Conn : sock'[c] # "closed"
<1>4. CASE Quiet /\ (UNCHANGED main \/ ~SocketsKept' \/ SocketsKept)
  BY <1>3, <1>4 DEF Quiet, SocketsKept
<1>5. nextId < MaxId => clients[nextId + 1] = None
  BY <1>3, MaxIdAssumption DEF Live, Id, TypeOK
<1>6. SockClosed({None}) = sock
  BY DEF SockClosed, TypeOK
<1>7. ASSUME NEW c \in Conn, HandleAccept(c)
      PROVE  Goal
  <2>1. UNCHANGED main /\ sock' = [sock EXCEPT ![c] = "open"]
    BY <1>5, <1>6, <1>7 DEF HandleAccept
  <2>2. \E r : /\ r.st = "armed"
               /\ loop' = loop \/ loop' = [loop EXCEPT ![c] = r]
    <3> DEFINE r == [st |-> "armed", id |-> nextId + 1, on |-> c, data |-> <<>>]
    <3>1. loop' = loop \/ loop' = [loop EXCEPT ![c] = r]
      BY <1>7 DEF HandleAccept
    <3>2. r.st = "armed"
      OBVIOUS
    <3> HIDE DEF r
    <3> QED
      BY <3>1, <3>2
  <2>3. \A d \in Conn : loop'[d].st # "error"
    BY <1>3, <2>2 DEF TypeOK
  <2>4. SocketsKept => \A d \in Conn : sock'[d] # "closed"
    BY <1>3, <2>1 DEF TypeOK
  <2> QED
    BY <2>1, <2>3, <2>4 DEF SocketsKept
<1>8. CASE HandleAcceptError
  BY <1>3, <1>5, <1>6, <1>8 DEF HandleAcceptError, SocketsKept
<1>9. ASSUME NEW c \in Conn, ReadCompletes(c)
      PROVE  Goal
  <2>1. SocketsKept
    BY <1>9 DEF ReadCompletes, IoRunning, SocketsKept
  <2>2. loop[c].on \in Conn
    BY DEF TypeOK, Loop
  <2>3. UNCHANGED <<main, sock>> /\ \E data : loop' = LoopIs(c, "data", data)
    BY <1>3, <1>9, <2>1, <2>2 DEF ReadCompletes
  <2> QED
    BY <1>3, <2>3 DEF LoopIs, TypeOK, SocketsKept
<1>10. ASSUME NEW c \in Conn, HandleReadError(c)
       PROVE  FALSE
  BY <1>3, <1>10 DEF HandleReadError, Handling
<1>11. ASSUME NEW c \in Conn, HandleUnknown(c)
       PROVE  Goal
  BY <1>3, <1>11 DEF HandleUnknown, LoopEnded, LoopIs, TypeOK, SocketsKept
<1>12. CASE NoOnMessage
  BY <1>3, <1>12 DEF NoOnMessage, LoopEnded, LoopIs, TypeOK, SocketsKept
<1>13. CASE RearmRead
  <2>1. UNCHANGED <<main, sock>>
    BY <1>13 DEF RearmRead
  <2>2. \E r : /\ r.st = "armed"
               /\ loop' = loop \/ loop' = [loop EXCEPT ![cur] = r]
    <3> DEFINE r == [st |-> "armed", id |-> loop[cur].id,
                     on |-> clients[loop[cur].id], data |-> <<>>]
    <3>1. loop' = loop \/ loop' = [loop EXCEPT ![cur] = r]
      BY <1>13 DEF RearmRead
    <3>2. r.st = "armed"
      OBVIOUS
    <3> HIDE DEF r
    <3> QED
      BY <3>1, <3>2
  <2>3. \A d \in Conn : loop'[d].st # "error"
    BY <1>3, <2>2 DEF TypeOK
  <2> QED
    BY <1>3, <2>1, <2>3 DEF SocketsKept
<1>14. ASSUME NEW k, NEW items,
              SendTo(k, items) \/ UNCHANGED sock,
              SendTo(k, items) => clients[k] \in Conn
       PROVE  SocketsKept => \A c \in Conn : sock'[c] # "closed"
  BY <1>3, <1>14 DEF SendTo, WriteMayFail, TypeOK
<1>15. CASE SendBlack \/ SendWhite \/ OnMessage
  <2>1. UNCHANGED <<loop, main>> /\ pc # "dead"
    BY <1>15 DEF SendBlack, SendWhite, OnMessage
  <2>2. \A k \in Live : clients[k] \in Conn
    BY <2>1 DEF SessionsAreRead
  <2>3. SocketsKept => \A c \in Conn : sock'[c] # "closed"
    <3>1. ASSUME NEW k, NEW items,
                 \/ k \in Live /\ SendTo(k, items)
                 \/ UNCHANGED sock
          PROVE  SocketsKept => \A c \in Conn : sock'[c] # "closed"
      BY <1>3, <1>14, <2>2, <3>1
    <3>2. CASE SendBlack \/ SendWhite
      BY <3>1, <3>2 DEF SendBlack, SendWhite, SendData
    <3>3. CASE OnMessage
      BY <3>1, <3>3 DEF OnMessage, SendString
    <3> QED
      BY <1>15, <3>2, <3>3
  <2> QED
    BY <1>3, <2>1, <2>3 DEF SocketsKept
<1>16. CASE CloseSessions \/ Join
  BY <1>3, <1>16 DEF CloseSessions, Join, SocketsKept
<1>17. ASSUME \/ \E c \in Conn : \/ PeerConnects(c) \/ PeerSends(c)
                                 \/ PeerLeaves(c) \/ HandleReadData(c)
              \/ NoOnConnect \/ RearmAccept \/ IoExits \/ OnConnect
              \/ SetOnConnect \/ AddOnMessage \/ StopAccepting \/ StopIo
              \/ UNCHANGED vars
       PROVE  Goal
  <2>1. UNCHANGED main \/ ~SocketsKept' \/ SocketsKept
    BY <1>17 DEF PeerConnects, PeerSends, PeerLeaves, HandleReadData,
       NoOnConnect, RearmAccept, IoExits, OnConnect, SetOnConnect,
       AddOnMessage, StopAccepting, StopIo, serverVars, vars, SocketsKept
  <2> QED
    BY <1>4, <1>17, <2>1, QuietStep
<1> QED
  BY <1>7, <1>8, <1>9, <1>10, <1>11, <1>12, <1>13, <1>15, <1>16, <1>17
     DEF Next, IoNext, IoStep, StartNext, StopNext, EnvNext, AcceptFails,
         AcceptAborted

(* While nobody leaves, no id is handed out twice (server.cpp:194, 284).      *)
LEMMA FreshStep ==
    ASSUME IInv, [Next]_vars
    PROVE  FreshWhileAllStay'
<1> USE NoneAssumption, MaxIdAssumption DEF IInv
<1>1. SUFFICES ASSUME AllStay', NEW k \in Id, clients'[k] # None
               PROVE  k <= nextId'
  BY DEF FreshWhileAllStay, Live
<1>2. \A c \in Conn : peer[c] # "gone"
  BY <1>1, StayedBefore DEF IInv, AllStay
<1>3. /\ clients[k] # None => k <= nextId
      /\ \A c \in Conn : loop[c].st # "error"
  BY <1>2 DEF FreshWhileAllStay, NoErrorInv, AllStay, Live
<1>4. nextId \in Nat
  BY DEF TypeOK, Id
<1>5. ASSUME NEW c \in Conn, HandleReadError(c)
      PROVE  FALSE
  BY <1>3, <1>5 DEF HandleReadError, Handling
<1>6. CASE nextId' = nextId /\ (clients' = clients \/ clients'[k] = None)
  BY <1>1, <1>3, <1>6
<1>7. CASE nextId' = nextId + 1 /\ \E x : clients' = [clients EXCEPT ![nextId + 1] = x]
  BY <1>1, <1>3, <1>4, <1>7 DEF TypeOK, Id
<1>8. ASSUME NEW c \in Conn, HandleAccept(c)
      PROVE  k <= nextId'
  BY <1>7, <1>8 DEF HandleAccept
<1>9. CASE HandleAcceptError
  BY <1>7, <1>9 DEF HandleAcceptError
<1>10. ASSUME NEW j, NEW items, SendTo(j, items) \/ UNCHANGED clients,
              UNCHANGED nextId
       PROVE  k <= nextId'
  BY <1>1, <1>3, <1>10 DEF SendTo, TypeOK
<1>11. CASE SendBlack \/ SendWhite \/ OnMessage
  BY <1>10, <1>11 DEF SendBlack, SendWhite, OnMessage, SendData, SendString
<1>12. CASE Quiet
  BY <1>6, <1>12 DEF Quiet
<1>13. CASE CloseSessions \/ Join \/ NoOnMessage \/ RearmRead
  BY <1>6, <1>13 DEF CloseSessions, Join, NoOnMessage, RearmRead
<1>14. ASSUME NEW c \in Conn, ReadCompletes(c) \/ HandleUnknown(c)
       PROVE  k <= nextId'
  BY <1>6, <1>14 DEF ReadCompletes, HandleUnknown
<1> QED
  BY <1>5, <1>8, <1>9, <1>11, <1>12, <1>13, <1>14, QuietStep
     DEF Next, IoNext, IoStep, StartNext, StopNext, EnvNext, AcceptFails,
         AcceptAborted

(* While nobody leaves, no session is lost before stop() (server.cpp:201, 282;
   server.inl:25, 46).                                                        *)
LEMMA KeptStep ==
    ASSUME IInv, [Next]_vars, NoErrorInv'
    PROVE  KeptWhileAllStay'
<1> USE NoneAssumption, MaxIdAssumption DEF IInv
<1>1. SUFFICES ASSUME AllStay', SocketsKept', NEW c \in Conn, sock'[c] # "none"
               PROVE  sock'[c] = "open" /\ \E k \in Id : clients'[k] = c
  BY DEF KeptWhileAllStay, Live
<1>2. \A d \in Conn : peer[d] # "gone"
  BY <1>1, StayedBefore DEF IInv, AllStay
<1>3. /\ SocketsKept /\ sock[c] # "none" =>
            sock[c] = "open" /\ \E k \in Id : clients[k] = c
      /\ \A d \in Conn : loop[d].st # "error"
      /\ \A k \in Id : clients[k] # None => k <= nextId
      /\ SocketsKept => \A d \in Conn : sock[d] # "closed"
  BY <1>2 DEF KeptWhileAllStay, FreshWhileAllStay, NoErrorInv, AllStay, Live
<1>4. SocketsKept
  BY <1>1 DEF SocketsKept, Next, IoNext, IoStep, StartNext, StopNext, EnvNext,
     AcceptFails, AcceptAborted, HandleAccept, HandleAcceptError,
     ReadCompletes, HandleUnknown, HandleReadError, HandleReadData,
     NoOnConnect, RearmAccept, NoOnMessage, RearmRead, IoExits, OnConnect,
     SendBlack, SendWhite, OnMessage, SetOnConnect, AddOnMessage,
     StopAccepting, StopIo, CloseSessions, Join, PeerConnects, PeerSends,
     PeerLeaves, serverVars, vars
<1>5. sock'[c] = "open"
  BY <1>1, TypeStep DEF NoErrorInv, TypeOK
<1>6. ASSUME NEW k \in Id, clients'[k] = c
      PROVE  sock'[c] = "open" /\ \E j \in Id : clients'[j] = c
  BY <1>5, <1>6
<1>7. nextId < MaxId => nextId + 1 \in Id /\ clients[nextId + 1] = None
  BY <1>3 DEF TypeOK, Id
<1> DEFINE Goal == sock'[c] = "open" /\ \E k \in Id : clients'[k] = c
<1>8. CASE sock[c] # "none" /\ clients' = clients
  BY <1>3, <1>4, <1>5, <1>8
<1>9. ASSUME sock[c] # "none", nextId < MaxId,
             NEW x, clients' = [clients EXCEPT ![nextId + 1] = x]
      PROVE  Goal
  <2>1. PICK k \in Id : clients[k] = c
    BY <1>3, <1>4, <1>9
  <2>2. clients'[k] = c
    BY <1>7, <1>9, <2>1 DEF TypeOK
  <2> QED
    BY <1>6, <2>2
<1>10. ASSUME NEW d \in Conn, HandleAccept(d)
       PROVE  Goal
  <2>1. nextId < MaxId /\ clients' = [clients EXCEPT ![nextId + 1] = d]
    BY <1>10 DEF HandleAccept
  <2>2. CASE d = c
    BY <1>6, <1>7, <2>1, <2>2 DEF TypeOK
  <2>3. CASE d # c
    <3>1. SockClosed({None}) = sock
      BY DEF SockClosed, TypeOK
    <3>2. sock' = [sock EXCEPT ![d] = "open"]
      BY <1>7, <1>10, <2>1, <3>1 DEF HandleAccept
    <3>3. sock[c] # "none"
      BY <1>1, <2>3, <3>2 DEF TypeOK
    <3> QED
      BY <1>9, <2>1, <3>3
  <2> QED
    BY <2>2, <2>3
<1>11. CASE HandleAcceptError
  <2>1. SockClosed({None}) = sock
    BY DEF SockClosed, TypeOK
  <2>2. /\ nextId < MaxId /\ sock' = SockClosed({clients[nextId + 1]})
        /\ clients' = [clients EXCEPT ![nextId + 1] = Broken]
    BY <1>11 DEF HandleAcceptError
  <2>3. sock[c] # "none"
    BY <1>1, <1>7, <2>1, <2>2
  <2> QED
    BY <1>9, <2>2, <2>3
<1>12. ASSUME NEW d \in Conn, HandleReadError(d)
       PROVE  FALSE
  BY <1>3, <1>12 DEF HandleReadError, Handling
<1>13. ASSUME NEW j \in Live, NEW items, SendTo(j, items), clients[j] \in Conn
       PROVE  sock' = sock /\ clients' = clients
  BY <1>2, <1>3, <1>4, <1>13 DEF SendTo, WriteMayFail, AllStay
<1>14. CASE SendBlack \/ SendWhite \/ OnMessage
  <2>1. \A k \in Live : clients[k] \in Conn
    BY <1>14 DEF SendBlack, SendWhite, OnMessage, SessionsAreRead
  <2>2. ASSUME NEW j, NEW items, \/ j \in Live /\ SendTo(j, items)
                                 \/ sock' = sock /\ clients' = clients
        PROVE  sock' = sock /\ clients' = clients
    BY <1>13, <2>1, <2>2
  <2>3. ASSUME SendBlack \/ SendWhite
        PROVE  sock' = sock /\ clients' = clients
    BY <2>2, <2>3 DEF SendBlack, SendWhite, SendData
  <2>4. ASSUME OnMessage
        PROVE  sock' = sock /\ clients' = clients
    BY <2>2, <2>4 DEF OnMessage, SendString
  <2>5. sock' = sock /\ clients' = clients
    BY <1>14, <2>3, <2>4
  <2> QED
    BY <1>1, <1>8, <2>5
<1>15. CASE UNCHANGED <<sock, clients>>
  BY <1>1, <1>8, <1>15
<1>16. ASSUME NEW d \in Conn, ReadCompletes(d) \/ HandleUnknown(d)
       PROVE  Goal
  BY <1>15, <1>16 DEF ReadCompletes, HandleUnknown
<1>17. CASE NoOnMessage \/ RearmRead \/ Quiet
  BY <1>15, <1>17 DEF NoOnMessage, RearmRead, Quiet
<1>18. CASE CloseSessions \/ Join
  BY <1>1, <1>18 DEF CloseSessions, Join, SocketsKept
<1> QED
  BY <1>10, <1>11, <1>12, <1>14, <1>16, <1>17, <1>18, QuietStep
     DEF Next, IoNext, IoStep, StartNext, StopNext, EnvNext, AcceptFails,
         AcceptAborted

-----------------------------------------------------------------------------

(* Every lookup of the I/O thread finds what the step before it found
   (game_server.cpp:39-42, server.cpp:314).                                   *)
LEMMA DefinedStep ==
    ASSUME IInv, [Next]_vars
    PROVE  NoUndefined'
<1> USE DEF IInv, NoUndefined
<1>1. CASE OnConnect
  <2>1. Live # {} /\ IsFiniteSet(Live)
    <3>1. IsFiniteSet(Id)
      BY MaxIdAssumption, FS_Interval DEF Id
    <3> QED
      BY <1>1, <3>1, FS_Subset DEF OnConnect, HandlerInv, Live
  <2>2. Cardinality(Live) \in Nat /\ Cardinality(Live) # 0
    BY <2>1, FS_CardinalityType, FS_EmptySet
  <2>3. Cardinality(Live) % 2 = 0 => ~(Cardinality(Live) < 2)
    <3>1. ASSUME NEW n \in Nat, n # 0, n < 2
          PROVE  n % 2 # 0
      <4>1. n = 1
        BY <3>1
      <4> QED
        BY <4>1
    <3> QED
      BY <2>2, <3>1
  <2> QED
    BY <1>1, <2>3, Zenon DEF OnConnect
<1>2. CASE SendBlack \/ SendWhite
  BY <1>2 DEF SendBlack, SendWhite, SendData, HandlerInv
<1>3. CASE RearmRead
  BY <1>3 DEF RearmRead, HandlerInv, SessionsAreRead
<1> QED
  BY <1>1, <1>2, <1>3
     DEF Next, IoNext, IoStep, StartNext, StopNext, EnvNext, AcceptFails,
         AcceptAborted, HandleAccept, HandleAcceptError, ReadCompletes,
         HandleUnknown, HandleReadError, HandleReadData, NoOnConnect,
         RearmAccept, NoOnMessage, IoExits, OnMessage, SetOnConnect,
         AddOnMessage, StopAccepting, StopIo, CloseSessions, Join,
         PeerConnects, PeerSends, PeerLeaves, serverVars, vars

-----------------------------------------------------------------------------

LEMMA IInvInit == Init => IInv
<1> SUFFICES ASSUME Init PROVE IInv
  OBVIOUS
<1> USE NoneAssumption, MaxIdAssumption DEF Init, ServerInit
<1>1. TypeOK
  BY TypeInit
<1>2. Live = {}
  BY DEF Live
<1>3. IdsAboveSentinel
  BY <1>2, FS_EmptySet DEF IdsAboveSentinel
<1>4. SessionsAreRead /\ HandlerInv /\ NoUndefined
  BY <1>2 DEF SessionsAreRead, HandlerInv, NoUndefined
<1>5. NotAcceptedInv /\ NoErrorInv
  BY DEF NotAcceptedInv, NoErrorInv
<1>6. FreshWhileAllStay /\ KeptWhileAllStay
  BY <1>2 DEF FreshWhileAllStay, KeptWhileAllStay
<1> QED
  BY <1>1, <1>3, <1>4, <1>5, <1>6 DEF IInv

LEMMA IInvStep == IInv /\ [Next]_vars => IInv'
<1> SUFFICES ASSUME IInv, [Next]_vars PROVE IInv'
  OBVIOUS
<1>1. TypeOK' /\ IdsAboveSentinel'
  BY TypeStep, IdsStep DEF IInv
<1>2. SessionsAreRead' /\ HandlerInv' /\ NotAcceptedInv'
  BY SessionsStep, HandlerStep, NotAcceptedStep DEF IInv
<1>3. NoErrorInv' /\ FreshWhileAllStay' /\ NoUndefined'
  BY NoErrorStep, FreshStep, DefinedStep
<1>4. KeptWhileAllStay'
  BY <1>3, KeptStep
<1> QED
  BY <1>1, <1>2, <1>3, <1>4 DEF IInv

LEMMA Inductive == Spec => []IInv
  BY IInvInit, IInvStep, PTL DEF Spec

(* The I/O thread never reads a table entry that is not there: not when it
   pairs two sessions, not in the unguarded send_data<T>, not through the
   session reference it keeps across the callback.                            *)
THEOREM LookupsDefined == Spec => []NoUndefined
<1>1. IInv => NoUndefined
  BY DEF IInv
<1> QED
  BY <1>1, Inductive, PTL

(* However often the id counter steps back, it stays above the number of
   sessions: it never wraps, and no session has the id 0 of "no pair".        *)
THEOREM IdsStayAbove == Spec => []IdsAboveSentinel
<1>1. IInv => IdsAboveSentinel
  BY DEF IInv
<1> QED
  BY <1>1, Inductive, PTL

(* Every session in the table has a read loop of its own until the I/O thread
   is lost.                                                                   *)
THEOREM NobodyUnread == Spec => []SessionsAreRead
<1>1. IInv => SessionsAreRead
  BY DEF IInv
<1> QED
  BY <1>1, Inductive, PTL

(* While nobody leaves, ids are fresh and every accepted connection keeps its
   session: sessions are lost to the reuse of ids only after a departure.     *)
THEOREM SessionsKept == Spec => [](FreshWhileAllStay /\ KeptWhileAllStay)
<1>1. IInv => FreshWhileAllStay /\ KeptWhileAllStay
  BY DEF IInv
<1> QED
  BY <1>1, Inductive, PTL
-----------------------------------------------------------------------------
(* Colours and messages.

   What the pair was told last, and what a completed read may still pass on.  *)

(* Who was accepted is connected, and who is read was accepted.               *)
AcceptedInv ==
    /\ \A c \in Conn : /\ sock[c] # "none" => peer[c] # "idle"
                       /\ loop[c].st # "none" => sock[c] # "none"
    /\ pc \in {"onMessage", "rearmRead"} => loop[cur].st = "data"

(* Between the two sends of a pairing the first of the pair has been told.    *)
ToldInv ==
    AllStay /\ AcceptorOpen /\ clientIds # <<0, 0>> /\ pc # "dead" =>
        /\ clientIds[1] \in Live /\ clientIds[2] \in Live
        /\ pc # "black" => LastTold(got[clients[clientIds[1]]], Black)
        /\ pc \notin {"black", "white"} => LastTold(got[clients[clientIds[2]]], White)

(* Promise!Unpassed, of any streams g.                                        *)
UnpassedIn(g, c, n) ==
    \A d \in Conn : \A i \in DOMAIN g[d] : g[d][i][1] = c => g[d][i][2] < n

(* What a read holds are messages of the connection it was on, next to each
   other; until its handler has passed them on, nobody has been passed any of
   them or a later one.                                                       *)
PassedOn(c) == pc = "rearmRead" /\ c = cur

Holds(c, first, n) ==
    /\ loop[c].data = [i \in 1..n |-> <<loop[c].on, first + i - 1>>]
    /\ first + n - 1 <= taken[loop[c].on]
    /\ PassedOn(c) \/ UnpassedIn(got, loop[c].on, first)

ReadInv ==
    \A c \in Conn : loop[c].st = "data" =>
        \E first, n \in 1..MaxSends : Holds(c, first, n)

(* What has not been read has been passed to nobody.                          *)
TakenInv ==
    \A c \in Conn : taken[c] <= sent[c] /\ UnpassedIn(got, c, taken[c] + 1)

(* While nobody has left, a loop reads the socket it was started for, and the
   session its handler finds is that one's.                                   *)
OwnReadInv ==
    AllStay => /\ \A c \in Conn : loop[c].st # "none" => loop[c].on = c
               /\ pc \in {"onMessage", "rearmRead"} => clients[loop[cur].id] = cur

RelayInv == IInv /\ AcceptedInv /\ ToldInv /\ ReadInv /\ TakenInv /\ OwnReadInv

LEMMA SockStays ==
    ASSUME TypeOK, [Next]_vars, NEW c \in Conn, sock[c] # "none"
    PROVE  sock'[c] # "none"
<1>1. ASSUME NEW S, sock' = SockClosed(S)
      PROVE  sock'[c] # "none"
  BY <1>1, ClosedSock
<1>2. CASE sock' = sock
  BY <1>2
<1>3. ASSUME NEW d \in Conn, HandleAccept(d)
      PROVE  sock'[c] # "none"
  BY <1>3 DEF HandleAccept, TypeOK, SockClosed
<1>4. CASE HandleAcceptError
  BY <1>1, <1>4 DEF HandleAcceptError
<1>5. ASSUME NEW d \in Conn, HandleReadError(d)
      PROVE  sock'[c] # "none"
  BY <1>1, <1>5 DEF HandleReadError
<1>6. CASE SendBlack \/ SendWhite \/ OnMessage
  BY <1>1, <1>2, <1>6 DEF SendBlack, SendWhite, OnMessage, SendData, SendString, SendTo
<1>7. CASE CloseSessions
  BY <1>1, <1>2, <1>7 DEF CloseSessions
<1>8. CASE Join
  BY <1>1, <1>8 DEF Join
<1>9. ASSUME NEW d \in Conn, ReadCompletes(d) \/ HandleUnknown(d)
      PROVE  sock'[c] # "none"
  BY <1>2, <1>9 DEF ReadCompletes, HandleUnknown
<1>10. CASE NoOnMessage \/ RearmRead \/ Quiet
  BY <1>2, <1>10 DEF NoOnMessage, RearmRead, Quiet
<1> QED
  BY <1>3, <1>4, <1>5, <1>6, <1>7, <1>8, <1>9, <1>10, QuietStep
     DEF Next, IoNext, IoStep, StartNext, StopNext, EnvNext, AcceptFails,
         AcceptAborted

(* What is gone, lost or stopped stays so.                                    *)
LEMMA StaysLost ==
    ASSUME TypeOK, [Next]_vars
    PROVE  /\ pc = "dead" => pc' = "dead"
           /\ AcceptorOpen' => AcceptorOpen
           /\ \A c \in Conn : peer[c] # "idle" => peer'[c] # "idle"
<1>1. pc = "dead" => pc' = "dead"
  BY DEF Next, IoNext, IoStep, StartNext, StopNext, EnvNext, AcceptFails,
         AcceptAborted, HandleAccept, HandleAcceptError, ReadCompletes, Handling,
         HandleUnknown, HandleReadError, HandleReadData, NoOnConnect,
         RearmAccept, NoOnMessage, RearmRead, IoExits, OnConnect, SendBlack,
         SendWhite, OnMessage, SetOnConnect, AddOnMessage, StopAccepting,
         StopIo, CloseSessions, Join, PeerConnects, PeerSends, PeerLeaves,
         serverVars, vars
<1>2. AcceptorOpen' => AcceptorOpen
  BY DEF Next, IoNext, IoStep, StartNext, StopNext, EnvNext, AcceptFails,
         AcceptAborted, HandleAccept, HandleAcceptError, ReadCompletes, Handling,
         HandleUnknown, HandleReadError, HandleReadData, NoOnConnect,
         RearmAccept, NoOnMessage, RearmRead, IoExits, OnConnect, SendBlack,
         SendWhite, OnMessage, SetOnConnect, AddOnMessage, StopAccepting,
         StopIo, CloseSessions, Join, PeerConnects, PeerSends, PeerLeaves,
         serverVars, vars, AcceptorOpen
<1>3. \A c \in Conn : peer[c] # "idle" => peer'[c] # "idle"
  BY DEF Next, IoNext, IoStep, StartNext, StopNext, EnvNext, AcceptFails,
         AcceptAborted, HandleAccept, HandleAcceptError, ReadCompletes, Handling,
         HandleUnknown, HandleReadError, HandleReadData, NoOnConnect,
         RearmAccept, NoOnMessage, RearmRead, IoExits, OnConnect, SendBlack,
         SendWhite, OnMessage, SetOnConnect, AddOnMessage, StopAccepting,
         StopIo, CloseSessions, Join, PeerConnects, PeerSends, PeerLeaves,
         peerVars, vars, TypeOK
<1> QED
  BY <1>1, <1>2, <1>3

(* Two sessions are never of one connection, as each is read by its own loop. *)
LEMMA OneSessionEach ==
    ASSUME SessionsAreRead, pc # "dead", NEW j \in Live, NEW k \in Live, clients[j] = clients[k]
    PROVE  j = k
  BY DEF SessionsAreRead

(* While nobody leaves and the acceptor is open, no session is lost or moved.  *)
LEMMA TableKept ==
    ASSUME IInv, [Next]_vars, AllStay', AcceptorOpen', pc' # "dead", NEW k \in Live
    PROVE  clients'[k] = clients[k] /\ k \in Live'
<1> USE NoneAssumption
<1>1. IInv' /\ TypeOK /\ TypeOK'
  BY IInvStep DEF IInv
<1>2. AllStay /\ AcceptorOpen /\ pc # "dead"
  BY <1>1, StaysLost, StayedBefore DEF AllStay
<1>3. SocketsKept'
  BY DEF SocketsKept, AcceptorOpen
<1>4. /\ clients[k] \in Conn /\ k \in Id /\ k <= nextId /\ nextId \in Nat
      /\ clients \in [Id -> Conn \cup {None, Broken}]
  BY <1>1, <1>2 DEF IInv, SessionsAreRead, FreshWhileAllStay, Live, TypeOK, Id
<1>5. sock'[clients[k]] # "none"
  <2>1. sock[clients[k]] # "none"
    BY <1>4 DEF IInv, NotAcceptedInv
  <2> QED
    BY <1>1, <1>4, <2>1, SockStays
<1>6. PICK j \in Live' : clients'[j] = clients[k]
  BY <1>1, <1>3, <1>4, <1>5 DEF IInv, KeptWhileAllStay
<1>7. CASE UNCHANGED clients
  BY <1>4, <1>7 DEF Live
<1>8. ASSUME NEW x \in Conn \cup {Broken}, clients' = [clients EXCEPT ![nextId + 1] = x]
      PROVE  clients'[k] = clients[k]
  <2>1. k # nextId + 1
    BY <1>4
  <2> QED
    BY <1>4, <1>8, <2>1
<1>9. ASSUME NEW i \in Live, clients' = [clients EXCEPT ![i] = None]
      PROVE  clients'[k] = clients[k]
  <2>1. j # i /\ clients[j] = clients[k] /\ j \in Live
    BY <1>4, <1>6, <1>9 DEF Live
  <2>2. j = k
    BY <1>1, <1>2, <2>1, OneSessionEach DEF IInv
  <2> QED
    BY <1>6, <2>2
<1>10. CASE clients' = [i \in Id |-> None]
  BY <1>4, <1>6, <1>10 DEF Live
<1>11. clients'[k] = clients[k]
  BY <1>1, <1>7, <1>8, <1>9, <1>10, TableStep
<1> QED
  BY <1>4, <1>11 DEF Live

(* A connection gets its socket and its read loop by being accepted.          *)
LEMMA SockOpens ==
    ASSUME TypeOK, NotAcceptedInv, [Next]_vars, NEW c \in Conn, sock[c] = "none", sock'[c] # "none"
    PROVE  HandleAccept(c)
<1>1. ASSUME NEW k \in Id, sock' = SockClosed({clients[k]})
      PROVE  FALSE
  BY <1>1, ClosedSock DEF NotAcceptedInv
<1>2. CASE sock' = sock
  BY <1>2
<1>3. ASSUME NEW d \in Conn, HandleAccept(d), d # c
      PROVE  FALSE
  <2>1. sock' = [SockClosed({clients[nextId + 1]}) EXCEPT ![d] = "open"]
    BY <1>3 DEF HandleAccept
  <2>2. sock'[c] = SockClosed({clients[nextId + 1]})[c]
    BY <1>3, <2>1 DEF SockClosed
  <2>3. nextId + 1 \in Id
    BY <1>3, MaxIdAssumption DEF HandleAccept, TypeOK, Id
  <2> QED
    BY <2>2, <2>3, ClosedSock DEF NotAcceptedInv
<1>4. CASE HandleAcceptError
  <2>1. nextId + 1 \in Id
    BY <1>4, MaxIdAssumption DEF HandleAcceptError, TypeOK, Id
  <2> QED
    BY <1>1, <1>4, <2>1 DEF HandleAcceptError
<1>5. ASSUME NEW d \in Conn, HandleReadError(d)
      PROVE  FALSE
  BY <1>1, <1>5 DEF HandleReadError, Live
<1>6. ASSUME NEW k, NEW items, (k \in Live /\ SendTo(k, items)) \/ sock' = sock
      PROVE  FALSE
  BY <1>1, <1>2, <1>6 DEF SendTo, Live
<1>7. CASE SendBlack \/ SendWhite
  BY <1>6, <1>7 DEF SendBlack, SendWhite, SendData
<1>8. CASE OnMessage
  BY <1>6, <1>8 DEF OnMessage, SendString
<1>9. CASE CloseSessions
  <2>1. PICK S \in SUBSET {d \in Conn : \E k \in Id : clients[k] = d} : sock' = SockClosed(S)
    BY <1>2, <1>9 DEF CloseSessions
  <2> QED
    BY <2>1, ClosedSock DEF NotAcceptedInv
<1>10. CASE Join
  BY <1>10, ClosedSock DEF Join, NotAcceptedInv
<1>11. ASSUME NEW d \in Conn, ReadCompletes(d) \/ HandleUnknown(d)
       PROVE  FALSE
  BY <1>2, <1>11 DEF ReadCompletes, HandleUnknown
<1>12. CASE NoOnMessage \/ RearmRead \/ Quiet
  BY <1>2, <1>12 DEF NoOnMessage, RearmRead, Quiet
<1> QED
  BY <1>3, <1>4, <1>5, <1>7, <1>8, <1>9, <1>10, <1>11, <1>12, QuietStep
     DEF Next, IoNext, IoStep, StartNext, StopNext, EnvNext, AcceptFails,
         AcceptAborted

LEMMA LoopStarts ==
    ASSUME TypeOK, AcceptedInv, [Next]_vars, NEW c \in Conn,
           loop[c].st = "none", loop'[c].st # "none"
    PROVE  HandleAccept(c)
<1>1. CASE loop'[c] = loop[c]
  BY <1>1
<1>2. ASSUME NEW d \in Conn, HandleAccept(d), d # c
      PROVE  FALSE
  BY <1>1, <1>2 DEF HandleAccept, TypeOK
<1>3. ASSUME NEW d \in Conn, ReadCompletes(d)
      PROVE  FALSE
  BY <1>1, <1>3 DEF ReadCompletes, LoopIs, TypeOK
<1>4. ASSUME NEW d \in Conn, HandleReadError(d) \/ HandleUnknown(d)
      PROVE  FALSE
  BY <1>1, <1>4 DEF HandleReadError, HandleUnknown, LoopEnded, LoopIs, TypeOK
<1>5. CASE NoOnMessage
  BY <1>1, <1>5 DEF NoOnMessage, LoopEnded, LoopIs, TypeOK
<1>6. CASE RearmRead
  <2>1. c # cur /\ cur \in Conn
    BY <1>6 DEF RearmRead, AcceptedInv, TypeOK
  <2> QED
    BY <1>1, <1>6, <2>1 DEF RearmRead, TypeOK
<1>7. CASE HandleAcceptError \/ SendBlack \/ SendWhite \/ OnMessage \/ CloseSessions \/ Join \/ Quiet
  BY <1>7 DEF HandleAcceptError, SendBlack, SendWhite, OnMessage, CloseSessions, Join, Quiet
<1> QED
  BY <1>2, <1>3, <1>4, <1>5, <1>6, <1>7, QuietStep
     DEF Next, IoNext, IoStep, StartNext, StopNext, EnvNext, AcceptFails,
         AcceptAborted

(* The read whose handler runs stays completed until it is armed again.       *)
LEMMA HandledStays ==
    ASSUME TypeOK, [Next]_vars, pc' \in {"onMessage", "rearmRead"},
           pc \in {"onMessage", "rearmRead"} => loop[cur].st = "data"
    PROVE  loop'[cur'].st = "data"
<1>1. ASSUME NEW c \in Conn, HandleReadData(c)
      PROVE  loop'[cur'].st = "data"
  BY <1>1 DEF HandleReadData, Handling
<1>2. CASE pc \in {"onMessage", "rearmRead"} /\ UNCHANGED <<loop, cur>>
  BY <1>2
<1>3. CASE OnMessage \/ CloseSessions \/ Join
  BY <1>2, <1>3 DEF OnMessage, CloseSessions, Join
<1>4. ASSUME NEW c \in Conn, \/ PeerConnects(c) \/ PeerSends(c) \/ PeerLeaves(c)
      PROVE  loop'[cur'].st = "data"
  BY <1>2, <1>4 DEF PeerConnects, PeerSends, PeerLeaves, serverVars
<1>5. CASE SetOnConnect \/ AddOnMessage \/ StopAccepting \/ StopIo \/ UNCHANGED vars
  BY <1>2, <1>5 DEF SetOnConnect, AddOnMessage, StopAccepting, StopIo, vars
<1>6. ASSUME NEW c \in Conn, HandleAccept(c) \/ ReadCompletes(c) \/ HandleUnknown(c) \/ HandleReadError(c)
      PROVE  FALSE
  BY <1>6 DEF HandleAccept, ReadCompletes, HandleUnknown, HandleReadError, Handling
<1>7. CASE \/ HandleAcceptError \/ NoOnConnect \/ RearmAccept \/ NoOnMessage \/ RearmRead
           \/ IoExits \/ OnConnect \/ SendBlack \/ SendWhite
  BY <1>7 DEF HandleAcceptError, NoOnConnect, RearmAccept, NoOnMessage, RearmRead, IoExits,
              OnConnect, SendBlack, SendWhite, SendData
<1> QED
  BY <1>1, <1>3, <1>4, <1>5, <1>6, <1>7
     DEF Next, IoNext, IoStep, StartNext, StopNext, EnvNext, AcceptFails,
         AcceptAborted

LEMMA AcceptedStep ==
    ASSUME TypeOK, NotAcceptedInv, AcceptedInv, [Next]_vars
    PROVE  AcceptedInv'
<1>1. ASSUME NEW c \in Conn
      PROVE  /\ sock'[c] # "none" => peer'[c] # "idle"
             /\ loop'[c].st # "none" => sock'[c] # "none"
  <2>1. /\ sock[c] # "none" => peer[c] # "idle"
        /\ loop[c].st # "none" => sock[c] # "none"
        /\ sock[c] # "none" => sock'[c] # "none"
        /\ peer[c] # "idle" => peer'[c] # "idle"
    BY SockStays, StaysLost DEF AcceptedInv
  <2>2. HandleAccept(c) => peer[c] # "idle" /\ sock'[c] = "open"
    BY DEF HandleAccept, SockClosed
  <2>3. sock'[c] # "none" => sock[c] # "none" \/ HandleAccept(c)
    BY SockOpens
  <2>4. loop'[c].st # "none" => loop[c].st # "none" \/ HandleAccept(c)
    BY LoopStarts
  <2> QED
    BY <2>1, <2>2, <2>3, <2>4
<1>2. pc' \in {"onMessage", "rearmRead"} => loop'[cur'].st = "data"
  BY HandledStays DEF AcceptedInv
<1> QED
  BY <1>1, <1>2 DEF AcceptedInv

(* What is written to an end, and what it was told last.                      *)
LEMMA ToldBySend ==
    ASSUME NEW g \in Seq(Item), NEW colour \in {Black, White}
    PROVE  LastTold(g \o <<colour>>, colour)
<1> DEFINE h == g \o <<colour>>
<1>1. DOMAIN h = 1..(Len(g) + 1) /\ h[Len(g) + 1] = colour /\ Len(g) \in Nat
  OBVIOUS
<1> HIDE DEF h
<1>2. Len(g) + 1 \in ToldAt(h) /\ \A j \in ToldAt(h) : j <= Len(g) + 1
  BY <1>1 DEF ToldAt
<1>3. LastTold(h, colour)
  BY <1>1, <1>2 DEF LastTold
<1> QED
  BY <1>3 DEF h

LEMMA ToldBefore ==
    ASSUME NEW g \in Seq(Item), NEW items \in Seq(Item), NEW colour, LastTold(g, colour),
           \A i \in DOMAIN items : items[i] \notin {Black, White}
    PROVE  LastTold(g \o items, colour)
<1> DEFINE h == g \o items
<1>1. PICK i \in ToldAt(g) : g[i] = colour /\ \A j \in ToldAt(g) : j <= i
  BY DEF LastTold
<1>2. /\ DOMAIN h = 1..(Len(g) + Len(items)) /\ Len(g) \in Nat /\ Len(items) \in Nat
      /\ DOMAIN g = 1..Len(g) /\ DOMAIN items = 1..Len(items)
      /\ \A j \in 1..Len(g) : h[j] = g[j]
      /\ \A j \in (Len(g) + 1)..(Len(g) + Len(items)) : h[j] = items[j - Len(g)]
  OBVIOUS
<1> HIDE DEF h
<1>3. ToldAt(h) = ToldAt(g)
  <2>1. ASSUME NEW j \in DOMAIN h, j > Len(g)
        PROVE  h[j] \notin {Black, White}
    <3>1. j - Len(g) \in DOMAIN items /\ h[j] = items[j - Len(g)]
      BY <1>2, <2>1
    <3> QED
      BY <3>1
  <2>2. \A j \in DOMAIN h : j \in DOMAIN g \/ j > Len(g)
    BY <1>2
  <2>3. \A j \in DOMAIN g : j \in DOMAIN h /\ h[j] = g[j]
    BY <1>2
  <2> QED
    BY <2>1, <2>2, <2>3 DEF ToldAt
<1>4. LastTold(h, colour)
  BY <1>1, <1>2, <1>3 DEF LastTold, ToldAt
<1> QED
  BY <1>4 DEF h

(* What is relayed is no colour.                                              *)
LEMMA RelaysNoColour ==
    ASSUME TypeOK, ReadInv, AcceptedInv, OnMessage
    PROVE  Message \in Seq(Item) /\ \A i \in DOMAIN Message : Message[i] \notin {Black, White}
<1>1. cur \in Conn /\ loop[cur].st = "data"
  BY DEF OnMessage, TypeOK, AcceptedInv
<1>2. PICK first \in 1..MaxSends, n \in 1..MaxSends : Holds(cur, first, n)
  BY <1>1 DEF ReadInv
<1> DEFINE s == loop[cur].on
<1>3. loop[cur].data = [i \in 1..n |-> <<s, first + i - 1>>] /\ s \in Conn
  BY <1>1, <1>2 DEF Holds, TypeOK, Loop
<1> HIDE DEF s
<1>4. n \in Nat /\ first \in Nat /\ first >= 1
  BY MaxSendsAssumption
<1>5. \A i \in 1..n : first + i - 1 \in Nat /\ first + i - 1 # 0
  BY <1>4
<1>6. /\ loop[cur].data \in Seq(Item)
      /\ \A i \in DOMAIN loop[cur].data : loop[cur].data[i] \notin {Black, White}
  BY <1>3, <1>4, <1>5 DEF Item, Black, White
<1>7. /\ <<Garbage>> \in Seq(Item)
      /\ \A i \in DOMAIN <<Garbage>> : <<Garbage>>[i] \notin {Black, White}
  BY DEF Item, Garbage, Black, White
<1> QED
  BY <1>6, <1>7 DEF Message

(* While nobody leaves, a write to a session goes through.                    *)
LEMMA WriteWorks ==
    ASSUME IInv, AcceptedInv, AllStay, AcceptorOpen, pc # "dead", NEW k \in Live, NEW items,
           SendTo(k, items)
    PROVE  clients[k] \in Conn /\ got' = [got EXCEPT ![clients[k]] = @ \o items]
<1>1. clients[k] \in Conn /\ k \in Id
  BY DEF IInv, SessionsAreRead, Live
<1>2. sock[clients[k]] # "none" /\ sock[clients[k]] # "closed"
  BY <1>1 DEF IInv, NotAcceptedInv, NoErrorInv, SocketsKept, AcceptorOpen
<1>3. peer[clients[k]] = "up"
  BY <1>1, <1>2 DEF AcceptedInv, AllStay, IInv, TypeOK
<1> QED
  BY <1>1, <1>2, <1>3 DEF SendTo, WriteMayFail, Delivered

(* The pair and what it was told (game_server.cpp:35-44).                     *)
LEMMA ToldStep ==
    ASSUME IInv, AcceptedInv, ReadInv, ToldInv, [Next]_vars
    PROVE  ToldInv'
<1> DEFINE First == LastTold(got[clients[clientIds[1]]], Black)
           Second == LastTold(got[clients[clientIds[2]]], White)
           Told == /\ pc' # "black" => First'
                   /\ pc' \notin {"black", "white"} => Second'
<1>1. SUFFICES ASSUME AllStay', AcceptorOpen', clientIds' # <<0, 0>>, pc' # "dead"
               PROVE  clientIds'[1] \in Live' /\ clientIds'[2] \in Live' /\ Told
  BY DEF ToldInv
<1>2. AllStay /\ AcceptorOpen /\ pc # "dead" /\ TypeOK
  BY <1>1, StaysLost, StayedBefore DEF IInv, AllStay
<1>3. \A k \in Live : clients'[k] = clients[k] /\ k \in Live' /\ clients[k] \in Conn
  BY <1>1, <1>2, TableKept DEF IInv, SessionsAreRead
<1>4. clientIds # <<0, 0>> =>
        /\ clientIds[1] \in Live /\ clientIds[2] \in Live
        /\ pc # "black" => First
        /\ pc \notin {"black", "white"} => Second
  BY <1>2 DEF ToldInv
<1>5. ASSUME UNCHANGED <<clientIds, got>>, pc' = pc \/ {pc, pc'} \cap {"black", "white"} = {}
      PROVE  clientIds'[1] \in Live' /\ clientIds'[2] \in Live' /\ Told
  <2>1. clientIds[1] \in Live /\ clientIds[2] \in Live
    BY <1>1, <1>4, <1>5
  <2>2. First' = First /\ Second' = Second
    BY <1>3, <1>5, <2>1
  <2> QED
    BY <1>1, <1>3, <1>4, <1>5, <2>1, <2>2
<1>6. CASE OnConnect
  <2>1. CASE pc' = "black"
    <3>1. PICK a \in Live, b \in Live : a # b /\ clientIds' = <<a, b>>
      BY <1>6, <2>1 DEF OnConnect
    <3> QED
      BY <1>3, <2>1, <3>1
  <2>2. CASE pc' # "black"
    BY <1>5, <1>6, <2>2 DEF OnConnect
  <2> QED
    BY <2>1, <2>2
<1> DEFINE c == clients[clientIds[1]]
           d == clients[clientIds[2]]
<1>7. ASSUME clientIds[1] \in Live, clientIds[2] \in Live, clientIds' = clientIds
      PROVE  /\ c \in Conn /\ d \in Conn /\ got[c] \in Seq(Item) /\ got[d] \in Seq(Item)
             /\ First = LastTold(got[c], Black) /\ Second = LastTold(got[d], White)
             /\ First' = LastTold(got'[c], Black) /\ Second' = LastTold(got'[d], White)
  BY <1>2, <1>3, <1>7 DEF TypeOK
<1>8. CASE SendBlack
  <2>1. pc = "black" /\ clientIds' = clientIds /\ clientIds[1] \in Live /\ clientIds[2] \in Live
    BY <1>1, <1>4, <1>8 DEF SendBlack
  <2>2. pc' = "white" /\ SendTo(clientIds[1], <<Black>>)
    BY <1>8, <2>1 DEF SendBlack, SendData
  <2>3. got'[c] = got[c] \o <<Black>>
    <3>1. got' = [got EXCEPT ![c] = @ \o <<Black>>]
      BY <1>2, <2>1, <2>2, WriteWorks
    <3> HIDE DEF c
    <3> QED
      BY <1>2, <1>7, <2>1, <3>1 DEF TypeOK
  <2>4. First'
    BY <1>7, <2>1, <2>3, ToldBySend
  <2> QED
    BY <1>3, <2>1, <2>2, <2>4
<1>9. CASE SendWhite
  <2>1. pc = "white" /\ clientIds' = clientIds /\ clientIds[1] \in Live /\ clientIds[2] \in Live
    BY <1>1, <1>4, <1>9 DEF SendWhite
  <2>2. pc' = "rearm" /\ SendTo(clientIds[2], <<White>>)
    BY <1>9, <2>1 DEF SendWhite, SendData
  <2>3. c # d
    <3>1. clientIds[1] # clientIds[2]
      BY <1>1, <2>1 DEF IInv, HandlerInv
    <3> QED
      BY <1>2, <2>1, <3>1, OneSessionEach DEF IInv
  <2>4. got'[d] = got[d] \o <<White>> /\ got'[c] = got[c]
    <3>1. got' = [got EXCEPT ![d] = @ \o <<White>>]
      BY <1>2, <2>1, <2>2, WriteWorks
    <3> HIDE DEF c, d
    <3> QED
      BY <1>2, <1>7, <2>1, <2>3, <3>1 DEF TypeOK
  <2>5. First' /\ Second'
    BY <1>1, <1>4, <1>7, <2>1, <2>4, ToldBySend
  <2> QED
    BY <1>3, <2>1, <2>5
<1>10. CASE OnMessage
  <2>1. /\ pc = "onMessage" /\ pc' = "rearmRead" /\ clientIds' = clientIds
        /\ clientIds[1] \in Live /\ clientIds[2] \in Live
    BY <1>1, <1>4, <1>10 DEF OnMessage
  <2>2. got' = got \/ \E k \in Live : SendTo(k, Message)
    BY <1>10, <2>1 DEF OnMessage, SendString
  <2>3. got' = got \/ \E x \in Conn : got' = [got EXCEPT ![x] = @ \o Message]
    BY <1>2, <2>2, WriteWorks
  <2>4. Message \in Seq(Item) /\ \A i \in DOMAIN Message : Message[i] \notin {Black, White}
    BY <1>2, <1>10, RelaysNoColour
  <2>5. \A x \in Conn : got'[x] = got[x] \/ got'[x] = got[x] \o Message
    BY <1>2, <2>3 DEF TypeOK
  <2>6. First' /\ Second'
    BY <1>1, <1>4, <1>7, <2>1, <2>4, <2>5, ToldBefore
  <2> QED
    BY <1>3, <2>1, <2>6
<1>11. ASSUME NEW x \in Conn,
              \/ HandleAccept(x) \/ ReadCompletes(x) \/ HandleUnknown(x) \/ HandleReadError(x)
              \/ HandleReadData(x) \/ PeerConnects(x) \/ PeerSends(x) \/ PeerLeaves(x),
              UNCHANGED clientIds
       PROVE  UNCHANGED <<clientIds, got>> /\ (pc' = pc \/ {pc, pc'} \cap {"black", "white"} = {})
  BY <1>1, <1>11 DEF HandleAccept, ReadCompletes, HandleUnknown, HandleReadError, Handling,
     HandleReadData, PeerConnects, PeerSends, PeerLeaves, serverVars
<1>12. ASSUME \/ HandleAcceptError \/ NoOnConnect \/ RearmAccept \/ NoOnMessage \/ RearmRead
              \/ IoExits \/ SetOnConnect \/ AddOnMessage \/ StopAccepting \/ StopIo
              \/ CloseSessions \/ Join \/ UNCHANGED vars,
              UNCHANGED clientIds
       PROVE  UNCHANGED <<clientIds, got>> /\ (pc' = pc \/ {pc, pc'} \cap {"black", "white"} = {})
  BY <1>1, <1>12 DEF HandleAcceptError, NoOnConnect, RearmAccept, NoOnMessage, RearmRead,
     IoExits, SetOnConnect, AddOnMessage, StopAccepting, StopIo, CloseSessions, Join, vars
<1> QED
  BY <1>5, <1>6, <1>8, <1>9, <1>10, <1>11, <1>12
     DEF Next, IoNext, IoStep, StartNext, StopNext, EnvNext, AcceptFails,
         AcceptAborted, SetOnConnect, AddOnMessage, vars


(* What a step writes: a colour, or the message being handled, to an end that
   is connected.                                                              *)
LEMMA Wrote ==
    ASSUME NEW k \in Live, NEW items, clients[k] \in Conn, SendTo(k, items)
    PROVE  \/ got' = got
           \/ peer[clients[k]] = "up" /\ got' = [got EXCEPT ![clients[k]] = @ \o items]
  BY DEF SendTo, Delivered

LEMMA GotStep ==
    ASSUME IInv, [Next]_vars
    PROVE  \/ got' = got
           \/ \E d \in Conn, x \in {Black, White} :
                 /\ SendBlack \/ SendWhite
                 /\ peer[d] = "up" /\ got' = [got EXCEPT ![d] = @ \o <<x>>]
           \/ \E d \in Conn \ {clients[last]} :
                 /\ OnMessage
                 /\ peer[d] = "up" /\ got' = [got EXCEPT ![d] = @ \o Message]
<1>1. pc # "dead" => \A k \in Live : clients[k] \in Conn
  BY DEF IInv, SessionsAreRead
<1>2. CASE SendBlack
  <2>1. \/ got' = got
        \/ clientIds[1] \in Live /\ SendTo(clientIds[1], <<Black>>) /\ pc # "dead"
    BY <1>2 DEF SendBlack, SendData
  <2> QED
    BY <1>1, <1>2, <2>1, Wrote
<1>3. CASE SendWhite
  <2>1. \/ got' = got
        \/ clientIds[2] \in Live /\ SendTo(clientIds[2], <<White>>) /\ pc # "dead"
    BY <1>3 DEF SendWhite, SendData
  <2> QED
    BY <1>1, <1>3, <2>1, Wrote
<1>4. CASE OnMessage
  <2>1. pc # "dead" /\ last \in Live /\ last # 0
    BY <1>4 DEF OnMessage, IInv, HandlerInv, IdsAboveSentinel
  <2>2. \/ got' = got
        \/ \E k \in Live : SendTo(k, Message) /\ k # last
    BY <1>4, <2>1 DEF OnMessage, SendString, IInv, HandlerInv, TypeOK
  <2>3. CASE got' # got
    <3>1. PICK k \in Live : SendTo(k, Message) /\ k # last
      BY <2>2, <2>3
    <3>2. clients[k] \in Conn /\ clients[k] # clients[last]
      BY <1>1, <2>1, <3>1, OneSessionEach DEF IInv
    <3>3. peer[clients[k]] = "up" /\ got' = [got EXCEPT ![clients[k]] = @ \o Message]
      BY <2>3, <3>1, <3>2, Wrote
    <3> QED
      BY <1>4, <3>2, <3>3
  <2> QED
    BY <2>3
<1>5. ASSUME NEW x \in Conn,
              \/ HandleAccept(x) \/ ReadCompletes(x) \/ HandleUnknown(x) \/ HandleReadError(x)
              \/ HandleReadData(x) \/ PeerConnects(x) \/ PeerSends(x) \/ PeerLeaves(x)
      PROVE  got' = got
  BY <1>5 DEF HandleAccept, ReadCompletes, HandleUnknown, HandleReadError,
     HandleReadData, PeerConnects, PeerSends, PeerLeaves, serverVars
<1>6. ASSUME \/ HandleAcceptError \/ NoOnConnect \/ RearmAccept \/ NoOnMessage \/ RearmRead
             \/ IoExits \/ SetOnConnect \/ AddOnMessage \/ StopAccepting \/ StopIo
             \/ CloseSessions \/ Join \/ OnConnect \/ UNCHANGED vars
      PROVE  got' = got
  BY <1>6 DEF HandleAcceptError, NoOnConnect, RearmAccept, NoOnMessage, RearmRead, OnConnect,
     IoExits, SetOnConnect, AddOnMessage, StopAccepting, StopIo, CloseSessions, Join, vars
<1> QED
  BY <1>2, <1>3, <1>4, <1>5, <1>6
     DEF Next, IoNext, IoStep, StartNext, StopNext, EnvNext, AcceptFails,
         AcceptAborted

(* The handler hands on what its read holds, unless somebody has left.        *)
LEMMA MessageIs ==
    ASSUME IInv, AcceptedInv, OwnReadInv, pc = "onMessage"
    PROVE  /\ cur \in Conn /\ loop[cur].st = "data"
           /\ \/ ~AllStay /\ Message = <<Garbage>>
              \/ ~Overwritten /\ Message = loop[cur].data /\ clients[last] = loop[cur].on
<1>1. cur \in Conn /\ loop[cur].st = "data" /\ last = loop[cur].id
  BY DEF IInv, TypeOK, AcceptedInv, HandlerInv
<1>2. CASE AllStay
  <2>1. loop[cur].on = cur /\ clients[loop[cur].id] = cur
    BY <1>1, <1>2 DEF OwnReadInv
  <2>2. ~Overwritten
    BY <1>1, <1>2, <2>1 DEF OwnReadInv, Overwritten
  <2> QED
    BY <1>1, <2>1, <2>2 DEF Message
<1> QED
  BY <1>1, <1>2 DEF Message

(* Who is written something else, or something earlier, is passed nothing.    *)
LEMMA AppendUnpassed ==
    ASSUME NEW g \in [Conn -> Seq(Item)], NEW d \in Conn, NEW items \in Seq(Item),
           NEW c, NEW n, UnpassedIn(g, c, n),
           \A i \in DOMAIN items : items[i][1] = c => items[i][2] < n
    PROVE  UnpassedIn([g EXCEPT ![d] = @ \o items], c, n)
<1> DEFINE h == g[d] \o items
<1>1. /\ DOMAIN h = 1..(Len(g[d]) + Len(items)) /\ Len(g[d]) \in Nat /\ Len(items) \in Nat
      /\ DOMAIN g[d] = 1..Len(g[d]) /\ DOMAIN items = 1..Len(items)
      /\ \A j \in 1..Len(g[d]) : h[j] = g[d][j]
      /\ \A j \in (Len(g[d]) + 1)..(Len(g[d]) + Len(items)) : h[j] = items[j - Len(g[d])]
  <2>1. g[d] \in Seq(Item)
    OBVIOUS
  <2> QED
    BY <2>1
<1> HIDE DEF h
<1>2. ASSUME NEW i \in DOMAIN h
      PROVE  h[i][1] = c => h[i][2] < n
  <2>1. CASE i \in 1..Len(g[d])
    BY <1>1, <2>1 DEF UnpassedIn
  <2>2. CASE i \notin 1..Len(g[d])
    <3>1. i - Len(g[d]) \in DOMAIN items /\ h[i] = items[i - Len(g[d])]
      BY <1>1, <1>2, <2>2
    <3> QED
      BY <3>1
  <2> QED
    BY <2>1, <2>2
<1>3. \A x \in Conn : [g EXCEPT ![d] = h][x] = IF x = d THEN h ELSE g[x]
  OBVIOUS
<1>4. UnpassedIn([g EXCEPT ![d] = h], c, n)
  BY <1>2, <1>3 DEF UnpassedIn
<1> QED
  BY <1>4 DEF h

LEMMA UnpassedStep ==
    ASSUME IInv, AcceptedInv, ReadInv, OwnReadInv, [Next]_vars, NEW c \in Conn,
           NEW n \in Nat \ {0}, UnpassedIn(got, c, n),
           OnMessage /\ loop[cur].on = c => Overwritten \/ taken[c] < n
    PROVE  UnpassedIn(got', c, n)
<1>1. TypeOK /\ got \in [Conn -> Seq(Item)]
  BY DEF IInv, TypeOK
<1>2. ASSUME NEW x \in {Black, White, Garbage}
      PROVE  <<x>> \in Seq(Item) /\ \A i \in DOMAIN <<x>> : <<x>>[i][2] < n
  <2>1. x \in Item /\ x[2] = 0 /\ 0 < n
    BY DEF Black, White, Garbage, Item
  <2> QED
    BY <2>1
<1>3. ASSUME NEW d \in Conn, NEW x \in {Black, White, Garbage},
             got' = [got EXCEPT ![d] = @ \o <<x>>]
      PROVE  UnpassedIn(got', c, n)
  BY <1>1, <1>2, <1>3, AppendUnpassed
<1>4. ASSUME NEW d \in Conn, OnMessage, got' = [got EXCEPT ![d] = @ \o loop[cur].data],
             ~Overwritten, cur \in Conn, loop[cur].st = "data"
      PROVE  UnpassedIn(got', c, n)
  <2>1. PICK first \in 1..MaxSends, m \in 1..MaxSends : Holds(cur, first, m)
    BY <1>4 DEF ReadInv
  <2> DEFINE s == loop[cur].on
             items == loop[cur].data
  <2>2. /\ items = [i \in 1..m |-> <<s, first + i - 1>>] /\ first + m - 1 <= taken[s]
        /\ s \in Conn /\ items \in Seq(Item) /\ taken[s] \in Nat
    <3>1. loop[cur] \in Loop /\ taken \in [Conn -> 0..MaxSends]
      BY <1>1, <1>4 DEF TypeOK
    <3>2. s \in Conn /\ items \in Seq(Item)
      BY <3>1 DEF Loop
    <3>3. taken[s] \in Nat
      BY <3>1, <3>2, MaxSendsAssumption
    <3>4. items = [i \in 1..m |-> <<s, first + i - 1>>]
      BY <2>1 DEF Holds
    <3>5. first + m - 1 <= taken[s]
      BY <2>1 DEF Holds
    <3> QED
      BY <3>2, <3>3, <3>4, <3>5
  <2>3. s = c => taken[s] < n
    BY <1>4
  <2>4. got' = [got EXCEPT ![d] = @ \o items]
    BY <1>4
  <2> HIDE DEF s, items
  <2>5. ASSUME NEW i \in DOMAIN items, items[i][1] = c
        PROVE  items[i][2] < n
    <3>1. i \in 1..m /\ items[i][1] = s /\ items[i][2] = first + i - 1
      BY <2>2, <2>5
    <3>2. first + i - 1 <= first + m - 1 /\ first \in Nat /\ m \in Nat /\ i \in Nat
      BY <3>1, MaxSendsAssumption
    <3>3. taken[s] < n
      BY <2>3, <2>5, <3>1
    <3> DEFINE t == taken[s]
    <3>4. t \in Nat /\ first + m - 1 <= t /\ t < n
      BY <2>2, <3>3
    <3> HIDE DEF t
    <3> QED
      BY <3>1, <3>2, <3>4
  <2> QED
    BY <1>1, <2>2, <2>4, <2>5, AppendUnpassed
<1>5. ASSUME NEW d \in Conn, OnMessage, got' = [got EXCEPT ![d] = @ \o Message]
      PROVE  UnpassedIn(got', c, n)
  BY <1>3, <1>4, <1>5, MessageIs DEF OnMessage
<1> QED
  BY <1>3, <1>5, GotStep

(* Nothing is read before it has been sent, and what is read next is passed on
   by nobody yet.                                                             *)
LEMMA TakenGrows ==
    ASSUME TypeOK, [Next]_vars, NEW c \in Conn, taken[c] <= sent[c]
    PROVE  taken[c] <= taken'[c] /\ taken'[c] <= sent'[c]
<1>1. taken[c] \in Nat /\ sent[c] \in Nat
  BY MaxSendsAssumption DEF TypeOK
<1>2. ASSUME NEW d \in Conn, ReadCompletes(d)
      PROVE  taken[c] <= taken'[c] /\ taken'[c] <= sent'[c]
  <2>1. sent' = sent
    BY <1>2 DEF ReadCompletes, peerVars
  <2>2. \/ taken' = taken
        \/ \E n \in 1..(sent[loop[d].on] - taken[loop[d].on]) :
              taken' = [taken EXCEPT ![loop[d].on] = @ + n]
    BY <1>2 DEF ReadCompletes
  <2>3. taken'[c] # taken[c] => \E n \in 1..(sent[c] - taken[c]) : taken'[c] = taken[c] + n
    BY <2>2 DEF TypeOK
  <2> DEFINE t == taken[c]
             s == sent[c]
  <2>4. t \in Nat /\ s \in Nat /\ t <= s /\ (taken'[c] # t => \E n \in 1..(s - t) : taken'[c] = t + n)
    BY <1>1, <2>3
  <2> HIDE DEF t, s
  <2>5. t <= taken'[c] /\ taken'[c] <= s
    BY <2>4
  <2> QED
    BY <2>1, <2>5 DEF t, s
<1>3. ASSUME NEW d \in Conn, PeerSends(d)
      PROVE  taken[c] <= taken'[c] /\ taken'[c] <= sent'[c]
  <2>1. taken' = taken /\ (sent'[c] = sent[c] \/ sent'[c] = sent[c] + 1)
    BY <1>3 DEF PeerSends, serverVars, TypeOK
  <2> QED
    BY <1>1, <2>1
<1>4. ASSUME NEW x \in Conn,
              \/ HandleAccept(x) \/ HandleUnknown(x) \/ HandleReadError(x)
              \/ HandleReadData(x) \/ PeerConnects(x) \/ PeerLeaves(x)
      PROVE  taken' = taken /\ sent' = sent
  BY <1>4 DEF HandleAccept, HandleUnknown, HandleReadError,
     HandleReadData, PeerConnects, PeerLeaves, serverVars, peerVars
<1>5. ASSUME \/ HandleAcceptError \/ NoOnConnect \/ RearmAccept \/ NoOnMessage \/ RearmRead
             \/ IoExits \/ SetOnConnect \/ AddOnMessage \/ StopAccepting \/ StopIo
             \/ CloseSessions \/ Join \/ OnConnect \/ SendBlack \/ SendWhite \/ OnMessage
             \/ UNCHANGED vars
      PROVE  taken' = taken /\ sent' = sent
  BY <1>5 DEF HandleAcceptError, NoOnConnect, RearmAccept, NoOnMessage, RearmRead, OnConnect,
     IoExits, SetOnConnect, AddOnMessage, StopAccepting, StopIo, CloseSessions, Join, vars,
     SendBlack, SendWhite, OnMessage, peerVars
<1>6. taken' = taken /\ sent' = sent => taken[c] <= taken'[c] /\ taken'[c] <= sent'[c]
  BY <1>1
<1> QED
  BY <1>2, <1>3, <1>4, <1>5, <1>6
     DEF Next, IoNext, IoStep, StartNext, StopNext, EnvNext, AcceptFails,
         AcceptAborted

LEMMA UnpassedLater ==
    ASSUME NEW g \in [Conn -> Seq(Item)], NEW c, NEW n \in Nat, NEW m \in Nat,
           n <= m, UnpassedIn(g, c, n)
    PROVE  UnpassedIn(g, c, m)
<1>1. ASSUME NEW d \in Conn, NEW i \in DOMAIN g[d], g[d][i][1] = c
      PROVE  g[d][i][2] < m
  <2>1. g[d] \in Seq(Item)
    OBVIOUS
  <2>2. g[d][i] \in Item
    BY <1>1, <2>1
  <2>3. g[d][i][2] \in Nat
    BY <2>2 DEF Item
  <2>4. g[d][i][2] < n
    BY <1>1 DEF UnpassedIn
  <2> QED
    BY <2>3, <2>4
<1> QED
  BY <1>1 DEF UnpassedIn

LEMMA TakenStep ==
    ASSUME IInv, AcceptedInv, ReadInv, TakenInv, OwnReadInv, [Next]_vars
    PROVE  TakenInv'
<1>1. TypeOK /\ TypeOK'
  BY IInvStep DEF IInv
<1>2. SUFFICES ASSUME NEW c \in Conn
               PROVE  taken'[c] <= sent'[c] /\ UnpassedIn(got', c, taken'[c] + 1)
  BY DEF TakenInv
<1>3. taken[c] <= sent[c] /\ UnpassedIn(got, c, taken[c] + 1)
  BY DEF TakenInv
<1>4. taken[c] <= taken'[c] /\ taken'[c] <= sent'[c]
  BY <1>1, <1>3, TakenGrows
<1>5. taken[c] \in Nat /\ taken'[c] \in Nat /\ got' \in [Conn -> Seq(Item)]
  BY <1>1, MaxSendsAssumption DEF TypeOK
<1>6. taken[c] + 1 \in Nat \ {0} /\ taken[c] < taken[c] + 1
  BY <1>5
<1>7. UnpassedIn(got', c, taken[c] + 1)
  BY <1>3, <1>6, UnpassedStep
<1>8. taken'[c] + 1 \in Nat /\ taken[c] + 1 <= taken'[c] + 1
  BY <1>4, <1>5
<1> QED
  BY <1>4, <1>5, <1>6, <1>7, <1>8, UnpassedLater

(* A read holds something from its completion to the end of its handler.      *)
LEMMA DataComes ==
    ASSUME TypeOK, [Next]_vars, NEW c \in Conn, loop'[c].st = "data"
    PROVE  loop'[c] = loop[c] \/ ReadCompletes(c)
<1>1. ASSUME NEW d \in Conn, HandleAccept(d)
      PROVE  loop'[c] = loop[c]
  BY <1>1 DEF HandleAccept, TypeOK
<1>2. ASSUME NEW d \in Conn, ReadCompletes(d)
      PROVE  loop'[c] = loop[c] \/ d = c
  BY <1>2 DEF ReadCompletes, LoopIs, TypeOK
<1>3. ASSUME NEW d \in Conn, HandleReadError(d) \/ HandleUnknown(d)
      PROVE  loop'[c] = loop[c]
  BY <1>3 DEF HandleReadError, HandleUnknown, LoopEnded, LoopIs, TypeOK
<1>4. CASE NoOnMessage
  BY <1>4 DEF NoOnMessage, LoopEnded, LoopIs, TypeOK
<1>5. CASE RearmRead
  BY <1>5 DEF RearmRead, TypeOK
<1>6. CASE HandleAcceptError \/ SendBlack \/ SendWhite \/ OnMessage \/ CloseSessions \/ Join \/ Quiet
  BY <1>6 DEF HandleAcceptError, SendBlack, SendWhite, OnMessage, CloseSessions, Join, Quiet
<1> QED
  BY <1>1, <1>2, <1>3, <1>4, <1>5, <1>6, QuietStep
     DEF Next, IoNext, IoStep, StartNext, StopNext, EnvNext, AcceptFails,
         AcceptAborted

LEMMA PassedStays ==
    ASSUME TypeOK, NoUndefined', [Next]_vars, NEW c \in Conn, PassedOn(c), loop'[c].st = "data"
    PROVE  PassedOn(c)'
<1>1. pc = "rearmRead" /\ c = cur
  BY DEF PassedOn
<1>2. CASE RearmRead
  BY <1>1, <1>2 DEF RearmRead, NoUndefined, TypeOK
<1>3. CASE UNCHANGED <<pc, cur>>
  BY <1>1, <1>3 DEF PassedOn
<1>4. ASSUME NEW x \in Conn, PeerConnects(x) \/ PeerSends(x) \/ PeerLeaves(x)
      PROVE  UNCHANGED <<pc, cur>>
  BY <1>4 DEF PeerConnects, PeerSends, PeerLeaves, serverVars
<1>5. CASE SetOnConnect \/ AddOnMessage \/ StopAccepting \/ StopIo \/ CloseSessions \/ Join
           \/ UNCHANGED vars
  BY <1>3, <1>5 DEF SetOnConnect, AddOnMessage, StopAccepting, StopIo, CloseSessions, Join, vars
<1>6. ASSUME NEW x \in Conn,
             \/ HandleAccept(x) \/ ReadCompletes(x) \/ HandleUnknown(x) \/ HandleReadError(x)
             \/ HandleReadData(x)
      PROVE  FALSE
  BY <1>1, <1>6 DEF HandleAccept, ReadCompletes, HandleUnknown, HandleReadError,
     HandleReadData, Handling
<1>7. CASE \/ HandleAcceptError \/ NoOnConnect \/ RearmAccept \/ NoOnMessage
           \/ IoExits \/ OnConnect \/ SendBlack \/ SendWhite \/ OnMessage
  BY <1>1, <1>7 DEF HandleAcceptError, NoOnConnect, RearmAccept, NoOnMessage,
     IoExits, OnConnect, SendBlack, SendWhite, OnMessage
<1> QED
  BY <1>2, <1>3, <1>4, <1>5, <1>6, <1>7
     DEF Next, IoNext, IoStep, StartNext, StopNext, EnvNext, AcceptFails,
         AcceptAborted

LEMMA ReadStep ==
    ASSUME IInv, AcceptedInv, ReadInv, TakenInv, OwnReadInv, [Next]_vars
    PROVE  ReadInv'
<1>1. TypeOK /\ TypeOK' /\ NoUndefined'
  BY IInvStep DEF IInv
<1>2. SUFFICES ASSUME NEW c \in Conn, loop'[c].st = "data"
               PROVE  \E first, n \in 1..MaxSends :
                         /\ loop'[c].data = [i \in 1..n |-> <<loop'[c].on, first + i - 1>>]
                         /\ first + n - 1 <= taken'[loop'[c].on]
                         /\ PassedOn(c)' \/ UnpassedIn(got', loop'[c].on, first)
  BY DEF ReadInv, Holds
<1>3. loop[c] \in Loop /\ loop[c].on \in Conn
  BY <1>1 DEF TypeOK, Loop
<1>4. CASE loop'[c] = loop[c]
  <2>1. PICK first \in 1..MaxSends, n \in 1..MaxSends : Holds(c, first, n)
    BY <1>2, <1>4 DEF ReadInv
  <2> DEFINE s == loop[c].on
  <2>2. /\ loop[c].data = [i \in 1..n |-> <<s, first + i - 1>>]
        /\ first + n - 1 <= taken[s]
        /\ PassedOn(c) \/ UnpassedIn(got, s, first)
    BY <2>1 DEF Holds
  <2>3. first + n - 1 <= taken'[s]
    <3>1. taken[s] \in Nat /\ taken'[s] \in Nat /\ first \in Nat /\ n \in Nat
      BY <1>1, <1>3, MaxSendsAssumption DEF TypeOK
    <3>2. taken[s] <= taken'[s]
      BY <1>1, <1>3, TakenGrows DEF TakenInv
    <3> DEFINE t == taken[s]
    <3>3. t \in Nat /\ first + n - 1 <= t /\ t <= taken'[s]
      BY <2>2, <3>1, <3>2
    <3> HIDE DEF t
    <3> QED
      BY <3>1, <3>3
  <2>4. PassedOn(c) => PassedOn(c)'
    BY <1>1, <1>2, PassedStays
  <2>5. OnMessage /\ cur = c => PassedOn(c)'
    BY DEF OnMessage, PassedOn
  <2>6. ASSUME UnpassedIn(got, s, first), ~(OnMessage /\ cur = c)
        PROVE  UnpassedIn(got', s, first)
    <3>1. OnMessage /\ loop[cur].on = s => Overwritten
      BY <1>2, <1>4, <2>6 DEF Overwritten
    <3>2. first \in Nat \ {0}
      BY MaxSendsAssumption
    <3> HIDE DEF s
    <3> QED
      BY <1>3, <2>6, <3>1, <3>2, UnpassedStep DEF s
  <2> QED
    BY <1>4, <2>2, <2>3, <2>4, <2>5, <2>6
<1>5. CASE ReadCompletes(c) /\ loop'[c] # loop[c]
  <2> DEFINE s == loop[c].on
  <2>1. PICK n \in 1..(sent[s] - taken[s]) :
            /\ taken' = [taken EXCEPT ![s] = @ + n]
            /\ loop' = LoopIs(c, "data", [i \in 1..n |-> <<s, taken[s] + i>>])
    <3>1. loop' # LoopIs(c, "error", <<>>)
      BY <1>1, <1>2 DEF LoopIs, TypeOK
    <3> QED
      BY <1>5, <3>1 DEF ReadCompletes
  <2>2. loop'[c].on = s /\ loop'[c].data = [i \in 1..n |-> <<s, taken[s] + i>>]
    BY <1>1, <2>1 DEF LoopIs, TypeOK
  <2>3. taken'[s] = taken[s] + n
    BY <1>1, <1>3, <2>1 DEF TypeOK
  <2>4. got' = got /\ UnpassedIn(got, s, taken[s] + 1)
    BY <1>3, <1>5 DEF ReadCompletes, TakenInv
  <2>5. taken[s] \in Nat /\ sent[s] \in Nat /\ sent[s] <= MaxSends /\ taken[s] <= sent[s]
    BY <1>1, <1>3, MaxSendsAssumption DEF TypeOK, TakenInv
  <2> DEFINE t == taken[s]
             m == sent[s]
             first == t + 1
  <2>6. t \in Nat /\ m \in Nat /\ m <= MaxSends /\ t <= m /\ n \in 1..(m - t)
    BY <2>5
  <2>7. /\ loop'[c].data = [i \in 1..n |-> <<s, t + i>>] /\ loop'[c].on = s
        /\ taken'[s] = t + n /\ UnpassedIn(got', s, t + 1)
    BY <2>2, <2>3, <2>4
  <2> HIDE DEF t, m, s
  <2>8. /\ first \in 1..MaxSends /\ n \in 1..MaxSends /\ first + n - 1 = t + n
        /\ \A i \in 1..n : t + i = first + i - 1
    BY <2>6, MaxSendsAssumption
  <2>9. [i \in 1..n |-> <<s, t + i>>] = [i \in 1..n |-> <<s, first + i - 1>>]
    BY <2>8
  <2>10. first + n - 1 <= taken'[s]
    BY <2>6, <2>7, <2>8
  <2> QED
    BY <2>7, <2>8, <2>9, <2>10
<1> QED
  BY <1>1, <1>2, <1>4, <1>5, DataComes

(* Whose read it is, while nobody has left.                                   *)
LEMMA LoopOn ==
    ASSUME TypeOK, [Next]_vars, NEW c \in Conn, loop'[c].st # "none"
    PROVE  \/ loop[c].st # "none" /\ loop'[c].on = loop[c].on
           \/ loop'[c].on = c
           \/ RearmRead /\ c = cur /\ loop'[c].on = clients[loop[cur].id]
<1>1. loop'[c] = loop[c] => loop[c].st # "none" /\ loop'[c].on = loop[c].on
  OBVIOUS
<1>2. ASSUME NEW d \in Conn, HandleAccept(d)
      PROVE  loop'[c] = loop[c] \/ loop'[c].on = c
  BY <1>2 DEF HandleAccept, TypeOK
<1>3. ASSUME NEW d \in Conn, ReadCompletes(d)
      PROVE  loop'[c] = loop[c] \/ (loop[c].st # "none" /\ loop'[c].on = loop[c].on)
  BY <1>3 DEF ReadCompletes, LoopIs, TypeOK
<1>4. ASSUME NEW d \in Conn, HandleReadError(d) \/ HandleUnknown(d)
      PROVE  loop'[c] = loop[c]
  BY <1>4 DEF HandleReadError, HandleUnknown, LoopEnded, LoopIs, TypeOK
<1>5. NoOnMessage => loop'[c] = loop[c]
  BY DEF NoOnMessage, LoopEnded, LoopIs, TypeOK
<1>6. RearmRead => loop'[c] = loop[c] \/ (c = cur /\ loop'[c].on = clients[loop[cur].id])
  BY DEF RearmRead, TypeOK
<1>7. HandleAcceptError \/ SendBlack \/ SendWhite \/ OnMessage \/ CloseSessions \/ Join \/ Quiet
        => loop'[c] = loop[c]
  BY DEF HandleAcceptError, SendBlack, SendWhite, OnMessage, CloseSessions, Join, Quiet
<1> QED
  BY <1>1, <1>2, <1>3, <1>4, <1>5, <1>6, <1>7, QuietStep
     DEF Next, IoNext, IoStep, StartNext, StopNext, EnvNext, AcceptFails,
         AcceptAborted

LEMMA OwnReadStep ==
    ASSUME IInv, AcceptedInv, OwnReadInv, [Next]_vars
    PROVE  OwnReadInv'
<1>1. TypeOK /\ TypeOK'
  BY IInvStep DEF IInv
<1>2. SUFFICES ASSUME AllStay'
               PROVE  /\ \A c \in Conn : loop'[c].st # "none" => loop'[c].on = c
                      /\ pc' \in {"onMessage", "rearmRead"} => clients'[loop'[cur'].id] = cur'
  BY DEF OwnReadInv
<1>3. AllStay
  BY <1>1, <1>2, StayedBefore
<1>4. ASSUME NEW c \in Conn, loop'[c].st # "none"
      PROVE  loop'[c].on = c
  <2>1. RearmRead => clients[loop[cur].id] = cur
    BY <1>3 DEF RearmRead, OwnReadInv
  <2>2. loop[c].st # "none" => loop[c].on = c
    BY <1>3 DEF OwnReadInv
  <2> QED
    BY <1>1, <1>4, <2>1, <2>2, LoopOn
<1>5. pc \in {"onMessage", "rearmRead"} => clients[loop[cur].id] = cur
  BY <1>3 DEF OwnReadInv
<1> DEFINE Goal == pc' \in {"onMessage", "rearmRead"} => clients'[loop'[cur'].id] = cur'
<1>6. ASSUME UNCHANGED <<pc, cur, clients, loop>>
      PROVE  Goal
  BY <1>5, <1>6
<1>7. ASSUME NEW c \in Conn, HandleReadData(c)
      PROVE  Goal
  <2>1. loop[c].st = "data" /\ SocketsKept /\ pc # "dead"
    BY <1>7 DEF HandleReadData, Handling, IoRunning, SocketsKept
  <2>2. sock[c] # "none"
    BY <2>1 DEF AcceptedInv
  <2>3. PICK k \in Live : clients[k] = c
    BY <1>3, <2>1, <2>2 DEF IInv, KeptWhileAllStay
  <2>4. loop[c].id = k
    BY <2>1, <2>3 DEF IInv, SessionsAreRead
  <2>5. cur' = c /\ clients' = clients /\ loop' = loop
    BY <1>7 DEF HandleReadData
  <2> QED
    BY <2>3, <2>4, <2>5
<1>8. ASSUME OnMessage
      PROVE  Goal
  <2>1. pc = "onMessage" /\ cur' = cur /\ loop' = loop /\ last = loop[cur].id /\ last # 0
        /\ last \in Live
    BY <1>8 DEF OnMessage, IInv, HandlerInv, IdsAboveSentinel
  <2>2. clients' = clients \/ \E k \in Live \ {last} : clients' = [clients EXCEPT ![k] = None]
    BY <1>8, <2>1 DEF OnMessage, SendString, SendTo, IInv, HandlerInv, TypeOK
  <2>3. clients'[last] = clients[last]
    BY <1>1, <2>1, <2>2 DEF TypeOK, Live
  <2> QED
    BY <1>5, <2>1, <2>3
<1>9. ASSUME NEW x \in Conn, PeerConnects(x) \/ PeerSends(x) \/ PeerLeaves(x)
      PROVE  UNCHANGED <<pc, cur, clients, loop>>
  BY <1>9 DEF PeerConnects, PeerSends, PeerLeaves, serverVars
<1>10. ASSUME SetOnConnect \/ AddOnMessage \/ StopAccepting \/ StopIo \/ CloseSessions
              \/ UNCHANGED vars
       PROVE  UNCHANGED <<pc, cur, clients, loop>>
  BY <1>10 DEF SetOnConnect, AddOnMessage, StopAccepting, StopIo, CloseSessions, vars
<1>11. ASSUME NEW x \in Conn,
             \/ HandleAccept(x) \/ ReadCompletes(x) \/ HandleUnknown(x) \/ HandleReadError(x)
      PROVE  Goal
  BY <1>11 DEF HandleAccept, ReadCompletes, HandleUnknown, HandleReadError, Handling
<1>12. ASSUME \/ HandleAcceptError \/ NoOnConnect \/ RearmAccept \/ NoOnMessage
              \/ IoExits \/ OnConnect \/ RearmRead \/ Join
       PROVE  Goal
  BY <1>12 DEF HandleAcceptError, NoOnConnect, RearmAccept, NoOnMessage,
     IoExits, OnConnect, RearmRead, Join
<1>13. ASSUME SendBlack \/ SendWhite
       PROVE  Goal
  BY <1>13 DEF SendBlack, SendWhite, SendData
<1>14. Goal
  BY <1>6, <1>7, <1>8, <1>9, <1>10, <1>11, <1>12, <1>13
     DEF Next, IoNext, IoStep, StartNext, StopNext, EnvNext, AcceptFails,
         AcceptAborted
<1> QED
  BY <1>4, <1>14

LEMMA RelayInvInit == Init => RelayInv
<1> SUFFICES ASSUME Init
             PROVE  RelayInv
  OBVIOUS
<1> USE DEF Init, ServerInit
<1>1. IInv
  BY IInvInit
<1>2. AcceptedInv /\ ToldInv /\ OwnReadInv
  BY DEF AcceptedInv, ToldInv, OwnReadInv
<1>3. ReadInv
  BY DEF ReadInv
<1>4. TakenInv
  BY DEF TakenInv, UnpassedIn
<1> QED
  BY <1>1, <1>2, <1>3, <1>4 DEF RelayInv

LEMMA RelayInvStep == RelayInv /\ [Next]_vars => RelayInv'
<1> SUFFICES ASSUME RelayInv, [Next]_vars
             PROVE  RelayInv'
  OBVIOUS
<1>1. IInv /\ AcceptedInv /\ ToldInv /\ ReadInv /\ TakenInv /\ OwnReadInv
  BY DEF RelayInv
<1>2. TypeOK /\ NotAcceptedInv
  BY <1>1 DEF IInv
<1>3. IInv'
  BY <1>1, IInvStep
<1>4. AcceptedInv'
  BY <1>1, <1>2, AcceptedStep
<1>5. ToldInv'
  BY <1>1, ToldStep
<1>6. ReadInv' /\ TakenInv' /\ OwnReadInv'
  BY <1>1, ReadStep, TakenStep, OwnReadStep
<1> QED
  BY <1>3, <1>4, <1>5, <1>6 DEF RelayInv

LEMMA RelayInductive == Spec => []RelayInv
  BY RelayInvInit, RelayInvStep, PTL DEF Spec

(* While nobody has left, the two that play were last told opposite colours,
   the first of the pair BLACK (game_server.cpp:39-42).                       *)
THEOREM PairIsOpposite == Spec => []OppositeColours
<1>1. RelayInv => OppositeColours
  BY DEF RelayInv, ToldInv, OppositeColours
<1> QED
  BY <1>1, RelayInductive, PTL

(* The server's steps, seen from the players: each is one of the relay's, or
   none of their business.                                                    *)
LEMMA RelayInit == Init => Promise!Init
  BY DEF Init, ServerInit, Promise!Init

LEMMA RelaySends ==
    ASSUME NEW c \in Conn, PeerSends(c)
    PROVE  Promise!Sends(c)
  BY DEF PeerSends, serverVars, Promise!Sends, Promise!Colours, Black, White

LEMMA RelayColours ==
    ASSUME NEW d \in Conn, NEW x \in {Black, White}, peer[d] = "up",
           got' = [got EXCEPT ![d] = @ \o <<x>>], UNCHANGED <<peer, sent>>
    PROVE  Promise!Next
<1>1. x \in Promise!Colours
  BY DEF Promise!Colours, Black, White
<1>2. Promise!Writes(d, <<x>>)
  BY DEF Promise!Writes
<1> QED
  BY <1>1, <1>2 DEF Promise!Next

LEMMA RelayPasses ==
    ASSUME RelayInv, OnMessage, NEW d \in Conn \ {clients[last]}, peer[d] = "up",
           got' = [got EXCEPT ![d] = @ \o Message]
    PROVE  Promise!Next
<1>1. /\ IInv /\ AcceptedInv /\ ReadInv /\ TakenInv /\ OwnReadInv /\ TypeOK
      /\ pc = "onMessage" /\ UNCHANGED <<peer, sent>>
  BY DEF RelayInv, IInv, OnMessage
<1>2. CASE ~AllStay /\ Message = <<Garbage>>
  <2>1. Promise!SomebodyLeft
    BY <1>2 DEF AllStay, Promise!SomebodyLeft
  <2>2. Promise!Writes(d, <<Promise!Garbage>>)
    BY <1>1, <1>2 DEF Promise!Writes, Promise!Garbage, Garbage
  <2> QED
    BY <2>1, <2>2 DEF Promise!Next
<1>3. CASE Message = loop[cur].data /\ clients[last] = loop[cur].on
  <2> DEFINE s == loop[cur].on
  <2>1. cur \in Conn /\ loop[cur].st = "data" /\ ~PassedOn(cur)
    BY <1>1, MessageIs DEF PassedOn
  <2>2. PICK first \in 1..MaxSends, n \in 1..MaxSends : Holds(cur, first, n)
    BY <1>1, <2>1 DEF ReadInv
  <2>3. /\ Message = [i \in 1..n |-> <<s, first + i - 1>>]
        /\ first + n - 1 <= taken[s] /\ UnpassedIn(got, s, first)
    BY <1>3, <2>1, <2>2 DEF Holds
  <2>4. s \in Conn /\ s # d
    BY <1>1, <1>3, <2>1 DEF TypeOK, Loop
  <2>5. taken[s] \in Nat /\ sent[s] \in Nat /\ taken[s] <= sent[s]
    BY <1>1, <2>4, MaxSendsAssumption DEF TypeOK, TakenInv
  <2> DEFINE end == first + n - 1
             t == taken[s]
             m == sent[s]
  <2>6. t \in Nat /\ m \in Nat /\ end <= t /\ t <= m
    BY <2>3, <2>5
  <2> HIDE DEF s, t, m
  <2>7. first \in 1..m /\ end \in 1..m /\ first <= end /\ end - first + 1 = n
    BY <2>6, MaxSendsAssumption
  <2>8. Message = [i \in 1..(end - first + 1) |-> <<s, first + i - 1>>]
    BY <2>3, <2>7
  <2> HIDE DEF end
  <2>9. Promise!Unpassed(s, first)
    BY <2>3 DEF UnpassedIn, Promise!Unpassed
  <2>10. Promise!Writes(d, [i \in 1..(end - first + 1) |-> <<s, first + i - 1>>])
    BY <1>1, <2>8 DEF Promise!Writes
  <2>11. Promise!Passes(s, d, first, end)
    BY <2>4, <2>9, <2>10 DEF Promise!Passes
  <2>12. first \in 1..sent[s] /\ end \in 1..sent[s]
    BY <2>7 DEF m
  <2> QED
    BY <2>4, <2>7, <2>11, <2>12 DEF Promise!Next
<1> QED
  BY <1>1, <1>2, <1>3, MessageIs

LEMMA RelayStep ==
    ASSUME RelayInv, [Next]_vars
    PROVE  [Promise!Next]_(Promise!vars)
<1>1. IInv /\ TypeOK
  BY DEF RelayInv, IInv
<1>2. CASE UNCHANGED <<peer, sent>> /\ got' # got
  <2>1. CASE \E d \in Conn, x \in {Black, White} :
                /\ SendBlack \/ SendWhite
                /\ peer[d] = "up" /\ got' = [got EXCEPT ![d] = @ \o <<x>>]
    BY <1>2, <2>1, RelayColours
  <2>2. CASE \E d \in Conn \ {clients[last]} :
                /\ OnMessage
                /\ peer[d] = "up" /\ got' = [got EXCEPT ![d] = @ \o Message]
    BY <2>2, RelayPasses
  <2> QED
    BY <1>1, <1>2, <2>1, <2>2, GotStep
<1>3. CASE UNCHANGED <<peer, sent>> /\ got' = got
  BY <1>3 DEF Promise!vars
<1>4. ASSUME NEW c \in Conn, PeerConnects(c)
      PROVE  Promise!Next
  <2>1. Promise!Connects(c)
    BY <1>4 DEF PeerConnects, serverVars, Promise!Connects
  <2> QED
    BY <2>1 DEF Promise!Next
<1>5. ASSUME NEW c \in Conn, PeerLeaves(c)
      PROVE  Promise!Next
  <2>1. Promise!Leaves(c)
    BY <1>5 DEF PeerLeaves, serverVars, Promise!Leaves
  <2> QED
    BY <2>1 DEF Promise!Next
<1>6. ASSUME NEW c \in Conn, PeerSends(c)
      PROVE  Promise!Next
  BY <1>6, RelaySends DEF Promise!Next
<1>7. ASSUME NEW x \in Conn,
             \/ HandleAccept(x) \/ ReadCompletes(x) \/ HandleUnknown(x) \/ HandleReadError(x)
             \/ HandleReadData(x)
      PROVE  UNCHANGED <<peer, sent>>
  BY <1>7 DEF HandleAccept, ReadCompletes, HandleUnknown, HandleReadError,
     HandleReadData, peerVars
<1>8. ASSUME \/ HandleAcceptError \/ NoOnConnect \/ RearmAccept \/ NoOnMessage \/ RearmRead
             \/ IoExits \/ SetOnConnect \/ AddOnMessage \/ StopAccepting \/ StopIo
             \/ CloseSessions \/ Join \/ OnConnect \/ SendBlack \/ SendWhite \/ OnMessage
             \/ UNCHANGED vars
      PROVE  UNCHANGED <<peer, sent>>
  BY <1>8 DEF HandleAcceptError, NoOnConnect, RearmAccept, NoOnMessage, RearmRead, OnConnect,
     IoExits, SetOnConnect, AddOnMessage, StopAccepting, StopIo, CloseSessions, Join, vars,
     SendBlack, SendWhite, OnMessage, peerVars
<1> QED
  BY <1>2, <1>3, <1>4, <1>5, <1>6, <1>7, <1>8
     DEF Next, IoNext, IoStep, StartNext, StopNext, EnvNext, AcceptFails,
         AcceptAborted

(* The server keeps the promise of Relay, for any number of connections, ids
   and messages.                                                              *)
THEOREM ServerRelays == Spec => RelayPromise
  BY RelayInit, RelayStep, RelayInductive, PTL DEF Spec, RelayPromise, Promise!Spec

=============================================================================
