---------------------------- MODULE SessionRelay ----------------------------
(* Session keeps the promise of Relay, whatever the two tell each other: what a
   player hears of the other one are the other one's messages, each once, in order.  *)
EXTENDS SessionProofs

-----------------------------------------------------------------------------
(* What a frame thread has behind it, where it is.                            *)

InGame == {"playing", "passing", "moved"} \cup Failing

FrameInv ==
    \A c \in Client :
        /\ at[c] \in InGame => colour[c] # ""
        /\ at[c] \notin {"start", "closing", "joining", "gone"} => sock[c] # "none"
        /\ Len(sends[c]) <= MaxSends

(* A step of one client, which has what it needs where it arrives.            *)
LEMMA OneGoes ==
    ASSUME FrameInv, NEW c \in Client,
           \A d \in Client \ {c} :
              /\ at'[d] = at[d] /\ colour'[d] = colour[d] /\ sock'[d] = sock[d]
              /\ sends'[d] = sends[d],
           at'[c] \in InGame => colour'[c] # "",
           at'[c] \notin {"start", "closing", "joining", "gone"} => sock'[c] # "none",
           Len(sends'[c]) <= MaxSends
    PROVE  FrameInv'
  BY DEF FrameInv

(* Nothing but the place changes.                                             *)
LEMMA OnlyGoes ==
    ASSUME TypeInv, FrameInv, NEW c \in Client, NEW to \in Places,
           at' = [at EXCEPT ![c] = to], UNCHANGED <<colour, sock, sends>>,
           to \in InGame => colour[c] # "",
           to \notin {"start", "closing", "joining", "gone"} => sock[c] # "none"
    PROVE  FrameInv'
<1>1. at'[c] = to /\ \A d \in Client \ {c} : at'[d] = at[d]
  BY DEF TypeInv
<1>2. Len(sends[c]) <= MaxSends
  BY DEF FrameInv
<1> QED
  BY <1>1, <1>2, OneGoes

LEMMA FrameInvQuiet ==
    ASSUME IInv, FrameInv, NEW c \in Client,
           \/ ConnectFails(c) \/ ReceivesNoId(c) \/ SetsHandler(c) \/ Starts(c)
           \/ GoesOn(c) \/ EndsGame(c) \/ ClosesWindow(c) \/ StopsIo(c) \/ ReceivesId(c)
           \/ ReachesLastRow(c)
    PROVE  FrameInv'
<1>1. TypeInv
  BY DEF IInv
<1>2. UNCHANGED <<colour, sock, sends>>
  BY DEF ConnectFails, ReceivesNoId, SetsHandler, Starts, GoesOn, EndsGame, ClosesWindow,
         StopsIo, ReceivesId, ReachesLastRow, gameVars
<1>3. CASE ConnectFails(c) \/ ReceivesNoId(c) \/ EndsGame(c) \/ ClosesWindow(c)
  <2>1. at' = [at EXCEPT ![c] = "closing"]
    BY <1>3 DEF ConnectFails, ReceivesNoId, EndsGame, ClosesWindow, Goes
  <2> QED
    BY <1>1, <1>2, <2>1, OnlyGoes DEF Places, InGame, Failing
<1>4. CASE StopsIo(c)
  <2>1. at' = [at EXCEPT ![c] = "joining"]
    BY <1>4 DEF StopsIo, Goes
  <2> QED
    BY <1>1, <1>2, <2>1, OnlyGoes DEF Places, InGame, Failing
<1>5. CASE SetsHandler(c)
  <2>1. at[c] = "noHandler" /\ at' = [at EXCEPT ![c] = "waiting"]
    BY <1>5 DEF SetsHandler, Goes
  <2>2. sock[c] # "none"
    BY <2>1 DEF FrameInv
  <2> QED
    BY <1>1, <1>2, <2>1, <2>2, OnlyGoes DEF Places, InGame, Failing
<1>6. CASE ReceivesId(c)
  <2>1. at[c] = "connecting" /\ at' = [at EXCEPT ![c] = "noHandler"]
    BY <1>6 DEF ReceivesId, Goes
  <2>2. sock[c] # "none"
    BY <2>1 DEF FrameInv
  <2> QED
    BY <1>1, <1>2, <2>1, <2>2, OnlyGoes DEF Places, InGame, Failing
<1>7. CASE Starts(c)
  <2>1. at[c] = "waiting" /\ at' = [at EXCEPT ![c] = "playing"] /\ colour[c] # ""
    BY <1>7 DEF Starts, Goes
  <2>2. sock[c] # "none"
    BY <2>1 DEF FrameInv
  <2> QED
    BY <1>1, <1>2, <2>1, <2>2, OnlyGoes DEF Places, InGame, Failing
<1>8. CASE GoesOn(c) \/ ReachesLastRow(c)
  <2>1. /\ at[c] \in {"moved", "playing"}
        /\ \/ at' = [at EXCEPT ![c] = "playing"]
           \/ at' = [at EXCEPT ![c] = "moved"]
    BY <1>8 DEF GoesOn, ReachesLastRow, Goes
  <2>2. sock[c] # "none" /\ colour[c] # ""
    BY <2>1 DEF FrameInv, InGame
  <2> QED
    BY <1>1, <1>2, <2>1, <2>2, OnlyGoes DEF Places, InGame, Failing
<1> QED
  BY <1>3, <1>4, <1>5, <1>6, <1>7, <1>8

LEMMA JoinsFailedFrom ==
    ASSUME NEW c \in Client, JoinsFailed(c)
    PROVE  at[c] \in Failing /\ sock' = [sock EXCEPT ![c] = "closed"]
<1>1. PICK then \in DOMAIN FailingTo : Goes(c, FailingTo[then], then)
  BY DEF JoinsFailed
<1> QED
  BY <1>1 DEF JoinsFailed, Goes, FailingTo, Failing

LEMMA FrameInvEnds ==
    ASSUME IInv, FrameInv, NEW c \in Client,
           Connects(c) \/ Killed(c) \/ Joins(c) \/ JoinsFailed(c)
    PROVE  FrameInv'
<1> USE DEF IInv
<1>1. UNCHANGED <<colour, sends>>
  BY DEF Connects, Killed, Joins, JoinsFailed, gameVars
<1>2. \A d \in Client \ {c} : at'[d] = at[d]
  <2>1. \E to : at' = [at EXCEPT ![c] = to]
    BY DEF Connects, Killed, Joins, JoinsFailed, Goes
  <2> QED
    BY <2>1 DEF TypeInv
<1>3. \A d \in Client \ {c} : sock'[d] = sock[d]
  BY DEF TypeInv, Connects, Killed, Joins, JoinsFailed
<1>4. Len(sends[c]) <= MaxSends
  BY DEF FrameInv
<1>5. CASE Connects(c)
  <2>1. at'[c] = "connecting" /\ sock'[c] = "open"
    BY <1>5 DEF TypeInv, Connects, Goes
  <2> QED
    BY <1>1, <1>2, <1>3, <1>4, <2>1, OneGoes DEF InGame, Failing
<1>6. CASE Killed(c) \/ Joins(c)
  <2>1. at'[c] = "gone"
    BY <1>6 DEF TypeInv, Killed, Joins, Goes
  <2> QED
    BY <1>1, <1>2, <1>3, <1>4, <2>1, OneGoes DEF InGame, Failing
<1>7. CASE JoinsFailed(c)
  <2>1. at[c] \in Failing /\ sock'[c] = "closed"
    BY <1>7, JoinsFailedFrom DEF TypeInv
  <2>2. colour[c] # ""
    BY <2>1 DEF FrameInv, InGame
  <2> QED
    BY <1>1, <1>2, <1>3, <1>4, <2>1, <2>2, OneGoes
<1> QED
  BY <1>5, <1>6, <1>7

(* All that is sent stays within the bound.                                   *)
LEMMA SendingSends ==
    ASSUME IInv, NEW c \in Client, Telling(c) \/ Wins(c)
    PROVE  /\ at[c] \in {"playing", "passing", "moved"}
           /\ \E m \in Word : \E then \in DOMAIN FailingTo : Sends(c, m, then)
           /\ UNCHANGED <<colour, sock, got>>
<1>1. CASE Telling(c)
  <2>1. Names \subseteq Word
    BY DEF Word
  <2> QED
    BY <1>1, <2>1, TellingSends DEF gameVars, serverVars
<1>2. CASE Wins(c)
  <2>1. "LOSE" \in Word /\ "playing" \in DOMAIN FailingTo
    BY DEF Word, FailingTo
  <2> QED
    BY <1>2, <2>1 DEF Wins, serverVars
<1> QED
  BY <1>1, <1>2

LEMMA SentWithin ==
    ASSUME NEW c \in Client, sends' \in Exchanges
    PROVE  Len(sends'[c]) <= MaxSends
  BY ExchangesAssumption

(* Who sends is in the game.                                                  *)
LEMMA FrameInvSends ==
    ASSUME IInv, FrameInv, NEW c \in Client, Telling(c) \/ Wins(c)
    PROVE  FrameInv'
<1>1. UNCHANGED <<colour, sock>> /\ at[c] \in {"playing", "passing", "moved"}
  BY SendingSends
<1>2. PICK m \in Word : \E then \in DOMAIN FailingTo : Sends(c, m, then)
  BY SendingSends
<1>3. PICK then \in DOMAIN FailingTo : Sends(c, m, then)
  BY <1>2
<1>4. colour[c] # "" /\ sock[c] # "none"
  BY <1>1 DEF FrameInv, InGame
<1>5. \A d \in Client \ {c} : at'[d] = at[d] /\ sends'[d] = sends[d]
  BY <1>3, SendsStep DEF IInv
<1>6. Len(sends'[c]) <= MaxSends
  <2>1. CASE UNCHANGED sends
    BY <2>1 DEF FrameInv
  <2>2. CASE sends' \in Exchanges
    BY <2>2, SentWithin
  <2> QED
    BY <1>3, <2>1, <2>2 DEF Sends
<1> QED
  BY <1>1, <1>4, <1>5, <1>6, OneGoes

LEMMA FrameInvIo ==
    ASSUME IInv, FrameInv, NEW c \in Client, Io(c)
    PROVE  FrameInv'
<1>1. UNCHANGED <<at, won, sock, sends>>
  BY DEF Io, ReadsSome, ReadsEnd, Reads, Handles, HandlesNothing, IoExits, frameVars
<1>2. \A d \in Client : colour[d] # "" => colour'[d] = colour[d]
  <2>1. CASE Handles(c)
    <3> DEFINE says == Says(text[c])
    <3>1. PICK outcome \in Outcomes(colour[c] # "", says) :
             colour' = IF outcome = "starts" THEN [colour EXCEPT ![c] = says[1]] ELSE colour
      BY <2>1 DEF Handles
    <3>2. OutcomeIs(outcome, colour[c], says)
      BY OutcomeCases
    <3> HIDE DEF says
    <3>3. outcome = "starts" => colour[c] = ""
      BY <3>2 DEF OutcomeIs
    <3> QED
      BY <3>1, <3>3 DEF IInv, TypeInv
  <2>2. CASE ~Handles(c)
    <3>1. UNCHANGED colour
      BY <2>2 DEF Io, ReadsSome, ReadsEnd, Reads, HandlesNothing, IoExits, gameVars
    <3> QED
      BY <3>1
  <2> QED
    BY <2>1, <2>2
<1> QED
  BY <1>1, <1>2 DEF FrameInv

LEMMA FrameInvStep == ASSUME IInv, FrameInv, [Next]_vars PROVE FrameInv'
<1>1. CASE \E c \in Client : \/ Frame(c) \/ Decides(c) \/ Io(c)
                             \/ Moves(c) \/ TellsOpportunity(c) \/ ReachesLastRow(c)
                             \/ Promotes(c) \/ ClosesWindow(c) \/ Killed(c)
  BY <1>1, FrameInvQuiet, FrameInvEnds, FrameInvSends, FrameInvIo
     DEF Frame, Decides, Telling
<1>2. CASE UNCHANGED <<frameVars, gameVars>>
  BY <1>2 DEF FrameInv, frameVars, gameVars
<1>3. CASE Server \/ Dies \/ Stops
  BY <1>2, <1>3 DEF Server, TellsColour, Accepts, Relays, DropsGone, Dies, Stops
<1> QED
  BY <1>1, <1>2, <1>3 DEF Next, vars

LEMMA FrameInvInit == ASSUME Init PROVE FrameInv
<1>1. Len(<<>>) = 0
  OBVIOUS
<1>2. \A c \in Client : at[c] = "start" /\ sends[c] = <<>>
  BY DEF Init
<1>3. \A c \in Client : Len(sends[c]) = 0
  BY <1>1, <1>2
<1>4. \A c \in Client : Len(sends[c]) <= MaxSends
  BY <1>3, ExchangesAssumption
<1> QED
  BY <1>2, <1>4 DEF FrameInv, InGame, Failing

-----------------------------------------------------------------------------
(* The refinement mapping.                                                    *)

Peer ==
    [c \in Client |-> CASE sock[c] = "none" -> "idle"
                        [] sock[c] = "open" -> "up"
                        [] sock[c] = "closed" -> "gone"]

Sent == [c \in Client |-> Len(sends[c])]

LEMMA PromiseVars ==
    UNCHANGED <<sock, sends, got>> => UNCHANGED Promise!vars
  BY DEF Promise!vars

LEMMA PeerOf ==
    ASSUME NEW c \in Client
    PROVE  /\ sock[c] = "none" => Peer[c] = "idle"
           /\ sock[c] = "open" => Peer[c] = "up"
           /\ sock[c] = "closed" => Peer[c] = "gone"
  BY DEF Peer

LEMMA ConnectsRefines ==
    ASSUME IInv, NEW c \in Client, Connects(c)
    PROVE  Promise!Connects(c)
<1>1. sock' = [sock EXCEPT ![c] = "open"] /\ UNCHANGED <<sends, got>>
  BY DEF Connects, serverVars
<1>2. sock[c] = "none" /\ sock \in [Client -> {"none", "open", "closed"}]
  BY DEF IInv, EarlyInv, TypeInv, Connects, Goes
<1>3. Peer[c] = "idle"
  BY <1>2, PeerOf
<1>4. Peer' = [Peer EXCEPT ![c] = "up"]
  BY <1>1, <1>2 DEF Peer
<1>5. Sent' = Sent
  BY <1>1 DEF Sent
<1> QED
  BY <1>1, <1>3, <1>4, <1>5 DEF Promise!Connects, Peer, Sent

(* The socket is closed: the peer leaves, if it has not left before.          *)
LEMMA LeavesRefines ==
    ASSUME IInv, NEW c \in Client, sock[c] # "none",
           sock' = [sock EXCEPT ![c] = "closed"], UNCHANGED <<sends, got>>
    PROVE  Promise!Leaves(c) \/ UNCHANGED Promise!vars
<1>1. sock \in [Client -> {"none", "open", "closed"}]
  BY DEF IInv, TypeInv
<1>2. CASE sock[c] = "closed"
  <2>1. sock' = sock
    BY <1>1, <1>2
  <2> QED
    BY <2>1, PromiseVars
<1>3. CASE sock[c] = "open"
  <2>1. Peer[c] = "up"
    BY <1>3, PeerOf
  <2>2. Peer' = [Peer EXCEPT ![c] = "gone"]
    BY <1>1, <1>3 DEF Peer
  <2>3. Sent' = Sent
    BY DEF Sent
  <2>4. Promise!Leaves(c)
    BY <2>1, <2>2, <2>3 DEF Promise!Leaves, Peer, Sent
  <2> QED
    BY <2>4
<1> QED
  BY <1>1, <1>2, <1>3

(* Who sends has been told its colour, and has not sent too much.             *)
LEMMA SendsRefines ==
    ASSUME IInv, FrameInv, NEW c \in Client, Telling(c) \/ Wins(c)
    PROVE  Promise!Sends(c) \/ UNCHANGED Promise!vars
<1>1. UNCHANGED <<got, sock>> /\ at[c] \in {"playing", "passing", "moved"}
  BY SendingSends
<1>5. PICK m \in Word : \E then \in DOMAIN FailingTo : Sends(c, m, then)
  BY SendingSends
<1>2. PICK then \in DOMAIN FailingTo : Sends(c, m, then)
  BY <1>5
<1>3. CASE UNCHANGED sends
  BY <1>1, <1>3, PromiseVars
<1>4. CASE /\ sock[c] = "open" /\ sends' = [sends EXCEPT ![c] = Append(sends[c], m)]
           /\ sends' \in Exchanges
  <2>1. sends[c] \in Seq(Word) /\ sends \in [Client -> Seq(Word)]
    BY DEF IInv, TypeInv
  <2>2. Len(sends[c]) \in Nat /\ Len(Append(sends[c], m)) = Len(sends[c]) + 1
    BY <2>1, AppendProperties, LenProperties
  <2>3. Sent' = [Sent EXCEPT ![c] = Sent[c] + 1]
    <3>1. \A d \in Client : d # c => sends'[d] = sends[d]
      BY <1>4, <2>1
    <3>2. sends'[c] = Append(sends[c], m)
      BY <1>4, <2>1
    <3> QED
      BY <2>2, <3>1, <3>2 DEF Sent
  <2>4. Sent[c] < MaxSends
    <3>1. Len(sends'[c]) <= MaxSends
      BY <1>4, SentWithin
    <3>2. sends'[c] = Append(sends[c], m)
      BY <1>4, <2>1
    <3> QED
      BY <2>2, <3>1, <3>2, ExchangesAssumption DEF Sent
  <2>5. \E i \in DOMAIN got[c] : got[c][i] \in Promise!Colours
    <3>2. colour[c] # ""
      BY <1>1 DEF FrameInv, InGame
    <3>3. got[c] # <<>>
      BY <3>2, StartsWithItsColour
    <3>4. got[c] \in Seq(Item)
      BY DEF IInv, TypeInv
    <3>5. 1 \in 1..Len(got[c]) /\ DOMAIN got[c] = 1..Len(got[c])
      BY <3>3, <3>4, NonEmpty
    <3>6. got[c][1] = ColourOf(c)
      BY <3>5 DEF IInv, GotInv
    <3>7. got[c][1] \in Promise!Colours
      BY <3>6 DEF ColourOf, Black, White, Promise!Colours
    <3> QED
      BY <3>5, <3>7
  <2>6. Peer[c] = "up"
    BY <1>4, PeerOf
  <2>7. Peer' = Peer
    BY <1>1 DEF Peer
  <2>8. Promise!Sends(c)
    BY <1>1, <2>3, <2>4, <2>5, <2>6, <2>7 DEF Promise!Sends, Peer, Sent
  <2> QED
    BY <2>8
<1> QED
  BY <1>2, <1>3, <1>4 DEF Sends

LEMMA TellsRefines ==
    ASSUME IInv, TellsColour
    PROVE  (\E d \in Client, hue \in Promise!Colours : Promise!Writes(d, <<hue>>))
              \/ UNCHANGED Promise!vars
<1> DEFINE c == Head(untold)
           item == IF untold = pair THEN Black ELSE White
<1>1. UNCHANGED <<sock, sends>>
  BY DEF TellsColour, frameVars
<1>2. CASE UNCHANGED got
  BY <1>1, <1>2, PromiseVars
<1>3. CASE Listened(c) /\ got' = [got EXCEPT ![c] = Append(got[c], item)]
  <2>1. untold # <<>> /\ untold \in Seq(Client)
    BY DEF TellsColour, IInv, TypeInv
  <2>2. c \in Client
    BY <2>1, HeadTailProperties
  <2>3. item \in Colours /\ item \in Promise!Colours
    BY DEF Colours, Black, White, Promise!Colours
  <2> HIDE DEF c, item
  <2>4. got[c] \in Seq(Item) /\ item \in Item
    BY <2>2, <2>3 DEF IInv, TypeInv, Item
  <2>5. got' = [got EXCEPT ![c] = got[c] \o <<item>>]
    BY <1>3, <2>4, AppendIsConcat
  <2>6. Peer[c] = "up"
    BY <1>3, <2>2, PeerOf DEF Listened
  <2>7. Peer' = Peer /\ Sent' = Sent
    BY <1>1 DEF Peer, Sent
  <2>8. Promise!Writes(c, <<item>>)
    BY <2>5, <2>6, <2>7 DEF Promise!Writes, Peer, Sent
  <2> QED
    BY <2>2, <2>3, <2>8
<1> QED
  BY <1>2, <1>3 DEF TellsColour

(* What c sends next has reached nobody yet.                                  *)
LEMMA NextIsUnpassed ==
    ASSUME IInv, NEW c \in Client
    PROVE  Promise!Unpassed(c, passed[c] + 1)
<1>1. ASSUME NEW d \in Client, NEW i \in DOMAIN got[d], got[d][i][1] = c
      PROVE  got[d][i][2] < passed[c] + 1
  <2>1. got[d] \in Seq(Item) /\ passed[c] \in Nat
    BY DEF IInv, TypeInv
  <2>2. i \in 1..Len(got[d])
    BY <2>1
  <2>3. CASE i = 1
    <3>1. got[d][i][2] = 0
      BY <2>2, <2>3 DEF IInv, GotInv, ColourOf, Black, White
    <3> QED
      BY <2>1, <3>1
  <2>4. CASE i > 1
    <3>1. /\ got[d][i][1] = Mate(d)
          /\ got[d][i] \in Client \X (Nat \ {0})
          /\ got[d][i][2] <= passed[Mate(d)]
      BY <2>2, <2>4 DEF IInv, GotInv
    <3>2. got[d][i][2] \in Nat /\ got[d][i][2] <= passed[c]
      BY <1>1, <3>1
    <3> QED
      BY <2>1, <3>2
  <2>5. i = 1 \/ i > 1
    BY <2>1, <2>2
  <2> QED
    BY <2>3, <2>4, <2>5
<1> QED
  BY <1>1 DEF Promise!Unpassed

LEMMA RelaysRefines ==
    ASSUME IInv, NEW c \in Client, Relays(c)
    PROVE  (\E a, b \in Client : \E first, end \in 1..Sent[a] :
                first <= end /\ Promise!Passes(a, b, first, end))
              \/ UNCHANGED Promise!vars
<1> DEFINE d == Mate(c)
           n == passed[c] + 1
           item == <<c, n>>
<1>1. UNCHANGED <<sock, sends>>
  BY DEF Relays, frameVars
<1>2. CASE UNCHANGED got
  BY <1>1, <1>2, PromiseVars
<1>3. CASE Listened(d) /\ got' = [got EXCEPT ![d] = Append(got[d], item)]
  <2>1. d \in Client /\ d # c
    BY MateOther
  <2>2. passed[c] \in Nat /\ Len(sends[c]) \in Nat /\ passed[c] < Len(sends[c])
    BY Lengths DEF Relays, IInv, TypeInv
  <2>3. n \in 1..Sent[c] /\ n <= n
    BY <2>2 DEF Sent
  <2>4. item \in Item
    BY <2>2 DEF Item
  <2>5. got[d] \in Seq(Item)
    BY <2>1 DEF IInv, TypeInv
  <2>6. Append(got[d], item) = got[d] \o <<item>>
    BY <2>4, <2>5, AppendIsConcat
  <2>7. [i \in 1..(n - n + 1) |-> <<c, n + i - 1>>] = <<item>>
    <3>1. n - n + 1 = 1 /\ n + 1 - 1 = n
      BY <2>2
    <3>2. 1..1 = {1}
      OBVIOUS
    <3>3. [i \in 1..(n - n + 1) |-> <<c, n + i - 1>>] = [i \in {1} |-> <<c, n + 1 - 1>>]
      BY <3>1, <3>2
    <3>4. [i \in {1} |-> item] = <<item>>
      BY <3>2
    <3> QED
      BY <3>1, <3>3, <3>4
  <2>8. Peer[d] = "up"
    BY <1>3, <2>1, PeerOf DEF Listened
  <2>9. Peer' = Peer /\ Sent' = Sent
    BY <1>1 DEF Peer, Sent
  <2>10. Promise!Unpassed(c, n)
    BY NextIsUnpassed
  <2> HIDE DEF d, n, item
  <2>11. Promise!Writes(d, <<item>>)
    BY <1>3, <2>6, <2>8, <2>9 DEF Promise!Writes, Peer, Sent
  <2>12. Promise!Passes(c, d, n, n)
    BY <2>1, <2>7, <2>10, <2>11 DEF Promise!Passes
  <2> QED
    BY <2>1, <2>3, <2>12
<1>4. passed'[c] = n
  BY DEF Relays, IInv, TypeInv
<1> QED
  BY <1>2, <1>3, <1>4 DEF Relays

-----------------------------------------------------------------------------

LEMMA InitRefines == ASSUME Init PROVE Promise!Init
<1>1. Len(<<>>) = 0
  OBVIOUS
<1>2. Peer = [c \in Client |-> "idle"]
  BY DEF Init, Peer
<1>3. Sent = [c \in Client |-> 0]
  <2>1. \A c \in Client : sends[c] = <<>>
    BY DEF Init
  <2>2. \A c \in Client : Len(sends[c]) = 0
    BY <1>1, <2>1
  <2> QED
    BY <2>2 DEF Sent
<1>4. got = [c \in Client |-> <<>>]
  BY DEF Init
<1> QED
  BY <1>2, <1>3, <1>4 DEF Promise!Init, Peer, Sent

LEMMA StepRefines ==
    ASSUME IInv, FrameInv, [Next]_vars
    PROVE  [Promise!Next]_(Promise!vars)
<1>1. CASE UNCHANGED <<sock, sends, got>>
  BY <1>1, PromiseVars
<1>2. ASSUME NEW c \in Client, Connects(c)
      PROVE  Promise!Next
  BY <1>2, ConnectsRefines DEF Promise!Next
<1>3. ASSUME NEW c \in Client, Killed(c) \/ Joins(c) \/ JoinsFailed(c)
      PROVE  [Promise!Next]_(Promise!vars)
  <2>1. UNCHANGED <<sends, got>>
    BY <1>3 DEF Killed, Joins, JoinsFailed, serverVars
  <2>2. CASE Joins(c) /\ sock[c] # "open"
    <3>1. sock' = sock
      BY <2>2 DEF Joins, IInv, TypeInv
    <3> QED
      BY <2>1, <3>1, PromiseVars
  <2>3. CASE Joins(c) /\ sock[c] = "open"
    <3>1. sock' = [sock EXCEPT ![c] = "closed"]
      BY <2>3 DEF Joins
    <3>2. Promise!Leaves(c) \/ UNCHANGED Promise!vars
      BY <2>1, <2>3, <3>1, LeavesRefines
    <3> QED
      BY <3>2 DEF Promise!Next
  <2>4. CASE Killed(c) \/ JoinsFailed(c)
    <3>1. /\ sock' = [sock EXCEPT ![c] = "closed"]
          /\ at[c] \in {"connecting", "waiting"} \cup Failing
      BY <2>4, JoinsFailedFrom DEF Killed
    <3>2. sock[c] # "none"
      BY <3>1 DEF FrameInv, Failing
    <3>3. Promise!Leaves(c) \/ UNCHANGED Promise!vars
      BY <2>1, <3>1, <3>2, LeavesRefines
    <3> QED
      BY <3>3 DEF Promise!Next
  <2> QED
    BY <1>3, <2>2, <2>3, <2>4
<1>4. ASSUME NEW c \in Client, Telling(c) \/ Wins(c)
      PROVE  [Promise!Next]_(Promise!vars)
  BY <1>4, SendsRefines DEF Promise!Next
<1>5. CASE TellsColour
  BY <1>5, TellsRefines DEF Promise!Next
<1>6. ASSUME NEW c \in Client, Relays(c)
      PROVE  [Promise!Next]_(Promise!vars)
  BY <1>6, RelaysRefines DEF Promise!Next, Sent
<1>7. ASSUME NEW c \in Client,
             \/ ConnectFails(c) \/ ReceivesId(c) \/ ReceivesNoId(c) \/ SetsHandler(c)
             \/ Starts(c) \/ EndsGame(c) \/ StopsIo(c) \/ GoesOn(c) \/ ClosesWindow(c)
             \/ ReachesLastRow(c) \/ Io(c)
      PROVE  UNCHANGED <<sock, sends, got>>
  BY <1>7 DEF ConnectFails, ReceivesId, ReceivesNoId, SetsHandler, Starts, EndsGame, StopsIo,
              GoesOn, ClosesWindow, ReachesLastRow, Io, ReadsSome, ReadsEnd, Reads, Handles, HandlesNothing,
              IoExits, frameVars, serverVars
<1>8. ASSUME NEW c \in Client, Accepts(c) \/ DropsGone(c) \/ Dies \/ Stops
      PROVE  UNCHANGED <<sock, sends, got>>
  BY <1>8 DEF Accepts, DropsGone, Dies, Stops, frameVars
<1>9. CASE UNCHANGED vars
  BY <1>1, <1>9 DEF vars, frameVars, serverVars
<1>10. CASE Dies \/ Stops
  BY <1>1, <1>10 DEF Dies, Stops, frameVars
<1>11. CASE \E c \in Client : \/ Frame(c) \/ Decides(c) \/ Io(c)
                              \/ Moves(c) \/ TellsOpportunity(c) \/ ReachesLastRow(c)
                              \/ Promotes(c) \/ ClosesWindow(c) \/ Killed(c)
  BY <1>1, <1>2, <1>3, <1>4, <1>7, <1>11 DEF Frame, Decides, Telling
<1>12. CASE Server
  BY <1>1, <1>5, <1>6, <1>8, <1>12 DEF Server
<1> QED
  BY <1>9, <1>10, <1>11, <1>12 DEF Next

(* What the players hear of each other through these two clients and the server
   between them is what Relay promises: each other's messages, each at most
   once, in the order they were sent (game_server.cpp:49-66, client.cpp:88-156). *)
THEOREM SessionKeepsPromise == Spec => RelayPromise
<1>1. Init => Promise!Init
  BY InitRefines
<1>2. IInv /\ FrameInv /\ [Next]_vars => [Promise!Next]_(Promise!vars)
  BY StepRefines
<1>3. Init => FrameInv
  BY FrameInvInit
<1>4. IInv /\ FrameInv /\ [Next]_vars => FrameInv'
  BY FrameInvStep
<1> QED
  BY <1>1, <1>2, <1>3, <1>4, SpecIInv, PTL DEF Spec, RelayPromise, Promise!Spec

=============================================================================
