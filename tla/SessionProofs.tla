---------------------------- MODULE SessionProofs ----------------------------
(* Proofs about Session: what a game hears before it starts, how it ends, what
   its I/O thread dies of, and that no handler outlives it, whatever the two
   tell each other.                                                           *)
EXTENDS Session, FiniteSetTheorems, SequenceTheorems, TLAPS

-----------------------------------------------------------------------------
(* The inductive strengthening.                                               *)

Item == Colours \cup (Client \X (Nat \ {0}))

Word == Names \cup {"LOSE"}

TypeInv ==
    /\ at \in [Client -> Places]
    /\ io \in [Client -> {"none", "reading", "handling", "dead", "exited"}]
    /\ text \in [Client -> Seq(Item)]
    /\ colour \in [Client -> {"", "BLACK", "WHITE"}]
    /\ over \in [Client -> BOOLEAN] /\ won \in [Client -> BOOLEAN]
    /\ sock \in [Client -> {"none", "open", "closed"}]
    /\ sends \in [Client -> Seq(Word)]
    /\ got \in [Client -> Seq(Item)]
    /\ heard \in [Client -> Nat] /\ passed \in [Client -> Nat]
    /\ session \in [Client -> {"none", "open", "closed"}]
    /\ pair \in {<<>>} \cup (Client \X Client)
    /\ untold \in Seq(Client)
    /\ server \in {"up", "dead", "down"}

CountInv ==
    \A c \in Client : heard[c] <= Len(got[c]) /\ passed[c] <= Len(sends[c])

(* What has not happened yet on the frame thread's way.                       *)
EarlyInv ==
    \A c \in Client :
        /\ at[c] = "start" => sock[c] = "none"
        /\ at[c] \in {"start", "connecting"} => io[c] = "none"
        /\ at[c] \in {"start", "connecting", "noHandler"} => colour[c] = ""
        /\ session[c] # "none" => sock[c] # "none"

(* There is one pairing, and it tells each of the two once.                   *)
PairInv ==
    \/ pair = <<>> /\ untold = <<>>
    \/ /\ pair \in Client \X Client /\ pair[1] # pair[2]
       /\ untold \in {pair, <<pair[2]>>, <<>>}
       /\ \A c \in Client : session[c] # "none"

Waits(c) ==
    \/ pair = <<>> \/ untold = pair
    \/ untold # <<>> /\ c = pair[2]

WaitInv ==
    \A c \in Client :
        IF Waits(c) THEN got[c] = <<>> ELSE sock[c] = "open" => got[c] # <<>>

(* A client is written its colour first, and then messages of the other one, in
   their order.                                                               *)
ColourOf(c) == IF c = pair[1] THEN Black ELSE White

GotInv ==
    \A c \in Client : \A i \in 1..Len(got[c]) :
        /\ i = 1 => got[c][i] = ColourOf(c)
        /\ i > 1 => /\ got[c][i][1] = Mate(c)
                    /\ got[c][i] \in Client \X (Nat \ {0})
                    /\ got[c][i][2] <= passed[Mate(c)]
        /\ \A j \in 1..Len(got[c]) :
              i > 1 /\ j > i => got[c][i][2] < got[c][j][2]

(* Between a move, or the first half of one, and the look for the end.        *)
Deciding == {"passing", "moved", "failingPassing", "failingMoved"}

(* Nothing follows a LOSE.                                                    *)
SendInv ==
    \A c \in Client :
        /\ won[c] => over[c] /\ at[c] \notin Deciding
        /\ \A i \in 1..Len(sends[c]) :
              sends[c][i] = "LOSE" => i = Len(sends[c]) /\ won[c]

(* A game has started with the colour it was written first.                   *)
StartInv ==
    \A c \in Client : colour[c] # "" =>
        /\ heard[c] >= 1 /\ got[c] # <<>>
        /\ colour[c] = got[c][1][1]

(* What is handled is the end of what has been read.                          *)
TextIs(c, k) ==
    /\ text[c] = SubSeq(got[c], k, heard[c])
    /\ colour[c] # "" => k >= 2
    /\ k = heard[c] + 1 => session[c] = "closed"

TextInv ==
    \A c \in Client :
        io[c] = "handling" => \E k \in 1..(heard[c] + 1) : TextIs(c, k)

(* What was read has been sent.                                               *)
SentItem(item) ==
    \/ item \in Colours
    \/ item \in Client \X (Nat \ {0}) /\ item[2] <= Len(sends[item[1]])

ReadInv == \A c \in Client : \A i \in DOMAIN text[c] : SentItem(text[c][i])

IInv ==
    /\ TypeInv /\ CountInv /\ EarlyInv /\ PairInv /\ WaitInv /\ GotInv /\ SendInv
    /\ StartInv /\ TextInv /\ ReadInv
    /\ OverHasCause /\ DiesOfGlue /\ NoHandlerAfterGone

-----------------------------------------------------------------------------
(* The clients and what they keep.                                            *)

(* There are two clients, so each has exactly one other.                      *)
LEMMA MateOther ==
    ASSUME NEW c \in Client
    PROVE  /\ Mate(c) \in Client /\ Mate(c) # c
           /\ \A d \in Client : d # c => d = Mate(c)
<1>1. IsFiniteSet(Client \ {c}) /\ Cardinality(Client \ {c}) = 1
  BY ClientAssumption, FS_RemoveElement
<1>2. PICK d : Client \ {c} = {d}
  BY <1>1, FS_Singleton
<1>3. d \in Client /\ d # c /\ \A e \in Client : e # c => e = d
  BY <1>2
<1>4. Mate(c) \in Client /\ Mate(c) # c
  BY <1>3 DEF Mate
<1> QED
  BY <1>3, <1>4

(* Nothing is a text, and there is nothing in it.                             *)
LEMMA NoItems == <<>> \in Seq(Item) /\ (\A i \in DOMAIN <<>> : FALSE)
<1>1. <<>> \in Seq(Item) /\ Len(<<>>) = 0
  BY EmptySeq
<1>2. DOMAIN <<>> = 1..0
  BY <1>1, LenProperties
<1> QED
  BY <1>1, <1>2

(* A stream has a length.                                                     *)
LEMMA Lengths ==
    ASSUME NEW S, NEW f \in [Client -> Seq(S)], NEW c \in Client
    PROVE  f[c] \in Seq(S) /\ Len(f[c]) \in Nat
<1>1. f[c] \in Seq(S)
  OBVIOUS
<1> QED
  BY <1>1, LenProperties

-----------------------------------------------------------------------------
(* The frame threads touch neither what the server writes nor what has been
   read of it.                                                                *)

(* What a conjunct says stays as long as its variables do.                    *)
LEMMA StreamsKept ==
    ASSUME IInv, UNCHANGED <<text, heard, colour, serverVars>>
    PROVE  PairInv' /\ GotInv' /\ StartInv'
  BY DEF IInv, PairInv, GotInv, StartInv, ColourOf, serverVars

LEMMA TextKept ==
    ASSUME IInv, UNCHANGED <<text, heard, colour, serverVars>>,
           \A c \in Client : io'[c] = "handling" => io[c] = "handling"
    PROVE  TextInv'
  BY DEF IInv, TextInv, TextIs, serverVars

(* What is said stays, and so does what a thread has died of.                 *)
LEMMA ReadKept ==
    ASSUME ReadInv, DiesOfGlue, UNCHANGED <<text, sends, colour>>,
           \A c \in Client : io'[c] = "dead" => io[c] = "dead" \/ colour[c] = ""
    PROVE  ReadInv' /\ DiesOfGlue'
<1>1. ReadInv'
  BY DEF ReadInv, SentItem
<1>2. \A c \in Client : Says(text[c])' = Says(text[c])
  BY DEF Says, What
<1>3. ASSUME NEW c \in Client, io'[c] = "dead", colour'[c] # ""
      PROVE  DeafByGlue(c)'
  <2>1. io[c] = "dead" /\ colour[c] # ""
    BY <1>3
  <2>2. Unreadable(Says(text[c]))
    BY <2>1 DEF DiesOfGlue, DeafByGlue
  <2> QED
    BY <1>2, <1>3, <2>2 DEF DeafByGlue
<1> QED
  BY <1>1, <1>3 DEF DiesOfGlue

LEMMA SendKept ==
    ASSUME SendInv, UNCHANGED <<won, over, sends>>,
           \A c \in Client : at'[c] \in Deciding => at[c] \in Deciding \/ ~won[c]
    PROVE  SendInv'
  BY DEF SendInv

(* A step from one place of the frame thread to the next, and nothing else.   *)
Quiet(c) ==
    /\ \E to \in {"closing", "waiting", "playing", "joining", "moved"} :
            at' = [at EXCEPT ![c] = to] /\ (to = "moved" => ~over[c])
    /\ UNCHANGED <<won, sock, sends, gameVars, ioVars, serverVars>>

LEMMA QuietStep == ASSUME IInv, NEW c \in Client, Quiet(c) PROVE IInv'
<1> USE DEF IInv
<1>1. /\ UNCHANGED <<won, sock, sends, colour, over, io, text, heard>>
      /\ UNCHANGED serverVars
  BY DEF Quiet, gameVars, ioVars
<1>2. /\ at' \in [Client -> Places]
      /\ \A d \in Client : at'[d] \in {"start", "connecting", "noHandler", "gone"}
                              => at'[d] = at[d]
      /\ \A d \in Client : at'[d] \in Deciding => at[d] \in Deciding \/ ~over[d]
  <2>1. PICK to \in {"closing", "waiting", "playing", "joining", "moved"} :
            at' = [at EXCEPT ![c] = to] /\ (to = "moved" => ~over[c])
    BY DEF Quiet
  <2>2. at' \in [Client -> Places] /\ at'[c] = to
    BY <2>1 DEF TypeInv, Places
  <2>3. \A d \in Client : d # c => at'[d] = at[d]
    BY <2>1 DEF TypeInv
  <2> QED
    BY <2>1, <2>2, <2>3 DEF Deciding
<1>3. TypeInv'
  BY <1>1, <1>2 DEF TypeInv, serverVars
<1>4. EarlyInv' /\ SendInv' /\ NoHandlerAfterGone'
  <2>1. \A d \in Client : at'[d] \in Deciding => at[d] \in Deciding \/ ~won[d]
    BY <1>2 DEF SendInv
  <2>2. SendInv'
    BY <1>1, <2>1, SendKept
  <2> QED
    BY <1>1, <1>2, <2>2 DEF EarlyInv, NoHandlerAfterGone, IoEnded, serverVars
<1>5. CountInv' /\ WaitInv' /\ OverHasCause'
  BY <1>1 DEF CountInv, WaitInv, Waits, OverHasCause, serverVars
<1> QED
  BY <1>1, <1>3, <1>4, <1>5, StreamsKept, TextKept, ReadKept

LEMMA QuietActions ==
    ASSUME NEW c \in Client,
           \/ ConnectFails(c) \/ ReceivesNoId(c) \/ SetsHandler(c) \/ Starts(c)
           \/ GoesOn(c) \/ EndsGame(c) \/ ClosesWindow(c) \/ StopsIo(c)
           \/ ReachesLastRow(c)
    PROVE  Quiet(c)
  BY DEF Quiet, Goes, ConnectFails, ReceivesNoId, SetsHandler, Starts, GoesOn, EndsGame,
         ClosesWindow, StopsIo, ReachesLastRow, MayMove

LEMMA ConnectsStep == ASSUME IInv, NEW c \in Client, Connects(c) PROVE IInv'
<1> USE DEF IInv
<1>1. /\ UNCHANGED <<won, sends, colour, over, io, text, heard>>
      /\ UNCHANGED serverVars
  BY DEF Connects, gameVars, ioVars
<1>2. /\ at[c] = "start" /\ at' = [at EXCEPT ![c] = "connecting"]
      /\ sock' = [sock EXCEPT ![c] = "open"]
  BY DEF Connects, Goes
<1>3. TypeInv'
  BY <1>1, <1>2 DEF TypeInv, Places, serverVars
<1>4. EarlyInv'
  BY <1>1, <1>2 DEF TypeInv, EarlyInv, serverVars
<1>9. SendInv' /\ NoHandlerAfterGone'
  <2>1. \A d \in Client : at'[d] \in Deciding \cup {"gone"} => at[d] = at'[d]
    BY <1>2 DEF TypeInv, Deciding
  <2> QED
    BY <1>1, <2>1, SendKept DEF NoHandlerAfterGone, IoEnded
<1>5. session[c] = "none"
  BY <1>2 DEF EarlyInv, TypeInv
<1>6. Waits(c)
  BY <1>5 DEF PairInv, Waits
<1>7. WaitInv'
  BY <1>1, <1>2, <1>6 DEF TypeInv, WaitInv, Waits, serverVars
<1>8. CountInv' /\ OverHasCause'
  BY <1>1 DEF CountInv, OverHasCause, serverVars
<1> QED
  BY <1>1, <1>3, <1>4, <1>7, <1>8, <1>9, StreamsKept, TextKept, ReadKept

LEMMA ReceivesIdStep == ASSUME IInv, NEW c \in Client, ReceivesId(c) PROVE IInv'
<1> USE DEF IInv
<1>1. /\ UNCHANGED <<won, sock, sends, colour, over, text, heard>>
      /\ UNCHANGED serverVars
  BY DEF ReceivesId, gameVars
<1>2. /\ at[c] = "connecting" /\ at' = [at EXCEPT ![c] = "noHandler"]
      /\ io' = [io EXCEPT ![c] = "reading"]
  BY DEF ReceivesId, Goes
<1>3. TypeInv'
  BY <1>1, <1>2 DEF TypeInv, Places, serverVars
<1>4. EarlyInv' /\ SendInv'
  <2>1. EarlyInv'
    BY <1>1, <1>2 DEF TypeInv, EarlyInv, serverVars
  <2>2. \A d \in Client : at'[d] \in Deciding => at[d] \in Deciding
    BY <1>2 DEF TypeInv, Deciding
  <2> QED
    BY <1>1, <2>1, <2>2, SendKept
<1>7. NoHandlerAfterGone' /\ ReadInv' /\ DiesOfGlue'
  <2>1. NoHandlerAfterGone'
    BY <1>1, <1>2 DEF TypeInv, NoHandlerAfterGone, IoEnded
  <2>2. \A d \in Client : io'[d] = "dead" => io[d] = "dead"
    BY <1>2 DEF TypeInv
  <2> QED
    BY <1>1, <2>1, <2>2, ReadKept
<1>5. CountInv' /\ WaitInv' /\ OverHasCause'
  BY <1>1 DEF CountInv, WaitInv, Waits, OverHasCause, serverVars
<1>6. TextInv'
  BY <1>1, <1>2, TextKept DEF TypeInv
<1> QED
  BY <1>1, <1>3, <1>4, <1>5, <1>6, <1>7, StreamsKept

LEMMA KilledStep == ASSUME IInv, NEW c \in Client, Killed(c) PROVE IInv'
<1> USE DEF IInv
<1>1. /\ UNCHANGED <<won, sends, colour, over, text, heard>>
      /\ UNCHANGED serverVars
  BY DEF Killed, gameVars
<1>2. /\ at[c] \in {"connecting", "waiting"} /\ at' = [at EXCEPT ![c] = "gone"]
      /\ sock' = [sock EXCEPT ![c] = "closed"]
      /\ io' = [io EXCEPT ![c] = IF io[c] \in {"none", "dead"} THEN io[c] ELSE "exited"]
  BY DEF Killed
<1>3. TypeInv'
  BY <1>1, <1>2 DEF TypeInv, Places, serverVars
<1>4. EarlyInv' /\ SendInv'
  <2>1. EarlyInv'
    BY <1>1, <1>2 DEF TypeInv, EarlyInv, serverVars
  <2>2. \A d \in Client : at'[d] \in Deciding => at[d] \in Deciding
    BY <1>2 DEF TypeInv, Deciding
  <2> QED
    BY <1>1, <2>1, <2>2, SendKept
<1>7. NoHandlerAfterGone' /\ ReadInv' /\ DiesOfGlue'
  <2>1. NoHandlerAfterGone'
    BY <1>1, <1>2 DEF TypeInv, NoHandlerAfterGone, IoEnded
  <2>2. \A d \in Client : io'[d] = "dead" => io[d] = "dead"
    BY <1>2 DEF TypeInv
  <2> QED
    BY <1>1, <2>1, <2>2, ReadKept
<1>5. CountInv' /\ WaitInv' /\ OverHasCause'
  BY <1>1, <1>2 DEF TypeInv, CountInv, WaitInv, Waits, OverHasCause, serverVars
<1>6. TextInv'
  BY <1>1, <1>2, TextKept DEF TypeInv
<1> QED
  BY <1>1, <1>3, <1>4, <1>5, <1>6, <1>7, StreamsKept

(* A client that sends: the message behind the others, or a failure.          *)
SentBehind(c, m) ==
    /\ Len(sends'[c]) = Len(sends[c]) + 1
    /\ sends'[c][Len(sends[c]) + 1] = m
    /\ \A i \in 1..Len(sends[c]) : sends'[c][i] = sends[c][i]

LEMMA SendsStep ==
    ASSUME TypeInv, NEW c \in Client, NEW m \in Word, NEW then \in DOMAIN FailingTo,
           Sends(c, m, then)
    PROVE  /\ at' \in [Client -> Places]
           /\ at'[c] \in {then, FailingTo[then]}
           /\ \A d \in Client \ {c} : at'[d] = at[d] /\ sends'[d] = sends[d]
           /\ sends' \in [Client -> Seq(Word)]
           /\ Len(sends[c]) \in Nat
           /\ sends'[c] = sends[c] \/ SentBehind(c, m)
<1>0. {then, FailingTo[then]} \subseteq Places
  BY DEF FailingTo, Failing, Places
<1>1. CASE /\ sends' = [sends EXCEPT ![c] = Append(sends[c], m)]
           /\ at' = [at EXCEPT ![c] = then]
  <2>1. sends[c] \in Seq(Word)
    BY DEF TypeInv
  <2>2. /\ Append(sends[c], m) \in Seq(Word)
        /\ Len(Append(sends[c], m)) = Len(sends[c]) + 1
        /\ Append(sends[c], m)[Len(sends[c]) + 1] = m
        /\ \A i \in 1..Len(sends[c]) : Append(sends[c], m)[i] = sends[c][i]
    BY <2>1, AppendProperties
  <2>3. sends'[c] = Append(sends[c], m)
    BY <1>1 DEF TypeInv
  <2>4. /\ sends' \in [Client -> Seq(Word)]
        /\ \A d \in Client \ {c} : sends'[d] = sends[d]
    BY <1>1, <2>2 DEF TypeInv
  <2>5. /\ at' \in [Client -> Places] /\ at'[c] = then
        /\ \A d \in Client \ {c} : at'[d] = at[d]
    BY <1>0, <1>1 DEF TypeInv
  <2>6. Len(sends[c]) \in Nat
    BY <2>1, LenProperties
  <2> QED
    BY <2>2, <2>3, <2>4, <2>5, <2>6 DEF SentBehind
<1>2. CASE UNCHANGED sends /\ at' = [at EXCEPT ![c] = FailingTo[then]]
  <2>1. sends' \in [Client -> Seq(Word)] /\ Len(sends[c]) \in Nat
    BY <1>2, Lengths DEF TypeInv
  <2>2. /\ at' \in [Client -> Places] /\ at'[c] = FailingTo[then]
        /\ \A d \in Client \ {c} : at'[d] = at[d]
    BY <1>0, <1>2 DEF TypeInv
  <2> QED
    BY <1>2, <2>1, <2>2
<1> QED
  BY <1>1, <1>2 DEF Sends

(* What was said before stays behind a message more.                          *)
LEMMA SaidStays ==
    ASSUME IInv, NEW c \in Client, NEW m \in Word, UNCHANGED <<text, colour, io>>,
           sends' \in [Client -> Seq(Word)],
           \A d \in Client \ {c} : sends'[d] = sends[d],
           sends'[c] = sends[c] \/ SentBehind(c, m)
    PROVE  /\ \A d \in Client : Len(sends[d]) \in Nat /\ Len(sends'[d]) \in Nat
                                /\ Len(sends[d]) <= Len(sends'[d])
           /\ ReadInv' /\ DiesOfGlue'
<1> USE DEF IInv
<1>1. ASSUME NEW d \in Client
      PROVE  /\ Len(sends[d]) \in Nat /\ Len(sends'[d]) \in Nat
             /\ Len(sends[d]) <= Len(sends'[d])
             /\ \A i \in 1..Len(sends[d]) : sends'[d][i] = sends[d][i]
  <2>1. Len(sends[d]) \in Nat /\ Len(sends'[d]) \in Nat
    BY Lengths DEF TypeInv
  <2> QED
    BY <2>1 DEF SentBehind
<1>2. ASSUME NEW d \in Client, NEW i \in DOMAIN text[d]
      PROVE  SentItem(text[d][i])' /\ What(text[d][i])' = What(text[d][i])
  <2> DEFINE item == text[d][i]
  <2>1. SentItem(item)
    BY DEF ReadInv
  <2>2. text'[d][i] = item
    OBVIOUS
  <2> HIDE DEF item
  <2>3. CASE item \in Colours
    BY <2>2, <2>3 DEF SentItem, What
  <2>4. CASE item \notin Colours
    <3>1. item \in Client \X (Nat \ {0}) /\ item[2] <= Len(sends[item[1]])
      BY <2>1, <2>4 DEF SentItem
    <3>2. item[1] \in Client /\ item[2] \in Nat \ {0}
      BY <3>1
    <3>3. /\ item[2] \in 1..Len(sends[item[1]])
          /\ item[2] <= Len(sends'[item[1]])
      BY <1>1, <3>1, <3>2
    <3>4. sends'[item[1]][item[2]] = sends[item[1]][item[2]]
      BY <1>1, <3>2, <3>3
    <3> QED
      BY <2>2, <2>4, <3>1, <3>3, <3>4 DEF SentItem, What
  <2> QED
    BY <2>3, <2>4 DEF item
<1>3. ReadInv'
  BY <1>2 DEF ReadInv
<1>4. \A d \in Client : Says(text[d])' = Says(text[d])
  BY <1>2 DEF Says
<1>5. ASSUME NEW d \in Client, io'[d] = "dead", colour'[d] # ""
      PROVE  DeafByGlue(d)'
  <2>1. Unreadable(Says(text[d]))
    BY <1>5 DEF DiesOfGlue, DeafByGlue
  <2> QED
    BY <1>4, <1>5, <2>1 DEF DeafByGlue
<1> QED
  BY <1>1, <1>3, <1>5 DEF DiesOfGlue

(* All the sends of a game that is not over.                                  *)
Telling(c) ==
    \/ Moves(c) \/ TellsOpportunity(c) \/ TellsDoubleStep(c) \/ Promotes(c)

LEMMA TellingSends ==
    ASSUME NEW c \in Client, Telling(c)
    PROVE  /\ at[c] \in {"playing", "passing"}
           /\ at[c] = "playing" => ~over[c]
           /\ \E m \in Names : \E then \in DOMAIN FailingTo : Sends(c, m, then)
           /\ UNCHANGED <<won, sock, gameVars, ioVars, serverVars>>
<1>1. {"TO", "WALL", "ENPS", "PROM"} \subseteq Names
      /\ {"passing", "moved", "playing"} \subseteq DOMAIN FailingTo
  BY DEF Names, FailingTo
<1>2. CASE Moves(c)
  BY <1>1, <1>2 DEF Moves, MayMove
<1>3. CASE TellsOpportunity(c)
  BY <1>1, <1>3 DEF TellsOpportunity, MayMove
<1>4. CASE TellsDoubleStep(c)
  BY <1>1, <1>4 DEF TellsDoubleStep
<1>5. CASE Promotes(c)
  BY <1>1, <1>5 DEF Promotes, MayMove
<1> QED
  BY <1>2, <1>3, <1>4, <1>5 DEF Telling

LEMMA TellingStep == ASSUME IInv, NEW c \in Client, Telling(c) PROVE IInv'
<1> USE DEF IInv
<1>1. /\ UNCHANGED <<won, sock, colour, over, io, text, heard>>
      /\ UNCHANGED serverVars
  BY TellingSends DEF gameVars, ioVars
<1>2. at[c] \in {"playing", "passing"} /\ ~won[c]
  <2>1. at[c] \in {"playing", "passing"} /\ (at[c] = "playing" => ~over[c])
    BY TellingSends
  <2> QED
    BY <2>1 DEF SendInv, Deciding
<1>0. PICK m \in Names : \E then \in DOMAIN FailingTo : Sends(c, m, then)
  BY TellingSends
<1>10. PICK then \in DOMAIN FailingTo : Sends(c, m, then)
  BY <1>0
<1>11. m \in Word /\ m # "LOSE"
  BY DEF Word, Names
<1>3. /\ at' \in [Client -> Places]
      /\ at'[c] \in {then, FailingTo[then]}
      /\ \A d \in Client \ {c} : at'[d] = at[d] /\ sends'[d] = sends[d]
      /\ sends' \in [Client -> Seq(Word)]
      /\ Len(sends[c]) \in Nat
      /\ sends'[c] = sends[c] \/ SentBehind(c, m)
  BY <1>10, <1>11, SendsStep
<1>12. at'[c] \notin {"start", "connecting", "noHandler", "gone"}
  BY <1>3 DEF FailingTo
<1>4. TypeInv'
  BY <1>1, <1>3 DEF TypeInv, serverVars
<1>5. EarlyInv' /\ NoHandlerAfterGone'
  <2>1. EarlyInv'
    BY <1>1, <1>3, <1>12 DEF EarlyInv, serverVars
  <2>2. NoHandlerAfterGone'
    BY <1>1, <1>3, <1>12 DEF NoHandlerAfterGone, IoEnded
  <2> QED
    BY <2>1, <2>2
<1>13. /\ \A d \in Client : Len(sends[d]) \in Nat /\ Len(sends'[d]) \in Nat
                            /\ Len(sends[d]) <= Len(sends'[d])
       /\ ReadInv' /\ DiesOfGlue'
  BY <1>1, <1>3, <1>11, SaidStays
<1>6. CountInv'
  <2>1. UNCHANGED <<heard, got, passed>>
    BY <1>1 DEF serverVars
  <2>2. passed \in [Client -> Nat]
    BY DEF TypeInv
  <2> QED
    BY <1>13, <2>1, <2>2 DEF CountInv
<1>7. SendInv'
  <2>1. \A i \in 1..Len(sends[c]) : sends[c][i] # "LOSE"
    BY <1>2 DEF SendInv
  <2>2. \A i \in 1..Len(sends'[c]) : sends'[c][i] # "LOSE"
    BY <1>3, <1>11, <2>1 DEF SentBehind
  <2>3. ASSUME NEW d \in Client, d # c
        PROVE  /\ won[d] => over[d] /\ at'[d] \notin Deciding
               /\ \A i \in 1..Len(sends'[d]) :
                     sends'[d][i] = "LOSE" => i = Len(sends'[d]) /\ won[d]
    <3>1. at'[d] = at[d] /\ sends'[d] = sends[d]
      BY <1>3, <2>3
    <3> QED
      BY <3>1 DEF SendInv
  <2>4. UNCHANGED <<won, over>>
    BY <1>1
  <2> QED
    BY <1>2, <2>2, <2>3, <2>4 DEF SendInv
<1>8. WaitInv' /\ OverHasCause'
  BY <1>1 DEF WaitInv, Waits, OverHasCause, serverVars
<1> QED
  BY <1>1, <1>4, <1>5, <1>6, <1>7, <1>8, <1>13, StreamsKept, TextKept

LEMMA WinsStep == ASSUME IInv, NEW c \in Client, Wins(c) PROVE IInv'
<1> USE DEF IInv
<1>1. /\ UNCHANGED <<sock, colour, io, text, heard>>
      /\ UNCHANGED serverVars
  BY DEF Wins, ioVars
<1>2. /\ at[c] = "moved" /\ Sends(c, "LOSE", "playing")
      /\ won' = [won EXCEPT ![c] = TRUE] /\ over' = [over EXCEPT ![c] = TRUE]
  BY DEF Wins
<1>0. "LOSE" \in Word /\ "playing" \in DOMAIN FailingTo
  BY DEF Word, FailingTo
<1>3. /\ at' \in [Client -> Places]
      /\ at'[c] \in {"playing", FailingTo["playing"]}
      /\ \A d \in Client \ {c} : at'[d] = at[d] /\ sends'[d] = sends[d]
      /\ sends' \in [Client -> Seq(Word)]
      /\ Len(sends[c]) \in Nat
      /\ sends'[c] = sends[c] \/ SentBehind(c, "LOSE")
  BY <1>0, <1>2, SendsStep
<1>12. at'[c] \in {"playing", "failingPlaying"}
  BY <1>3 DEF FailingTo
<1>4. /\ won' \in [Client -> BOOLEAN] /\ over' \in [Client -> BOOLEAN]
      /\ won'[c] /\ over'[c]
      /\ \A d \in Client \ {c} : won'[d] = won[d] /\ over'[d] = over[d]
  BY <1>2 DEF TypeInv
<1>5. TypeInv'
  BY <1>1, <1>3, <1>4 DEF TypeInv, serverVars
<1>6. EarlyInv' /\ NoHandlerAfterGone'
  BY <1>1, <1>2, <1>3, <1>12 DEF EarlyInv, NoHandlerAfterGone, IoEnded, serverVars
<1>13. /\ \A d \in Client : Len(sends[d]) \in Nat /\ Len(sends'[d]) \in Nat
                            /\ Len(sends[d]) <= Len(sends'[d])
       /\ ReadInv' /\ DiesOfGlue'
  BY <1>0, <1>1, <1>3, SaidStays
<1>7. CountInv'
  <2>1. UNCHANGED <<heard, got, passed>>
    BY <1>1 DEF serverVars
  <2>2. passed \in [Client -> Nat]
    BY DEF TypeInv
  <2> QED
    BY <1>13, <2>1, <2>2 DEF CountInv
<1>8. SendInv'
  <2>1. \A i \in 1..Len(sends[c]) : sends[c][i] # "LOSE"
    BY <1>2 DEF SendInv, Deciding
  <2>2. \A i \in 1..Len(sends'[c]) : sends'[c][i] = "LOSE" => i = Len(sends'[c])
    BY <1>3, <2>1 DEF SentBehind
  <2>3. ASSUME NEW d \in Client, d # c
        PROVE  /\ won'[d] => over'[d] /\ at'[d] \notin Deciding
               /\ \A i \in 1..Len(sends'[d]) :
                     sends'[d][i] = "LOSE" => i = Len(sends'[d]) /\ won'[d]
    <3>1. /\ won'[d] = won[d] /\ over'[d] = over[d] /\ at'[d] = at[d]
          /\ sends'[d] = sends[d]
      BY <1>3, <1>4, <2>3
    <3> QED
      BY <3>1 DEF SendInv
  <2>4. at'[c] \notin Deciding
    BY <1>12 DEF Deciding
  <2> QED
    BY <1>4, <2>2, <2>3, <2>4 DEF SendInv
<1>9. WaitInv'
  BY <1>1 DEF WaitInv, Waits, serverVars
<1>10. OverHasCause'
  BY <1>4 DEF OverHasCause
<1> QED
  BY <1>1, <1>5, <1>6, <1>7, <1>8, <1>9, <1>10, <1>13, StreamsKept, TextKept

LEMMA JoinsStep ==
    ASSUME IInv, NEW c \in Client, Joins(c) \/ JoinsFailed(c)
    PROVE  IInv'
<1> USE DEF IInv
<1>1. /\ UNCHANGED <<won, sends, colour, over, io, text, heard>>
      /\ UNCHANGED serverVars /\ IoEnded(c)
  BY DEF Joins, JoinsFailed, gameVars, ioVars
<1>2. /\ at[c] \in Failing \cup {"joining"}
      /\ at' \in [Client -> Places]
      /\ at'[c] \in {"gone", "passing", "moved", "playing"}
      /\ at'[c] \in Deciding => at[c] \in Deciding
      /\ \A d \in Client \ {c} : at'[d] = at[d]
  <2>1. CASE Joins(c)
    BY <2>1 DEF TypeInv, Joins, Goes, Places, Deciding
  <2>2. CASE JoinsFailed(c)
    <3>1. PICK then \in DOMAIN FailingTo : Goes(c, FailingTo[then], then)
      BY <2>2 DEF JoinsFailed
    <3>2. /\ at[c] = FailingTo[then] /\ at' = [at EXCEPT ![c] = then]
          /\ then \in {"passing", "moved", "playing"}
      BY <3>1 DEF Goes, FailingTo
    <3>3. /\ FailingTo[then] \in Failing /\ then \in Places
          /\ then \in Deciding => FailingTo[then] \in Deciding
      BY <3>2 DEF FailingTo, Failing, Places, Deciding
    <3> QED
      BY <3>2, <3>3 DEF TypeInv
  <2> QED
    BY <2>1, <2>2
<1>3. /\ sock' \in [Client -> {"none", "open", "closed"}]
      /\ \A d \in Client : /\ sock'[d] = "open" => sock[d] = "open"
                           /\ sock'[d] = "none" => sock[d] = "none"
                           /\ d # c => sock'[d] = sock[d]
  <2>1. CASE Joins(c)
    <3>1. CASE sock[c] = "open"
      BY <2>1, <3>1 DEF TypeInv, Joins
    <3>2. CASE sock[c] # "open"
      BY <2>1, <3>2 DEF TypeInv, Joins
    <3> QED
      BY <3>1, <3>2
  <2>2. CASE JoinsFailed(c)
    BY <2>2 DEF TypeInv, JoinsFailed
  <2> QED
    BY <2>1, <2>2
<1>4. TypeInv'
  BY <1>1, <1>2, <1>3 DEF TypeInv, serverVars
<1>5. EarlyInv'
  BY <1>1, <1>2, <1>3 DEF EarlyInv, serverVars
<1>6. SendInv' /\ NoHandlerAfterGone'
  <2>1. \A d \in Client : at'[d] \in Deciding => at[d] \in Deciding
    BY <1>2
  <2>2. SendInv'
    BY <1>1, <2>1, SendKept
  <2>3. NoHandlerAfterGone'
    BY <1>1, <1>2 DEF NoHandlerAfterGone, IoEnded
  <2> QED
    BY <2>2, <2>3
<1>7. CountInv' /\ OverHasCause'
  BY <1>1 DEF CountInv, OverHasCause, serverVars
<1>8. WaitInv'
  BY <1>1, <1>3 DEF WaitInv, Waits, serverVars
<1> QED
  BY <1>1, <1>4, <1>5, <1>6, <1>7, <1>8, StreamsKept, TextKept, ReadKept

LEMMA FrameStep ==
    ASSUME IInv, NEW c \in Client,
           \/ Frame(c) \/ Decides(c) \/ Moves(c) \/ TellsOpportunity(c)
           \/ ReachesLastRow(c) \/ Promotes(c) \/ ClosesWindow(c) \/ Killed(c)
    PROVE  IInv'
  BY QuietActions, QuietStep, ConnectsStep, ReceivesIdStep, KilledStep, TellingStep,
     WinsStep, JoinsStep DEF Frame, Decides, Telling

-----------------------------------------------------------------------------
(* The I/O threads touch nothing of the frame threads, and nothing the server
   writes.                                                                    *)
LEMMA IoKept ==
    ASSUME IInv, UNCHANGED <<frameVars, serverVars>>
    PROVE  PairInv' /\ WaitInv' /\ GotInv'
  BY DEF IInv, PairInv, WaitInv, Waits, GotInv, ColourOf, frameVars, serverVars

(* The server writes only what has been sent.                                 *)
LEMMA WrittenIsSent ==
    ASSUME IInv, NEW c \in Client, NEW i \in 1..Len(got[c])
    PROVE  SentItem(got[c][i])
<1> USE DEF IInv
<1>1. CASE i = 1
  BY <1>1 DEF GotInv, ColourOf, Colours, SentItem
<1>2. CASE i > 1
  <2>1. /\ got[c][i][1] = Mate(c) /\ got[c][i] \in Client \X (Nat \ {0})
        /\ got[c][i][2] <= passed[Mate(c)]
    BY <1>2 DEF GotInv
  <2>2. Mate(c) \in Client /\ Len(sends[Mate(c)]) \in Nat /\ got[c][i][2] \in Nat
    BY <2>1, MateOther, Lengths DEF TypeInv
  <2>3. passed[Mate(c)] <= Len(sends[Mate(c)]) /\ passed[Mate(c)] \in Nat
    BY <2>2 DEF CountInv, TypeInv
  <2>4. got[c][i][2] <= Len(sends[Mate(c)])
    BY <2>1, <2>2, <2>3
  <2> QED
    BY <2>1, <2>4 DEF SentItem
<1> QED
  BY <1>1, <1>2

(* A read: what has been written is read on, and handled next.                *)
LEMMA ReadsStep ==
    ASSUME IInv, NEW c \in Client, NEW n \in Nat, NEW k \in 1..(n + 1),
           heard[c] <= n, n <= Len(got[c]), heard[c] < k,
           k = n + 1 => session[c] = "closed",
           Reads(c, SubSeq(got[c], k, n), n)
    PROVE  IInv'
<1> USE DEF IInv
<1> DEFINE items == SubSeq(got[c], k, n)
<1>1. /\ UNCHANGED <<at, won, sock, sends, colour, over>>
      /\ UNCHANGED serverVars
  BY DEF Reads, frameVars, gameVars
<1>2. io[c] = "reading" /\ ~Stopped(c)
  BY DEF Reads
<1>3. got[c] \in Seq(Item) /\ Len(got[c]) \in Nat
  BY Lengths DEF TypeInv
<1>4. items \in Seq(Item)
  <2>1. \A i \in k..n : got[c][i] \in Item
    BY <1>3
  <2> QED
    BY <2>1, SubSeqProperties
<1>5. /\ text' = [text EXCEPT ![c] = items] /\ heard' = [heard EXCEPT ![c] = n]
      /\ io' = [io EXCEPT ![c] = "handling"]
  BY DEF Reads
<1>6. /\ text' \in [Client -> Seq(Item)] /\ text'[c] = items
      /\ \A d \in Client \ {c} : text'[d] = text[d]
  BY <1>4, <1>5 DEF TypeInv
<1>7. /\ heard' \in [Client -> Nat] /\ heard'[c] = n
      /\ \A d \in Client \ {c} : heard'[d] = heard[d]
  BY <1>5 DEF TypeInv
<1>8. /\ io' \in [Client -> {"none", "reading", "handling", "dead", "exited"}]
      /\ io'[c] = "handling"
      /\ \A d \in Client \ {c} : io'[d] = io[d]
  BY <1>5 DEF TypeInv
<1>9. TypeInv'
  BY <1>1, <1>6, <1>7, <1>8 DEF TypeInv, serverVars
<1>10. CountInv'
  BY <1>1, <1>7 DEF CountInv, serverVars
<1>11. EarlyInv' /\ NoHandlerAfterGone'
  BY <1>1, <1>2, <1>8 DEF EarlyInv, NoHandlerAfterGone, Stopped, IoEnded, serverVars
<1>15. ReadInv'
  <2>1. ASSUME NEW d \in Client, NEW i \in DOMAIN text'[d]
        PROVE  SentItem(text'[d][i])
    <3>1. CASE d # c
      BY <1>6, <2>1, <3>1 DEF ReadInv
    <3>2. CASE d = c
      <4>1. \A j \in k..n : got[c][j] \in Item
        BY <1>3
      <4>2. /\ Len(items) = IF k <= n THEN n - k + 1 ELSE 0
            /\ \A j \in 1..(n - k + 1) : items[j] = got[c][k + j - 1]
        BY <4>1, SubSeqProperties
      <4>3. i \in 1..Len(items)
        BY <1>4, <1>6, <2>1, <3>2
      <4> HIDE DEF items
      <4>4. i \in 1..(n - k + 1)
        BY <4>2, <4>3
      <4>5. items[i] = got[c][k + i - 1] /\ k + i - 1 \in 1..Len(got[c])
        BY <1>3, <4>2, <4>4
      <4> QED
        BY <1>6, <3>2, <4>5, WrittenIsSent
    <3> QED
      BY <3>1, <3>2
  <2> QED
    BY <1>1, <2>1 DEF ReadInv, SentItem
<1>16. DiesOfGlue'
  <2>1. ASSUME NEW d \in Client, io'[d] = "dead", colour'[d] # ""
        PROVE  DeafByGlue(d)'
    <3>1. d # c /\ text'[d] = text[d] /\ io[d] = "dead" /\ colour[d] # ""
      BY <1>1, <1>6, <1>8, <2>1
    <3>2. Unreadable(Says(text[d]))
      BY <3>1 DEF DiesOfGlue, DeafByGlue
    <3>3. Says(text[d])' = Says(text[d])
      BY <1>1, <3>1 DEF Says, What
    <3> QED
      BY <2>1, <3>2, <3>3 DEF DeafByGlue
  <2> QED
    BY <2>1 DEF DiesOfGlue
<1>12. StartInv'
  <2>1. heard[c] \in Nat
    BY DEF TypeInv
  <2>2. \A d \in Client : heard[d] >= 1 => heard'[d] >= 1
    BY <1>7, <2>1
  <2> QED
    BY <1>1, <2>2 DEF StartInv, serverVars
<1>13. TextInv'
  <2>1. ASSUME NEW d \in Client, d # c, io'[d] = "handling"
        PROVE  \E j \in 1..(heard'[d] + 1) : TextIs(d, j)'
    <3>1. /\ io'[d] = io[d] /\ text'[d] = text[d] /\ heard'[d] = heard[d]
      BY <2>1, <1>6, <1>7, <1>8
    <3>2. UNCHANGED <<got, colour, session>>
      BY <1>1 DEF serverVars
    <3> QED
      BY <2>1, <3>1, <3>2 DEF TextInv, TextIs
  <2>2. TextIs(c, k)'
    <3>1. colour[c] # "" => k >= 2
      <4>1. heard[c] \in Nat
        BY DEF TypeInv
      <4>2. colour[c] # "" => heard[c] >= 1
        BY DEF StartInv
      <4>3. k \in Int /\ n \in Int
        OBVIOUS
      <4>4. ASSUME colour[c] # "" PROVE k >= 2
        <5>1. heard[c] >= 1
          BY <4>2, <4>4
        <5> HIDE DEF items
        <5> QED
          BY <4>1, <4>3, <5>1
      <4> QED
        BY <4>4
    <3>2. UNCHANGED <<got, colour, session>>
      BY <1>1 DEF serverVars
    <3> QED
      BY <1>6, <1>7, <3>1, <3>2 DEF TextIs
  <2> QED
    BY <1>7, <2>1, <2>2 DEF TextInv
<1>14. SendInv' /\ OverHasCause'
  BY <1>1 DEF SendInv, OverHasCause, serverVars
<1> QED
  BY <1>1, <1>9, <1>10, <1>11, <1>12, <1>13, <1>14, <1>15, <1>16, IoKept DEF frameVars

LEMMA ReadsSomeStep == ASSUME IInv, NEW c \in Client, ReadsSome(c) PROVE IInv'
<1>1. heard[c] \in Nat /\ Len(got[c]) \in Nat
  BY Lengths DEF IInv, TypeInv
<1>2. PICK n \in (heard[c] + 1)..Len(got[c]) :
            Reads(c, SubSeq(got[c], heard[c] + 1, n), n)
  BY DEF ReadsSome
<1> QED
  BY <1>1, <1>2, ReadsStep

LEMMA ReadsEndStep == ASSUME IInv, NEW c \in Client, ReadsEnd(c) PROVE IInv'
<1> DEFINE n == Len(got[c])
<1>1. heard[c] \in Nat /\ n \in Nat /\ heard[c] <= n
  BY Lengths DEF IInv, TypeInv, CountInv
<1>2. SubSeq(got[c], n + 1, n) = <<>>
  BY <1>1, SubSeqEmpty
<1>3. session[c] = "closed" /\ Reads(c, SubSeq(got[c], n + 1, n), n)
  BY <1>2 DEF ReadsEnd
<1> QED
  BY <1>1, <1>3, ReadsStep

LEMMA IoExitsStep ==
    ASSUME IInv, NEW c \in Client, IoExits(c) \/ HandlesNothing(c)
    PROVE  IInv'
<1> USE DEF IInv
<1>1. /\ UNCHANGED <<at, won, sock, sends, colour, over, heard>>
      /\ UNCHANGED serverVars
  BY DEF IoExits, HandlesNothing, frameVars, gameVars
<1>2. /\ io[c] \in {"reading", "handling"}
      /\ io'[c] \in {"exited", "dead"} /\ (io'[c] = "dead" => at[c] = "noHandler")
      /\ io' \in [Client -> {"none", "reading", "handling", "dead", "exited"}]
      /\ \A d \in Client \ {c} : io'[d] = io[d]
  BY DEF TypeInv, IoExits, HandlesNothing
<1>3. UNCHANGED text
  BY DEF IoExits, HandlesNothing
<1>4. TypeInv'
  BY <1>1, <1>2, <1>3 DEF TypeInv, serverVars
<1>5. EarlyInv' /\ NoHandlerAfterGone'
  BY <1>1, <1>2 DEF EarlyInv, NoHandlerAfterGone, IoEnded, serverVars
<1>8. ReadInv' /\ DiesOfGlue'
  <2>1. \A d \in Client : io'[d] = "dead" => io[d] = "dead" \/ colour[d] = ""
    BY <1>2 DEF EarlyInv
  <2> QED
    BY <1>1, <1>3, <2>1, ReadKept
<1>6. TextInv'
  <2>1. ASSUME NEW d \in Client, io'[d] = "handling"
        PROVE  \E j \in 1..(heard'[d] + 1) : TextIs(d, j)'
    <3>1. io[d] = "handling" /\ text'[d] = text[d]
      BY <1>2, <1>3, <2>1
    <3>2. UNCHANGED <<got, colour, session, heard>>
      BY <1>1 DEF serverVars
    <3> QED
      BY <3>1, <3>2 DEF TextInv, TextIs
  <2> QED
    BY <2>1 DEF TextInv
<1>7. CountInv' /\ StartInv' /\ SendInv' /\ OverHasCause'
  BY <1>1 DEF CountInv, StartInv, SendInv, OverHasCause, serverVars
<1> QED
  BY <1>1, <1>4, <1>5, <1>6, <1>7, <1>8, IoKept DEF frameVars

(* What a client has read says its colour first, then the other one's messages;
   and if it says LOSE, the other one has won and has sent nothing since.     *)
LEMMA WhatIsRead ==
    ASSUME IInv, NEW c \in Client, NEW i \in 1..Len(got[c])
    PROVE  /\ i = 1 => /\ What(got[c][i]) = got[c][1][1]
                       /\ What(got[c][i]) \in {"BLACK", "WHITE"}
           /\ i > 1 => What(got[c][i]) \in Word
           /\ What(got[c][i]) = "LOSE" => i = Len(got[c]) /\ won[Mate(c)]
<1> USE DEF IInv
<1> DEFINE d == Mate(c)
           n == got[c][i][2]
<1>1. Len(got[c]) \in Nat /\ Len(sends[d]) \in Nat /\ d \in Client
  BY MateOther, Lengths DEF TypeInv
<1>2. CASE i = 1
  BY <1>2 DEF GotInv, ColourOf, What, Black, White, Colours
<1>3. CASE i > 1
  <2>1. /\ got[c][i] \in Client \X (Nat \ {0}) /\ got[c][i][1] = d
        /\ n <= passed[d]
    BY <1>3 DEF GotInv
  <2>2. n \in 1..Len(sends[d])
    <3>1. passed[d] \in Nat /\ passed[d] <= Len(sends[d])
      BY <1>1 DEF TypeInv, CountInv
    <3> QED
      BY <1>1, <2>1, <3>1
  <2>3. What(got[c][i]) = sends[d][n]
    <3>1. got[c][i][2] # 0
      BY <2>1
    <3>2. got[c][i] \notin Colours
      BY <3>1 DEF Colours, Black, White
    <3> QED
      BY <2>1, <3>2 DEF What
  <2>4. sends[d][n] \in Word
    <3>1. sends[d] \in Seq(Word)
      BY <1>1, Lengths DEF TypeInv
    <3> QED
      BY <2>2, <3>1
  <2>5. ASSUME sends[d][n] = "LOSE"
        PROVE  i = Len(got[c]) /\ won[d]
    <3>1. n = Len(sends[d]) /\ won[d]
      BY <1>1, <2>2, <2>5 DEF SendInv
    <3>2. \A j \in 1..Len(got[c]) : j > i => /\ n < got[c][j][2]
                                             /\ got[c][j][2] <= passed[d]
                                             /\ got[c][j][2] \in Nat
      BY <1>3 DEF GotInv
    <3>3. passed[d] \in Nat /\ passed[d] <= Len(sends[d])
      BY <1>1 DEF TypeInv, CountInv
    <3>4. n \in Nat /\ Len(got[c]) \in 1..Len(got[c])
      BY <1>1, <2>1
    <3>5. ~(Len(got[c]) > i)
      <4>1. ASSUME Len(got[c]) > i
            PROVE  n < got[c][Len(got[c])][2] /\ got[c][Len(got[c])][2] <= passed[d]
                   /\ got[c][Len(got[c])][2] \in Nat
        BY <3>2, <3>4, <4>1
      <4>2. n >= passed[d]
        BY <3>1, <3>3, <1>1
      <4> DEFINE last == got[c][Len(got[c])][2]
      <4> HIDE DEF last, n, d
      <4> QED
        BY <3>3, <3>4, <4>1, <4>2 DEF last
    <3>6. i = Len(got[c])
      BY <1>1, <3>5
    <3> QED
      BY <3>1, <3>6
  <2> QED
    BY <1>3, <2>3, <2>4, <2>5
<1> QED
  BY <1>2, <1>3

(* What is handled says what the end of what has been read says.              *)
LEMMA WhatIsHandled ==
    ASSUME IInv, NEW c \in Client, NEW k \in 1..(heard[c] + 1), TextIs(c, k)
    PROVE  /\ k \in Nat /\ k >= 1 /\ heard[c] \in Nat
           /\ Len(got[c]) \in Nat /\ heard[c] <= Len(got[c])
           /\ heard[c] - k + 1 \in Nat
           /\ Says(text[c]) = [i \in 1..(heard[c] - k + 1) |-> What(got[c][k + i - 1])]
           /\ \A i \in 1..(heard[c] - k + 1) : k + i - 1 \in 1..Len(got[c])
<1> USE DEF IInv
<1>1. got[c] \in Seq(Item) /\ Len(got[c]) \in Nat
  BY Lengths DEF TypeInv
<1>2. heard[c] \in Nat /\ heard[c] <= Len(got[c])
  BY DEF TypeInv, CountInv
<1>3. k \in Int /\ k >= 1 /\ k <= heard[c] + 1
  BY <1>2
<1>4. \A i \in k..heard[c] : got[c][i] \in Item
  BY <1>1, <1>2, <1>3
<1> DEFINE len == heard[c] - k + 1
<1>5. len \in Nat
  BY <1>2, <1>3
<1>6. text[c] = SubSeq(got[c], k, heard[c])
  BY DEF TextIs
<1>7. /\ text[c] \in Seq(Item) /\ Len(text[c]) = len
      /\ \A i \in 1..len : text[c][i] = got[c][k + i - 1]
  <2>1. /\ SubSeq(got[c], k, heard[c]) \in Seq(Item)
        /\ Len(SubSeq(got[c], k, heard[c])) = IF k <= heard[c] THEN len ELSE 0
        /\ \A i \in 1..len : SubSeq(got[c], k, heard[c])[i] = got[c][k + i - 1]
    BY <1>2, <1>3, <1>4, SubSeqProperties
  <2>2. k <= heard[c] \/ len = 0
    BY <1>2, <1>3
  <2> QED
    BY <1>6, <2>1, <2>2
<1>8. DOMAIN text[c] = 1..len
  BY <1>7
<1>9. Says(text[c]) = [i \in 1..len |-> What(text[c][i])]
  BY <1>8 DEF Says
<1>10. Says(text[c]) = [i \in 1..len |-> What(got[c][k + i - 1])]
  BY <1>7, <1>9
<1>12. \A i \in 1..len : k + i - 1 \in 1..Len(got[c])
  BY <1>1, <1>2, <1>3
<1> QED
  BY <1>1, <1>2, <1>3, <1>5, <1>10, <1>12

(* The cases of the handler.                                                  *)
Hues == {"BLACK", "WHITE"}

OutcomeIs(outcome, hue, says) ==
    \/ /\ outcome = "starts" /\ hue = "" /\ says \in {<<"BLACK">>, <<"WHITE">>}
    \/ /\ outcome = "plays"
    \/ /\ outcome = "throws" /\ ~Silent(says)
       /\ \/ Head(says) \in Hues
          \/ Head(says) = "TO" /\ Contains(says, "PROM")
          \/ Head(says) \in Names \ {"TO"} /\ Contains(says, "TO")
                /\ ~Contains(says, "PROM")
    \/ /\ outcome = "ends" /\ Silent(says)
       /\ hue = "" => says \notin {<<"BLACK">>, <<"WHITE">>}

LEMMA OutcomeCases ==
    ASSUME NEW hue, NEW says, NEW outcome \in Outcomes(hue # "", says)
    PROVE  OutcomeIs(outcome, hue, says)
<1>1. CASE hue = "" /\ says \in {<<"BLACK">>, <<"WHITE">>}
  BY <1>1 DEF Outcomes, OutcomeIs
<1>2. CASE ~(hue = "" /\ says \in {<<"BLACK">>, <<"WHITE">>}) /\ Silent(says)
  <2>1. ~Contains(says, "PROM") /\ ~Contains(says, "TO")
    BY <1>2 DEF Silent, Names
  <2>2. Outcomes(hue # "", says) = {"ends"}
    BY <1>2, <2>1 DEF Outcomes
  <2> QED
    BY <1>2, <2>2 DEF OutcomeIs
<1>3. CASE ~(hue = "" /\ says \in {<<"BLACK">>, <<"WHITE">>}) /\ ~Silent(says)
  BY <1>3 DEF Outcomes, OutcomeIs, Hues, Names
<1> QED
  BY <1>1, <1>2, <1>3

(* What the handler makes of it: it starts the game with the colour, dies after
   that only of what it cannot read, and ends the game only for a cause.      *)
LEMMA OutcomeHasCause ==
    ASSUME IInv, NEW c \in Client, io[c] = "handling",
           NEW says, says = Says(text[c]),
           NEW outcome, OutcomeIs(outcome, colour[c], says)
    PROVE  /\ outcome = "starts" => /\ colour[c] = "" /\ heard[c] >= 1 /\ got[c] # <<>>
                                    /\ says[1] = got[c][1][1]
                                    /\ says[1] \in {"BLACK", "WHITE"}
           /\ outcome = "throws" /\ colour[c] # "" => Unreadable(says)
           /\ outcome = "ends" => won[Mate(c)] \/ session[c] = "closed"
<1>1. PICK k \in 1..(heard[c] + 1) : TextIs(c, k)
  BY DEF IInv, TextInv
<1>2. /\ k \in Nat /\ k >= 1 /\ heard[c] \in Nat
      /\ Len(got[c]) \in Nat /\ heard[c] <= Len(got[c])
      /\ heard[c] - k + 1 \in Nat
  BY <1>1, WhatIsHandled
<1> DEFINE len == heard[c] - k + 1
<1>9. says = [i \in 1..len |-> What(got[c][k + i - 1])]
  BY <1>1, WhatIsHandled
<1>3. /\ says = [i \in 1..Len(says) |-> says[i]]
      /\ Len(says) = heard[c] - k + 1 /\ Len(says) \in Nat
  BY <1>2, <1>9
<1>4. /\ \A i \in 1..Len(says) : says[i] = What(got[c][k + i - 1])
      /\ \A i \in 1..Len(says) : k + i - 1 \in 1..Len(got[c])
  <2>1. \A i \in 1..len : k + i - 1 \in 1..Len(got[c])
    BY <1>1, WhatIsHandled
  <2> QED
    BY <1>3, <1>9, <2>1
<1> HIDE DEF len
<1>5. ASSUME Len(says) >= 1
      PROVE  says[1] = What(got[c][k]) /\ k \in 1..Len(got[c])
  <2>1. 1 \in 1..Len(says) /\ k + 1 - 1 = k
    BY <1>2, <1>3, <1>5
  <2> QED
    BY <1>4, <2>1
<1>6. ASSUME outcome = "starts"
      PROVE  /\ colour[c] = "" /\ heard[c] >= 1 /\ got[c] # <<>>
             /\ says[1] = got[c][1][1] /\ says[1] \in {"BLACK", "WHITE"}
  <2>1. colour[c] = "" /\ says \in {<<"BLACK">>, <<"WHITE">>}
    BY <1>6 DEF OutcomeIs
  <2>2. Len(says) = 1 /\ says[1] \in {"BLACK", "WHITE"}
    <3>1. CASE says = <<"BLACK">>
      BY <3>1
    <3>2. CASE says = <<"WHITE">>
      BY <3>2
    <3> QED
      BY <2>1, <3>1, <3>2
  <2>3. says[1] = What(got[c][k]) /\ k \in 1..Len(got[c])
    BY <1>5, <2>2
  <2>4. k = 1
    <3>1. k > 1 => What(got[c][k]) \in Word
      BY <2>3, WhatIsRead
    <3> QED
      BY <1>2, <2>2, <2>3, <3>1 DEF Word, Names
  <2>5. says[1] = got[c][1][1]
    BY <2>3, <2>4, WhatIsRead
  <2>6. heard[c] >= 1 /\ got[c] # <<>>
    BY <1>2, <1>3, <2>2, <2>3, <2>4
  <2> QED
    BY <2>1, <2>2, <2>5, <2>6
<1>7. ASSUME outcome = "throws", colour[c] # "" PROVE Unreadable(says)
  <2>1. /\ ~Silent(says)
        /\ \/ Head(says) \in Hues
           \/ Head(says) = "TO" /\ Contains(says, "PROM")
           \/ Head(says) \in Names \ {"TO"} /\ Contains(says, "TO")
                 /\ ~Contains(says, "PROM")
    BY <1>7 DEF OutcomeIs
  <2>2. Len(says) >= 1
    BY <1>3, <2>1 DEF Silent, Contains
  <2>3. Head(says) = says[1] /\ says # <<>> /\ 1 \in 1..Len(says)
    BY <1>3, <2>2
  <2>4. k >= 2
    BY <1>1, <1>7 DEF TextIs
  <2>5. k \in 1..Len(got[c]) /\ says[1] = What(got[c][k])
    BY <1>5, <2>2
  <2>6. says[1] \in Word
    <3>1. k > 1
      BY <1>2, <2>4
    <3> QED
      BY <2>5, <3>1, WhatIsRead
  <2>7. ASSUME NEW m, Contains(says, m), says[1] # m
        PROVE  Contains(Tail(says), m)
    <3>1. PICK i \in 1..Len(says) : says[i] = m
      BY <2>7 DEF Contains
    <3>2. i - 1 \in 1..(Len(says) - 1) /\ i - 1 + 1 = i
      BY <1>3, <2>7, <3>1
    <3>3. Tail(says) = [j \in 1..(Len(says) - 1) |-> says[j + 1]]
      BY <1>3, <2>3 DEF Tail
    <3>4. Len(Tail(says)) = Len(says) - 1
      BY <1>3, <2>2, <3>3
    <3>5. Tail(says)[i - 1] = m
      BY <3>1, <3>2, <3>3
    <3> QED
      BY <3>2, <3>4, <3>5 DEF Contains
  <2>8. CASE says[1] = "TO" /\ Contains(says, "PROM")
    <3>1. Contains(Tail(says), "PROM")
      BY <2>7, <2>8
    <3> QED
      BY <2>3, <2>8, <3>1 DEF Unreadable
  <2>9. CASE says[1] \in Names \ {"TO"} /\ Contains(says, "TO") /\ ~Contains(says, "PROM")
    <3>1. says[1] # "PROM"
      BY <2>3, <2>9 DEF Contains
    <3>2. Contains(Tail(says), "TO")
      BY <2>7, <2>9
    <3> QED
      BY <2>3, <2>9, <3>1, <3>2 DEF Unreadable, Names
  <2> QED
    BY <2>1, <2>3, <2>6, <2>8, <2>9 DEF Hues, Word, Names
<1>8. ASSUME outcome = "ends", session[c] # "closed" PROVE won[Mate(c)]
  <2>1. colour[c] = "" => says \notin {<<"BLACK">>, <<"WHITE">>}
    BY <1>8 DEF OutcomeIs
  <2>2. k # heard[c] + 1
    BY <1>1, <1>8 DEF TextIs
  <2>3. Len(says) >= 1 /\ k <= heard[c]
    BY <1>1, <1>2, <1>3, <2>2
  <2>4. \A i \in 1..Len(says) : says[i] \notin Names
    BY <1>8 DEF OutcomeIs, Silent, Contains
  <2>5. ~(k = 1 /\ heard[c] = 1)
    <3>1. SUFFICES ASSUME k = 1, heard[c] = 1 PROVE FALSE
      OBVIOUS
    <3>2. Len(says) = 1
      BY <1>3, <3>1
    <3>3. says[1] \in {"BLACK", "WHITE"}
      BY <1>5, <3>1, <3>2, WhatIsRead
    <3>4. says \in {<<"BLACK">>, <<"WHITE">>}
      <4>1. says = <<says[1]>>
        BY <1>3, <3>2
      <4> QED
        BY <3>3, <4>1
    <3>5. colour[c] = ""
      <4>1. colour[c] # "" => k >= 2
        BY <1>1 DEF TextIs
      <4>2. ASSUME k >= 2 PROVE FALSE
        BY <3>1, <4>2
      <4> QED
        BY <4>1, <4>2
    <3> QED
      BY <2>1, <3>4, <3>5
  <2>6. Len(says) \in 1..Len(says) /\ k + Len(says) - 1 = heard[c]
    BY <1>2, <1>3, <2>3
  <2>7. /\ says[Len(says)] = What(got[c][heard[c]])
        /\ heard[c] \in 1..Len(got[c]) /\ heard[c] > 1
    <3>1. heard[c] > 1
      BY <1>2, <2>3, <2>5
    <3>2. heard[c] \in 1..Len(got[c])
      BY <1>4, <2>6
    <3> QED
      BY <1>4, <2>6, <3>1, <3>2
  <2>8. What(got[c][heard[c]]) = "LOSE"
    <3>1. What(got[c][heard[c]]) \in Word
      BY <2>7, WhatIsRead
    <3>2. says[Len(says)] \notin Names
      BY <2>4, <2>6
    <3> QED
      BY <2>7, <3>1, <3>2 DEF Word
  <2> QED
    BY <2>7, <2>8, WhatIsRead
<1> QED
  BY <1>6, <1>7, <1>8

LEMMA HandlesStep == ASSUME IInv, NEW c \in Client, Handles(c) PROVE IInv'
<1> USE DEF IInv
<1> DEFINE says == Says(text[c])
<1>1. /\ UNCHANGED <<at, won, sock, sends, heard>>
      /\ UNCHANGED serverVars
  BY DEF Handles, frameVars
<1>2. io[c] = "handling" /\ at[c] # "noHandler"
  BY DEF Handles
<1>3. PICK outcome \in Outcomes(colour[c] # "", says) :
         /\ colour' = IF outcome = "starts"
                      THEN [colour EXCEPT ![c] = says[1]] ELSE colour
         /\ over' = [over EXCEPT ![c] = over[c] \/ outcome = "ends"]
         /\ io' = [io EXCEPT ![c] = IF outcome = "throws" THEN "dead" ELSE "reading"]
         /\ text' = [text EXCEPT ![c] = IF outcome = "throws" THEN text[c] ELSE <<>>]
  BY DEF Handles
<1>4. OutcomeIs(outcome, colour[c], says)
  BY OutcomeCases
<1>5. /\ outcome = "starts" => /\ colour[c] = "" /\ heard[c] >= 1 /\ got[c] # <<>>
                               /\ says[1] = got[c][1][1]
                               /\ says[1] \in {"BLACK", "WHITE"}
      /\ outcome = "throws" /\ colour[c] # "" => Unreadable(says)
      /\ outcome = "ends" => won[Mate(c)] \/ session[c] = "closed"
  BY <1>2, <1>4, OutcomeHasCause
<1> HIDE DEF says
<1>6. /\ colour' \in [Client -> {"", "BLACK", "WHITE"}]
      /\ \A d \in Client \ {c} : colour'[d] = colour[d]
      /\ IF outcome = "starts" THEN colour'[c] = says[1] ELSE colour'[c] = colour[c]
  <2>1. CASE outcome = "starts"
    BY <1>3, <1>5, <2>1 DEF TypeInv
  <2>2. CASE outcome # "starts"
    BY <1>3, <2>2 DEF TypeInv
  <2> QED
    BY <2>1, <2>2
<1>7. /\ over' \in [Client -> BOOLEAN]
      /\ \A d \in Client : over'[d] => over[d] \/ (d = c /\ outcome = "ends")
      /\ \A d \in Client : over[d] => over'[d]
  <2>1. CASE outcome = "ends"
    <3>1. over' = [over EXCEPT ![c] = TRUE]
      BY <1>3, <2>1
    <3> QED
      BY <2>1, <3>1 DEF TypeInv
  <2>2. CASE outcome # "ends"
    <3>1. over' = [over EXCEPT ![c] = over[c]]
      BY <1>3, <2>2 DEF TypeInv
    <3>2. over' = over
      BY <3>1 DEF TypeInv
    <3> QED
      BY <3>2 DEF TypeInv
  <2> QED
    BY <2>1, <2>2
<1>8. /\ io' \in [Client -> {"none", "reading", "handling", "dead", "exited"}]
      /\ \A d \in Client \ {c} : io'[d] = io[d]
      /\ IF outcome = "throws" THEN io'[c] = "dead" ELSE io'[c] = "reading"
  <2>1. CASE outcome = "throws"
    BY <1>3, <2>1 DEF TypeInv
  <2>2. CASE outcome # "throws"
    BY <1>3, <2>2 DEF TypeInv
  <2> QED
    BY <2>1, <2>2
<1>9. /\ text' \in [Client -> Seq(Item)]
      /\ \A d \in Client \ {c} : text'[d] = text[d]
      /\ text'[c] = <<>> \/ (outcome = "throws" /\ text'[c] = text[c])
  <2>1. <<>> \in Seq(Item) /\ text[c] \in Seq(Item)
    BY NoItems DEF TypeInv
  <2>2. CASE outcome = "throws"
    <3>1. text' = [text EXCEPT ![c] = text[c]]
      BY <1>3, <2>2
    <3> QED
      BY <2>1, <2>2, <3>1 DEF TypeInv
  <2>3. CASE outcome # "throws"
    <3>1. text' = [text EXCEPT ![c] = <<>>]
      BY <1>3, <2>3
    <3> QED
      BY <2>1, <2>3, <3>1 DEF TypeInv
  <2> QED
    BY <2>2, <2>3
<1>10. UNCHANGED <<got, session, passed, pair, untold, server>>
  BY <1>1 DEF serverVars
<1>11. TypeInv'
  BY <1>1, <1>6, <1>7, <1>8, <1>9, <1>10 DEF TypeInv
<1>12. EarlyInv'
  <2>1. at[c] \notin {"start", "connecting", "noHandler"}
    BY <1>2 DEF EarlyInv
  <2>2. \A d \in Client : /\ at[d] \in {"start", "connecting"} => io'[d] = "none"
                          /\ at[d] \in {"start", "connecting", "noHandler"} => colour'[d] = ""
    BY <1>6, <1>8, <2>1 DEF EarlyInv
  <2> QED
    BY <1>1, <1>10, <2>2 DEF EarlyInv
<1>20. ReadInv'
  <2>1. ASSUME NEW d \in Client, NEW i \in DOMAIN text'[d]
        PROVE  SentItem(text'[d][i])
    <3>1. text'[d] = text[d] \/ text'[d] = <<>>
      BY <1>9
    <3>2. text'[d] # <<>>
      BY <2>1, NoItems
    <3> QED
      BY <2>1, <3>1, <3>2 DEF ReadInv
  <2> QED
    BY <1>1, <2>1 DEF ReadInv, SentItem
<1>21. \A d \in Client : text'[d] = text[d] => Says(text[d])' = Says(text[d])
  BY <1>1 DEF Says, What
<1>13. NoHandlerAfterGone' /\ DiesOfGlue'
  <2>1. at[c] # "gone"
    BY <1>2 DEF NoHandlerAfterGone, IoEnded
  <2>2. NoHandlerAfterGone'
    BY <1>1, <1>8, <2>1 DEF NoHandlerAfterGone, IoEnded
  <2>3. ASSUME NEW d \in Client, io'[d] = "dead", colour'[d] # ""
        PROVE  DeafByGlue(d)'
    <3>1. CASE d = c
      <4>1. outcome = "throws"
        BY <1>8, <2>3, <3>1
      <4>2. colour'[c] = colour[c]
        BY <1>6, <4>1
      <4>3. Unreadable(says)
        BY <1>5, <2>3, <3>1, <4>1, <4>2
      <4>4. text'[c] = text[c]
        BY <1>3, <4>1 DEF TypeInv
      <4>5. Says(text[c])' = says
        BY <1>21, <4>4 DEF says
      <4> QED
        BY <2>3, <3>1, <4>3, <4>5 DEF DeafByGlue
    <3>2. CASE d # c
      <4>1. io[d] = "dead" /\ colour[d] # "" /\ text'[d] = text[d]
        BY <1>6, <1>8, <1>9, <2>3, <3>2
      <4>2. Unreadable(Says(text[d]))
        BY <4>1 DEF DiesOfGlue, DeafByGlue
      <4> QED
        BY <1>21, <2>3, <4>1, <4>2 DEF DeafByGlue
    <3> QED
      BY <3>1, <3>2
  <2> QED
    BY <2>2, <2>3 DEF DiesOfGlue
<1>14. SendInv'
  BY <1>1, <1>7 DEF SendInv
<1>15. OverHasCause'
  <2>1. ASSUME NEW d \in Client, over'[d]
        PROVE  (\E e \in Client : won[e]) \/ session[d] = "closed"
    BY <1>5, <1>7, <2>1, MateOther DEF OverHasCause
  <2> QED
    BY <1>1, <1>10, <2>1 DEF OverHasCause
<1>16. StartInv'
  <2>1. ASSUME NEW d \in Client, colour'[d] # ""
        PROVE  heard[d] >= 1 /\ got[d] # <<>> /\ colour'[d] = got[d][1][1]
    BY <1>5, <1>6, <2>1 DEF StartInv
  <2> QED
    BY <1>1, <1>10, <2>1 DEF StartInv
<1>17. TextInv'
  <2>1. ASSUME NEW d \in Client, io'[d] = "handling"
        PROVE  \E k \in 1..(heard'[d] + 1) : TextIs(d, k)'
    <3>1. d # c
      BY <1>8, <2>1
    <3>2. io[d] = "handling" /\ text'[d] = text[d] /\ colour'[d] = colour[d]
      BY <1>6, <1>8, <1>9, <2>1, <3>1
    <3> QED
      BY <1>1, <1>10, <3>2 DEF TextInv, TextIs
  <2> QED
    BY <2>1 DEF TextInv
<1>18. CountInv'
  BY <1>1, <1>10 DEF CountInv
<1>19. PairInv' /\ WaitInv' /\ GotInv'
  BY <1>1, IoKept DEF frameVars
<1> QED
  BY <1>11, <1>12, <1>13, <1>14, <1>15, <1>16, <1>17, <1>18, <1>19, <1>20

LEMMA IoStep == ASSUME IInv, NEW c \in Client, Io(c) PROVE IInv'
  BY ReadsSomeStep, ReadsEndStep, HandlesStep, IoExitsStep DEF Io

-----------------------------------------------------------------------------
(* The server only writes behind what it has written.                         *)

LEMMA SubSeqOfPrefix ==
    ASSUME NEW S, NEW s \in Seq(S), NEW t \in Seq(S), NEW h \in Nat, NEW k \in 1..(h + 1),
           h <= Len(s), Len(s) <= Len(t), \A i \in 1..Len(s) : t[i] = s[i]
    PROVE  SubSeq(t, k, h) = SubSeq(s, k, h)
<1>1. Len(s) \in Nat /\ Len(t) \in Nat /\ k \in Nat /\ k >= 1
  BY LenProperties
<1>2. \A i \in 1..(h - k + 1) : t[k + i - 1] = s[k + i - 1]
  BY <1>1
<1>3. \A i \in k..h : s[i] \in S /\ t[i] \in S
  BY <1>1
<1>4. /\ SubSeq(s, k, h) \in Seq(S)
      /\ Len(SubSeq(s, k, h)) = IF k <= h THEN h - k + 1 ELSE 0
      /\ \A i \in 1..(h - k + 1) : SubSeq(s, k, h)[i] = s[k + i - 1]
  BY <1>1, <1>3, SubSeqProperties
<1>5. /\ SubSeq(t, k, h) \in Seq(S)
      /\ Len(SubSeq(t, k, h)) = IF k <= h THEN h - k + 1 ELSE 0
      /\ \A i \in 1..(h - k + 1) : SubSeq(t, k, h)[i] = t[k + i - 1]
  BY <1>1, <1>3, SubSeqProperties
<1> DEFINE u == SubSeq(s, k, h)
           v == SubSeq(t, k, h)
<1>6. Len(u) = Len(v) /\ Len(u) \in Nat
  BY <1>1, <1>4, <1>5
<1>7. \A i \in 1..Len(u) : u[i] = v[i]
  <2>1. \A i \in 1..Len(u) : i \in 1..(h - k + 1)
    BY <1>1, <1>4
  <2> QED
    BY <1>2, <1>4, <1>5, <2>1
<1> HIDE DEF u, v
<1>8. u \in Seq(S) /\ v \in Seq(S)
  BY <1>4, <1>5 DEF u, v
<1>9. u = v
  BY <1>6, <1>7, <1>8
<1> QED
  BY <1>9 DEF u, v

(* What a step of the server may do to streams and sessions.                  *)
Grows ==
    /\ UNCHANGED <<frameVars, gameVars, ioVars>>
    /\ got' \in [Client -> Seq(Item)]
    /\ \A d \in Client : /\ Len(got[d]) <= Len(got'[d])
                         /\ \A i \in 1..Len(got[d]) : got'[d][i] = got[d][i]
    /\ session' \in [Client -> {"none", "open", "closed"}]
    /\ \A d \in Client : /\ session[d] = "closed" => session'[d] = "closed"
                         /\ session'[d] # "none" => sock[d] # "none"
    /\ passed' \in [Client -> Nat]
    /\ \A d \in Client : passed'[d] <= Len(sends[d])
    /\ server' \in {"up", "dead", "down"}

LEMMA GrowsStep ==
    ASSUME IInv, Grows, PairInv', WaitInv', GotInv', untold' \in Seq(Client),
           pair' \in {<<>>} \cup (Client \X Client)
    PROVE  IInv'
<1> USE DEF IInv
<1>1. UNCHANGED <<at, won, sock, sends, colour, over, io, text, heard>>
  BY DEF Grows, frameVars, gameVars, ioVars
<1>2. /\ got' \in [Client -> Seq(Item)]
      /\ session' \in [Client -> {"none", "open", "closed"}]
      /\ passed' \in [Client -> Nat]
      /\ server' \in {"up", "dead", "down"}
  BY DEF Grows
<1>3. \A d \in Client : /\ Len(got[d]) <= Len(got'[d])
                        /\ \A i \in 1..Len(got[d]) : got'[d][i] = got[d][i]
  BY DEF Grows
<1>4. \A d \in Client : /\ session[d] = "closed" => session'[d] = "closed"
                        /\ session'[d] # "none" => sock[d] # "none"
                        /\ passed'[d] <= Len(sends[d])
  BY DEF Grows
<1>5. \A d \in Client : /\ got[d] \in Seq(Item) /\ got'[d] \in Seq(Item)
                        /\ Len(got[d]) \in Nat /\ Len(got'[d]) \in Nat /\ heard[d] \in Nat
  BY <1>2, Lengths DEF TypeInv
<1>6. TypeInv'
  BY <1>1, <1>2 DEF TypeInv
<1>7. CountInv'
  <2>1. ASSUME NEW d \in Client PROVE heard[d] <= Len(got'[d])
    <3>1. heard[d] <= Len(got[d])
      BY DEF CountInv
    <3> QED
      BY <1>3, <1>5, <3>1
  <2> QED
    BY <1>1, <1>4, <2>1 DEF CountInv
<1>8. EarlyInv'
  BY <1>1, <1>4 DEF EarlyInv
<1>9. SendInv' /\ ReadInv' /\ DiesOfGlue' /\ NoHandlerAfterGone'
  <2>1. SendInv' /\ NoHandlerAfterGone'
    BY <1>1 DEF SendInv, NoHandlerAfterGone, IoEnded
  <2> QED
    BY <1>1, <2>1, ReadKept
<1>10. OverHasCause'
  BY <1>1, <1>4 DEF OverHasCause
<1>11. StartInv'
  <2>1. ASSUME NEW d \in Client, colour[d] # ""
        PROVE  heard[d] >= 1 /\ got'[d] # <<>> /\ colour[d] = got'[d][1][1]
    <3>1. heard[d] >= 1 /\ colour[d] = got[d][1][1] /\ heard[d] <= Len(got[d])
      BY <2>1 DEF StartInv, CountInv
    <3>2. 1 \in 1..Len(got[d])
      BY <1>5, <3>1
    <3>3. got'[d][1] = got[d][1] /\ Len(got'[d]) >= 1
      BY <1>3, <1>5, <3>2
    <3> QED
      BY <1>5, <3>1, <3>3
  <2> QED
    BY <1>1, <2>1 DEF StartInv
<1>12. TextInv'
  <2>1. ASSUME NEW d \in Client, io[d] = "handling"
        PROVE  \E k \in 1..(heard'[d] + 1) : TextIs(d, k)'
    <3>1. PICK k \in 1..(heard[d] + 1) : TextIs(d, k)
      BY <2>1 DEF TextInv
    <3>2. heard[d] <= Len(got[d])
      BY DEF CountInv
    <3>3. SubSeq(got'[d], k, heard[d]) = SubSeq(got[d], k, heard[d])
      BY <1>3, <1>5, <3>2, SubSeqOfPrefix
    <3> QED
      BY <1>1, <1>4, <3>1, <3>3 DEF TextIs
  <2> QED
    BY <1>1, <2>1 DEF TextInv
<1> QED
  BY <1>6, <1>7, <1>8, <1>9, <1>10, <1>11, <1>12

(* Sessions close, and nothing is written.                                    *)
LEMMA ClosesStep ==
    ASSUME IInv, NEW c \in Client, DropsGone(c) \/ Dies \/ Stops
    PROVE  IInv'
<1> USE DEF IInv
<1>1. UNCHANGED <<frameVars, gameVars, ioVars, got, passed, pair, untold>>
  BY DEF DropsGone, Dies, Stops
<1>2. server' \in {"up", "dead", "down"}
  BY DEF TypeInv, DropsGone, Dies, Stops
<1>3. /\ session' \in [Client -> {"none", "open", "closed"}]
      /\ \A d \in Client : /\ session[d] = "closed" => session'[d] = "closed"
                           /\ session'[d] = "none" <=> session[d] = "none"
  <2>1. CASE DropsGone(c)
    BY <2>1 DEF TypeInv, DropsGone
  <2>2. CASE Dies
    BY <2>2 DEF TypeInv, Dies
  <2>3. CASE Stops
    BY <2>3 DEF TypeInv, Stops
  <2> QED
    BY <2>1, <2>2, <2>3
<1>4. Grows
  <2>1. \A d \in Client : session'[d] # "none" => sock[d] # "none"
    BY <1>3 DEF EarlyInv
  <2>2. \A d \in Client : Len(got[d]) \in Nat
    BY Lengths DEF TypeInv
  <2>3. \A d \in Client : Len(got[d]) <= Len(got'[d])
    BY <1>1, <2>2
  <2>4. UNCHANGED <<got, passed>> /\ UNCHANGED <<frameVars, gameVars, ioVars>>
    BY <1>1
  <2>5. /\ got \in [Client -> Seq(Item)] /\ passed \in [Client -> Nat]
        /\ \A d \in Client : passed[d] <= Len(sends[d])
    BY DEF TypeInv, CountInv
  <2> QED
    BY <1>2, <1>3, <2>1, <2>3, <2>4, <2>5 DEF Grows
<1>5. UNCHANGED <<sock, got, passed, pair, untold>>
  BY <1>1 DEF frameVars
<1>6. PairInv' /\ WaitInv' /\ GotInv'
  <2>1. PairInv'
    BY <1>3, <1>5 DEF PairInv
  <2>2. WaitInv'
    BY <1>5 DEF WaitInv, Waits
  <2>3. GotInv'
    BY <1>5 DEF GotInv, ColourOf
  <2> QED
    BY <2>1, <2>2, <2>3
<1> QED
  BY <1>4, <1>5, <1>6, GrowsStep DEF TypeInv

LEMMA AcceptsStep == ASSUME IInv, NEW c \in Client, Accepts(c) PROVE IInv'
<1> USE DEF IInv
<1>1. UNCHANGED <<got, passed, sock>> /\ UNCHANGED <<frameVars, gameVars, ioVars>>
  BY DEF Accepts, frameVars
<1>2. /\ session[c] = "none" /\ sock[c] # "none" /\ untold = <<>>
      /\ session' = [session EXCEPT ![c] = "open"]
  BY DEF Accepts, Polls
<1>3. pair = <<>> /\ \A d \in Client : got[d] = <<>>
  BY <1>2 DEF PairInv, WaitInv, Waits
<1>4. \/ UNCHANGED <<pair, untold>>
      \/ /\ pair' \in Client \X Client /\ pair'[1] # pair'[2] /\ untold' = pair'
         /\ \A d \in Client : session'[d] = "open"
  <2>1. CASE UNCHANGED <<pair, untold>>
    BY <2>1
  <2>2. CASE ~UNCHANGED <<pair, untold>>
    <3>1. /\ pair' \in IF \A d \in Client : session'[d] = "open"
                       THEN {p \in Client \X Client : p[1] # p[2]} ELSE {pair}
          /\ untold' = IF pair' # pair THEN pair' ELSE untold
      BY <2>2 DEF Accepts
    <3>2. pair' # pair
      BY <2>2, <3>1
    <3> QED
      BY <3>1, <3>2
  <2> QED
    BY <2>1, <2>2
<1>5. server' \in {"up", "dead", "down"}
  BY DEF Accepts, TypeInv
<1>6. Grows
  <2>1. \A d \in Client : Len(got[d]) \in Nat
    BY Lengths DEF TypeInv
  <2>2. \A d \in Client : Len(got[d]) <= Len(got'[d])
    BY <1>1, <2>1
  <2>3. /\ session' \in [Client -> {"none", "open", "closed"}]
        /\ \A d \in Client : /\ session[d] = "closed" => session'[d] = "closed"
                             /\ session'[d] # "none" => sock[d] # "none"
    BY <1>2 DEF TypeInv, EarlyInv
  <2>4. /\ got \in [Client -> Seq(Item)] /\ passed \in [Client -> Nat]
        /\ \A d \in Client : passed[d] <= Len(sends[d])
    BY DEF TypeInv, CountInv
  <2> QED
    BY <1>1, <1>5, <2>2, <2>3, <2>4 DEF Grows
<1>7. PairInv'
  BY <1>2, <1>3, <1>4 DEF PairInv
<1>8. WaitInv'
  BY <1>1, <1>3, <1>4 DEF WaitInv, Waits
<1>9. GotInv'
  <2>1. \A d \in Client : Len(got'[d]) = 0
    BY <1>1, <1>3
  <2>2. \A d \in Client : 1..Len(got'[d]) = {}
    BY <2>1
  <2> QED
    BY <2>2 DEF GotInv
<1>10. untold' \in Seq(Client) /\ pair' \in {<<>>} \cup (Client \X Client)
  <2>1. ASSUME NEW p \in Client \X Client PROVE p \in Seq(Client)
    <3>1. PICK a \in Client, b \in Client : p = <<a, b>>
      OBVIOUS
    <3>2. <<a, b>> \in Seq(Client)
      OBVIOUS
    <3> QED
      BY <3>1, <3>2
  <2> QED
    BY <1>4, <2>1 DEF TypeInv
<1> QED
  BY <1>6, <1>7, <1>8, <1>9, <1>10, GrowsStep

(* One item more at the end of one stream.                                    *)
LEMMA WritesStep ==
    ASSUME IInv, NEW d \in Client, NEW item \in Item,
           got' = [got EXCEPT ![d] = Append(got[d], item)]
    PROVE  /\ got' \in [Client -> Seq(Item)]
           /\ Len(got[d]) \in Nat /\ Len(got'[d]) = Len(got[d]) + 1
           /\ got'[d][Len(got[d]) + 1] = item
           /\ \A i \in 1..Len(got[d]) : got'[d][i] = got[d][i]
           /\ \A e \in Client \ {d} : got'[e] = got[e]
           /\ \A e \in Client : /\ Len(got[e]) <= Len(got'[e])
                                /\ \A i \in 1..Len(got[e]) : got'[e][i] = got[e][i]
<1>1. got[d] \in Seq(Item) /\ got \in [Client -> Seq(Item)]
  BY DEF IInv, TypeInv
<1>2. /\ Append(got[d], item) \in Seq(Item)
      /\ Len(Append(got[d], item)) = Len(got[d]) + 1
      /\ Append(got[d], item)[Len(got[d]) + 1] = item
      /\ \A i \in 1..Len(got[d]) : Append(got[d], item)[i] = got[d][i]
  BY <1>1, AppendProperties
<1>3. /\ got' \in [Client -> Seq(Item)]
      /\ got'[d] = Append(got[d], item)
      /\ \A e \in Client \ {d} : got'[e] = got[e]
  BY <1>1, <1>2
<1>4. \A e \in Client : Len(got[e]) \in Nat
  BY Lengths DEF IInv, TypeInv
<1>5. \A e \in Client : /\ Len(got[e]) <= Len(got'[e])
                        /\ \A i \in 1..Len(got[e]) : got'[e][i] = got[e][i]
  BY <1>2, <1>3, <1>4
<1> QED
  BY <1>2, <1>3, <1>4, <1>5

LEMMA TellsColourStep == ASSUME IInv, TellsColour PROVE IInv'
<1> USE DEF IInv
<1> DEFINE c == Head(untold)
           item == IF untold = pair THEN Black ELSE White
<1>1. UNCHANGED <<passed, pair, server, sock>> /\ UNCHANGED <<frameVars, gameVars, ioVars>>
  BY DEF TellsColour, frameVars
<1>2. untold # <<>> /\ untold' = Tail(untold)
  BY DEF TellsColour
<1>3. /\ pair \in Client \X Client /\ pair[1] # pair[2] /\ pair # <<>>
      /\ untold \in {pair, <<pair[2]>>}
      /\ \A d \in Client : session[d] # "none"
  BY <1>2 DEF PairInv
<1>4. PICK a \in Client, b \in Client : pair = <<a, b>> /\ a # b
  BY <1>3
<1>5. \/ untold = pair /\ c = a /\ item = Black /\ untold' = <<b>>
      \/ untold = <<b>> /\ untold # pair /\ c = b /\ item = White /\ untold' = <<>>
  <2>1. CASE untold = pair
    <3>1. untold = <<a, b>>
      BY <1>4, <2>1
    <3>2. Head(<<a, b>>) = a /\ Tail(<<a, b>>) = <<b>>
      OBVIOUS
    <3> QED
      BY <1>2, <2>1, <3>1, <3>2
  <2>2. CASE untold # pair
    <3>1. untold = <<b>>
      BY <1>3, <1>4, <2>2
    <3>2. Head(<<b>>) = b /\ Tail(<<b>>) = <<>>
      OBVIOUS
    <3> QED
      BY <1>2, <2>2, <3>1, <3>2
  <2> QED
    BY <2>1, <2>2
<1>6. c \in Client /\ item \in Item /\ item = ColourOf(c)
  BY <1>4, <1>5 DEF Item, Colours, ColourOf
<1>7. got[c] = <<>> /\ Waits(c)
  BY <1>4, <1>5, <1>6 DEF WaitInv, Waits
<1>8. \/ Listened(c) /\ got' = [got EXCEPT ![c] = Append(got[c], item)] /\ UNCHANGED session
      \/ ~Listened(c) /\ UNCHANGED <<got, session>>
      \/ ~Listened(c) /\ UNCHANGED got /\ session' = [session EXCEPT ![c] = "closed"]
  BY DEF TellsColour
<1> HIDE DEF c, item
<1>9. /\ got' \in [Client -> Seq(Item)]
      /\ \A d \in Client : /\ Len(got[d]) <= Len(got'[d])
                           /\ \A i \in 1..Len(got[d]) : got'[d][i] = got[d][i]
      /\ \A d \in Client \ {c} : got'[d] = got[d]
      /\ \/ Len(got'[c]) = 0 /\ got'[c] = <<>> /\ sock[c] # "open"
         \/ Len(got'[c]) = 1 /\ got'[c][1] = item /\ got'[c] # <<>>
  <2>1. CASE Listened(c) /\ got' = [got EXCEPT ![c] = Append(got[c], item)]
    <3>1. /\ got' \in [Client -> Seq(Item)]
          /\ Len(got'[c]) = Len(got[c]) + 1
          /\ got'[c][Len(got[c]) + 1] = item
          /\ \A e \in Client \ {c} : got'[e] = got[e]
          /\ \A e \in Client : /\ Len(got[e]) <= Len(got'[e])
                               /\ \A i \in 1..Len(got[e]) : got'[e][i] = got[e][i]
      BY <1>6, <2>1, WritesStep
    <3>2. Len(got[c]) = 0
      BY <1>7
    <3> QED
      BY <3>1, <3>2
  <2>2. CASE ~Listened(c) /\ UNCHANGED got
    <3>1. \A d \in Client : Len(got[d]) \in Nat
      BY Lengths DEF TypeInv
    <3>2. \A d \in Client : Len(got[d]) <= Len(got'[d])
      BY <2>2, <3>1
    <3>3. got \in [Client -> Seq(Item)]
      BY DEF TypeInv
    <3>4. Len(got'[c]) = 0 /\ got'[c] = <<>> /\ sock[c] # "open"
      BY <1>7, <2>2 DEF Listened
    <3> QED
      BY <2>2, <3>2, <3>3, <3>4
  <2> QED
    BY <1>8, <2>1, <2>2
<1>10. /\ session' \in [Client -> {"none", "open", "closed"}]
       /\ \A d \in Client : /\ session[d] = "closed" => session'[d] = "closed"
                            /\ session'[d] # "none"
  BY <1>3, <1>8 DEF TypeInv
<1>11. Grows
  <2>1. \A d \in Client : sock[d] # "none"
    BY <1>3 DEF EarlyInv
  <2>2. /\ passed \in [Client -> Nat] /\ \A d \in Client : passed[d] <= Len(sends[d])
        /\ server \in {"up", "dead", "down"}
    BY DEF TypeInv, CountInv
  <2> QED
    BY <1>1, <1>9, <1>10, <2>1, <2>2 DEF Grows
<1>12. PairInv'
  BY <1>1, <1>3, <1>4, <1>5, <1>10 DEF PairInv
<1>13. WaitInv'
  <2>1. ASSUME NEW d \in Client
        PROVE  IF Waits(d)' THEN got'[d] = <<>> ELSE sock[d] = "open" => got'[d] # <<>>
    <3>1. CASE untold = pair /\ c = a /\ untold' = <<b>>
      <4>1. Waits(d)' <=> d = b
        BY <1>1, <1>4, <3>1 DEF Waits
      <4>2. got[d] = <<>>
        BY <3>1 DEF WaitInv, Waits
      <4>3. b # c
        BY <1>4, <3>1
      <4>4. d = b \/ d = a
        BY <1>4, MateOther
      <4> QED
        BY <1>9, <3>1, <4>1, <4>2, <4>3, <4>4
    <3>2. CASE untold = <<b>> /\ untold # pair /\ c = b /\ untold' = <<>>
      <4>1. ~Waits(d)'
        BY <1>1, <1>4, <3>2 DEF Waits
      <4>2. d # b => ~Waits(d)
        BY <1>4, <3>2 DEF Waits
      <4>3. d # b => (sock[d] = "open" => got[d] # <<>>)
        BY <4>2 DEF WaitInv
      <4> QED
        BY <1>9, <3>2, <4>1, <4>3
    <3> QED
      BY <1>5, <3>1, <3>2
  <2> QED
    BY <1>1, <2>1 DEF WaitInv
<1>14. GotInv'
  <2>1. ASSUME NEW d \in Client, d # c, NEW i \in 1..Len(got'[d])
        PROVE  /\ i = 1 => got'[d][i] = ColourOf(d)
               /\ i > 1 => /\ got'[d][i][1] = Mate(d)
                           /\ got'[d][i] \in Client \X (Nat \ {0})
                           /\ got'[d][i][2] <= passed[Mate(d)]
               /\ \A j \in 1..Len(got'[d]) :
                     i > 1 /\ j > i => got'[d][i][2] < got'[d][j][2]
    <3>1. got'[d] = got[d]
      BY <1>9, <2>1
    <3> QED
      BY <2>1, <3>1 DEF GotInv
  <2>2. ASSUME NEW i \in 1..Len(got'[c])
        PROVE  /\ i = 1 /\ got'[c][i] = ColourOf(c)
               /\ \A j \in 1..Len(got'[c]) : ~(j > i)
    <3>1. Len(got'[c]) = 1 /\ got'[c][1] = item
      BY <1>9
    <3>2. i = 1 /\ \A j \in 1..Len(got'[c]) : j = 1
      BY <3>1
    <3> QED
      BY <1>6, <3>1, <3>2
  <2>3. \A d \in Client : ColourOf(d)' = ColourOf(d)
    BY <1>1 DEF ColourOf
  <2>4. ASSUME NEW d \in Client, NEW i \in 1..Len(got'[d])
        PROVE  /\ i = 1 => got'[d][i] = ColourOf(d)
               /\ i > 1 => /\ got'[d][i][1] = Mate(d)
                           /\ got'[d][i] \in Client \X (Nat \ {0})
                           /\ got'[d][i][2] <= passed[Mate(d)]
               /\ \A j \in 1..Len(got'[d]) :
                     i > 1 /\ j > i => got'[d][i][2] < got'[d][j][2]
    <3>1. CASE d = c
      BY <2>2, <3>1
    <3>2. CASE d # c
      BY <2>1, <3>2
    <3> QED
      BY <3>1, <3>2
  <2> QED
    BY <1>1, <2>3, <2>4 DEF GotInv
<1>15. untold' \in Seq(Client)
  <2>1. <<>> \in Seq(Client) /\ <<b>> \in Seq(Client)
    OBVIOUS
  <2> QED
    BY <1>5, <2>1
<1> QED
  BY <1>1, <1>3, <1>11, <1>12, <1>13, <1>14, <1>15, GrowsStep

LEMMA RelaysStep == ASSUME IInv, NEW c \in Client, Relays(c) PROVE IInv'
<1> USE DEF IInv
<1> DEFINE d == Mate(c)
           item == <<c, passed[c] + 1>>
<1>1. UNCHANGED <<pair, untold, server, sock>> /\ UNCHANGED <<frameVars, gameVars, ioVars>>
  BY DEF Relays, frameVars
<1>2. /\ untold = <<>> /\ passed[c] < Len(sends[c])
      /\ passed' = [passed EXCEPT ![c] = passed[c] + 1]
  BY DEF Relays, Polls
<1>3. passed[c] \in Nat /\ Len(sends[c]) \in Nat
  BY Lengths DEF TypeInv
<1>4. /\ passed' \in [Client -> Nat] /\ passed'[c] = passed[c] + 1
      /\ \A e \in Client \ {c} : passed'[e] = passed[e]
  <2>1. passed \in [Client -> Nat]
    BY DEF TypeInv
  <2>2. passed[c] + 1 \in Nat
    BY <1>3
  <2> QED
    BY <1>2, <2>1, <2>2
<1>5. /\ d \in Client /\ d # c /\ \A e \in Client : e # c => e = d
      /\ Mate(d) = c
  <2>1. d \in Client /\ d # c /\ \A e \in Client : e # c => e = d
    BY MateOther
  <2> QED
    BY <2>1, MateOther
<1>6. item \in Item /\ item \in Client \X (Nat \ {0}) /\ item[1] = c /\ item[2] = passed[c] + 1
  BY <1>3 DEF Item
<1>7. \/ /\ pair # <<>> /\ session[d] = "open" /\ Listened(d)
         /\ got' = [got EXCEPT ![d] = Append(got[d], item)] /\ UNCHANGED session
      \/ /\ session[d] = "open" /\ session' = [session EXCEPT ![d] = "closed"]
         /\ UNCHANGED got
      \/ UNCHANGED <<got, session>>
  BY <1>4 DEF Relays
<1> HIDE DEF d, item
<1>8. /\ got' \in [Client -> Seq(Item)]
      /\ \A e \in Client : /\ Len(got[e]) <= Len(got'[e])
                           /\ \A i \in 1..Len(got[e]) : got'[e][i] = got[e][i]
      /\ \A e \in Client \ {d} : got'[e] = got[e]
      /\ \/ got' = got
         \/ /\ pair # <<>> /\ sock[d] = "open"
            /\ Len(got[d]) \in Nat /\ Len(got'[d]) = Len(got[d]) + 1
            /\ got'[d][Len(got[d]) + 1] = item
  <2>1. CASE /\ pair # <<>> /\ Listened(d)
             /\ got' = [got EXCEPT ![d] = Append(got[d], item)]
    <3>1. /\ got' \in [Client -> Seq(Item)]
          /\ Len(got[d]) \in Nat /\ Len(got'[d]) = Len(got[d]) + 1
          /\ got'[d][Len(got[d]) + 1] = item
          /\ \A e \in Client \ {d} : got'[e] = got[e]
          /\ \A e \in Client : /\ Len(got[e]) <= Len(got'[e])
                               /\ \A i \in 1..Len(got[e]) : got'[e][i] = got[e][i]
      BY <1>5, <1>6, <2>1, WritesStep
    <3> QED
      BY <2>1, <3>1 DEF Listened
  <2>2. CASE UNCHANGED got
    <3>1. \A e \in Client : Len(got[e]) \in Nat
      BY Lengths DEF TypeInv
    <3>2. \A e \in Client : Len(got[e]) <= Len(got'[e])
      BY <2>2, <3>1
    <3>3. got \in [Client -> Seq(Item)]
      BY DEF TypeInv
    <3> QED
      BY <2>2, <3>2, <3>3
  <2> QED
    BY <1>7, <2>1, <2>2
<1>9. /\ session' \in [Client -> {"none", "open", "closed"}]
      /\ \A e \in Client : /\ session[e] = "closed" => session'[e] = "closed"
                           /\ session'[e] # "none" <=> session[e] # "none"
  BY <1>5, <1>7 DEF TypeInv
<1>10. Grows
  <2>1. \A e \in Client : session'[e] # "none" => sock[e] # "none"
    BY <1>9 DEF EarlyInv
  <2>2. \A e \in Client : passed'[e] <= Len(sends[e])
    <3>1. \A e \in Client : passed[e] <= Len(sends[e])
      BY DEF CountInv
    <3>2. passed'[c] <= Len(sends[c])
      BY <1>2, <1>3, <1>4
    <3> QED
      BY <1>4, <3>1, <3>2
  <2>3. server \in {"up", "dead", "down"}
    BY DEF TypeInv
  <2> QED
    BY <1>1, <1>4, <1>8, <1>9, <2>1, <2>2, <2>3 DEF Grows
<1>11. PairInv'
  BY <1>1, <1>9 DEF PairInv
<1>12. WaitInv'
  <2>1. \A e \in Client : Waits(e)' <=> Waits(e)
    BY <1>1 DEF Waits
  <2>2. CASE got' = got
    BY <1>1, <2>1, <2>2 DEF WaitInv
  <2>3. CASE pair # <<>> /\ Len(got[d]) \in Nat /\ Len(got'[d]) = Len(got[d]) + 1
    <3>1. \A e \in Client : ~Waits(e)
      BY <1>2, <2>3 DEF Waits
    <3>2. got'[d] # <<>>
      BY <2>3
    <3> QED
      BY <1>1, <1>8, <2>1, <3>1, <3>2 DEF WaitInv
  <2> QED
    BY <1>8, <2>2, <2>3
<1>13. GotInv'
  <2>1. \A e \in Client : ColourOf(e)' = ColourOf(e)
    BY <1>1 DEF ColourOf
  <2>2. \A e \in Client : passed[e] \in Nat /\ passed'[e] \in Nat /\ passed[e] <= passed'[e]
    <3>1. \A e \in Client : passed[e] \in Nat
      BY DEF TypeInv
    <3> QED
      BY <1>4, <3>1
  <2>3. \A e \in Client : Mate(e) \in Client
    BY MateOther
  <2>4. ASSUME NEW e \in Client, got'[e] = got[e], NEW i \in 1..Len(got'[e])
        PROVE  /\ i = 1 => got'[e][i] = ColourOf(e)
               /\ i > 1 => /\ got'[e][i][1] = Mate(e)
                           /\ got'[e][i] \in Client \X (Nat \ {0})
                           /\ got'[e][i][2] <= passed'[Mate(e)]
               /\ \A j \in 1..Len(got'[e]) :
                     i > 1 /\ j > i => got'[e][i][2] < got'[e][j][2]
    <3>1. /\ i = 1 => got[e][i] = ColourOf(e)
          /\ i > 1 => /\ got[e][i][1] = Mate(e)
                      /\ got[e][i] \in Client \X (Nat \ {0})
                      /\ got[e][i][2] <= passed[Mate(e)]
          /\ \A j \in 1..Len(got[e]) :
                i > 1 /\ j > i => got[e][i][2] < got[e][j][2]
      BY <2>4 DEF GotInv
    <3>2. i > 1 => got[e][i][2] \in Nat
      BY <3>1
    <3>3. i > 1 => got[e][i][2] <= passed'[Mate(e)]
      BY <2>2, <2>3, <3>1, <3>2
    <3> QED
      BY <2>4, <3>1, <3>3
  <2>5. ASSUME pair # <<>>, sock[d] = "open",
               Len(got[d]) \in Nat, Len(got'[d]) = Len(got[d]) + 1,
               got'[d][Len(got[d]) + 1] = item,
               NEW i \in 1..Len(got'[d])
        PROVE  /\ i = 1 => got'[d][i] = ColourOf(d)
               /\ i > 1 => /\ got'[d][i][1] = Mate(d)
                           /\ got'[d][i] \in Client \X (Nat \ {0})
                           /\ got'[d][i][2] <= passed'[Mate(d)]
               /\ \A j \in 1..Len(got'[d]) :
                     i > 1 /\ j > i => got'[d][i][2] < got'[d][j][2]
    <3>1. Len(got[d]) >= 1
      <4>1. ~Waits(d)
        BY <1>2, <2>5 DEF Waits
      <4>2. got[d] # <<>> /\ got[d] \in Seq(Item)
        BY <1>5, <2>5, <4>1 DEF WaitInv, TypeInv
      <4> QED
        BY <2>5, <4>2
    <3>2. CASE i = Len(got[d]) + 1
      <4>1. i > 1
        BY <2>5, <3>1, <3>2
      <4>2. got'[d][i] = item
        BY <2>5, <3>2
      <4>3. got'[d][i][2] <= passed'[Mate(d)]
        BY <1>3, <1>4, <1>5, <1>6, <4>2
      <4>4. \A j \in 1..Len(got'[d]) : ~(j > i)
        BY <2>5, <3>2
      <4> QED
        BY <1>5, <1>6, <4>1, <4>2, <4>3, <4>4
    <3>3. CASE i \in 1..Len(got[d])
      <4>1. got'[d][i] = got[d][i]
        BY <1>5, <1>8, <3>3
      <4>2. /\ i = 1 => got[d][i] = ColourOf(d)
            /\ i > 1 => /\ got[d][i][1] = Mate(d)
                        /\ got[d][i] \in Client \X (Nat \ {0})
                        /\ got[d][i][2] <= passed[Mate(d)]
            /\ \A j \in 1..Len(got[d]) :
                  i > 1 /\ j > i => got[d][i][2] < got[d][j][2]
        BY <1>5, <3>3 DEF GotInv
      <4>3. i > 1 => got[d][i][2] \in Nat
        BY <4>2
      <4>4. i > 1 => got[d][i][2] <= passed[c] /\ got[d][i][2] < passed[c] + 1
        BY <1>3, <1>5, <4>2, <4>3
      <4>5. ASSUME NEW j \in 1..Len(got'[d]), i > 1, j > i
            PROVE  got[d][i][2] < got'[d][j][2]
        <5>1. CASE j = Len(got[d]) + 1
          BY <1>6, <2>5, <4>4, <4>5, <5>1
        <5>2. CASE j \in 1..Len(got[d])
          BY <1>5, <1>8, <4>2, <4>5, <5>2
        <5> QED
          BY <2>5, <5>1, <5>2
      <4>6. i > 1 => got[d][i][2] <= passed'[Mate(d)]
        BY <1>3, <1>4, <1>5, <4>3, <4>4
      <4> QED
        BY <4>1, <4>2, <4>5, <4>6
    <3> QED
      BY <2>5, <3>2, <3>3
  <2>6. ASSUME NEW e \in Client, NEW i \in 1..Len(got'[e])
        PROVE  /\ i = 1 => got'[e][i] = ColourOf(e)
               /\ i > 1 => /\ got'[e][i][1] = Mate(e)
                           /\ got'[e][i] \in Client \X (Nat \ {0})
                           /\ got'[e][i][2] <= passed'[Mate(e)]
               /\ \A j \in 1..Len(got'[e]) :
                     i > 1 /\ j > i => got'[e][i][2] < got'[e][j][2]
    <3>1. CASE got'[e] = got[e]
      BY <2>4, <3>1
    <3>2. CASE got'[e] # got[e]
      <4>1. e = d /\ got' # got
        BY <1>8, <3>2
      <4>2. /\ pair # <<>> /\ sock[d] = "open"
            /\ Len(got[d]) \in Nat /\ Len(got'[d]) = Len(got[d]) + 1
            /\ got'[d][Len(got[d]) + 1] = item
        BY <1>8, <4>1
      <4> QED
        BY <2>5, <4>1, <4>2
    <3> QED
      BY <3>1, <3>2
  <2> QED
    BY <2>1, <2>6 DEF GotInv
<1> QED
  BY <1>1, <1>10, <1>11, <1>12, <1>13, GrowsStep DEF TypeInv

-----------------------------------------------------------------------------
(* The inductive invariant.                                                   *)

LEMMA InitIInv == ASSUME Init PROVE IInv
<1>6. 1..0 = {}
  OBVIOUS
<1>7. <<>> \in Seq(Item)
  OBVIOUS
<1>8. <<>> \in Seq(Word)
  OBVIOUS
<1>9. <<>> \in Seq(Client)
  OBVIOUS
<1>10. Len(<<>>) = 0
  OBVIOUS
<1>11. \A c \in Client : /\ got[c] = <<>> /\ sends[c] = <<>>
                         /\ heard[c] = 0 /\ passed[c] = 0
  BY DEF Init
<1>12. \A c \in Client : Len(got[c]) = 0 /\ Len(sends[c]) = 0
  BY <1>10, <1>11
<1>13. CountInv
  BY <1>11, <1>12 DEF CountInv
<1> USE DEF Init
<1>1. TypeInv
  BY <1>7, <1>8, <1>9 DEF TypeInv, Places
<1>2. EarlyInv
  BY DEF EarlyInv
<1>3. PairInv /\ WaitInv
  BY DEF PairInv, WaitInv, Waits
<1>4. GotInv /\ SendInv
  <2>1. \A c \in Client : 1..Len(got[c]) = {} /\ 1..Len(sends[c]) = {}
    BY <1>6, <1>12
  <2> QED
    BY <2>1 DEF GotInv, SendInv
<1>5. /\ StartInv /\ TextInv /\ OverHasCause /\ DiesOfGlue /\ NoHandlerAfterGone
      /\ ReadInv
  <2>1. /\ StartInv /\ TextInv /\ OverHasCause /\ DiesOfGlue /\ NoHandlerAfterGone
    BY DEF StartInv, TextInv, OverHasCause, DiesOfGlue, NoHandlerAfterGone
  <2>3. \A c \in Client : text[c] = <<>>
    OBVIOUS
  <2>4. ReadInv
    BY <2>3, NoItems DEF ReadInv
  <2> QED
    BY <2>1, <2>4
<1> QED
  BY <1>1, <1>2, <1>3, <1>4, <1>5, <1>13 DEF IInv

LEMMA NextIInv == ASSUME IInv, [Next]_vars PROVE IInv'
<1>1. CASE UNCHANGED vars
  <2>1. /\ UNCHANGED <<at, won, sock, sends, colour, over, io, text, heard>>
        /\ UNCHANGED <<got, session, passed, pair, untold, server>>
    BY <1>1 DEF vars, frameVars, gameVars, ioVars, serverVars
  <2>2. /\ TypeInv' /\ CountInv' /\ EarlyInv' /\ SendInv' /\ OverHasCause'
        /\ ReadInv' /\ DiesOfGlue' /\ NoHandlerAfterGone'
    <3>1. TypeInv' /\ CountInv'
      BY <2>1 DEF IInv, TypeInv, CountInv
    <3>2. EarlyInv' /\ SendInv'
      BY <2>1 DEF IInv, EarlyInv, SendInv
    <3>3. OverHasCause' /\ NoHandlerAfterGone'
      BY <2>1 DEF IInv, OverHasCause, NoHandlerAfterGone, IoEnded
    <3>4. ReadInv' /\ DiesOfGlue'
      BY <2>1, ReadKept DEF IInv
    <3> QED
      BY <3>1, <3>2, <3>3, <3>4
  <2>3. UNCHANGED <<text, heard, colour, serverVars>> /\ UNCHANGED <<frameVars, serverVars>>
    BY <2>1 DEF serverVars, frameVars
  <2>4. /\ PairInv' /\ GotInv' /\ StartInv' /\ WaitInv' /\ TextInv'
    BY <2>1, <2>3, StreamsKept, TextKept, IoKept
  <2> QED
    BY <2>2, <2>4 DEF IInv
<1>2. CASE \E c \in Client : \/ Frame(c) \/ Decides(c) \/ Io(c)
                             \/ Moves(c) \/ TellsOpportunity(c) \/ ReachesLastRow(c)
                             \/ Promotes(c) \/ ClosesWindow(c) \/ Killed(c)
  BY <1>2, FrameStep, IoStep
<1>3. CASE Server
  BY <1>3, TellsColourStep, AcceptsStep, RelaysStep, ClosesStep DEF Server
<1>4. CASE Dies \/ Stops
  <2>1. PICK c \in Client : TRUE
    <3>1. Client # {}
      BY ClientAssumption, FS_EmptySet
    <3> QED
      BY <3>1
  <2> QED
    BY <1>4, <2>1, ClosesStep
<1> QED
  BY <1>1, <1>2, <1>3, <1>4 DEF Next

LEMMA IInvTypeOK == ASSUME IInv PROVE TypeOK
<1> USE DEF IInv
<1>1. ASSUME NEW c \in Client
      PROVE  /\ heard[c] \in 0..Len(got[c]) /\ passed[c] \in 0..Len(sends[c])
             /\ \A i \in DOMAIN got[c] :
                   \/ got[c][i] \in Colours
                   \/ \E n \in 1..passed[Mate(c)] : got[c][i] = <<Mate(c), n>>
  <2>1. /\ got[c] \in Seq(Item) /\ Len(got[c]) \in Nat /\ Len(sends[c]) \in Nat
        /\ heard[c] \in Nat /\ passed[c] \in Nat /\ passed[Mate(c)] \in Nat
    BY Lengths, MateOther DEF TypeInv
  <2>2. heard[c] \in 0..Len(got[c]) /\ passed[c] \in 0..Len(sends[c])
    BY <2>1 DEF CountInv
  <2>3. ASSUME NEW i \in 1..Len(got[c])
        PROVE  \/ got[c][i] \in Colours
               \/ \E n \in 1..passed[Mate(c)] : got[c][i] = <<Mate(c), n>>
    <3>1. CASE i = 1
      BY <3>1 DEF GotInv, ColourOf, Colours
    <3>2. CASE i > 1
      <4>1. /\ got[c][i][1] = Mate(c)
            /\ got[c][i] \in Client \X (Nat \ {0})
            /\ got[c][i][2] <= passed[Mate(c)]
        BY <3>2 DEF GotInv
      <4>2. got[c][i] = <<Mate(c), got[c][i][2]>> /\ got[c][i][2] \in Nat \ {0}
        BY <4>1
      <4>3. got[c][i][2] \in 1..passed[Mate(c)]
        BY <2>1, <4>1, <4>2
      <4> QED
        BY <4>2, <4>3
    <3> QED
      BY <2>1, <3>1, <3>2
  <2> QED
    BY <2>1, <2>2, <2>3
<1> QED
  BY <1>1 DEF TypeInv, TypeOK

LEMMA NonEmpty ==
    ASSUME NEW S, NEW s \in Seq(S), s # <<>>
    PROVE  1 \in 1..Len(s)
<1>1. Len(s) \in Nat /\ Len(s) # 0
  BY EmptySeq, LenProperties
<1> QED
  BY <1>1

LEMMA StartsWithItsColour ==
    ASSUME IInv, NEW e \in Client, colour[e] # ""
    PROVE  got[e] # <<>> /\ colour[e] = ColourOf(e)[1]
<1>1. got[e] # <<>> /\ colour[e] = got[e][1][1]
  BY DEF IInv, StartInv
<1>2. 1 \in 1..Len(got[e])
  BY <1>1, Lengths, NonEmpty DEF IInv, TypeInv
<1>3. got[e][1] = ColourOf(e)
  BY <1>2 DEF IInv, GotInv
<1> QED
  BY <1>1, <1>3

LEMMA IInvOppositeColours == ASSUME IInv PROVE OppositeColours
<1> SUFFICES ASSUME NEW c \in Client, NEW d \in Client,
                    c # d, colour[c] # "", colour[d] # ""
             PROVE  colour[c] # colour[d]
  BY DEF OppositeColours
<1>1. /\ got[c] # <<>> /\ colour[c] = ColourOf(c)[1]
      /\ got[d] # <<>> /\ colour[d] = ColourOf(d)[1]
  BY StartsWithItsColour
<1>2. pair # <<>>
  BY <1>1 DEF IInv, WaitInv, Waits
<1>3. pair[1] \in Client /\ pair[2] \in Client /\ pair[1] # pair[2]
  BY <1>2 DEF IInv, PairInv
<1>4. c = pair[1] <=> d # pair[1]
  BY <1>3, MateOther
<1> QED
  BY <1>1, <1>4 DEF ColourOf, Black, White

-----------------------------------------------------------------------------
(* The theorems.                                                              *)

LEMMA SpecIInv == Spec => []IInv
  BY InitIInv, NextIInv, PTL DEF Spec

(* Every variable keeps its type, however much the two tell each other; whatever a
   client is written is a colour, or a message the other one has sent and the
   server has read (game_server.cpp:49-66).                                   *)
THEOREM SessionTypes == Spec => []TypeOK
  BY SpecIInv, IInvTypeOK, PTL

(* Two games that have both started have different colours, in whatever order
   the two are accepted, paired and told (game.cpp:28-39).                    *)
THEOREM SessionColours == Spec => []OppositeColours
  BY SpecIInv, IInvOppositeColours, PTL

(* A game ends by a king taken or by the end of its connection, however many
   whole messages are read together: no colour and no message of a move ends it
   (game.cpp:28-78).                                                          *)
THEOREM SessionEnds == Spec => []OverHasCause
<1>1. IInv => OverHasCause
  BY DEF IInv
<1> QED
  BY <1>1, SpecIInv, PTL

(* A game that has started loses its I/O thread only to an opportunity or a wall
   read together with a move behind it, or a move with a promotion behind it: no
   exception of the handler comes from a colour, from a message alone or from
   other texts (client.cpp:49-62, game.cpp:28-64, 285-327).                   *)
THEOREM SessionHears == Spec => []DiesOfGlue
<1>1. IInv => DiesOfGlue
  BY DEF IInv
<1> QED
  BY <1>1, SpecIInv, PTL

(* No handler runs on a game that is destroyed, nor can one start
   (client.cpp:88-115, game.h:71-120).                                        *)
THEOREM SessionOutlived == Spec => []NoHandlerAfterGone
<1>1. IInv => NoHandlerAfterGone
  BY DEF IInv
<1> QED
  BY <1>1, SpecIInv, PTL

=============================================================================
