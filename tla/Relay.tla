-------------------------------- MODULE Relay --------------------------------
(* What the relay promises to the players: what a peer hears of another one are
   that one's messages, each at most once and to one peer only, in the order
   they were sent; and nothing is garbled as long as nobody has left.  It may
   lose messages, and says nothing of who plays with whom.

   GameServer implements it with sessions, reads and ids, and Session stands on
   it with two clients' threads.                                              *)
EXTENDS Naturals, Sequences

CONSTANTS
    Conn,       \* the connections ever made
    MaxSends    \* bound on the messages of one peer

VARIABLES
    peer,       \* peer[c]: "idle", "up" or "gone"
    sent,       \* sent[c]: how many messages c has sent
    got         \* got[c]: what c has been written: <<d, n>> is d's n-th message

vars == <<peer, sent, got>>

Colours == {<<"BLACK", 0>>, <<"WHITE", 0>>}
Garbage == <<"GARBAGE", 0>>

Init ==
    /\ peer = [c \in Conn |-> "idle"]
    /\ sent = [c \in Conn |-> 0]
    /\ got = [c \in Conn |-> <<>>]

Connects(c) ==
    /\ peer[c] = "idle"
    /\ peer' = [peer EXCEPT ![c] = "up"]
    /\ UNCHANGED <<sent, got>>

Leaves(c) ==
    /\ peer[c] = "up"
    /\ peer' = [peer EXCEPT ![c] = "gone"]
    /\ UNCHANGED <<sent, got>>

(* A peer sends nothing before it has been told a colour.                     *)
Sends(c) ==
    /\ peer[c] = "up" /\ sent[c] < MaxSends
    /\ \E i \in DOMAIN got[c] : got[c][i] \in Colours
    /\ sent' = [sent EXCEPT ![c] = @ + 1]
    /\ UNCHANGED <<peer, got>>

Writes(d, items) ==
    /\ peer[d] = "up"
    /\ got' = [got EXCEPT ![d] = @ \o items]
    /\ UNCHANGED <<peer, sent>>

(* Nothing that c sent from its n-th message on has been passed to anybody.   *)
Unpassed(c, n) ==
    \A d \in Conn : \A i \in DOMAIN got[d] : got[d][i][1] = c => got[d][i][2] < n

(* Messages first..end of c reach d; those before them that did not are lost. *)
Passes(c, d, first, end) ==
    /\ c # d /\ Unpassed(c, first)
    /\ Writes(d, [i \in 1..(end - first + 1) |-> <<c, first + i - 1>>])

SomebodyLeft == \E c \in Conn : peer[c] = "gone"

Next ==
    \/ \E c \in Conn : Connects(c) \/ Leaves(c) \/ Sends(c)
    \/ \E d \in Conn, colour \in Colours : Writes(d, <<colour>>)
    \/ \E c, d \in Conn : \E first, end \in 1..sent[c] :
            first <= end /\ Passes(c, d, first, end)
    \/ \E d \in Conn : SomebodyLeft /\ Writes(d, <<Garbage>>)

Spec == Init /\ [][Next]_vars

=============================================================================
