-------------------------------- MODULE Voting --------------------------------
(***************************************************************************)
(* What the elections of a WeTube session promise, without channels,       *)
(* messages, timers or failures: who voted for whom in which round, which  *)
(* elections were concluded, and whom every client follows.  Election      *)
(* implements this specification (ImplementsVoting).                       *)
(***************************************************************************)
EXTENDS Integers

CONSTANTS
    Client,  \* The ids of the clients
    Nil      \* No leader

VARIABLES
    cast,     \* cast[c]: the votes c has cast, each for a client in a round
    decided,  \* decided[c]: the rounds c has concluded: winner and voters
    leader    \* leader[c]: the client c follows, or Nil

vars == <<cast, decided, leader>>

Init ==
    /\ cast = [c \in Client |-> {}]
    /\ decided = [c \in Client |-> {}]
    /\ leader \in [Client -> Client \cup {Nil}]

\* A client only votes in rounds later than all it has voted in, once in each,
\* and a vote is never withdrawn.
Votes(c) ==
    /\ cast[c] \subseteq cast'[c]
    /\ \A new \in cast'[c] \ cast[c] :
         /\ \A old \in cast[c] : old.N < new.N
         /\ \A other \in cast'[c] : other.N = new.N => other = new

\* A client only concludes a round for the winner that it voted for itself,
\* with everybody whose vote it counted.
Decides(c) ==
    /\ decided[c] \subseteq decided'[c]
    /\ \A x \in decided'[c] \ decided[c] :
         \A p \in x.voters \cup {c} :
             [N |-> x.N, Vote |-> x.leader] \in cast'[p]

\* A client only starts to follow the winner of a round that it concluded.
Adopts(c) ==
    leader'[c] \in {leader[c], Nil} \cup {x.leader : x \in decided'[c]}

\* Nothing changes but what c knows.
Alone(c) ==
    \A d \in Client \ {c} :
        /\ cast'[d] = cast[d]
        /\ decided'[d] = decided[d]
        /\ leader'[d] = leader[d]

Next == \E c \in Client : Votes(c) /\ Decides(c) /\ Adopts(c) /\ Alone(c)

Spec == Init /\ [][Next]_vars

=============================================================================
