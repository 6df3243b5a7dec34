------------------------------ MODULE MCBrowser ------------------------------
(* A client and its page for TLC.                                          *)
EXTENDS Browser

CONSTANTS q1, q2, v0

\* Invitations as a Viewer and as a Director.
TwoOffers == {[RankOffered |-> Viewer, Random |-> 1],
              [RankOffered |-> Director, Random |-> 2]}

NoOffers == {}

\* Every peer is a Viewer.
AllPeers == {[q \in Peer |-> Viewer]}

\* A video that plays.
Plays == {[Id |-> v, State |-> "Playing", SecondsElapsed |-> 0] : v \in Video}

\* Every kind happens as often as the record says, the others not at all.
Bound(max) == [k \in Kinds |-> IF k \in DOMAIN max THEN max[k] ELSE 0]

JoinBounds == Bound([choice |-> 1, roster |-> 1, update |-> 1])
LossBounds == Bound([choice |-> 1, roster |-> 1, click |-> 1, title |-> 1,
                     submit |-> 1, end |-> 1, stall |-> 1, beat |-> 1])
FormBounds == Bound([choice |-> 1, roster |-> 1, click |-> 2, submit |-> 1])
=============================================================================
