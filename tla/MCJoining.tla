------------------------------ MODULE MCJoining ------------------------------
(* Small sessions for TLC.                                                 *)
EXTENDS Joining

CONSTANTS h1, g1, i1, i2

\* One guest of one session, invited once or twice, with different ranks.
OneInviter == [i \in Invite |-> h1]
OneInvitee == [i \in Invite |-> g1]
MixedRanks == [i \in Invite |-> IF i = i1 THEN Viewer ELSE Director]
OwnRandom  == [i \in Invite |-> IF i = i1 THEN 1 ELSE 2]
=============================================================================
