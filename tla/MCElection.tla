------------------------------ MODULE MCElection ------------------------------
(* Small sessions for TLC. *)
EXTENDS Election

\* Client 2 was invited as a Viewer, the others lead or were made Directors:
\* the two rules of electNewLeader disagree on whom to vote for.
ViewerTwo == [c \in Client |-> IF c = 2 THEN Viewer ELSE Director]

\* All are Directors.
Directors == [c \in Client |-> Director]

=============================================================================
