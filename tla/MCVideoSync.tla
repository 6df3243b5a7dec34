----------------------------- MODULE MCVideoSync -----------------------------
(* A leader and another member for TLC.                                     *)
EXTENDS VideoSync

CONSTANTS l, m1, v0, v1

\* Everyone but the leader is an Editor, or a Viewer.
Editors == [m \in Member |-> IF m = Leader THEN Director ELSE Editor]
Viewers == [m \in Member |-> IF m = Leader THEN Director ELSE Viewer]
=============================================================================
