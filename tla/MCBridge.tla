------------------------------ MODULE MCBridge ------------------------------
(* Instances of Bridge: hosts a and b, and messages of which the first letter *)
(* says who writes them.                                                      *)
EXTENDS Bridge

CONSTANTS a, b, ask, note, reply

MCHost == {a, b}
MCHome == [m \in Msg |-> IF m \in Response THEN b ELSE a]
MCReplyTo == [r \in Response |-> CHOOSE q \in Request : TRUE]
MCConn == 1 .. 2
MCLastStable == {2}
=============================================================================
