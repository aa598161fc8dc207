----------------------------- MODULE MCWatcher ------------------------------
(* An instance of Watcher: agents a1 and a2 of two runtime instances with     *)
(* mail from one peer.                                                        *)
EXTENDS Watcher, TLC

CONSTANTS a1, a2, w1, w2, p

TwoHome == (a1 :> w1 @@ a2 :> w2)
TwoTo == [m \in Msg |-> IF m = 1 THEN a1 ELSE a2]
TwoFrom == [m \in Msg |-> p]
TwoGranted == (a1 :> {"external_turn_start", "structured_pull"}
               @@ a2 :> {"external_turn_start"})
=============================================================================
