----------------------------- MODULE MCRecording -----------------------------
(* A call over HTTP whose first exchange fails and whose retry is          *)
(* answered, and one abandoned before its outcome.  generate.rs sends its  *)
(* "closed" while the exchanges are still to come.                         *)
EXTENDS Recording
CONSTANTS c1, c2
MCOperation ==
    [c \in Calls |-> IF c = c1
        THEN <<Input, Provider, Closed, Failed(1), Closed, Skeleton(2), Outcome>>
        ELSE <<Input, Provider, Closed>>]
=============================================================================
