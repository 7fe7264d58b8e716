-------------------------------- MODULE Retry --------------------------------
(***************************************************************************)
(* The retry loop of retry.rs as a transition function on the state of one *)
(* loop.  Delays are abstracted to the phase "delay"; errors to what the   *)
(* loop tells apart.                                                       *)
(***************************************************************************)
EXTENDS Naturals

CONSTANT MaxRetries
ASSUME RetryAssumption == MaxRetries \in Nat

(* What one provider call may answer, and what a loop may return.          *)
Answers == {"ok", "retryable", "plain", "timeout"}
Results == Answers \cup {"aborted", "exhausted", "stopped"}

Loop == [phase : {"idle", "check", "running", "delay", "done"},
         failures : 0 .. MaxRetries + 1, result : Results \cup {"none"}]

Idle == [phase |-> "idle", failures |-> 0, result |-> "none"]
Fresh == [phase |-> "check", failures |-> 0, result |-> "none"]

Return(loop, result) == [loop EXCEPT !.phase = "done", !.result = result]
Active(loop) == loop.phase \in {"check", "running", "delay"}

(* The top of the loop: an abort is seen before an attempt is made.        *)
BeginAttempt(loop, aborted) ==
    IF aborted THEN Return(loop, "aborted") ELSE [loop EXCEPT !.phase = "running"]

OnResultUnwrapped(loop, result) ==
    LET tries == loop.failures + 1
    IN  IF result # "retryable" \/ tries > MaxRetries THEN Return(loop, result)
        ELSE [loop EXCEPT !.phase = "delay", !.failures = tries]

(* An attempt's result.  Success, aborts, timeouts and the exhaustion of a *)
(* nested loop are returned as they are.                                   *)
OnResult(loop, result) ==
    LET tries == loop.failures + 1
        counted == [loop EXCEPT !.failures = tries]
    IN  IF \/ result \in {"ok", "aborted", "timeout", "exhausted", "stopped"}
           \/ MaxRetries = 0
        THEN Return(loop, result)
        ELSE IF tries > MaxRetries THEN Return(counted, "exhausted")
        ELSE IF result = "retryable" THEN [counted EXCEPT !.phase = "delay"]
        ELSE Return(counted, IF tries = 1 THEN result ELSE "stopped")

(* The end of the backoff; the delay prefers the abort.                    *)
AfterDelay(loop, aborted) ==
    IF aborted THEN Return(loop, "aborted") ELSE [loop EXCEPT !.phase = "check"]

=============================================================================
