------------------------------ MODULE Composite ------------------------------
(***************************************************************************)
(* One generate_text or stream_text call: its retry loop and deadline      *)
(* around a plain model (child 1), or around a RouterModel or a MoaModel,  *)
(* whose children each run in a retry loop with the call's retry count.    *)
(* Streaming setup is a router without fallback, or the same MoaModel.     *)
(*                                                                         *)
(* Children are numbered in array order; for a MoaModel the last one is    *)
(* the aggregator and the others are the references, of which there may be *)
(* none, as a router may have a single child.                              *)
(***************************************************************************)
EXTENDS Retry, FiniteSetsExt

CONSTANTS N,        \* the most children a model has
          Kinds     \* the models checked

ASSUME CompositeAssumption ==
    /\ N \in Nat \ {0}
    /\ Kinds \subseteq {"plain", "fallback", "no fallback", "best effort", "fail fast"}

Children == 1 .. N

VARIABLES kind, size, \* the model, and how many children it has
          aborted,
          outer,     \* the call's own retry loop
          primary,   \* the routed child; 0 before routing, N + 1 out of bounds
          loops,     \* the children's retry loops
          call,      \* "running" or what the call returned
          attempts, successes  \* per child, over the whole call (history)

vars == <<kind, size, aborted, outer, primary, loops, call, attempts, successes>>

Members == 1 .. size
References == 1 .. size - 1
Aggregator == size

IsMoa == kind \in {"best effort", "fail fast"}
IsRouter == kind \in {"fallback", "no fallback"}
Ran(c) == loops[c].phase # "idle"
Failed(c) == loops[c].phase = "done" /\ loops[c].result # "ok"
Succeeded(c) == loops[c].phase = "done" /\ loops[c].result = "ok"
Running == call = "running" /\ outer.phase = "running"

TypeOK ==
    /\ kind \in Kinds /\ size \in Children /\ aborted \in BOOLEAN /\ outer \in Loop
    /\ primary \in 0 .. N + 1 /\ loops \in [Children -> Loop]
    /\ call \in Results \cup {"running"}
    /\ attempts \in [Children -> Nat] /\ successes \in [Children -> Nat]

Init ==
    /\ kind \in Kinds /\ size \in Children
    /\ aborted = FALSE /\ outer = Fresh /\ primary = 0
    /\ loops = [c \in Children |-> Idle] /\ call = "running"
    /\ attempts = [c \in Children |-> 0] /\ successes = [c \in Children |-> 0]

-----------------------------------------------------------------------------
(* The call around the composite.                                          *)

Abort ==
    /\ ~aborted /\ aborted' = TRUE
    /\ UNCHANGED <<kind, size, outer, primary, loops, call, attempts, successes>>

(* timeout::run_until drops the whole operation, children included.        *)
RunUntil(result) ==
    /\ call = "running"
    /\ call' = result
    /\ UNCHANGED <<kind, size, aborted, outer, primary, loops, attempts, successes>>

CallAborted == aborted /\ RunUntil("aborted")
CallTimedOut == ~aborted /\ RunUntil("timeout")
CallReturned == ~aborted /\ outer.phase = "done" /\ RunUntil(outer.result)

(* Each attempt of the call routes, or fans out, anew.                     *)
StartAttempt ==
    /\ call = "running" /\ outer.phase = "check"
    /\ outer' = BeginAttempt(outer, aborted)
    /\ IF aborted THEN UNCHANGED <<primary, loops>>
       ELSE IF IsRouter
       THEN /\ primary' \in Members \cup {N + 1}
            /\ loops' = [c \in Children |-> IF c = primary' THEN Fresh ELSE Idle]
       ELSE /\ loops' = [c \in Children |->
                            IF IsMoa /\ c \in References THEN Fresh ELSE Idle]
            /\ UNCHANGED primary
    /\ attempts' = IF ~aborted /\ kind = "plain"
                   THEN [attempts EXCEPT ![1] = @ + 1] ELSE attempts
    /\ UNCHANGED <<kind, size, aborted, call, successes>>

CallDelayed ==
    /\ call = "running" /\ outer.phase = "delay"
    /\ outer' = AfterDelay(outer, aborted)
    /\ UNCHANGED <<kind, size, aborted, primary, loops, call, attempts, successes>>

(* do_generate or do_stream returns: one result of the call's loop.        *)
CompositeReturns(result) ==
    /\ outer' = OnResult(outer, result)
    /\ UNCHANGED <<kind, size, aborted, primary, loops, call, attempts, successes>>

AttemptAborted == Running /\ aborted /\ CompositeReturns("aborted")

ModelAnswers(answer) ==
    /\ Running /\ kind = "plain" /\ ~aborted
    /\ outer' = OnResult(outer, answer)
    /\ successes' = IF answer = "ok" THEN [successes EXCEPT ![1] = @ + 1]
                    ELSE successes
    /\ UNCHANGED <<kind, size, aborted, primary, loops, call, attempts>>

-----------------------------------------------------------------------------
(* A child's retry loop, in the same task as the others' (join_all).       *)

Step(c, loop) ==
    /\ loops' = [loops EXCEPT ![c] = loop]
    /\ UNCHANGED <<kind, size, aborted, outer, primary, call>>

ChildAttempt(c) ==
    /\ Running /\ loops[c].phase = "check"
    /\ Step(c, BeginAttempt(loops[c], aborted))
    /\ attempts' = IF aborted THEN attempts ELSE [attempts EXCEPT ![c] = @ + 1]
    /\ UNCHANGED successes

ChildResult(c, answer) ==
    /\ Running /\ loops[c].phase = "running" /\ ~aborted
    /\ Step(c, OnResult(loops[c], answer))
    /\ successes' = IF answer = "ok" THEN [successes EXCEPT ![c] = @ + 1]
                    ELSE successes
    /\ UNCHANGED attempts

ChildAborted(c) ==
    /\ Running /\ loops[c].phase = "running" /\ aborted
    /\ Step(c, OnResult(loops[c], "aborted"))
    /\ UNCHANGED <<attempts, successes>>

ChildDelayed(c) ==
    /\ Running /\ loops[c].phase = "delay"
    /\ Step(c, AfterDelay(loops[c], aborted))
    /\ UNCHANGED <<attempts, successes>>

-----------------------------------------------------------------------------
(* RouterModel.                                                            *)

OutOfBounds == Running /\ primary = N + 1 /\ CompositeReturns("plain")

Current == LET others == {c \in Children : Ran(c)} \ {primary}
           IN  IF others = {} THEN primary ELSE Max(others)
UntriedAfterPrimary == {c \in Members : c > primary /\ ~Ran(c)}

Untried == {c \in Members : ~Ran(c)}
CurrentDone == Running /\ IsRouter /\ primary \in Children
               /\ loops[Current].phase = "done"

RouterDone ==
    /\ CurrentDone
    /\ Succeeded(Current) \/ kind = "no fallback" \/ Untried = {}
    /\ CompositeReturns(loops[Current].result)

FallbackGenerate ==
    /\ CurrentDone
    /\ Failed(Current) /\ kind = "fallback" /\ Untried # {}
    /\ loops' = [loops EXCEPT ![Min(Untried)] = Fresh]
    /\ UNCHANGED <<kind, size, aborted, outer, primary, call, attempts, successes>>

-----------------------------------------------------------------------------
(* MoaModel: the references are joined, then the aggregator runs.          *)

JoinedWhenAllSucceed == Running /\ IsMoa /\ \A c \in References : Succeeded(c)

Joined == Running /\ IsMoa /\ \A c \in References : loops[c].phase = "done"
JoinFails ==
    /\ References # {}
    /\ IF kind = "fail fast" THEN \E c \in References : Failed(c)
       ELSE \A c \in References : Failed(c)

ReferencesFail ==
    /\ Joined /\ ~Ran(Aggregator) /\ JoinFails
    /\ CompositeReturns(IF kind = "fail fast"
                        THEN loops[Min({c \in References : Failed(c)})].result
                        ELSE "plain")

StartAggregator == Joined /\ ~Ran(Aggregator) /\ ~JoinFails

RunAggregator ==
    /\ StartAggregator
    /\ loops' = [loops EXCEPT ![Aggregator] = Fresh]
    /\ UNCHANGED <<kind, size, aborted, outer, primary, call, attempts, successes>>

AggregatorDone ==
    /\ Running /\ IsMoa /\ loops[Aggregator].phase = "done"
    /\ CompositeReturns(loops[Aggregator].result)

-----------------------------------------------------------------------------
Progress ==
    \/ CallAborted \/ CallReturned
    \/ StartAttempt \/ CallDelayed \/ AttemptAborted
    \/ OutOfBounds \/ RouterDone \/ FallbackGenerate
    \/ ReferencesFail \/ RunAggregator \/ AggregatorDone
    \/ \E c \in Children : ChildAttempt(c) \/ ChildAborted(c) \/ ChildDelayed(c)

Next ==
    \/ Progress \/ Abort \/ CallTimedOut
    \/ \E answer \in Answers :
           ModelAnswers(answer) \/ \E c \in Children : ChildResult(c, answer)

Spec == Init /\ [][Next]_vars

(* The executor polls the call and its timers; every provider call is      *)
(* answered, be it by a transport error.                                   *)
FairSpec ==
    /\ Spec /\ WF_vars(Progress)
    /\ WF_vars(\E answer \in Answers : ModelAnswers(answer))
    /\ \A c \in Children :
           WF_vars(\E answer \in Answers : ChildResult(c, answer))

-----------------------------------------------------------------------------
(* Nested retry loops do not multiply: over a whole call a child is tried  *)
(* at most MaxRetries + 1 times and pays for at most one success, because  *)
(* an inner loop that gives up is never submitted again by the call's own. *)
AttemptsBounded ==
    \A c \in Children : attempts[c] <= MaxRetries + 1 /\ successes[c] <= 1

PaidOnce ==
    \E c \in Children : /\ successes[c] = 1
                        /\ \A d \in Children \ {c} : successes[d] = 0

(* A router's answer is its children's: a success is the one success paid  *)
(* for; with fallback, an error that no abort or deadline forced means     *)
(* that every child was tried and failed.                                  *)
FallbackIsExhaustive ==
    (IsRouter /\ ~aborted /\ outer.phase = "done" /\ primary \in Children) =>
        /\ outer.result = "ok" <=> PaidOnce
        /\ outer.result # "ok" => \A c \in Children : successes[c] = 0
        /\ (kind = "fallback" /\ outer.result # "ok") =>
               \A c \in Members : attempts[c] > 0 /\ Failed(c)
        /\ kind = "no fallback" => \A c \in Children \ {primary} : attempts[c] = 0

(* The aggregator never works without its references: when it is tried all *)
(* of them are done, and as many succeeded as the failure mode asks for.   *)
(* With no reference configured it works alone, and answers for the call.  *)
AggregatorHasReferences ==
    /\ (IsMoa /\ attempts[Aggregator] > 0) =>
           /\ \A c \in References : loops[c].phase = "done"
           /\ kind = "fail fast" => \A c \in References : Succeeded(c)
           /\ References # {} => \E c \in References : Succeeded(c)
    /\ (IsMoa /\ References = {} /\ ~aborted /\ outer.phase = "done") =>
           Ran(Aggregator) /\ outer.result = loops[Aggregator].result

(* A fallback gives up after its last child only, and an aggregator runs   *)
(* after all its references and with what they answered.                   *)
StrategyIsFollowed == FallbackIsExhaustive /\ AggregatorHasReferences

(* moa.rs, MoaFailMode: fail fast fails the whole call as soon as any      *)
(* reference errors, so none is tried again once another has failed.       *)
FailsAsSoonAsOneErrs ==
    [][(kind = "fail fast" /\ \E c \in References : Failed(c)) =>
           \A d \in References : attempts[d] = 0 \/ attempts'[d] = attempts[d]]_vars

(* Every call returns, in every nesting of loops and whatever fails.       *)
CallReturns == <>(call # "running")

=============================================================================
