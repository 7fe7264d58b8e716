--------------------------- MODULE CompositeProofs ---------------------------
(***************************************************************************)
(* Proofs about the retry loops and the composite models around them, for  *)
(* every number of children and every retry count.                         *)
(***************************************************************************)
EXTENDS Composite, WellFoundedInduction, TLAPS

-----------------------------------------------------------------------------
(* The inductive invariant.                                                *)

(* What a retry loop's phase says of its attempts and of its successes.    *)
Counted(loop, tried, paid, abort) ==
    /\ loop.phase = "idle" => loop = Idle /\ tried = 0 /\ paid = 0
    /\ loop.phase \in {"check", "delay"} =>
           tried = loop.failures /\ tried <= MaxRetries /\ paid = 0
    /\ loop.phase = "running" =>
           tried = loop.failures + 1 /\ tried <= MaxRetries + 1 /\ paid = 0
    /\ loop.phase = "done" =>
           /\ tried <= MaxRetries + 1 /\ loop.result \in Results
           /\ paid = IF loop.result = "ok" THEN 1 ELSE 0
           /\ loop.result = "retryable" => MaxRetries = 0
           /\ IF loop.result = "aborted" THEN abort ELSE tried > 0

(* A plain model is called by the call's own loop.                         *)
PlainInv ==
    kind = "plain" =>
        /\ \A c \in Children : ~Ran(c)
        /\ \A c \in Children \ {1} : attempts[c] = 0 /\ successes[c] = 0
        /\ Counted(outer, attempts[1], successes[1], aborted)

(* Around a composite the call's loop makes one attempt.                   *)
NestedInv ==
    kind # "plain" =>
        /\ outer.phase \in {"check", "running", "done"}
        /\ outer.phase # "done" => outer.failures = 0
        /\ outer.phase = "done" => outer.result \in Results
        /\ outer.phase = "check" => \A c \in Children : ~Ran(c)
        /\ \A c \in Children :
               Counted(loops[c], attempts[c], successes[c], aborted)

(* Besides the primary, the children that ran are tried in order, each     *)
(* after the one before it and the primary failed.                         *)
RouterInv ==
    /\ (IsRouter /\ primary \notin Children) => \A c \in Children : ~Ran(c)
    /\ ~IsRouter => primary = 0
    /\ (IsRouter /\ primary \in Children) =>
           /\ Ran(primary) /\ \A c \in Children : Ran(c) => c \in Members
           /\ \A c \in Children \ {primary} :
                  Ran(c) => kind = "fallback" /\ Failed(primary)
           /\ \A c, d \in Children \ {primary} : c < d /\ Ran(d) => Failed(c)
           /\ (outer.phase = "done" /\ ~aborted) =>
                  /\ outer.result = "ok" => \E c \in Children : Succeeded(c)
                  /\ outer.result # "ok" => \A c \in Children : ~Succeeded(c)
                  /\ (outer.result # "ok" /\ kind = "fallback") =>
                         \A c \in Members : Failed(c)

MoaInv ==
    /\ (IsMoa /\ Ran(Aggregator)) =>
           /\ \A c \in References : loops[c].phase = "done"
           /\ kind = "fail fast" => \A c \in References : Succeeded(c)
           /\ References # {} => \E c \in References : Succeeded(c)
    /\ (IsMoa /\ References = {} /\ ~aborted /\ outer.phase = "done") =>
           Ran(Aggregator) /\ outer.result = loops[Aggregator].result

IInv == TypeOK /\ PlainInv /\ NestedInv /\ RouterInv /\ MoaInv

-----------------------------------------------------------------------------
(* Every nonempty set of numbers has a least element; a bounded one has a  *)
(* greatest.                                                               *)

LEMMA LeastExists ==
  ASSUME NEW S \in SUBSET Nat, S # {}
  PROVE  \E x \in S : \A y \in S : x =< y
  <1> DEFINE R == OpToRel(<, Nat)
  <1>1. IsWellFoundedOn(R, Nat)
    BY NatLessThanWellFounded
  <1>2. \E x \in S : \A y \in S : ~ (<<y, x>> \in R)
    <2> HIDE DEF R
    <2> QED BY <1>1, WFMin
  <1>3. \A x, y \in Nat : ~(<<y, x>> \in R) => x =< y
    BY DEF OpToRel
  <1> HIDE DEF R
  <1> QED BY <1>2, <1>3

LEMMA MinProperty ==
  ASSUME NEW S \in SUBSET Nat, S # {}
  PROVE  Min(S) \in S /\ \A y \in S : Min(S) =< y
  BY LeastExists DEF Min

LEMMA MaxProperty ==
  ASSUME NEW n \in Nat, NEW S \in SUBSET (0 .. n), S # {}
  PROVE  Max(S) \in S /\ \A y \in S : Max(S) >= y
  <1> DEFINE T == {n - x : x \in S}
  <1>0. \A x \in S : n - x \in Nat
    OBVIOUS
  <1>1. T \in SUBSET Nat /\ T # {}
    BY <1>0
  <1>2. PICK t \in T : \A y \in T : t =< y
    <2> HIDE DEF T
    <2> QED BY <1>1, LeastExists
  <1>3. PICK x \in S : t = n - x
    BY <1>2
  <1>4. \A y \in S : x >= y
    BY <1>2, <1>3
  <1> QED BY <1>3, <1>4 DEF Max

-----------------------------------------------------------------------------
(* The steps of one retry loop.                                            *)

LEMMA ReturnedLoop ==
  ASSUME NEW loop \in Loop, NEW result \in Results
  PROVE  /\ Return(loop, result) \in Loop
         /\ Return(loop, result).phase = "done"
         /\ Return(loop, result).result = result
  BY DEF Loop, Return

LEMMA DoneCounts ==
  ASSUME NEW loop, loop.phase = "done", loop.result \in Results,
         NEW tried \in Nat, tried <= MaxRetries + 1, NEW paid, NEW abort,
         paid = IF loop.result = "ok" THEN 1 ELSE 0,
         loop.result = "retryable" => MaxRetries = 0,
         IF loop.result = "aborted" THEN abort ELSE tried > 0
  PROVE  Counted(loop, tried, paid, abort)
  BY DEF Counted

LEMMA AbortedCounts ==
  ASSUME NEW loop, loop.phase = "done", loop.result = "aborted",
         NEW tried \in Nat, tried <= MaxRetries
  PROVE  Counted(loop, tried, 0, TRUE)
  BY RetryAssumption DEF Counted, Results

LEMMA BeginAttemptCounts ==
  ASSUME NEW loop \in Loop, NEW tried \in Nat, NEW paid \in Nat,
         NEW abort \in BOOLEAN,
         loop.phase = "check", Counted(loop, tried, paid, abort)
  PROVE  /\ BeginAttempt(loop, abort) \in Loop
         /\ abort => BeginAttempt(loop, abort) = Return(loop, "aborted")
         /\ ~abort => BeginAttempt(loop, abort).phase = "running"
         /\ Counted(BeginAttempt(loop, abort),
                    IF abort THEN tried ELSE tried + 1, paid, abort)
  <1>1. tried = loop.failures /\ tried <= MaxRetries /\ paid = 0
    BY DEF Counted
  <1>2. CASE abort
    <2>1. /\ BeginAttempt(loop, abort) = Return(loop, "aborted")
          /\ "aborted" \in Results
      BY <1>2 DEF BeginAttempt, Results
    <2>2. /\ BeginAttempt(loop, abort) \in Loop
          /\ BeginAttempt(loop, abort).phase = "done"
          /\ BeginAttempt(loop, abort).result = "aborted"
      BY <2>1, ReturnedLoop
    <2>3. abort = TRUE
      BY <1>2
    <2>4. Counted(BeginAttempt(loop, abort), tried, paid, TRUE)
      BY <1>1, <2>2, AbortedCounts
    <2> QED BY <1>2, <2>1, <2>2, <2>3, <2>4
  <1>3. CASE ~abort
    <2>1. BeginAttempt(loop, abort) = [loop EXCEPT !.phase = "running"]
      BY <1>3 DEF BeginAttempt
    <2>2. /\ BeginAttempt(loop, abort) \in Loop
          /\ BeginAttempt(loop, abort).phase = "running"
          /\ BeginAttempt(loop, abort).failures = loop.failures
      BY <2>1 DEF Loop
    <2> QED BY <1>1, <1>3, <2>2, RetryAssumption DEF Counted
  <1> QED BY <1>2, <1>3

LEMMA OnResultCounts ==
  ASSUME NEW loop \in Loop, NEW tried \in Nat, NEW paid \in Nat,
         NEW abort \in BOOLEAN, NEW result \in Answers \cup {"aborted"},
         result = "aborted" => abort,
         loop.phase = "running", Counted(loop, tried, paid, abort)
  PROVE  /\ OnResult(loop, result) \in Loop
         /\ OnResult(loop, result).phase \in {"delay", "done"}
         /\ Counted(OnResult(loop, result), tried,
                    IF result = "ok" THEN paid + 1 ELSE paid, abort)
  <1> DEFINE tries == loop.failures + 1
             counted == [loop EXCEPT !.failures = tries]
             after == OnResult(loop, result)
  <1>1. /\ loop.failures \in 0 .. MaxRetries + 1 /\ tried = tries
        /\ tries \in 1 .. MaxRetries + 1 /\ paid = 0
    BY RetryAssumption DEF Loop, Counted
  <1>2. /\ counted \in Loop /\ counted.failures = tries
        /\ result \in Results /\ "stopped" \in Results
        /\ "exhausted" \in Results /\ "plain" \in Results
    BY <1>1 DEF Loop, Results, Answers
  <1>3. ASSUME NEW r \in Results, NEW from \in Loop, after = Return(from, r),
               r = "retryable" => MaxRetries = 0, r = "aborted" => abort,
               r = "ok" <=> result = "ok"
        PROVE  /\ after \in Loop /\ after.phase \in {"delay", "done"}
               /\ Counted(after, tried, IF result = "ok" THEN paid + 1 ELSE paid,
                          abort)
    <2>1. after \in Loop /\ after.phase = "done" /\ after.result = r
      BY <1>3, ReturnedLoop
    <2>2. (IF result = "ok" THEN paid + 1 ELSE paid)
          = (IF after.result = "ok" THEN 1 ELSE 0)
      BY <1>1, <1>3, <2>1
    <2> HIDE DEF after
    <2> QED BY <1>1, <1>3, <2>1, <2>2, DoneCounts, RetryAssumption
  <1>4. CASE result \in {"ok", "aborted", "timeout"} \/ MaxRetries = 0
    <2>1. after = Return(loop, result)
      BY <1>4 DEF OnResult
    <2> HIDE DEF after
    <2> QED BY <1>2, <1>3, <1>4, <2>1 DEF after
  <1>5. CASE result = "retryable" /\ MaxRetries # 0
    <2>1. CASE tries > MaxRetries
      <3>1. after = Return(counted, "exhausted")
        BY <1>5, <2>1 DEF OnResult
      <3> HIDE DEF after, counted
      <3> QED BY <1>2, <1>3, <1>5, <3>1 DEF after
    <2>2. CASE tries <= MaxRetries
      <3>1. after = [counted EXCEPT !.phase = "delay"]
        BY <1>1, <1>5, <2>2, RetryAssumption DEF OnResult
      <3>2. after \in Loop /\ after.phase = "delay" /\ after.failures = tries
        <4> HIDE DEF counted
        <4> QED BY <1>2, <3>1 DEF Loop
      <3>3. Counted(after, tried, paid, abort)
        <4> HIDE DEF after
        <4> QED BY <1>1, <2>2, <3>2 DEF Counted
      <3> QED BY <1>5, <3>2, <3>3
    <2> QED BY <1>1, <2>1, <2>2, RetryAssumption
  <1>6. CASE result = "plain" /\ MaxRetries # 0
    <2>1. PICK r \in {"exhausted", "plain", "stopped"} : after = Return(counted, r)
      BY <1>6 DEF OnResult
    <2> HIDE DEF after, counted
    <2> QED BY <1>2, <1>3, <1>6, <2>1 DEF after
  <1> QED BY <1>4, <1>5, <1>6 DEF Answers

LEMMA AfterDelayCounts ==
  ASSUME NEW loop \in Loop, NEW tried \in Nat, NEW paid \in Nat,
         NEW abort \in BOOLEAN,
         loop.phase = "delay", Counted(loop, tried, paid, abort)
  PROVE  /\ AfterDelay(loop, abort) \in Loop
         /\ AfterDelay(loop, abort).phase \in {"check", "done"}
         /\ Counted(AfterDelay(loop, abort), tried, paid, abort)
  <1>1. tried = loop.failures /\ tried <= MaxRetries /\ paid = 0
    BY DEF Counted
  <1>2. CASE abort
    <2>1. /\ AfterDelay(loop, abort) = Return(loop, "aborted")
          /\ "aborted" \in Results
      BY <1>2 DEF AfterDelay, Results
    <2>2. /\ AfterDelay(loop, abort) \in Loop
          /\ AfterDelay(loop, abort).phase = "done"
          /\ AfterDelay(loop, abort).result = "aborted"
      BY <2>1, ReturnedLoop
    <2>3. abort = TRUE
      BY <1>2
    <2>4. Counted(AfterDelay(loop, abort), tried, paid, TRUE)
      BY <1>1, <2>2, AbortedCounts
    <2> QED BY <1>2, <2>1, <2>2, <2>3, <2>4
  <1>3. CASE ~abort
    <2>1. AfterDelay(loop, abort) = [loop EXCEPT !.phase = "check"]
      BY <1>3 DEF AfterDelay
    <2>2. /\ AfterDelay(loop, abort) \in Loop
          /\ AfterDelay(loop, abort).phase = "check"
          /\ AfterDelay(loop, abort).failures = loop.failures
      BY <2>1 DEF Loop
    <2> QED BY <1>1, <1>3, <2>2, RetryAssumption DEF Counted
  <1> QED BY <1>2, <1>3

LEMMA AbortCounts ==
  ASSUME NEW loop, NEW tried, NEW paid, Counted(loop, tried, paid, FALSE)
  PROVE  Counted(loop, tried, paid, TRUE)
  BY DEF Counted

(* What a composite returns ends the call's loop: an inner loop does not   *)
(* let a retryable error out unless nothing is retried at all.             *)
LEMMA FirstResultReturns ==
  ASSUME NEW loop \in Loop, loop.failures = 0, loop.phase = "running",
         NEW result \in Results, result = "retryable" => MaxRetries = 0
  PROVE  /\ OnResult(loop, result) \in Loop
         /\ OnResult(loop, result).phase = "done"
         /\ OnResult(loop, result).result = result
  <1>1. CASE result # "plain" \/ MaxRetries = 0
    <2>1. OnResult(loop, result) = Return(loop, result)
      BY <1>1 DEF OnResult, Results, Answers
    <2> QED BY <2>1, ReturnedLoop
  <1>2. CASE result = "plain" /\ MaxRetries # 0
    <2>1. OnResult(loop, result) = Return([loop EXCEPT !.failures = 1], result)
      BY <1>2, RetryAssumption DEF OnResult
    <2>2. [loop EXCEPT !.failures = 1] \in Loop
      BY RetryAssumption DEF Loop
    <2> QED BY <2>1, <2>2, ReturnedLoop
  <1> QED BY <1>1, <1>2

-----------------------------------------------------------------------------
(* The steps of the call and of its children.                              *)

LEMMA ChildrenFacts ==
  /\ N \in Nat /\ N >= 1 /\ Children = 1 .. N
  /\ 1 \in Children /\ 0 \notin Children
  <1>0. N \in Nat \ {0}
    BY CompositeAssumption
  <1>1. N \in Nat /\ N >= 1
    BY <1>0
  <1> QED BY <1>1 DEF Children

LEMMA SizeFacts ==
  ASSUME size \in Children
  PROVE  /\ Aggregator \in Children /\ Aggregator \notin References
         /\ Aggregator \in Members /\ size \in Nat
         /\ References \subseteq Children /\ Members \subseteq Children
  BY ChildrenFacts DEF Aggregator, References, Members

LEMMA SizeStays ==
  ASSUME UNCHANGED size
  PROVE  /\ Aggregator' = Aggregator /\ References' = References
         /\ Members' = Members
  BY DEF Aggregator, References, Members

LEMMA InitInv == Init => IInv
  <1> SUFFICES ASSUME Init PROVE IInv
    OBVIOUS
  <1> USE DEF Init
  <1>1. Idle \in Loop /\ Fresh \in Loop
    BY RetryAssumption DEF Idle, Fresh, Loop
  <1>2. TypeOK
    <2>1. primary \in 0 .. N + 1 /\ 0 \in Nat
      BY ChildrenFacts
    <2> QED BY <1>1, <2>1 DEF TypeOK
  <1>3. \A c \in Children : ~Ran(c)
    BY DEF Ran, Idle
  <1>5. outer.phase = "check" /\ outer.failures = 0
    BY DEF Fresh
  <1>6. PlainInv
    BY <1>3, <1>5, ChildrenFacts, RetryAssumption DEF PlainInv, Counted
  <1>7. NestedInv
    BY <1>3, <1>5 DEF NestedInv, Counted, Idle
  <1>8. RouterInv
    BY <1>3, ChildrenFacts DEF RouterInv, IsRouter
  <1>9. MoaInv
    BY <1>3, <1>5, SizeFacts DEF MoaInv
  <1> QED BY <1>2, <1>6, <1>7, <1>8, <1>9 DEF IInv

(* A child's step changes its own loop only, and that loop was not done.   *)
LEMMA ChildStepInv ==
  ASSUME IInv, Running, NEW c \in Children,
         loops[c].phase \in {"check", "running", "delay"},
         NEW loop \in Loop, loop.phase # "idle", Step(c, loop),
         attempts' \in [Children -> Nat], successes' \in [Children -> Nat],
         Counted(loop, attempts'[c], successes'[c], aborted),
         \A d \in Children \ {c} : /\ attempts'[d] = attempts[d]
                                   /\ successes'[d] = successes[d]
  PROVE  IInv'
  <1> USE DEF Step
  <1>1. TypeOK'
    BY DEF IInv, TypeOK
  <1>2. /\ loops'[c] = loop
        /\ \A d \in Children \ {c} : loops'[d] = loops[d]
        /\ Ran(c) /\ loops[c].phase # "done" /\ kind # "plain"
        /\ outer.phase = "running"
    BY DEF IInv, TypeOK, PlainInv, Ran, Running
  <1>3. \A d \in Children : Ran(d)' <=> Ran(d)
    BY <1>2 DEF Ran
  <1>4. \A d \in Children : /\ Failed(d) => Failed(d)'
                            /\ Succeeded(d) => Succeeded(d)'
                            /\ loops[d].phase = "done" => loops'[d].phase = "done"
    BY <1>2 DEF Failed, Succeeded
  <1>5. PlainInv'
    BY <1>2 DEF PlainInv
  <1>6. NestedInv'
    <2>1. \A d \in Children :
              Counted(loops'[d], attempts'[d], successes'[d], aborted)
      BY <1>2 DEF IInv, NestedInv
    <2> QED BY <1>2, <2>1 DEF IInv, NestedInv
  <1>7. RouterInv'
    BY <1>2, <1>3, <1>4, SizeStays DEF IInv, RouterInv, IsRouter
  <1>8. MoaInv'
    BY <1>2, <1>3, <1>4, SizeFacts, SizeStays DEF IInv, TypeOK, MoaInv, IsMoa
  <1> QED BY <1>1, <1>5, <1>6, <1>7, <1>8 DEF IInv

(* What a router's return says when no abort forced it.                    *)
RouterReturns(result) ==
    (IsRouter /\ primary \in Children /\ ~aborted) =>
        /\ result = "ok" => \E c \in Children : Succeeded(c)
        /\ result # "ok" => \A c \in Children : ~Succeeded(c)
        /\ (result # "ok" /\ kind = "fallback") => \A c \in Members : Failed(c)

(* What a mixture without references returns, likewise.                    *)
AloneReturns(result) ==
    (IsMoa /\ References = {} /\ ~aborted) =>
        Ran(Aggregator) /\ result = loops[Aggregator].result

LEMMA CompositeReturnsInv ==
  ASSUME IInv, Running, kind # "plain", NEW result \in Results,
         result = "retryable" => MaxRetries = 0,
         RouterReturns(result), AloneReturns(result), CompositeReturns(result)
  PROVE  IInv'
  <1> USE DEF CompositeReturns
  <1>1. outer \in Loop /\ outer.phase = "running" /\ outer.failures = 0
    BY DEF IInv, TypeOK, NestedInv, Running
  <1>2. outer' \in Loop /\ outer'.phase = "done" /\ outer'.result = result
    BY <1>1, FirstResultReturns
  <1>3. TypeOK'
    BY <1>2 DEF IInv, TypeOK
  <1>4. \A d \in Children : /\ Ran(d)' <=> Ran(d)
                            /\ Failed(d)' <=> Failed(d)
                            /\ Succeeded(d)' <=> Succeeded(d)
    BY DEF Ran, Failed, Succeeded
  <1>5. PlainInv'
    BY DEF PlainInv
  <1>6. NestedInv'
    BY <1>2 DEF IInv, NestedInv
  <1>7. RouterInv'
    <2>1. /\ Members' = Members
          /\ IsRouter' <=> IsRouter
          /\ UNCHANGED <<kind, primary, aborted>>
      BY SizeStays DEF IsRouter
    <2>2. IsRouter /\ primary \in Children /\ ~aborted =>
            /\ result = "ok" => \E c \in Children : Succeeded(c)'
            /\ result # "ok" => \A c \in Children : ~Succeeded(c)'
            /\ (result # "ok" /\ kind = "fallback") => \A c \in Members : Failed(c)'
      BY <1>4, SizeFacts DEF RouterReturns, IInv, TypeOK
    <2>3. RouterInv
      BY DEF IInv
    <2> QED BY <1>2, <1>4, <2>1, <2>2, <2>3 DEF RouterInv
  <1>8. MoaInv'
    BY <1>2, <1>4, SizeFacts, SizeStays
    DEF IInv, TypeOK, MoaInv, IsMoa, AloneReturns
  <1> QED BY <1>3, <1>5, <1>6, <1>7, <1>8 DEF IInv

(* A plain model's call is the call's own loop.                            *)
LEMMA PlainStepInv ==
  ASSUME IInv, kind = "plain", outer' \in Loop,
         UNCHANGED <<kind, size, primary, loops, call, aborted>>,
         attempts' \in [Children -> Nat], successes' \in [Children -> Nat],
         Counted(outer', attempts'[1], successes'[1], aborted),
         \A c \in Children \ {1} : attempts'[c] = 0 /\ successes'[c] = 0
  PROVE  IInv'
  <1>1. TypeOK'
    BY DEF IInv, TypeOK
  <1>2. PlainInv'
    BY DEF IInv, PlainInv, Ran
  <1>3. NestedInv'
    BY DEF NestedInv
  <1>4. RouterInv'
    BY DEF IInv, RouterInv, IsRouter
  <1>5. MoaInv'
    BY DEF MoaInv, IsMoa
  <1> QED BY <1>1, <1>2, <1>3, <1>4, <1>5 DEF IInv

LEMMA AbortInv ==
  ASSUME IInv, Abort PROVE IInv'
  <1> USE DEF Abort
  <1>1. aborted = FALSE /\ aborted' = TRUE
    BY DEF IInv, TypeOK
  <1>2. TypeOK'
    BY <1>1 DEF IInv, TypeOK
  <1>3. PlainInv'
    BY <1>1, AbortCounts DEF IInv, PlainInv, Ran
  <1>4. NestedInv'
    <2>1. ASSUME kind # "plain", NEW c \in Children
          PROVE  Counted(loops[c], attempts[c], successes[c], TRUE)
      BY <1>1, <2>1, AbortCounts DEF IInv, NestedInv
    <2> QED BY <1>1, <2>1 DEF IInv, NestedInv, Ran
  <1>5. RouterInv'
    BY <1>1, SizeStays DEF IInv, RouterInv, IsRouter, Ran, Failed, Succeeded
  <1>6. MoaInv'
    BY <1>1, SizeStays DEF IInv, MoaInv, IsMoa, Ran, Succeeded
  <1> QED BY <1>2, <1>3, <1>4, <1>5, <1>6 DEF IInv

LEMMA RunUntilInv ==
  ASSUME IInv, NEW result \in Results, RunUntil(result) PROVE IInv'
  <1> USE DEF RunUntil
  <1>1. TypeOK'
    BY DEF IInv, TypeOK
  <1>2. PlainInv' /\ NestedInv' /\ RouterInv' /\ MoaInv'
    BY SizeStays
    DEF IInv, PlainInv, NestedInv, RouterInv, MoaInv, IsRouter, IsMoa, Ran,
        Failed, Succeeded
  <1> QED BY <1>1, <1>2 DEF IInv

LEMMA OuterResult ==
  ASSUME IInv, outer.phase = "done" PROVE outer.result \in Results
  BY DEF IInv, PlainInv, NestedInv, Counted

(* The child that a router is running is the last one it started: when it  *)
(* failed, all that ran have.                                              *)
LEMMA CurrentFacts ==
  ASSUME IInv, IsRouter, primary \in Children
  PROVE  /\ Current \in Children /\ Ran(Current)
         /\ kind # "fallback" => Current = primary
         /\ Failed(Current) => \A c \in Children : Ran(c) => Failed(c)
  <1> DEFINE others == {c \in Children : Ran(c)} \ {primary}
  <1>1. Ran(primary)
    BY DEF IInv, RouterInv
  <1>2. CASE others = {}
    <2>1. Current = primary
      BY <1>2 DEF Current
    <2> QED BY <1>1, <1>2, <2>1
  <1>3. CASE others # {}
    <2>1. Current = Max(others)
      BY <1>3 DEF Current
    <2>2. others \in SUBSET (0 .. N) /\ N \in Nat
      BY ChildrenFacts
    <2>3. Current \in others /\ \A c \in others : Current >= c
      <3> HIDE DEF others
      <3> QED BY <1>3, <2>1, <2>2, MaxProperty
    <2>4. kind = "fallback" /\ Failed(primary)
      BY <2>3 DEF IInv, RouterInv
    <2>5. ASSUME Failed(Current), NEW c \in Children, Ran(c) PROVE Failed(c)
      <3>1. c = primary \/ c = Current \/ (c \in others /\ c < Current)
        BY <2>3, <2>5, ChildrenFacts
      <3>2. c \in others /\ c < Current => Failed(c)
        BY <2>3 DEF IInv, RouterInv
      <3> QED BY <2>4, <2>5, <3>1, <3>2
    <2> QED BY <2>3, <2>4, <2>5
  <1> QED BY <1>2, <1>3

LEMMA LoopResult ==
  ASSUME IInv, kind # "plain", NEW c \in Children, loops[c].phase = "done"
  PROVE  /\ loops[c].result \in Results
         /\ loops[c].result = "retryable" => MaxRetries = 0
  BY DEF IInv, NestedInv, Counted

LEMMA RouterDoneInv ==
  ASSUME IInv, RouterDone PROVE IInv'
  <1> DEFINE result == loops[Current].result
  <1>1. /\ Running /\ IsRouter /\ primary \in Children /\ kind # "plain"
        /\ loops[Current].phase = "done"
        /\ Succeeded(Current) \/ kind = "no fallback" \/ Untried = {}
        /\ CompositeReturns(result)
    BY DEF RouterDone, CurrentDone, IsRouter
  <1>2. /\ Current \in Children /\ Ran(Current)
        /\ kind # "fallback" => Current = primary
        /\ Failed(Current) => \A c \in Children : Ran(c) => Failed(c)
    BY <1>1, CurrentFacts
  <1>3. result \in Results /\ (result = "retryable" => MaxRetries = 0)
    BY <1>1, <1>2, LoopResult
  <1>4. Succeeded(Current) <=> result = "ok"
    BY <1>1 DEF Succeeded
  <1>5. Failed(Current) <=> result # "ok"
    BY <1>1 DEF Failed
  <1>6. ASSUME result # "ok", NEW c \in Children PROVE ~Succeeded(c)
    BY <1>2, <1>5, <1>6 DEF Succeeded, Failed, Ran
  <1>7. ASSUME result # "ok", kind = "fallback", NEW c \in Members
        PROVE  Failed(c)
    BY <1>1, <1>2, <1>4, <1>5, <1>7, SizeFacts DEF Untried, IInv, TypeOK
  <1>8. RouterReturns(result)
    BY <1>2, <1>4, <1>6, <1>7 DEF RouterReturns
  <1>9. AloneReturns(result)
    BY <1>1 DEF AloneReturns, IsMoa, IsRouter
  <1> HIDE DEF result
  <1> QED BY <1>1, <1>3, <1>8, <1>9, CompositeReturnsInv

LEMMA FreshLoop ==
  /\ Fresh \in Loop /\ Fresh.phase = "check" /\ Idle \in Loop /\ Idle.phase = "idle"
  /\ \A abort : Counted(Fresh, 0, 0, abort) /\ Counted(Idle, 0, 0, abort)
  <1>1. Fresh \in Loop /\ Idle \in Loop
    BY RetryAssumption DEF Fresh, Idle, Loop
  <1>2. Fresh.phase = "check" /\ Fresh.failures = 0 /\ Idle.phase = "idle"
    BY DEF Fresh, Idle
  <1> QED BY <1>1, <1>2, RetryAssumption DEF Counted

(* Starting a child that has not run yet: the fallback's next child and    *)
(* the aggregator.                                                         *)
LEMMA StartChild ==
  ASSUME IInv, kind # "plain", Running, NEW c \in Children, ~Ran(c),
         loops' = [loops EXCEPT ![c] = Fresh],
         UNCHANGED <<kind, size, aborted, outer, primary, call, attempts, successes>>
  PROVE  /\ TypeOK' /\ PlainInv' /\ NestedInv' /\ outer'.phase = "running"
         /\ \A d \in Children \ {c} : loops'[d] = loops[d]
         /\ Ran(c)' /\ ~Failed(c)'
  <1>1. /\ loops'[c] = Fresh /\ loops' \in [Children -> Loop]
        /\ \A d \in Children \ {c} : loops'[d] = loops[d]
    BY FreshLoop DEF IInv, TypeOK
  <1>2. TypeOK'
    BY <1>1 DEF IInv, TypeOK
  <1>3. attempts[c] = 0 /\ successes[c] = 0
    BY DEF IInv, NestedInv, Counted, Ran
  <1>4. \A d \in Children : Counted(loops'[d], attempts[d], successes[d], aborted)
    BY <1>1, <1>3, FreshLoop DEF IInv, NestedInv
  <1>5. PlainInv' /\ NestedInv' /\ outer'.phase = "running"
    BY <1>4 DEF IInv, PlainInv, NestedInv, Running
  <1>6. Ran(c)' /\ ~Failed(c)'
    BY <1>1, FreshLoop DEF Ran, Failed
  <1> QED BY <1>1, <1>2, <1>5, <1>6

LEMMA FallbackGenerateInv ==
  ASSUME IInv, FallbackGenerate PROVE IInv'
  <1>1. /\ Running /\ IsRouter /\ primary \in Children /\ kind = "fallback"
        /\ Failed(Current) /\ Untried # {}
        /\ loops' = [loops EXCEPT ![Min(Untried)] = Fresh]
        /\ UNCHANGED <<kind, size, aborted, outer, primary, call, attempts, successes>>
    BY DEF FallbackGenerate, CurrentDone
  <1>2. Untried \in SUBSET Nat /\ Untried \subseteq Children
    BY ChildrenFacts, SizeFacts DEF Untried, IInv, TypeOK
  <1>3. PICK next \in Untried : next = Min(Untried) /\ \A c \in Untried : next <= c
    BY <1>1, <1>2, MinProperty
  <1>4. /\ next \in Children /\ next \in Members /\ ~Ran(next) /\ Ran(primary)
        /\ \A c \in Children : Ran(c) => c \in Members
    BY <1>1, <1>2, <1>3 DEF Untried, IInv, RouterInv
  <1>5. /\ TypeOK' /\ PlainInv' /\ NestedInv' /\ outer'.phase = "running"
        /\ \A d \in Children \ {next} : loops'[d] = loops[d]
        /\ Ran(next)' /\ ~Failed(next)'
    BY <1>1, <1>3, <1>4, StartChild
  <1>6. \A c \in Children : Ran(c) => Failed(c)
    BY <1>1, CurrentFacts
  <1>7. \A c \in Children : c < next => Ran(c)
    <2>1. \A c \in Children : c < next => c \in Members
      BY <1>4, ChildrenFacts, SizeFacts DEF Members, IInv, TypeOK
    <2>2. ASSUME NEW c \in Children, c < next, ~Ran(c) PROVE FALSE
      <3>1. c \in Untried
        BY <2>1, <2>2 DEF Untried
      <3> QED BY <1>2, <1>3, <2>2, <3>1
    <2> QED BY <2>2
  <1>8. \A d \in Children \ {primary} : next < d => ~Ran(d)
    BY <1>1, <1>4 DEF IInv, RouterInv, Failed, Ran
  <1>9. RouterInv'
    <2>1. \A d \in Children \ {next} : /\ Ran(d)' <=> Ran(d)
                                       /\ Failed(d)' <=> Failed(d)
      BY <1>5 DEF Ran, Failed
    <2>2. primary' = primary /\ primary # next /\ kind' = kind /\ IsRouter'
      BY <1>1, <1>4 DEF IsRouter
    <2>3. ASSUME NEW c \in Children \ {primary}, NEW d \in Children \ {primary},
                 c < d, Ran(d)'
          PROVE  Failed(c)'
      <3>1. CASE d = next
        BY <1>6, <1>7, <2>1, <2>3, <3>1, ChildrenFacts
      <3>2. CASE d # next
        <4>1. Ran(d) /\ c # next
          BY <1>8, <2>1, <2>3, <3>2
        <4> QED BY <1>1, <2>1, <2>3, <4>1 DEF IInv, RouterInv
      <3> QED BY <3>1, <3>2
    <2>4. Failed(primary)' /\ Ran(primary)'
      BY <1>1, <1>4, <1>6, <2>1, <2>2
    <2>5. \A c \in Children : Ran(c)' => c \in Members'
      BY <1>1, <1>4, <2>1, SizeStays
    <2> QED BY <1>1, <1>5, <2>2, <2>3, <2>4, <2>5 DEF RouterInv
  <1>10. MoaInv'
    BY <1>1 DEF MoaInv, IsMoa
  <1> QED BY <1>5, <1>9, <1>10 DEF IInv

LEMMA RunAggregatorInv ==
  ASSUME IInv, RunAggregator PROVE IInv'
  <1>1. /\ Running /\ IsMoa /\ kind # "plain" /\ ~IsRouter
        /\ \A c \in References : loops[c].phase = "done"
        /\ ~Ran(Aggregator) /\ ~JoinFails
        /\ loops' = [loops EXCEPT ![Aggregator] = Fresh]
        /\ UNCHANGED <<kind, size, aborted, outer, primary, call, attempts, successes>>
    BY DEF RunAggregator, StartAggregator, Joined, IsMoa, IsRouter
  <1>2. /\ TypeOK' /\ PlainInv' /\ NestedInv'
        /\ \A d \in Children \ {Aggregator} : loops'[d] = loops[d]
    BY <1>1, StartChild, SizeFacts DEF IInv, TypeOK
  <1>3. RouterInv'
    BY <1>1 DEF IInv, RouterInv, IsRouter
  <1>4. \A c \in References : loops'[c] = loops[c]
    BY <1>2, SizeFacts DEF IInv, TypeOK
  <1>5. \A c \in References : Succeeded(c) <=> ~Failed(c)
    BY <1>1 DEF Succeeded, Failed
  <1>6. /\ kind = "fail fast" => \A c \in References : Succeeded(c)
        /\ References # {} => \E c \in References : Succeeded(c)
    BY <1>1, <1>5 DEF JoinFails
  <1>7. MoaInv'
    BY <1>1, <1>4, <1>6, SizeStays DEF MoaInv, Succeeded, Running
  <1> QED BY <1>2, <1>3, <1>7 DEF IInv

LEMMA ReferencesFailInv ==
  ASSUME IInv, ReferencesFail PROVE IInv'
  <1> DEFINE failed == {c \in References : Failed(c)}
             result == IF kind = "fail fast" THEN loops[Min(failed)].result
                       ELSE "plain"
  <1>1. /\ Running /\ IsMoa /\ kind # "plain" /\ ~IsRouter /\ JoinFails
        /\ CompositeReturns(result)
    BY DEF ReferencesFail, Joined, IsMoa, IsRouter
  <1>2. result \in Results /\ (result = "retryable" => MaxRetries = 0)
    <2>1. CASE kind = "fail fast"
      <3>1. failed # {} /\ failed \in SUBSET Nat
        <4>1. failed # {}
          BY <1>1, <2>1 DEF JoinFails
        <4>2. References \subseteq Nat
          BY ChildrenFacts, SizeFacts DEF IInv, TypeOK
        <4> QED BY <4>1, <4>2
      <3>2. Min(failed) \in failed
        <4> HIDE DEF failed
        <4> QED BY <3>1, MinProperty
      <3>3. Min(failed) \in Children /\ loops[Min(failed)].phase = "done"
        BY <3>2, SizeFacts DEF Failed, IInv, TypeOK
      <3> QED BY <1>1, <2>1, <3>3, LoopResult
    <2> QED BY <2>1 DEF Results, Answers
  <1>3. AloneReturns(result)
    BY <1>1 DEF AloneReturns, JoinFails
  <1> HIDE DEF result
  <1> QED BY <1>1, <1>2, <1>3, CompositeReturnsInv DEF RouterReturns

LEMMA AggregatorDoneInv ==
  ASSUME IInv, AggregatorDone PROVE IInv'
  <1>1. /\ Running /\ IsMoa /\ kind # "plain" /\ ~IsRouter
        /\ loops[Aggregator].phase = "done"
        /\ CompositeReturns(loops[Aggregator].result)
    BY DEF AggregatorDone, IsMoa, IsRouter
  <1>2. Aggregator \in Children /\ AloneReturns(loops[Aggregator].result)
    BY <1>1, SizeFacts DEF IInv, TypeOK, AloneReturns, Ran
  <1> QED BY <1>1, <1>2, LoopResult, CompositeReturnsInv DEF RouterReturns

LEMMA StartAttemptInv ==
  ASSUME IInv, StartAttempt PROVE IInv'
  <1>1. /\ outer.phase = "check" /\ outer' = BeginAttempt(outer, aborted)
        /\ UNCHANGED <<kind, size, aborted, call, successes>>
        /\ outer \in Loop /\ aborted \in BOOLEAN /\ 1 \in Children
        /\ attempts \in [Children -> Nat] /\ successes \in [Children -> Nat]
        /\ loops \in [Children -> Loop]
    BY ChildrenFacts DEF StartAttempt, IInv, TypeOK
  <1>2. CASE kind = "plain"
    <2>1. /\ \A c \in Children : loops'[c].phase = "idle"
          /\ primary' = primary /\ loops' \in [Children -> Loop]
      BY <1>1, <1>2, FreshLoop
      DEF StartAttempt, IInv, PlainInv, Ran, IsRouter, IsMoa
    <2>2. /\ outer' \in Loop
          /\ Counted(outer', IF aborted THEN attempts[1] ELSE attempts[1] + 1,
                     successes[1], aborted)
      BY <1>1, <1>2, BeginAttemptCounts DEF IInv, PlainInv
    <2>3. /\ attempts' \in [Children -> Nat]
          /\ attempts'[1] = IF aborted THEN attempts[1] ELSE attempts[1] + 1
          /\ \A c \in Children \ {1} : attempts'[c] = attempts[c]
      BY <1>1, <1>2 DEF StartAttempt
    <2>4. TypeOK'
      BY <1>1, <2>1, <2>2, <2>3 DEF IInv, TypeOK
    <2>5. PlainInv'
      BY <1>1, <1>2, <2>1, <2>2, <2>3 DEF IInv, PlainInv, Ran
    <2>6. NestedInv' /\ RouterInv' /\ MoaInv'
      BY <1>1, <1>2, <2>1
      DEF IInv, NestedInv, RouterInv, MoaInv, IsRouter, IsMoa
    <2> QED BY <2>4, <2>5, <2>6 DEF IInv
  <1>3. CASE kind # "plain"
    <2>1. /\ attempts' = attempts /\ outer.failures = 0
          /\ \A c \in Children : ~Ran(c) /\ loops[c] = Idle
          /\ \A c \in Children : attempts[c] = 0 /\ successes[c] = 0
      BY <1>1, <1>3 DEF StartAttempt, IInv, NestedInv, Counted, Ran
    <2>2. CASE aborted
      <3>1. outer' = Return(outer, "aborted") /\ "aborted" \in Results
        BY <1>1, <2>2 DEF BeginAttempt, Results
      <3>2. outer' \in Loop /\ outer'.phase = "done" /\ outer'.result = "aborted"
        BY <1>1, <3>1, ReturnedLoop
      <3>3. UNCHANGED <<primary, loops>>
        BY <2>2 DEF StartAttempt
      <3>4. TypeOK'
        BY <1>1, <2>1, <3>2, <3>3 DEF IInv, TypeOK
      <3>5. PlainInv' /\ NestedInv'
        BY <1>1, <1>3, <2>1, <3>1, <3>2, <3>3 DEF IInv, PlainInv, NestedInv
      <3>6. RouterInv' /\ MoaInv'
        BY <1>1, <2>1, <2>2, <3>3, SizeFacts, SizeStays
        DEF TypeOK, IInv, RouterInv, MoaInv, IsRouter, IsMoa, Ran, Failed
      <3> QED BY <3>4, <3>5, <3>6 DEF IInv
    <2>3. CASE ~aborted
      <3>1. outer' = [outer EXCEPT !.phase = "running"]
        BY <1>1, <2>3 DEF BeginAttempt
      <3>2. outer' \in Loop /\ outer'.phase = "running" /\ outer'.failures = 0
        BY <1>1, <2>1, <3>1 DEF Loop
      <3>3. /\ \A c \in Children : loops'[c] \in {Fresh, Idle}
            /\ loops' \in [Children -> Loop]
        BY <2>3, FreshLoop DEF StartAttempt
      <3>4. NestedInv'
        BY <1>1, <1>3, <2>1, <3>2, <3>3, FreshLoop DEF NestedInv
      <3>5. PlainInv'
        BY <1>1, <1>3 DEF PlainInv
      <3>6. CASE IsRouter
        <4>1. /\ primary' \in Members \cup {N + 1} /\ ~IsMoa
              /\ loops' = [c \in Children |-> IF c = primary' THEN Fresh ELSE Idle]
          BY <2>3, <3>6 DEF StartAttempt, IsRouter, IsMoa
        <4>2. TypeOK'
          BY <1>1, <2>1, <3>2, <3>3, <4>1, ChildrenFacts, SizeFacts DEF IInv, TypeOK
        <4>3. \A c \in Children : Ran(c)' <=> c = primary'
          BY <4>1, FreshLoop DEF Ran
        <4>4. RouterInv'
          <5>1. IsRouter' /\ outer'.phase # "done"
            BY <1>1, <3>2, <3>6 DEF IsRouter
          <5>2. \A c \in Children : Ran(c)' => c \in Members'
            <6>1. N + 1 \notin Children /\ Members' = Members
              BY <1>1, ChildrenFacts, SizeStays
            <6> QED BY <4>1, <4>3, <6>1
          <5>3. \A c \in Children \ {primary'} : ~Ran(c)'
            BY <4>3
          <5>4. primary' \notin Children => \A c \in Children : ~Ran(c)'
            BY <4>3
          <5> QED BY <4>3, <5>1, <5>2, <5>3, <5>4 DEF RouterInv
        <4>5. MoaInv'
          BY <1>1, <4>1 DEF MoaInv, IsMoa
        <4> QED BY <3>4, <3>5, <4>2, <4>4, <4>5 DEF IInv
      <3>7. CASE ~IsRouter
        <4>1. /\ primary' = primary
              /\ loops' = [c \in Children |->
                              IF IsMoa /\ c \in References THEN Fresh ELSE Idle]
          BY <2>3, <3>7 DEF StartAttempt
        <4>2. TypeOK'
          BY <1>1, <2>1, <3>2, <3>3, <4>1 DEF IInv, TypeOK
        <4>3. ~Ran(Aggregator)'
          BY <1>1, <4>1, FreshLoop, SizeFacts, SizeStays DEF Ran, IInv, TypeOK
        <4>4. RouterInv' /\ MoaInv'
          BY <1>1, <3>2, <3>7, <4>1, <4>3 DEF IInv, RouterInv, MoaInv, IsRouter
        <4> QED BY <3>4, <3>5, <4>2, <4>4 DEF IInv
      <3> QED BY <3>6, <3>7
    <2> QED BY <2>2, <2>3
  <1> QED BY <1>2, <1>3

LEMMA CallLoopInv ==
  ASSUME IInv,
         \/ CallDelayed \/ AttemptAborted \/ OutOfBounds
         \/ \E answer \in Answers : ModelAnswers(answer)
  PROVE  IInv'
  <1>0. /\ outer \in Loop /\ aborted \in BOOLEAN /\ 1 \in Children
        /\ attempts \in [Children -> Nat] /\ successes \in [Children -> Nat]
        /\ attempts[1] \in Nat /\ successes[1] \in Nat
        /\ kind = "plain" => Counted(outer, attempts[1], successes[1], aborted)
        /\ kind = "plain" => \A c \in Children \ {1} :
                                 attempts[c] = 0 /\ successes[c] = 0
    BY ChildrenFacts DEF IInv, TypeOK, PlainInv
  <1>1. CASE CallDelayed
    <2>1. /\ kind = "plain" /\ outer.phase = "delay"
          /\ outer' = AfterDelay(outer, aborted)
          /\ UNCHANGED <<kind, size, aborted, primary, loops, call, attempts, successes>>
      BY <1>1 DEF CallDelayed, IInv, NestedInv
    <2>2. /\ outer' \in Loop
          /\ Counted(outer', attempts[1], successes[1], aborted)
      BY <1>0, <2>1, AfterDelayCounts
    <2> QED BY <1>0, <2>1, <2>2, PlainStepInv
  <1>2. CASE AttemptAborted
    <2>1. /\ Running /\ outer.phase = "running" /\ aborted
          /\ CompositeReturns("aborted")
          /\ outer' = OnResult(outer, "aborted")
          /\ UNCHANGED <<kind, size, aborted, primary, loops, call, attempts, successes>>
      BY <1>2 DEF AttemptAborted, Running, CompositeReturns
    <2>2. CASE kind = "plain"
      <3>1. /\ outer' \in Loop
            /\ Counted(outer', attempts[1], successes[1], aborted)
        BY <1>0, <2>1, <2>2, OnResultCounts
      <3> QED BY <1>0, <2>1, <2>2, <3>1, PlainStepInv
    <2>3. CASE kind # "plain"
      <3>1. "aborted" \in Results
        BY DEF Results
      <3> QED BY <2>1, <2>3, <3>1, CompositeReturnsInv DEF RouterReturns, AloneReturns
    <2> QED BY <2>2, <2>3
  <1>3. CASE OutOfBounds
    <2>1. /\ Running /\ primary = N + 1 /\ CompositeReturns("plain")
          /\ "plain" \in Results
      BY <1>3 DEF OutOfBounds, Results, Answers
    <2>2. primary \notin Children /\ primary # 0
      BY <2>1, ChildrenFacts
    <2>3. IsRouter /\ ~IsMoa /\ kind # "plain"
      BY <2>2 DEF IInv, RouterInv, IsRouter, IsMoa
    <2> QED BY <2>1, <2>2, <2>3, CompositeReturnsInv DEF RouterReturns, AloneReturns
  <1>4. ASSUME NEW answer \in Answers, ModelAnswers(answer) PROVE IInv'
    <2>1. /\ kind = "plain" /\ outer.phase = "running" /\ ~aborted
          /\ outer' = OnResult(outer, answer)
          /\ successes' = IF answer = "ok" THEN [successes EXCEPT ![1] = @ + 1]
                          ELSE successes
          /\ UNCHANGED <<kind, size, aborted, primary, loops, call, attempts>>
      BY <1>4 DEF ModelAnswers, Running
    <2>2. /\ successes' \in [Children -> Nat]
          /\ successes'[1] = IF answer = "ok" THEN successes[1] + 1 ELSE successes[1]
          /\ \A c \in Children \ {1} : successes'[c] = successes[c]
      BY <1>0, <2>1
    <2>3. answer # "aborted" /\ answer \in Answers \cup {"aborted"}
      BY DEF Answers
    <2>4. /\ outer' \in Loop
          /\ Counted(outer', attempts[1], successes'[1], aborted)
      BY <1>0, <2>1, <2>2, <2>3, OnResultCounts
    <2> QED BY <1>0, <2>1, <2>2, <2>4, PlainStepInv
  <1> QED BY <1>1, <1>2, <1>3, <1>4

LEMMA ChildLoopInv ==
  ASSUME IInv, NEW c \in Children,
         \/ ChildAttempt(c) \/ ChildAborted(c) \/ ChildDelayed(c)
         \/ \E answer \in Answers : ChildResult(c, answer)
  PROVE  IInv'
  <1>0. /\ loops[c] \in Loop /\ aborted \in BOOLEAN
        /\ attempts \in [Children -> Nat] /\ successes \in [Children -> Nat]
        /\ attempts[c] \in Nat /\ successes[c] \in Nat
    BY DEF IInv, TypeOK
  <1>1. loops[c].phase # "idle" =>
            Counted(loops[c], attempts[c], successes[c], aborted)
    BY DEF IInv, PlainInv, NestedInv, Ran
  <1>2. CASE ChildAttempt(c)
    <2>1. /\ Running /\ loops[c].phase = "check"
          /\ Step(c, BeginAttempt(loops[c], aborted))
          /\ attempts' = IF aborted THEN attempts ELSE [attempts EXCEPT ![c] = @ + 1]
          /\ successes' = successes
      BY <1>2 DEF ChildAttempt
    <2>2. /\ attempts' \in [Children -> Nat]
          /\ attempts'[c] = IF aborted THEN attempts[c] ELSE attempts[c] + 1
          /\ \A d \in Children \ {c} : attempts'[d] = attempts[d]
      BY <1>0, <2>1
    <2>3. /\ BeginAttempt(loops[c], aborted) \in Loop
          /\ aborted => BeginAttempt(loops[c], aborted) = Return(loops[c], "aborted")
          /\ ~aborted => BeginAttempt(loops[c], aborted).phase = "running"
          /\ Counted(BeginAttempt(loops[c], aborted), attempts'[c], successes'[c],
                     aborted)
      BY <1>0, <1>1, <2>1, <2>2, BeginAttemptCounts
    <2>4. BeginAttempt(loops[c], aborted).phase # "idle"
      BY <1>0, <2>3, ReturnedLoop DEF Results
    <2> QED BY <1>0, <2>1, <2>2, <2>3, <2>4, ChildStepInv
  <1>3. CASE ChildAborted(c)
    <2>1. /\ Running /\ loops[c].phase = "running" /\ aborted
          /\ Step(c, OnResult(loops[c], "aborted"))
          /\ attempts' = attempts /\ successes' = successes
      BY <1>3 DEF ChildAborted
    <2>2. /\ OnResult(loops[c], "aborted") \in Loop
          /\ OnResult(loops[c], "aborted").phase \in {"delay", "done"}
          /\ Counted(OnResult(loops[c], "aborted"), attempts[c], successes[c], aborted)
      BY <1>0, <1>1, <2>1, OnResultCounts
    <2> QED BY <1>0, <2>1, <2>2, ChildStepInv
  <1>4. CASE ChildDelayed(c)
    <2>1. /\ Running /\ loops[c].phase = "delay"
          /\ Step(c, AfterDelay(loops[c], aborted))
          /\ attempts' = attempts /\ successes' = successes
      BY <1>4 DEF ChildDelayed
    <2>2. /\ AfterDelay(loops[c], aborted) \in Loop
          /\ AfterDelay(loops[c], aborted).phase \in {"check", "done"}
          /\ Counted(AfterDelay(loops[c], aborted), attempts[c], successes[c], aborted)
      BY <1>0, <1>1, <2>1, AfterDelayCounts
    <2> QED BY <1>0, <2>1, <2>2, ChildStepInv
  <1>5. ASSUME NEW answer \in Answers, ChildResult(c, answer) PROVE IInv'
    <2>1. /\ Running /\ loops[c].phase = "running" /\ ~aborted
          /\ Step(c, OnResult(loops[c], answer)) /\ attempts' = attempts
          /\ successes' = IF answer = "ok" THEN [successes EXCEPT ![c] = @ + 1]
                          ELSE successes
      BY <1>5 DEF ChildResult
    <2>2. /\ successes' \in [Children -> Nat]
          /\ successes'[c] = IF answer = "ok" THEN successes[c] + 1 ELSE successes[c]
          /\ \A d \in Children \ {c} : successes'[d] = successes[d]
      BY <1>0, <2>1
    <2>3. answer # "aborted" /\ answer \in Answers \cup {"aborted"}
      BY DEF Answers
    <2>4. /\ OnResult(loops[c], answer) \in Loop
          /\ OnResult(loops[c], answer).phase \in {"delay", "done"}
          /\ Counted(OnResult(loops[c], answer), attempts'[c], successes'[c], aborted)
      BY <1>0, <1>1, <2>1, <2>2, <2>3, OnResultCounts
    <2> QED BY <1>0, <2>1, <2>2, <2>4, ChildStepInv
  <1> QED BY <1>2, <1>3, <1>4, <1>5

LEMMA NextInv == IInv /\ [Next]_vars => IInv'
  <1> SUFFICES ASSUME IInv, [Next]_vars PROVE IInv'
    OBVIOUS
  <1>1. CASE CallAborted \/ CallTimedOut
    <2>1. {"aborted", "timeout"} \subseteq Results
      BY DEF Results, Answers
    <2> QED BY <1>1, <2>1, RunUntilInv DEF CallAborted, CallTimedOut
  <1>2. CASE CallReturned
    BY <1>2, OuterResult, RunUntilInv DEF CallReturned
  <1>3. CASE UNCHANGED vars
    <2>1. TypeOK' /\ PlainInv' /\ NestedInv'
      BY <1>3 DEF vars, IInv, TypeOK, PlainInv, NestedInv, Ran
    <2>2. RouterInv' /\ MoaInv'
      BY <1>3, SizeStays
      DEF vars, IInv, RouterInv, MoaInv, IsRouter, IsMoa, Ran, Failed, Succeeded
    <2> QED BY <2>1, <2>2 DEF IInv
  <1> QED BY <1>1, <1>2, <1>3, AbortInv, StartAttemptInv, CallLoopInv,
             ChildLoopInv, RouterDoneInv, FallbackGenerateInv, ReferencesFailInv,
             RunAggregatorInv, AggregatorDoneInv
          DEF Next, Progress

-----------------------------------------------------------------------------
LEMMA SpecInv == Spec => []IInv
  BY InitInv, NextInv, PTL DEF Spec

(* Every state of a call, of its children's loops and of the counters has  *)
(* its type; a loop counts at most MaxRetries + 1 failures.                *)
THEOREM CompositeTypes == Spec => []TypeOK
  <1>1. IInv => TypeOK
    BY DEF IInv
  <1> QED BY <1>1, SpecInv, PTL

(* For every retry count and number of children, nested loops do not       *)
(* multiply: the call's loop never submits a composite twice.              *)
THEOREM NestedLoopsDoNotMultiply == Spec => []AttemptsBounded
  <1>1. ASSUME NEW loop, NEW tried \in Nat, NEW paid \in Nat, NEW abort,
               loop \in Loop, Counted(loop, tried, paid, abort)
        PROVE  tried <= MaxRetries + 1 /\ paid <= 1
    BY <1>1, RetryAssumption DEF Loop, Counted
  <1>2. IInv => AttemptsBounded
    <2> SUFFICES ASSUME IInv, NEW c \in Children
                 PROVE  attempts[c] <= MaxRetries + 1 /\ successes[c] <= 1
      BY DEF AttemptsBounded
    <2>1. /\ attempts[c] \in Nat /\ successes[c] \in Nat
          /\ loops[c] \in Loop /\ outer \in Loop
      BY DEF IInv, TypeOK
    <2>2. CASE kind = "plain" /\ c # 1
      BY <2>2, RetryAssumption DEF IInv, PlainInv
    <2>3. CASE kind = "plain" /\ c = 1
      BY <1>1, <2>1, <2>3 DEF IInv, PlainInv
    <2>4. CASE kind # "plain"
      BY <1>1, <2>1, <2>4 DEF IInv, NestedInv
    <2> QED BY <2>2, <2>3, <2>4
  <1> QED BY <1>2, SpecInv, PTL

(* A router answers with the one success it paid for and gives up after    *)
(* its last child only; an aggregator runs on what its references answered *)
(* when as many succeeded as its failure mode asks for, and alone when it  *)
(* has none; for one child and for any number of them.                     *)
THEOREM StrategiesAreFollowed == Spec => []StrategyIsFollowed
  <1>1. ASSUME IInv, IsRouter, ~aborted, outer.phase = "done",
               primary \in Children
        PROVE  /\ outer.result = "ok" <=> PaidOnce
               /\ outer.result # "ok" => \A c \in Children : successes[c] = 0
               /\ (kind = "fallback" /\ outer.result # "ok") =>
                      \A c \in Members : attempts[c] > 0 /\ Failed(c)
               /\ kind = "no fallback" =>
                      \A c \in Children \ {primary} : attempts[c] = 0
    <2>1. kind # "plain"
      BY <1>1 DEF IsRouter
    <2>2. ASSUME NEW c \in Children
          PROVE  /\ Succeeded(c) => successes[c] = 1
                 /\ ~Succeeded(c) => successes[c] = 0
                 /\ Failed(c) => attempts[c] > 0
                 /\ ~Ran(c) => attempts[c] = 0
      <3>1. /\ Counted(loops[c], attempts[c], successes[c], aborted)
            /\ loops[c].phase \in {"idle", "check", "running", "delay", "done"}
        BY <1>1, <2>1 DEF IInv, NestedInv, TypeOK, Loop
      <3> QED BY <1>1, <3>1 DEF Counted, Succeeded, Failed, Ran
    <2>3. ASSUME NEW c \in Children, NEW d \in Children, Succeeded(c), Succeeded(d),
                 c # d
          PROVE  FALSE
      <3>1. Ran(c) /\ Ran(d) /\ ~Failed(c) /\ ~Failed(d)
        BY <2>3 DEF Ran, Failed, Succeeded
      <3>2. c < d \/ d < c
        BY <2>3, ChildrenFacts
      <3> QED BY <1>1, <2>3, <3>1, <3>2 DEF IInv, RouterInv
    <2>4. /\ outer.result = "ok" => \E c \in Children : Succeeded(c)
          /\ outer.result # "ok" => \A c \in Children : ~Succeeded(c)
          /\ (outer.result # "ok" /\ kind = "fallback") =>
                 \A c \in Members : Failed(c)
          /\ \A c \in Children \ {primary} : Ran(c) => kind = "fallback"
          /\ Members \subseteq Children
      BY <1>1, SizeFacts DEF IInv, RouterInv, TypeOK
    <2>5. outer.result = "ok" => PaidOnce
      BY <2>2, <2>3, <2>4 DEF PaidOnce
    <2>6. outer.result # "ok" => ~PaidOnce
      BY <2>2, <2>4 DEF PaidOnce
    <2>7. kind = "no fallback" => \A c \in Children \ {primary} : attempts[c] = 0
      BY <2>2, <2>4
    <2> QED BY <2>2, <2>4, <2>5, <2>6, <2>7
  <1>2. IInv => FallbackIsExhaustive
    BY <1>1 DEF FallbackIsExhaustive
  <1>3. IInv => AggregatorHasReferences
    <2>1. ASSUME IInv, IsMoa, attempts[Aggregator] > 0 PROVE Ran(Aggregator)
      <3>1. Counted(loops[Aggregator], attempts[Aggregator],
                    successes[Aggregator], aborted)
        BY <2>1, SizeFacts DEF IInv, TypeOK, IsMoa, NestedInv
      <3> QED BY <2>1, <3>1 DEF Counted, Ran
    <2> QED BY <2>1 DEF IInv, MoaInv, AggregatorHasReferences
  <1>4. IInv => StrategyIsFollowed
    BY <1>2, <1>3 DEF StrategyIsFollowed
  <1> QED BY <1>4, SpecInv, PTL

=============================================================================
